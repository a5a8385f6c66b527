------------------------------- MODULE Resend -------------------------------
(***************************************************************************)
(* The prefill of a resend: fetch_one() of app/services/messages.py behind *)
(* the produce form of app/routers/produce.py.                             *)
(*                                                                         *)
(* The browser asks for the message at one coordinate, taken from a page   *)
(* that may be old.  The consumer is assigned at the offset and asked for  *)
(* one record.  It has no auto.offset.reset of its own, so librdkafka's    *)
(* default applies: a position out of range moves to the end.              *)
(*                                                                         *)
(* Left out: what the message holds, and the form around it.  Negative     *)
(* offsets, which librdkafka gives meanings of their own, are not asked    *)
(* for.                                                                    *)
(***************************************************************************)
EXTENDS KafkaLog

CONSTANTS
    Asked,        \* the coordinates a browser may ask for
    NoMessage     \* fetch_one returned None

ASSUME ResendAssumption ==
    /\ Asked \subseteq Nat \X Nat
    /\ NoMessage \notin Coordinates

VARIABLES
    coordinate,   \* the coordinate in the form's address
    formPc,       \* the round trip the request is at
    formPosition, \* the offset the consumer fetches from
    prefill,      \* the message on the form
    answer,       \* "none", then "form", "missing" or "error"
    lost,         \* history: the coordinate had no record at some moment
    beyond        \* history: the coordinate was past the end at the start

formVars == <<coordinate, formPc, formPosition, prefill, answer, lost, beyond>>
resendVars == <<logVars, formVars>>

-----------------------------------------------------------------------------
Known == coordinate[1] \in Partitions

There == Known /\ coordinate[2] \in log[coordinate[1]]

FormInit ==
    /\ LogInit
    /\ coordinate \in Asked
    /\ formPc = "topic"
    /\ formPosition = 0
    /\ prefill = NoMessage
    /\ answer = "none"
    /\ lost = ~There
    /\ beyond = (Known /\ high[coordinate[1]] < coordinate[2])

Answer(a) ==
    /\ formPc' = "answered"
    /\ answer' = a

\* cluster.get_topic: the topic is there, or it is a 404.
GetTopic ==
    /\ formPc = "topic"
    /\ \/ formPc' = "assign" /\ UNCHANGED answer
       \/ Answer("missing")
    /\ UNCHANGED <<coordinate, formPosition, prefill, lost, beyond>>

\* Mutant: the offset is that of the record before the wanted one.
StartBefore == coordinate[2] - 1

StartAt == coordinate[2]

FormAssign ==
    /\ formPc = "assign"
    /\ formPosition' = StartAt
    /\ formPc' = "consume"
    /\ UNCHANGED <<coordinate, prefill, answer, lost, beyond>>

\* What the consumer would deliver next, if its position is within the log.
FirstPending ==
    {o \in log[coordinate[1]] :
        /\ low[coordinate[1]] <= formPosition
        /\ formPosition <= o
        /\ \A x \in log[coordinate[1]] : formPosition <= x => o <= x}

\* The position is out of range and moves to the end.
FormReset ==
    /\ formPc = "consume"
    /\ Known
    /\ formPosition < low[coordinate[1]] \/ high[coordinate[1]] < formPosition
    /\ formPosition' = high[coordinate[1]]
    /\ UNCHANGED <<coordinate, formPc, prefill, answer, lost, beyond>>

\* consume(1): one record, whichever comes first, or nothing within the timeout.
FormConsume ==
    /\ formPc = "consume"
    /\ Known
    /\ \/ \E o \in FirstPending : /\ prefill' = <<coordinate[1], o>>
                                  /\ Answer("form")
       \/ UNCHANGED prefill /\ Answer("missing")
    /\ UNCHANGED <<coordinate, formPosition, lost, beyond>>

\* A broker call fails, or the record is an error event: no such partition.
FormTrouble ==
    /\ formPc \in {"topic", "assign", "consume"}
    /\ Answer("error")
    /\ UNCHANGED <<coordinate, formPosition, prefill, lost, beyond>>

FormStep == GetTopic \/ FormAssign \/ FormConsume \/ FormTrouble

FormNext ==
    \/ FormStep /\ UNCHANGED logVars
    \/ FormReset /\ UNCHANGED logVars
    \/ /\ LogNext
       /\ UNCHANGED <<coordinate, formPc, formPosition, prefill, answer, beyond>>
       /\ lost' = (lost \/ ~There')

FormSpec == FormInit /\ [][FormNext]_resendVars

-----------------------------------------------------------------------------
(* Properties                                                              *)

\* Every variable has its type.
FormTypeOK ==
    /\ LogTypeOK
    /\ coordinate \in Asked
    /\ formPc \in {"topic", "assign", "consume", "answered"}
    /\ formPosition \in Nat
    /\ prefill \in Coordinates \cup {NoMessage}
    /\ answer \in {"none", "form", "missing", "error"}
    /\ lost \in BOOLEAN
    /\ beyond \in BOOLEAN

\* As long as the wanted record is in the log, a form shows it and no other; and
\* it never shows an older one, unless the wanted offset did not exist yet.
FormFaithful ==
    answer = "form" => /\ ~lost => prefill = coordinate
                       /\ ~beyond => prefill[2] >= coordinate[2]

\* What fetch_one says of itself: it reads exactly the message at the coordinate,
\* also after the record was compacted or purged.
PrefillIsRequested == answer = "form" => prefill = coordinate
=============================================================================
