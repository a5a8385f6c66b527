------------------------------ MODULE Produce -------------------------------
(***************************************************************************)
(* Sending a message: send_message() and send() of                         *)
(* app/services/produce.py behind the produce form of                      *)
(* app/routers/produce.py, with the producer each cluster has              *)
(* (app/kafka_client.py).                                                  *)
(*                                                                         *)
(* Several requests send to one topic partition.  Each runs on a worker    *)
(* thread of its own, but they share a Producer: flush() waits for         *)
(* everybody's messages and serves everybody's delivery reports.  A        *)
(* producer delivers in order and once (acks=all, idempotence), may find   *)
(* its broker slow, and gives up a message after its own, longer timeout.  *)
(*                                                                         *)
(* A field is encoded in two steps, first the registry's answer and then    *)
(* the bytes; other clients register schemas in between.                   *)
(*                                                                         *)
(* Left out: what keys, values and headers hold; whether a text is JSON    *)
(* and fits a schema is a choice.                                          *)
(***************************************************************************)
EXTENDS Integers, FiniteSets, Sequences, SequencesExt

CONSTANTS
    Requests,     \* the HTTP requests that send
    Forms,        \* what a request may submit
    Texts,        \* the texts of schemas
    NoText,       \* where no schema is used
    MaxSchemas    \* bound: schemas in the registry

Fields == {"key", "value"}

\* The registry's schemas; one has its id, its place in the registry, for good.
Schema == [type : {"AVRO", "JSON", "PROTOBUF"}, text : Texts]

\* What the form asks for a field: a null key and a tombstone are raw as well.
Encoding == [format : {"raw", "avro", "json"}, register : BOOLEAN, schema : Texts]

Form ==
    [write      : BOOLEAN,   \* the caller passes require_write
     wellFormed : BOOLEAN,   \* the partition parses as an integer
     headers    : BOOLEAN,   \* every header line has a name
     key        : Encoding,
     value      : Encoding]

ASSUME ProduceAssumption ==
    /\ IsFiniteSet(Requests)
    /\ Forms \subseteq Form
    /\ NoText \notin Texts
    /\ MaxSchemas \in Nat \ {0}

NoProducer == 0

\* What _encode_field knows of a schema, and that it has not asked the registry yet.
Found == [id : 0 .. MaxSchemas, type : {"AVRO", "JSON", "PROTOBUF", "none"},
          text : Texts \cup {NoText}]

NoAnswer == [id |-> 0, type |-> "none", text |-> NoText]

\* A field as it is sent: the id in its header, the schema text it was encoded
\* with, what the bytes behind the header are, and whether they fit that schema.
Bytes == [id : 0 .. MaxSchemas, text : Texts \cup {NoText},
          body : {"raw", "avro", "json"}, fits : BOOLEAN]

Raw == [id |-> 0, text |-> NoText, body |-> "raw", fits |-> TRUE]

VARIABLES
    form,         \* form[r]: what r submits
    pc,           \* where r's thread is
    cached,       \* _producers[cluster], or NoProducer
    made,         \* how many Producers were made; the newest has this number
    mine,         \* mine[r]: the Producer r holds
    queue,        \* queue[n]: messages of Producer n without a delivery report
    log,          \* the messages the broker wrote, in order
    report,       \* report[r]: what on_delivery put into r's result
    registry,     \* the registry's schemas by id
    subjects,     \* subjects[f]: ids of the versions of the topic's subject for f
    found,        \* found[r]: schema_id, schema_str, schema_type of _encode_field
    encoded,      \* encoded[r][f]: the bytes r sends as f
    answer,       \* answer[r]: what the browser got
    shown,        \* shown[r]: the position in the log the answer gives
    audited       \* audited[r]: the outcome of r's audit line

clientVars  == <<cached, made, mine, queue>>
schemaVars  == <<registry, subjects>>
requestVars == <<form, pc, found, encoded, answer, shown, audited>>
vars == <<clientVars, schemaVars, requestVars, log, report>>

Producers == 1 .. Cardinality(Requests)

-----------------------------------------------------------------------------
Init ==
    /\ form \in [Requests -> Forms]
    /\ pc = [r \in Requests |-> "start"]
    /\ cached = NoProducer
    /\ made = 0
    /\ mine = [r \in Requests |-> NoProducer]
    /\ queue = [n \in Producers |-> << >>]
    /\ log = << >>
    /\ report = [r \in Requests |-> "none"]
    /\ registry = << >>
    /\ subjects = [f \in Fields |-> << >>]
    /\ found = [r \in Requests |-> NoAnswer]
    /\ encoded = [r \in Requests |-> [f \in Fields |-> Raw]]
    /\ answer = [r \in Requests |-> "none"]
    /\ shown = [r \in Requests |-> 0]
    /\ audited = [r \in Requests |-> "none"]

\* A Producer nobody refers to any more is destroyed with what is in its queue.
QueueAfter(r) ==
    [n \in Producers |->
        IF n # cached /\ \A q \in Requests \ {r} : mine[q] # n THEN << >> ELSE queue[n]]

\* The request is over and its thread lets go of the Producer.
Answer(r, a, outcome) ==
    /\ pc' = [pc EXCEPT ![r] = "answered"]
    /\ answer' = [answer EXCEPT ![r] = a]
    /\ audited' = [audited EXCEPT ![r] = outcome]
    /\ mine' = [mine EXCEPT ![r] = NoProducer]
    /\ queue' = QueueAfter(r)
    /\ UNCHANGED <<cached, made>>

Continue(r, label) ==
    /\ pc' = [pc EXCEPT ![r] = label]
    /\ UNCHANGED <<answer, audited>>

\* Mutant: the endpoint forgets the audit line of a failed send.
ErrorUnaudited == "none"

ErrorOutcome == "error"

\* The endpoint catches every exception of send_message and audits it.
Raise(r) == Answer(r, "error", ErrorOutcome)

\* require_write, then the partition, which is parsed outside the try, then the
\* headers.
Receive(r) ==
    /\ pc[r] = "start"
    /\ IF ~form[r].write THEN Answer(r, "forbidden", "none")
       ELSE IF ~form[r].wellFormed THEN Answer(r, "broken", "none")
       ELSE IF ~form[r].headers THEN Raise(r)
       ELSE Continue(r, "key") /\ UNCHANGED clientVars
    /\ UNCHANGED <<form, found, encoded, shown, schemaVars, log, report>>

-----------------------------------------------------------------------------
(* EXTERNAL: the registry                                                  *)

\* Registering a schema the registry knows, under whichever subject, gives the id
\* it has.
IdOf(s) == IF Contains(registry, s) THEN CHOOSE i \in DOMAIN registry : registry[i] = s
           ELSE Len(registry) + 1

\* The schema becomes the subject's latest version, unless it is one already.
Registers(f, s) ==
    /\ IdOf(s) <= MaxSchemas
    /\ registry' = IF Contains(registry, s) THEN registry ELSE Append(registry, s)
    /\ subjects' = [subjects EXCEPT ![f] = IF Contains(@, IdOf(s)) THEN @ ELSE Append(@, IdOf(s))]

-----------------------------------------------------------------------------
(* _encode_field, for the key and then for the value                       *)

AfterField(f) == IF f = "key" THEN "value" ELSE "lookup"

\* No schema asked for: the text is sent as it is.
SendRaw(r, f) ==
    /\ pc[r] = f
    /\ form[r][f].format = "raw"
    /\ Continue(r, AfterField(f))
    /\ UNCHANGED <<form, found, encoded, shown, clientVars, schemaVars, log, report>>

Asking(r, f) == pc[r] = f /\ form[r][f].format # "raw" /\ found[r] = NoAnswer

\* latest_by_subject: id, text and type come in one answer, whatever the format
\* asked for.
AskLatest(r, f) ==
    /\ Asking(r, f)
    /\ ~form[r][f].register
    /\ subjects[f] # << >>
    /\ LET id == Last(subjects[f])
       IN  found' = [found EXCEPT ![r] =
                [id |-> id, type |-> registry[id].type, text |-> registry[id].text]]
    /\ UNCHANGED <<form, pc, encoded, answer, shown, audited, clientVars, schemaVars, log, report>>

\* The submitted text is registered, as Avro or as JSON Schema, and used.
Register(r, f) ==
    /\ Asking(r, f)
    /\ form[r][f].register
    /\ LET s == [type |-> IF form[r][f].format = "avro" THEN "AVRO" ELSE "JSON",
                 text |-> form[r][f].schema]
       IN  /\ Registers(f, s)
           /\ found' = [found EXCEPT ![r] = [id |-> IdOf(s), type |-> s.type, text |-> s.text]]
    /\ UNCHANGED <<form, pc, encoded, answer, shown, audited, clientVars, log, report>>

\* Mutant: the format the user asked for decides, whatever the schema is.
AvroAskedFor(r, f) == form[r][f].format = "avro"

EncodesAvro(r, f) == found[r].type = "AVRO"

EncodesAs(r, f, body, fits) ==
    /\ encoded' = [encoded EXCEPT ![r][f] =
                      [id |-> found[r].id, text |-> found[r].text, body |-> body, fits |-> fits]]
    /\ found' = [found EXCEPT ![r] = NoAnswer]
    /\ Continue(r, AfterField(f))
    /\ UNCHANGED <<form, shown, clientVars, schemaVars, log, report>>

\* encode_avro: fastavro writes only what fits the schema.
EncodeAvro(r, f) ==
    /\ pc[r] = f /\ found[r] # NoAnswer
    /\ EncodesAvro(r, f)
    /\ EncodesAs(r, f, "avro", TRUE)

\* encode_json_schema, for a schema of every other type: the text only has to be
\* JSON, and nobody looks at the schema.
EncodeJson(r, f) ==
    /\ pc[r] = f /\ found[r] # NoAnswer
    /\ ~EncodesAvro(r, f)
    /\ \E fits \in BOOLEAN : EncodesAs(r, f, "json", fits)

\* The registry is not configured, not reachable or rejects the schema; there is no
\* latest version or no text to register; the text is not JSON or not fit for Avro.
EncodingFails(r, f) ==
    /\ pc[r] = f
    /\ form[r][f].format # "raw"
    /\ Raise(r)
    /\ UNCHANGED <<form, found, encoded, shown, schemaVars, log, report>>

-----------------------------------------------------------------------------
(* producer(): look the cluster up, make a Producer, remember it           *)

Lookup(r) ==
    /\ pc[r] = "lookup"
    /\ IF cached # NoProducer
         THEN /\ mine' = [mine EXCEPT ![r] = cached]
              /\ UNCHANGED made
              /\ Continue(r, "enqueue")
         ELSE /\ made' = made + 1
              /\ mine' = [mine EXCEPT ![r] = made + 1]
              /\ Continue(r, "remember")
    /\ UNCHANGED <<form, found, encoded, shown, cached, queue, schemaVars, log, report>>

Remember(r) ==
    /\ pc[r] = "remember"
    /\ cached' = mine[r]
    /\ Continue(r, "enqueue")
    /\ UNCHANGED <<form, found, encoded, shown, made, mine, queue, schemaVars, log, report>>

\* p.produce(): into the local queue.
Enqueue(r) ==
    /\ pc[r] = "enqueue"
    /\ queue' = [queue EXCEPT ![mine[r]] = Append(@, r)]
    /\ Continue(r, "flush")
    /\ UNCHANGED <<form, found, encoded, shown, cached, made, mine, schemaVars, log, report>>

\* flush() returned before the queue ran empty.
Outstanding(r) == queue[mine[r]] # << >>

\* p.produce() itself fails: the local queue is full.
QueueFull(r) ==
    /\ pc[r] = "enqueue"
    /\ Raise(r)
    /\ UNCHANGED <<form, found, encoded, shown, schemaVars, log, report>>

\* Mutant: the timeout is ignored and flush() called again.
FlushAgain(r) == Continue(r, "flush") /\ UNCHANGED clientVars

\* Mutant: after a timeout the message is sent again, with a fresh Producer.
SendAgain(r) ==
    /\ Continue(r, "lookup")
    /\ cached' = NoProducer
    /\ UNCHANGED <<made, mine, queue>>

TimedOut(r) == Answer(r, "timeout", ErrorOutcome)

\* flush() returns when everybody's messages are reported, or at its timeout.
FlushEnds(r) ==
    /\ pc[r] = "flush"
    /\ IF Outstanding(r)
         THEN TimedOut(r)
         ELSE Continue(r, "result") /\ UNCHANGED clientVars
    /\ UNCHANGED <<form, found, encoded, shown, schemaVars, log, report>>

\* Mutant: the error of the delivery report is not looked at.
NeverRefused(r) == FALSE

DeliveryRefused(r) == report[r] = "refused"

\* result["msg"] is missing if no report was served: a KeyError.
ReadResult(r) ==
    /\ pc[r] = "result"
    /\ IF report[r] = "none" \/ DeliveryRefused(r)
         THEN Raise(r) /\ UNCHANGED shown
         ELSE /\ Answer(r, "ok", "ok")
              /\ shown' = [shown EXCEPT ![r] = CHOOSE i \in 0 .. Len(log) :
                             \/ i > 0 /\ log[i] = r
                             \/ i = 0 /\ ~Contains(log, r)]
    /\ UNCHANGED <<form, found, encoded, schemaVars, log, report>>

-----------------------------------------------------------------------------
(* EXTERNAL: the broker, the producers' threads, other registry clients    *)

Written(r) == Contains(log, r)

\* The broker writes the oldest message of a Producer; the acknowledgement is
\* still on its way, and a retry does not write it again.
BrokerWrites(n) ==
    /\ queue[n] # << >>
    /\ ~Written(Head(queue[n]))
    /\ log' = Append(log, Head(queue[n]))
    /\ UNCHANGED <<clientVars, requestVars, schemaVars, report>>

\* The acknowledgement arrives, and on_delivery runs in whichever thread is in
\* flush().
Delivered(n) ==
    /\ queue[n] # << >>
    /\ Written(Head(queue[n]))
    /\ \E q \in Requests : pc[q] = "flush" /\ mine[q] = n
    /\ report' = [report EXCEPT ![Head(queue[n])] = "delivered"]
    /\ queue' = [queue EXCEPT ![n] = Tail(@)]
    /\ UNCHANGED <<cached, made, mine, requestVars, schemaVars, log>>

\* The broker refuses the message, or the Producer gives it up.
Refuses(n) ==
    /\ queue[n] # << >>
    /\ \E q \in Requests : pc[q] = "flush" /\ mine[q] = n
    /\ report' = [report EXCEPT ![Head(queue[n])] = "refused"]
    /\ queue' = [queue EXCEPT ![n] = Tail(@)]
    /\ UNCHANGED <<cached, made, mine, requestVars, schemaVars, log>>

\* Somebody else registers a schema for the topic, Protobuf too.
OthersRegister(f) ==
    /\ \E s \in Schema : Registers(f, s)
    /\ UNCHANGED <<clientVars, requestVars, log, report>>

-----------------------------------------------------------------------------
Step(r) ==
    \/ Receive(r)
    \/ \E f \in Fields : \/ SendRaw(r, f) \/ AskLatest(r, f) \/ Register(r, f)
                         \/ EncodeAvro(r, f) \/ EncodeJson(r, f) \/ EncodingFails(r, f)
    \/ Lookup(r) \/ Remember(r) \/ Enqueue(r) \/ QueueFull(r)
    \/ FlushEnds(r) \/ ReadResult(r)

Next ==
    \/ \E r \in Requests : Step(r)
    \/ \E n \in Producers : BrokerWrites(n) \/ Delivered(n) \/ Refuses(n)
    \/ \E f \in Fields : OthersRegister(f)

Spec == Init /\ [][Next]_vars

\* The registry calls and flush() carry timeouts, so every thread goes on,
\* whatever the broker does.
Fairness == \A r \in Requests : WF_vars(Step(r))

-----------------------------------------------------------------------------
(* Properties                                                              *)

\* Every variable has its type.
TypeOK ==
    /\ form \in [Requests -> Forms]
    /\ pc \in [Requests -> {"start", "key", "value", "lookup", "remember", "enqueue",
                            "flush", "result", "answered"}]
    /\ cached \in Producers \cup {NoProducer}
    /\ made \in 0 .. Cardinality(Requests)
    /\ mine \in [Requests -> Producers \cup {NoProducer}]
    /\ queue \in [Producers -> Seq(Requests)]
    /\ log \in Seq(Requests)
    /\ report \in [Requests -> {"none", "delivered", "refused"}]
    /\ registry \in Seq(Schema) /\ Len(registry) <= MaxSchemas
    /\ subjects \in [Fields -> Seq(1 .. MaxSchemas)]
    /\ found \in [Requests -> Found]
    /\ encoded \in [Requests -> [Fields -> Bytes]]
    /\ answer \in [Requests -> {"none", "forbidden", "broken", "error", "timeout", "ok"}]
    /\ shown \in [Requests -> 0 .. Cardinality(Requests)]
    /\ audited \in [Requests -> {"none", "error", "ok"}]

\* "Producing waits for the broker's delivery report before reporting success":
\* a message reported delivered is in the log, where the page says it is, and
\* once; and a thread that flush() told there is nothing outstanding has its
\* report, although another request's thread may have served it.
OkMeansWritten ==
    \A r \in Requests :
        /\ pc[r] = "result" => report[r] # "none"
        /\ answer[r] = "ok" =>
             /\ shown[r] \in DOMAIN log
             /\ log[shown[r]] = r
             /\ \A i \in DOMAIN log : log[i] = r => i = shown[r]

\* The id in the header names the very schema the field was encoded with; behind the
\* id of an Avro schema there is Avro that fits it, behind that of a JSON schema JSON.
Readable(r, f) ==
    LET e == encoded[r][f]
    IN  IF form[r][f].format = "raw" THEN e = Raw
        ELSE /\ e.id \in DOMAIN registry
             /\ registry[e.id].text = e.text
             /\ registry[e.id].type = "AVRO" => e.body = "avro" /\ e.fits
             /\ registry[e.id].type = "JSON" => e.body = "json"

\* "Prepend the magic byte + schema id so downstream consumers recognise it": what is
\* written can be read by its id, whatever others register between the registry's
\* answer and the encoding, and whatever format was asked for.  Two things are not
\* so, and left out of Readable: behind the id of a Protobuf schema there is JSON
\* too, which nobody can read by it; and nobody looks whether JSON fits its schema.
WrittenIsReadable == \A i \in DOMAIN log, f \in Fields : Readable(log[i], f)

\* Whoever changed the log may write; and when the request is over there is an
\* audit line, also for the timeout that leaves it open whether it did.
WritesAccounted ==
    \A r \in Requests : Written(r) =>
        /\ form[r].write
        /\ answer[r] # "none" => audited[r] # "none"

\* Every send is answered, also when the broker answers nothing.
EverySendAnswered == \A r \in Requests : <>(answer[r] # "none")
=============================================================================
