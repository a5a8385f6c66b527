------------------------------ MODULE LiveTail ------------------------------
(***************************************************************************)
(* The live tail of the messages page: tail() and _tail_assignments() of   *)
(* app/services/messages.py, driven by the /tail endpoint of               *)
(* app/routers/messages.py.                                                *)
(*                                                                         *)
(* A tail is one coroutine, one action per await, like a scan.  Unlike a   *)
(* scan it has no window: it starts at the high watermarks and runs until  *)
(* the browser leaves or the broker fails.                                 *)
(*                                                                         *)
(* Its consumer resets to "latest": a position that retention or a purge   *)
(* has overtaken moves to the end of the partition.                        *)
(***************************************************************************)
EXTENDS KafkaLog, Sequences

CONSTANTS
    Topic,        \* the topic KafkaLog describes; other names do not exist
    AnyPartition, \* ScanSpec.partition = None
    Requests,     \* the topic and partition a browser may ask for
    BatchMax,     \* most records of one consume() call, 200 in the code
    Matching      \* the coordinates whose record passes matches()

TailRequest == [topic : STRING, partition : Int \cup {AnyPartition}]

ASSUME TailAssumption ==
    /\ Partitions # {}
    /\ AnyPartition \notin Int
    /\ Requests \subseteq TailRequest
    /\ BatchMax \in Nat \ {0}
    /\ Matching \subseteq Coordinates

VARIABLES
    spec,         \* the request
    pc,           \* the await the coroutine is at
    todo,         \* partitions whose high watermark is still to be read
    position,     \* position[p]: the offset the consumer fetches p from
    batch,        \* the records in hand
    scanned,      \* stats.scanned
    hits,         \* the records yielded as hits, in order
    outcome,      \* the final event: "none", "done" or "failed"
    disconnected, \* the browser is gone: request.is_disconnected()
    opened,       \* history: the high watermarks when the tail was requested
    begun,        \* history: begun[p]: where p was assigned
    overtaken     \* history: records a reset of the position jumped over

tailVars == <<spec, pc, todo, position, batch, scanned, hits, outcome,
              disconnected, opened, begun, overtaken>>
vars == <<logVars, tailVars>>

-----------------------------------------------------------------------------
Planned == IF spec.partition = AnyPartition THEN Partitions
                                            ELSE {spec.partition}

\* What the consumer can still fetch; nothing of a partition whose position is
\* out of range.
Pending == {c \in Coordinates : /\ c[1] \in Planned
                                /\ c[2] \in log[c[1]]
                                /\ low[c[1]] <= position[c[1]]
                                /\ position[c[1]] <= c[2]}

Init ==
    /\ LogInit
    /\ spec \in Requests
    /\ pc = "list_topics"
    /\ todo = {}
    /\ position = [p \in Partitions |-> 0]
    /\ batch = << >>
    /\ scanned = 0
    /\ hits = << >>
    /\ outcome = "none"
    /\ disconnected = FALSE
    /\ opened = high
    /\ begun = [p \in Partitions |-> 0]
    /\ overtaken = {}

Continue(label) == pc' = label /\ UNCHANGED outcome

\* Mutant: the error is reported from within the loop.
RaiseAndGoOn == pc' = "loop" /\ outcome' = "failed"

\* Through the finally block, to the endpoint's "failed" event.
Raise == pc' = "close" /\ outcome' = "failed"

ListTopics ==
    /\ pc = "list_topics"
    /\ IF spec.topic # Topic \/ ~(Planned \subseteq Partitions)
         THEN Raise /\ UNCHANGED todo
         ELSE Continue("marks") /\ todo' = Planned
    /\ UNCHANGED <<spec, position, batch, scanned, hits, disconnected, opened, begun, overtaken>>

\* Mutant: off by one.
StartPastEnd(p) == Watermarks(p).high + 1

\* Each partition is assigned at its current high watermark.
Start(p) == Watermarks(p).high

ReadMark ==
    /\ pc = "marks"
    /\ \E p \in todo :
         /\ \A q \in todo : p <= q
         /\ position' = [position EXCEPT ![p] = Start(p)]
         /\ begun' = [begun EXCEPT ![p] = Start(p)]
         /\ todo' = todo \ {p}
    /\ Continue(IF todo' = {} THEN "assign" ELSE "marks")
    /\ UNCHANGED <<spec, batch, scanned, hits, disconnected, opened, overtaken>>

Assign ==
    /\ pc = "assign"
    /\ Continue("loop")
    /\ UNCHANGED <<spec, todo, position, batch, scanned, hits, disconnected, opened, begun, overtaken>>

\* Mutant: the disconnect test is gone.
NeverStopReading == FALSE

\* is_cancelled()
StopReading == disconnected

LoopHead ==
    /\ pc = "loop"
    /\ IF StopReading THEN pc' = "close" /\ outcome' = "done" ELSE Continue("consume")
    /\ UNCHANGED <<spec, todo, position, batch, scanned, hits, disconnected, opened, begun, overtaken>>

\* Where the consumer goes on once it handed out batch b.
NextPosition(b, p) ==
    LET offsets == {b[i][2] : i \in {j \in DOMAIN b : b[j][1] = p}}
    IN  IF offsets = {} THEN position[p]
                        ELSE 1 + CHOOSE o \in offsets : \A x \in offsets : x <= o

\* consumer.consume(200, 1.0); an empty batch is a heartbeat, no more.
Consume ==
    /\ pc = "consume"
    /\ \E b \in Fetches(Pending, BatchMax) :
         /\ batch' = b
         /\ position' = [p \in Partitions |-> NextPosition(b, p)]
         /\ Continue(IF b = << >> THEN "loop" ELSE "records")
    /\ UNCHANGED <<spec, todo, scanned, hits, disconnected, opened, begun, overtaken>>

\* auto.offset.reset = latest: the consumer finds its position out of range.
Reset(p) ==
    /\ pc = "consume"
    /\ p \in Planned
    /\ position[p] < low[p]
    /\ position' = [position EXCEPT ![p] = high[p]]
    /\ overtaken' = overtaken \cup {c \in Coordinates : c[1] = p /\ c[2] \in log[p]}
    /\ UNCHANGED <<spec, pc, todo, batch, scanned, hits, outcome, disconnected, opened, begun>>

\* Mutant: the rest of the batch is dropped.
RestDropped == << >>

RestOfBatch == Tail(batch)

\* One record of the batch; the await is _build().
ProcessRecord ==
    /\ pc = "records"
    /\ LET c == Head(batch) IN
         /\ scanned' = scanned + 1
         /\ batch' = RestOfBatch
         /\ IF c \in Matching THEN hits' = Append(hits, c) ELSE UNCHANGED hits
    /\ Continue(IF batch' = << >> THEN "loop" ELSE "records")
    /\ UNCHANGED <<spec, todo, position, disconnected, opened, begun, overtaken>>

\* A broker call times out or fails, or a batch holds an error event.
BrokerTrouble ==
    /\ pc \in {"list_topics", "marks", "assign", "consume", "records"}
    /\ Raise
    /\ UNCHANGED <<spec, todo, position, batch, scanned, hits, disconnected, opened, begun, overtaken>>

\* finally: await asyncio.to_thread(consumer.close)
Close ==
    /\ pc = "close"
    /\ Continue("closed")
    /\ UNCHANGED <<spec, todo, position, batch, scanned, hits, disconnected, opened, begun, overtaken>>

Disconnect ==
    /\ ~disconnected
    /\ disconnected' = TRUE
    /\ UNCHANGED <<spec, pc, todo, position, batch, scanned, hits, outcome, opened, begun, overtaken>>

TailStep ==
    \/ ListTopics \/ ReadMark \/ Assign \/ LoopHead \/ Consume
    \/ ProcessRecord \/ BrokerTrouble \/ Close

Next ==
    \/ TailStep /\ UNCHANGED logVars
    \/ (\E p \in Partitions : Reset(p)) /\ UNCHANGED logVars
    \/ Disconnect /\ UNCHANGED logVars
    \/ LogNext /\ UNCHANGED tailVars

Spec == Init /\ [][Next]_vars

\* Every broker call of a tail carries a timeout, so the coroutine always gets
\* its next turn.
Fairness == WF_vars(TailStep /\ UNCHANGED logVars)

-----------------------------------------------------------------------------
(* Properties                                                              *)

\* Every variable has its type.
TypeOK ==
    /\ LogTypeOK
    /\ spec \in Requests
    /\ pc \in {"list_topics", "marks", "assign", "loop", "consume", "records",
               "close", "closed"}
    /\ todo \in SUBSET Partitions
    /\ position \in [Partitions -> 0 .. MaxHigh]
    /\ batch \in Seq(Coordinates)
    /\ scanned \in Nat
    /\ hits \in Seq(Coordinates)
    /\ outcome \in {"none", "done", "failed"}
    /\ disconnected \in BOOLEAN
    /\ opened \in [Partitions -> 0 .. MaxHigh]
    /\ begun \in [Partitions -> 0 .. MaxHigh]
    /\ overtaken \in SUBSET Coordinates

\* "A tail shows only messages produced from now on -- never a replay of existing
\* history" (no hit is older than the request), and it follows: between its first
\* fetch and its end it leaves out no matching record it has passed.  Every such
\* record that is still in the log and lies behind the position is a hit, is in
\* hand, or was jumped over by an offset reset.
TailFollows ==
    /\ \A i \in DOMAIN hits : opened[hits[i][1]] <= hits[i][2]
    /\ pc \in {"loop", "consume", "records"} =>
         \A c \in Matching :
             /\ c[1] \in Planned /\ c[2] \in log[c[1]]
             /\ begun[c[1]] <= c[2] /\ c[2] < position[c[1]]
             /\ c \notin overtaken
             => \/ \E i \in DOMAIN hits : hits[i] = c
                \/ \E i \in DOMAIN batch : batch[i] = c

\* The page sees the stream that HitStream promises, here without a limit: no
\* duplicates, offset order within a partition, one final event, nothing after it.
Page == INSTANCE HitStream WITH
    Records <- Coordinates, matching <- Matching,
    shown <- hits, limit <- Cardinality(Coordinates) + 1, final <- outcome

HitStreamImplemented == Page!Stream

\* A tail runs until its browser leaves, and then it ends and closes its
\* consumer, also on a topic nobody writes to.
DisconnectEndsTail == disconnected ~> pc = "closed"
=============================================================================
