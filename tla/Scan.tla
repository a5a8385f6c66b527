-------------------------------- MODULE Scan --------------------------------
(***************************************************************************)
(* The search on the messages page: scan() and _plan() of                  *)
(* app/services/messages.py, driven by the /scan endpoint of               *)
(* app/routers/messages.py.                                                *)
(*                                                                         *)
(* A scan is one coroutine.  Every await hands control to a broker call    *)
(* (or to the disconnect test), and between two awaits the topic may       *)
(* change, so there is one action per await; the code between two awaits   *)
(* reads only the scan's own variables and runs within one action.         *)
(*                                                                         *)
(* The constant Content is what _build() makes of each record.             *)
(* PARTITION_EOF events never arrive, since enable.partition.eof is not    *)
(* set.                                                                    *)
(***************************************************************************)
EXTENDS KafkaLog, Filters

CONSTANTS
    Topic,        \* the topic KafkaLog describes; other names do not exist
    AnyPartition, \* ScanSpec.partition = None
    Specs,        \* the ScanSpecs a browser may ask for
    MaxScan,      \* KAFKASCOPE_SCAN_LIMIT, an int the settings do not bound
    BatchMax,     \* most records of one consume() call, 500 in the code
    Content       \* Content[c]: the decoded record at a coordinate

ScanSpec ==
    [topic        : STRING,
     partition    : Int \cup {AnyPartition},
     start        : {"latest", "earliest", "timestamp"},
     hasTimestamp : BOOLEAN,          \* timestamp_ms is not None
     lookback     : Int,
     limit        : Int,
     filter       : FilterSpec]

ASSUME ScanAssumption ==
    /\ Partitions # {}
    /\ AnyPartition \notin Int
    /\ Specs \subseteq ScanSpec
    /\ MaxScan \in Int
    /\ BatchMax \in Nat \ {0}
    /\ DOMAIN Content = Coordinates
    /\ \A c \in Coordinates : IsJson(Content[c].json)

VARIABLES
    spec,         \* the request's ScanSpec
    pc,           \* the await the coroutine is at
    todo,         \* partitions whose watermarks _plan has still to read
    marks,        \* marks[p]: the watermarks _plan read
    starts,       \* starts[p]: where partition p's scan begins
    remaining,    \* remaining[p]: records of p's window left, as counted
    read,         \* every record consume() returned, in order
    scanned,      \* stats.scanned; read[scanned+1 ..] is the batch in hand
    hits,         \* the records yielded as hits, in order
    outcome,      \* the final event: "none", "done" or "failed"
    reason,       \* stats.reason
    disconnected, \* the browser is gone: request.is_disconnected()
    goneAt,       \* history: Len(read) when the browser left
    quiet         \* history: the scan stopped on an empty batch although
                  \* records of its window were left

scanVars == <<spec, pc, todo, marks, starts, remaining, read, scanned, hits,
              outcome, reason, disconnected, goneAt, quiet>>
vars == <<logVars, scanVars>>

-----------------------------------------------------------------------------
Larger(a, b)  == IF a > b THEN a ELSE b
Smaller(a, b) == IF a < b THEN a ELSE b

EndOfWindow  == "Reached the end of the window"
BudgetSpent  == "Scan budget reached"
LimitReached == "Result limit reached"
NothingThere == "Nothing in the selected window"
Cancelled    == "Cancelled"
Reasons == {"", EndOfWindow, BudgetSpent, LimitReached, NothingThere, Cancelled}

\* The partitions in play: all of the topic, or the one asked for.
Planned == IF spec.partition = AnyPartition THEN Partitions
                                            ELSE {spec.partition}

\* The window: what lies between each start and the high watermark _plan read.
\* Its size is _plan's total, the sum of max(0, end - start).
Window == {c \in Coordinates :
             /\ c[1] \in Planned
             /\ starts[c[1]] <= c[2]
             /\ c[2] < marks[c[1]].high}
Total  == Cardinality(Window)
Budget == Smaller(Total, MaxScan)

\* The records of p the consumer has not delivered yet.  A position below the
\* low watermark is out of range and resets to the earliest record, which is
\* the next one in the log as well.
Pending(p) == {o \in log[p] :
                 /\ starts[p] <= o
                 /\ \A i \in 1 .. Len(read) : read[i][1] = p => read[i][2] < o}

PendingRecords == {c \in Coordinates : c[1] \in Planned /\ c[2] \in Pending(c[1])}

\* Mutant: every fetch asks for a full batch.
BatchSizeUncapped == BatchMax

\* Never fetch past the budget.
BatchSize == Larger(1, Smaller(BatchMax, Budget - scanned))

-----------------------------------------------------------------------------
Init ==
    /\ LogInit
    /\ spec \in Specs
    /\ pc = "list_topics"
    /\ todo = {}
    /\ marks = [p \in Partitions |-> [low |-> 0, high |-> 0]]
    /\ starts = [p \in Partitions |-> 0]
    /\ remaining = [p \in Partitions |-> 0]
    /\ read = << >>
    /\ scanned = 0
    /\ hits = << >>
    /\ outcome = "none"
    /\ reason = ""
    /\ disconnected = FALSE
    /\ goneAt = 0
    /\ quiet = FALSE

\* yield "done", stats: the last event before the finally block.
Done(r) ==
    /\ reason' = r
    /\ outcome' = "done"
    /\ pc' = "close"

\* An exception leaves scan() through its finally block; the endpoint turns it
\* into the "failed" event.
Raise ==
    /\ outcome' = "failed"
    /\ pc' = "close"
    /\ UNCHANGED reason

Continue(label) ==
    /\ pc' = label
    /\ UNCHANGED <<outcome, reason>>

ListTopics ==
    /\ pc = "list_topics"
    /\ IF spec.topic # Topic \/ ~(Planned \subseteq Partitions)
         THEN Raise /\ UNCHANGED todo
         ELSE Continue("marks") /\ todo' = Planned
    /\ UNCHANGED <<spec, marks, starts, remaining, read, scanned, hits,
                   disconnected, goneAt, quiet>>

\* One get_watermark_offsets round trip per partition, in sorted order.
ReadMarks ==
    /\ pc = "marks"
    /\ \E p \in todo :
         /\ \A q \in todo : p <= q
         /\ marks' = [marks EXCEPT ![p] = Watermarks(p)]
         /\ todo' = todo \ {p}
    /\ Continue(IF todo' = {} THEN "starts" ELSE "marks")
    /\ UNCHANGED <<spec, starts, remaining, read, scanned, hits,
                   disconnected, goneAt, quiet>>

\* The lookback is split across the partitions in play.
PerPartition == Larger(1, spec.lookback \div Cardinality(Planned))

\* Mutant: the lookback may reach below the low watermark.
TailStartUnclamped(p) == marks[p].high - PerPartition

TailStart(p) == Larger(marks[p].low, marks[p].high - PerPartition)

StartOf(p) ==
    CASE spec.start = "timestamp" ->
           LET o == OffsetForTime(p) IN IF o < 0 THEN marks[p].high ELSE o
      [] spec.start = "earliest" -> marks[p].low
      [] spec.start = "latest" -> TailStart(p)

\* The starts (one more round trip for a timestamp, taken after the watermarks),
\* then the budget; a scan with nothing to read ends here.
ResolveStarts ==
    /\ pc = "starts"
    /\ UNCHANGED <<spec, todo, marks, remaining, read, scanned, hits,
                   disconnected, goneAt, quiet>>
    /\ IF spec.start = "timestamp" /\ ~spec.hasTimestamp
         THEN Raise /\ UNCHANGED starts
         ELSE /\ starts' = [p \in Partitions |-> IF p \in Planned THEN StartOf(p) ELSE 0]
              /\ IF Budget' = 0 THEN Done(NothingThere) ELSE Continue("assign")

Assign ==
    /\ pc = "assign"
    /\ remaining' = [p \in Partitions |->
                       IF p \in Planned THEN marks[p].high - starts[p] ELSE 0]
    /\ Continue("loop")
    /\ UNCHANGED <<spec, todo, marks, starts, read, scanned, hits,
                   disconnected, goneAt, quiet>>

\* is_cancelled()
StopReading == disconnected

WindowRead == \A p \in Planned : remaining[p] <= 0

\* The head of the loop: the disconnect test and the three ways to stop.
LoopHead ==
    /\ pc = "loop"
    /\ \/ /\ StopReading
          /\ Done(Cancelled)
       \/ /\ ~StopReading
          /\ scanned >= Budget
          /\ Done(IF Budget < Total THEN BudgetSpent ELSE EndOfWindow)
       \/ /\ ~StopReading
          /\ scanned < Budget
          /\ WindowRead
          /\ Done(EndOfWindow)
       \/ /\ ~StopReading
          /\ scanned < Budget
          /\ ~WindowRead
          /\ Continue("consume")
    /\ UNCHANGED <<spec, todo, marks, starts, remaining, read, scanned, hits,
                   disconnected, goneAt, quiet>>

\* Mutant: an empty batch is polled again.
EmptyBatchRetried == Continue("loop")

\* An empty batch ends the scan: the broker has gone quiet.
EmptyBatch == Done(EndOfWindow)

\* consumer.consume(batch_size, 1.0) returns what arrived within a second, so
\* the batch may be empty even if there was more to come.
Consume ==
    /\ pc = "consume"
    /\ \E b \in Fetches(PendingRecords, BatchSize) :
         /\ read' = read \o b
         /\ IF b = << >> THEN EmptyBatch ELSE Continue("records")
         /\ quiet' = (b = << >> /\ PendingRecords \cap Window # {})
    /\ UNCHANGED <<spec, todo, marks, starts, remaining, scanned, hits,
                   disconnected, goneAt>>

\* Mutant: off by one.
LeftAfterShort(c) == marks[c[1]].high - c[2] - 2

\* Records of c's partition left in its window once c is read.
LeftAfter(c) == marks[c[1]].high - c[2] - 1

\* Mutant: one hit too many.
LimitPassed(n) == n > spec.limit

LimitHit(n) == n >= spec.limit

\* The records that pass the request's filters.
MatchingFor == [filter \in {s.filter : s \in Specs} |->
                  {c \in Coordinates : matches(Content[c], filter)}]
Matching == MatchingFor[spec.filter]

\* One record of the batch; the await is _build(), which may fetch a schema.
ProcessRecord ==
    /\ pc = "records"
    /\ LET c == read[scanned + 1] IN
         /\ scanned' = scanned + 1
         /\ remaining' = [remaining EXCEPT ![c[1]] = LeftAfter(c)]
         /\ hits' = IF c \in Matching THEN Append(hits, c) ELSE hits
         /\ IF c \in Matching /\ LimitHit(Len(hits'))
              THEN Done(LimitReached)
              ELSE Continue(IF scanned' = Len(read) THEN "loop" ELSE "records")
    /\ UNCHANGED <<spec, todo, marks, starts, read, disconnected, goneAt, quiet>>

\* A broker call times out or fails, a batch holds an error event, or a record
\* cannot be built.
BrokerTrouble ==
    /\ \/ pc \in {"list_topics", "marks", "assign", "consume", "records"}
       \/ pc = "starts" /\ spec.start = "timestamp"
    /\ Raise
    /\ UNCHANGED <<spec, todo, marks, starts, remaining, read, scanned, hits,
                   disconnected, goneAt, quiet>>

\* finally: await asyncio.to_thread(consumer.close)
Close ==
    /\ pc = "close"
    /\ Continue("closed")
    /\ UNCHANGED <<spec, todo, marks, starts, remaining, read, scanned, hits,
                   disconnected, goneAt, quiet>>

Disconnect ==
    /\ ~disconnected
    /\ disconnected' = TRUE
    /\ goneAt' = Len(read)
    /\ UNCHANGED <<spec, pc, todo, marks, starts, remaining, read, scanned,
                   hits, outcome, reason, quiet>>

ScanStep ==
    \/ ListTopics \/ ReadMarks \/ ResolveStarts \/ Assign \/ LoopHead
    \/ Consume \/ ProcessRecord \/ BrokerTrouble \/ Close

Next ==
    \/ ScanStep /\ UNCHANGED logVars
    \/ Disconnect /\ UNCHANGED logVars
    \/ LogNext /\ UNCHANGED scanVars

Spec == Init /\ [][Next]_vars

\* Every broker call of a scan carries a timeout (request_timeout, or one second
\* for consume), so the coroutine always gets its next turn.
FairSpec == Spec /\ WF_vars(ScanStep /\ UNCHANGED logVars)

-----------------------------------------------------------------------------
(* Properties                                                              *)

\* Every variable of the scan has its type: a start is a real offset (never
\* below zero, however far the lookback reaches), a counter is a natural
\* number.
TypeOK ==
    /\ LogTypeOK
    /\ spec \in Specs
    /\ pc \in {"list_topics", "marks", "starts", "assign", "loop", "consume",
              "records", "close", "closed"}
    /\ todo \in SUBSET Partitions
    /\ marks \in [Partitions -> [low : 0 .. MaxHigh, high : 0 .. MaxHigh]]
    /\ starts \in [Partitions -> 0 .. MaxHigh]
    /\ remaining \in [Partitions -> Int]
    /\ read \in Seq(Coordinates)
    /\ scanned \in 0 .. Len(read)
    /\ hits \in Seq(Coordinates)
    /\ outcome \in {"none", "done", "failed"}
    /\ reason \in Reasons
    /\ disconnected \in BOOLEAN
    /\ goneAt \in 0 .. Len(read)
    /\ quiet \in BOOLEAN

\* "The budget is exact rather than approximate" (README): however the broker
\* slices the batches, the scan never takes one record more than the budget off
\* the broker, and it blames the budget only when it has read all of it and the
\* window holds more.
BudgetExact ==
    /\ Len(read) <= Larger(0, MaxScan)
    /\ reason = BudgetSpent => /\ scanned = Larger(0, MaxScan)
                               /\ Total > MaxScan

\* When the scan says it reached the end of the window, every record of the
\* window that is still in the log was scanned -- if the broker did not go quiet
\* (an empty batch, which the code accepts as the end) and no record appended
\* after planning was scanned in place of one of the window.
EndOfWindowComplete ==
    /\ reason = EndOfWindow
    /\ ~quiet
    /\ \A i \in 1 .. Len(read) : read[i] \in Window
    => \A c \in Window : c[2] \in log[c[1]] => \E i \in 1 .. scanned : read[i] = c

\* A browser that closes the connection stops the work: after it left, at most
\* the one fetch already under way still returns records.
DisconnectStopsScan == disconnected => Len(read) <= goneAt + BatchMax

\* The page sees the stream that HitStream promises: no duplicates, offset order
\* within a partition, at most the limit (a limit below one counts as one), one
\* final event, nothing after it.
Page == INSTANCE HitStream WITH
    Records <- Coordinates, matching <- Matching,
    shown <- hits, limit <- Larger(1, spec.limit), final <- outcome

HitStreamImplemented == Page!Stream

\* The filters are exact: of the records scanned, the page is shown those that
\* meet every filter the user filled in, and no other.  Wanted says what a path,
\* a header or a text filter means without walking the payload.
FilterExact ==
    \A i \in 1 .. scanned :
        (\E k \in 1 .. Len(hits) : hits[k] = read[i])
            <=> Wanted(Content[read[i]], spec.filter)

\* Every scan ends and closes its consumer, whatever the topic does meanwhile.
Terminates == <>(pc = "closed")
=============================================================================
