------------------------------ MODULE KafkaLog ------------------------------
(***************************************************************************)
(* EXTERNAL: the partitions of one topic as kafkascope sees them through   *)
(* librdkafka.  Nothing here is code of the repository; it is what the     *)
(* code under app/ relies on when it asks for watermarks, offsets by time  *)
(* and records.                                                            *)
(*                                                                         *)
(* A record is its coordinate <<p, o>>.  A partition has a low and a high  *)
(* watermark and the set of offsets that still hold a record; compaction   *)
(* and transaction markers leave gaps in it.  Other clients append,        *)
(* retention and purges raise the low watermark, all while kafkascope is   *)
(* between two calls.                                                      *)
(***************************************************************************)
EXTENDS Integers, FiniteSets

CONSTANTS
    Partitions,   \* the partition ids of the topic
    MaxHigh,      \* bound: no partition's high watermark grows past this
    MaxInitial,   \* bound: longest partition at the start
    Late          \* the coordinates whose timestamp is at or after the
                  \* timestamp a request asks for (timestamps are set by the
                  \* producers, so they need not follow the offsets)

Coordinates == Partitions \X (0 .. MaxHigh)

ASSUME LogAssumption ==
    /\ Partitions \subseteq Nat
    /\ IsFiniteSet(Partitions)
    /\ MaxHigh \in Nat
    /\ MaxInitial \in 0 .. MaxHigh
    /\ Late \subseteq Coordinates

VARIABLES
    low,          \* low[p]: the first offset still readable
    high,         \* high[p]: the offset the next record will get
    log           \* log[p]: the offsets in low[p] .. high[p]-1 with a record

logVars == <<low, high, log>>

LogTypeOK ==
    /\ low  \in [Partitions -> 0 .. MaxHigh]
    /\ high \in [Partitions -> 0 .. MaxHigh]
    /\ log  \in [Partitions -> SUBSET (0 .. MaxHigh)]

\* Every offset that holds a record lies between the watermarks.
LogConsistent ==
    \A p \in Partitions :
        /\ low[p] <= high[p]
        /\ \A o \in log[p] : low[p] <= o /\ o < high[p]

\* A topic nobody has compacted or purged yet, each partition of some length.
LogInit ==
    /\ low = [p \in Partitions |-> 0]
    /\ high \in [Partitions -> 0 .. MaxInitial]
    /\ log = [p \in Partitions |-> 0 .. high[p] - 1]

-----------------------------------------------------------------------------
(* What other clients and the broker itself do.                            *)

AppendRecord(p) ==
    /\ high[p] < MaxHigh
    /\ high' = [high EXCEPT ![p] = @ + 1]
    /\ log'  = [log  EXCEPT ![p] = @ \cup {high[p]}]
    /\ UNCHANGED low

\* Retention or a purge: everything below offset o is gone.
Truncate(p, o) ==
    /\ low[p] < o
    /\ o <= high[p]
    /\ low' = [low EXCEPT ![p] = o]
    /\ log' = [log EXCEPT ![p] = {x \in @ : o <= x}]
    /\ UNCHANGED high

\* Compaction removes one record and leaves its offset empty.
Compact(p, o) ==
    /\ o \in log[p]
    /\ log' = [log EXCEPT ![p] = @ \ {o}]
    /\ UNCHANGED <<low, high>>

LogNext ==
    \E p \in Partitions :
        \/ AppendRecord(p)
        \/ \E o \in 0 .. MaxHigh : Truncate(p, o) \/ Compact(p, o)

-----------------------------------------------------------------------------
(* What a client is answered.                                              *)

\* get_watermark_offsets
Watermarks(p) == [low |-> low[p], high |-> high[p]]

\* offsets_for_times: the first record at or after the time, -1 when there is
\* none.
OffsetForTime(p) ==
    LET after == {o \in log[p] : <<p, o>> \in Late}
    IN  IF after = {} THEN -1 ELSE CHOOSE o \in after : \A x \in after : o <= x

\* consume(n): up to n of the pending records, partitions interleaved in any way,
\* each partition's records in offset order with none left out.
Fetches(pending, n) ==
    {b \in UNION {[1 .. k -> pending] : k \in 0 .. n} :
        \A i \in DOMAIN b : \A c \in pending :
            /\ c[1] = b[i][1]
            => (c[2] < b[i][2] <=> \E j \in 1 .. i - 1 : b[j] = c)}
=============================================================================
