---------------------------- MODULE KafkaLogProof ----------------------------
(***************************************************************************)
(* Facts about the broker's log that the proofs about its clients share.   *)
(***************************************************************************)
EXTENDS KafkaLog, TLAPS, FiniteSetTheorems, WellFoundedInduction

\* A non-empty set of offsets has a smallest one: the answer of offsets_for_times
\* is well defined.
LEMMA SmallestOffset ==
    ASSUME NEW S, S \subseteq Nat, S # {}
    PROVE  \E n \in S : \A x \in S : n <= x
<1>1. PICK n \in S : \A x \in S : ~ (<<x, n>> \in OpToRel(<, Nat))
  BY NatLessThanWellFounded, WFMin
<1>2. \A x \in S : ~ (x < n)
  BY <1>1 DEF OpToRel
<1> QED
  BY <1>2

\* offsets_for_times answers with the first record at or after the time, and with
\* -1 only if there is none.
LEMMA FirstAfter ==
    ASSUME LogTypeOK, NEW p \in Partitions
    PROVE  /\ OffsetForTime(p) \in log[p] \cup {-1}
           /\ \A o \in log[p] : <<p, o>> \in Late => /\ OffsetForTime(p) <= o
                                                   /\ OffsetForTime(p) \in log[p]
<1> DEFINE after == {o \in log[p] : <<p, o>> \in Late}
<1>1. after \subseteq Nat
  BY LogAssumption DEF LogTypeOK
<1>2. CASE after = {}
  BY <1>2 DEF OffsetForTime
<1>3. CASE after # {}
  <2>1. PICK n \in after : \A x \in after : n <= x
    BY <1>1, <1>3, SmallestOffset
  <2> DEFINE first == CHOOSE o \in after : \A x \in after : o <= x
  <2>2. first \in after /\ \A x \in after : first <= x
    BY <2>1
  <2>3. OffsetForTime(p) = first
    BY <1>3 DEF OffsetForTime
  <2> QED
    BY <2>2, <2>3
<1> QED
  BY <1>2, <1>3

\* A set of coordinates is finite, so it has a size.
LEMMA CoordinatesFinite ==
    ASSUME NEW W, W \subseteq Coordinates
    PROVE  IsFiniteSet(W) /\ Cardinality(W) \in Nat
<1>1. IsFiniteSet(0 .. MaxHigh)
  BY LogAssumption, FS_Interval
<1>2. IsFiniteSet(Coordinates)
  BY <1>1, LogAssumption, FS_Product DEF Coordinates
<1>3. IsFiniteSet(W)
  BY <1>2, FS_Subset
<1> QED
  BY <1>3, FS_CardinalityType

\* The log a client finds at the start is consistent.
LEMMA InitialLog ==
    ASSUME LogInit
    PROVE  LogTypeOK /\ LogConsistent
<1>0. MaxHigh \in Nat /\ MaxInitial \in 0 .. MaxHigh
  BY LogAssumption
<1>1. /\ low = [p \in Partitions |-> 0]
      /\ high \in [Partitions -> 0 .. MaxInitial]
      /\ log = [p \in Partitions |-> 0 .. high[p] - 1]
  BY DEF LogInit
<1>2. high \in [Partitions -> 0 .. MaxHigh]
  BY <1>0, <1>1
<1>3. low \in [Partitions -> 0 .. MaxHigh]
  BY <1>0, <1>1
<1>4. log \in [Partitions -> SUBSET (0 .. MaxHigh)]
  BY <1>0, <1>1, <1>2
<1>5. LogConsistent
  BY <1>0, <1>1, <1>2 DEF LogConsistent
<1> QED
  BY <1>2, <1>3, <1>4, <1>5 DEF LogTypeOK

\* Appends, retention, purges and compaction: watermarks only grow, and what
\* appears in the log appears above the old high watermark.
LEMMA LogStep ==
    ASSUME LogTypeOK, LogConsistent, LogNext
    PROVE  /\ LogTypeOK' /\ LogConsistent'
           /\ \A p \in Partitions : /\ high[p] <= high'[p]
                                    /\ \A o \in log'[p] : o \in log[p] \/ high[p] <= o
<1>0. MaxHigh \in Nat
  BY LogAssumption
<1>1. PICK p \in Partitions :
        \/ AppendRecord(p)
        \/ \E o \in 0 .. MaxHigh : Truncate(p, o) \/ Compact(p, o)
  BY DEF LogNext
<1>2. CASE AppendRecord(p)
  BY <1>0, <1>2 DEF AppendRecord, LogTypeOK, LogConsistent
<1>3. ASSUME NEW o \in 0 .. MaxHigh, Truncate(p, o)
      PROVE  /\ LogTypeOK' /\ LogConsistent'
             /\ \A q \in Partitions : /\ high[q] <= high'[q]
                                      /\ \A x \in log'[q] : x \in log[q] \/ high[q] <= x
  BY <1>0, <1>3 DEF Truncate, LogTypeOK, LogConsistent
<1>4. ASSUME NEW o \in 0 .. MaxHigh, Compact(p, o)
      PROVE  /\ LogTypeOK' /\ LogConsistent'
             /\ \A q \in Partitions : /\ high[q] <= high'[q]
                                      /\ \A x \in log'[q] : x \in log[q] \/ high[q] <= x
  BY <1>0, <1>4 DEF Compact, LogTypeOK, LogConsistent
<1> QED
  BY <1>1, <1>2, <1>3, <1>4
=============================================================================
