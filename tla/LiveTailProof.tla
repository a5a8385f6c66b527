---------------------------- MODULE LiveTailProof ----------------------------
(***************************************************************************)
(* Proofs about the readers that librdkafka resets, LiveTail and Resend,   *)
(* for every topic, request and batch size.                                *)
(***************************************************************************)
EXTENDS LiveTail, Resend, KafkaLogProof

-----------------------------------------------------------------------------
(* The inductive invariant                                                 *)

\* What holds at each await of the coroutine.
ControlInv ==
    /\ pc \notin {"list_topics", "close", "closed"} => Planned \subseteq Partitions
    /\ pc \in {"list_topics", "marks", "assign"} => hits = << >> /\ position = begun
    /\ pc \in {"list_topics", "marks", "assign", "loop", "consume"} => batch = << >>
    /\ pc = "records" => batch # << >>
    /\ pc = "assign" => todo = {}
    /\ outcome = "none" <=> pc \notin {"close", "closed"}

\* A partition whose mark was read begins no earlier than it was when the tail was
\* requested, and the position goes on from there, never beyond the log.
PositionInv ==
    /\ \A p \in Partitions : opened[p] <= high[p] /\ position[p] <= high[p]
    /\ pc \in {"marks", "assign", "loop", "consume", "records"} =>
         \A p \in Planned \ (IF pc = "marks" THEN todo ELSE {}) :
            opened[p] <= begun[p] /\ begun[p] <= position[p]

\* What has been fetched is new, and the position is past it.
Passed(c) ==
    /\ c[1] \in Partitions
    /\ opened[c[1]] <= c[2]
    /\ c[2] < position[c[1]]

PassedInv ==
    /\ \A i \in 1 .. Len(hits) : hits[i] \in Matching /\ Passed(hits[i])
    /\ \A i \in 1 .. Len(batch) : Passed(batch[i])

\* Hits and then the batch are in offset order within a partition.
OrderInv ==
    /\ \A i, j \in 1 .. Len(hits) :
         i < j /\ hits[i][1] = hits[j][1] => hits[i][2] < hits[j][2]
    /\ \A i, j \in 1 .. Len(batch) :
         i < j /\ batch[i][1] = batch[j][1] => batch[i][2] < batch[j][2]
    /\ \A i \in 1 .. Len(hits), j \in 1 .. Len(batch) :
         hits[i][1] = batch[j][1] => hits[i][2] < batch[j][2]

IInv ==
    /\ TypeOK
    /\ LogConsistent
    /\ ControlInv
    /\ PositionInv
    /\ PassedInv
    /\ OrderInv
    /\ TailFollows

-----------------------------------------------------------------------------
(* Lemmas                                                                  *)

\* The members of a sequence of coordinates.
LEMMA MembersAreCoordinates ==
    ASSUME NEW s \in Seq(Coordinates)
    PROVE  /\ Len(s) \in Nat /\ DOMAIN s = 1 .. Len(s)
           /\ \A i \in 1 .. Len(s) : /\ s[i] \in Coordinates
                                     /\ s[i] = <<s[i][1], s[i][2]>>
                                     /\ s[i][1] \in Partitions
                                     /\ s[i][2] \in Nat /\ s[i][2] <= MaxHigh
<1>1. \A c \in Coordinates : /\ c = <<c[1], c[2]>>
                             /\ c[1] \in Partitions
                             /\ c[2] \in Nat /\ c[2] <= MaxHigh
  BY LogAssumption DEF Coordinates
<1>2. \A i \in 1 .. Len(s) : s[i] \in Coordinates
  OBVIOUS
<1> QED
  BY <1>1, <1>2

\* A non-empty bounded set of offsets has a largest one.
LEMMA LargestOffset ==
    ASSUME NEW S, NEW top \in Nat, S \subseteq 0 .. top, S # {}
    PROVE  \E n \in S : \A x \in S : x <= n
<1> DEFINE below == {m \in 0 .. top : top - m \in S}
<1>1. below \subseteq Nat
  OBVIOUS
<1>2. below # {}
  <2>1. PICK n \in S : TRUE
    OBVIOUS
  <2>2. top - n \in 0 .. top /\ top - (top - n) = n
    OBVIOUS
  <2> QED
    BY <2>2
<1>3. PICK m \in below : \A x \in below : m <= x
  BY <1>1, <1>2, SmallestOffset
<1>4. \A x \in S : x <= top - m
  <2> SUFFICES ASSUME NEW x \in S PROVE x <= top - m
    OBVIOUS
  <2>1. top - x \in 0 .. top /\ top - (top - x) = x
    OBVIOUS
  <2>2. m <= top - x
    BY <1>3, <2>1
  <2> QED
    BY <1>3, <2>1, <2>2
<1> QED
  BY <1>3, <1>4

\* After batch b the position is one past the last record of p in it, if any.
LEMMA PositionAfter ==
    ASSUME NEW b \in Seq(Coordinates), NEW p \in Partitions
    PROVE  \/ /\ \A i \in 1 .. Len(b) : b[i][1] # p
              /\ NextPosition(b, p) = position[p]
           \/ \E m \in 1 .. Len(b) :
                 /\ b[m][1] = p
                 /\ NextPosition(b, p) = b[m][2] + 1
                 /\ \A i \in 1 .. Len(b) : b[i][1] = p => b[i][2] <= b[m][2]
<1> DEFINE offsets == {b[i][2] : i \in {j \in DOMAIN b : b[j][1] = p}}
           last == CHOOSE o \in offsets : \A x \in offsets : x <= o
<1>0. NextPosition(b, p) = IF offsets = {} THEN position[p] ELSE 1 + last
  BY DEF NextPosition
<1>1. /\ DOMAIN b = 1 .. Len(b)
      /\ \A i \in 1 .. Len(b) : b[i][2] \in Nat /\ b[i][2] <= MaxHigh
  BY MembersAreCoordinates
<1>2. CASE offsets = {}
  <2>1. \A i \in 1 .. Len(b) : b[i][1] # p
    BY <1>1, <1>2
  <2> QED
    BY <1>0, <1>2, <2>1
<1>3. CASE offsets # {}
  <2>1. offsets \subseteq 0 .. MaxHigh
    BY <1>1
  <2>2. PICK n \in offsets : \A x \in offsets : x <= n
    BY <1>3, <2>1, LargestOffset, LogAssumption
  <2>3. last \in offsets /\ \A x \in offsets : x <= last
    BY <2>2
  <2>4. PICK m \in 1 .. Len(b) : b[m][1] = p /\ b[m][2] = last
    BY <1>1, <2>3
  <2>5. \A i \in 1 .. Len(b) : b[i][1] = p => b[i][2] <= b[m][2]
    BY <1>1, <2>3, <2>4
  <2>6. NextPosition(b, p) = b[m][2] + 1
    <3>1. b[m][2] \in Nat
      BY <1>1
    <3>2. NextPosition(b, p) = 1 + last
      BY <1>0, <1>3
    <3> HIDE DEF last
    <3> QED
      BY <2>4, <3>1, <3>2
  <2> QED
    BY <2>4, <2>5, <2>6
<1> QED
  BY <1>2, <1>3

\* As long as nothing was fetched, what is said of hits and the batch holds.
LEMMA NothingFetched ==
    ASSUME hits = << >>, batch = << >>
    PROVE  PassedInv /\ OrderInv /\ \A i \in DOMAIN hits : opened[hits[i][1]] <= hits[i][2]
<1>1. Len(hits) = 0 /\ Len(batch) = 0 /\ DOMAIN hits = {}
  OBVIOUS
<1> QED
  BY <1>1 DEF PassedInv, OrderInv

-----------------------------------------------------------------------------
(* Each kind of step keeps the invariant.                                  *)

LEMMA InitIInv == Init => IInv
<1> SUFFICES ASSUME Init PROVE IInv
  OBVIOUS
<1>0. MaxHigh \in Nat /\ MaxInitial \in 0 .. MaxHigh
  BY LogAssumption, TailAssumption
<1>1. /\ LogTypeOK /\ LogConsistent
      /\ high \in [Partitions -> 0 .. MaxHigh]
  BY <1>0, InitialLog DEF Init, LogTypeOK
<1>2. TypeOK
  <2>1. [p \in Partitions |-> 0] \in [Partitions -> 0 .. MaxHigh]
    BY <1>0
  <2>2. << >> \in Seq(Coordinates)
    OBVIOUS
  <2> QED
    BY <1>1, <2>1, <2>2 DEF Init, TypeOK
<1>3. ControlInv
  BY DEF Init, ControlInv
<1>4. PositionInv
  <2>1. \A p \in Partitions : high[p] \in Nat
    BY <1>0, <1>1
  <2> QED
    BY <2>1 DEF Init, PositionInv
<1>5. PassedInv /\ OrderInv /\ \A i \in DOMAIN hits : opened[hits[i][1]] <= hits[i][2]
  BY NothingFetched DEF Init
<1>6. TailFollows
  BY <1>5 DEF Init, TailFollows
<1> QED
  BY <1>1, <1>2, <1>3, <1>4, <1>5, <1>6 DEF IInv

\* The calls before the loop: nothing is fetched, so what is left to show is where
\* the position begins.
LEMMA PlanningKeepsIInv ==
    ASSUME IInv, ListTopics \/ ReadMark \/ Assign, UNCHANGED logVars
    PROVE  IInv'
<1>0. MaxHigh \in Nat
  BY LogAssumption
<1>1. TypeOK /\ LogConsistent /\ ControlInv /\ PositionInv
  BY DEF IInv
<1>2. /\ pc \in {"list_topics", "marks", "assign"}
      /\ UNCHANGED <<low, high, log, spec, batch, scanned, hits, disconnected, opened,
                     overtaken>>
  BY DEF ListTopics, ReadMark, Assign, logVars
<1>3. hits = << >> /\ batch = << >> /\ position = begun /\ outcome = "none"
  BY <1>1, <1>2 DEF ControlInv
<1>4. LogTypeOK' /\ LogConsistent'
  BY <1>1, <1>2 DEF TypeOK, LogTypeOK, LogConsistent
<1>5. Planned' = Planned
  BY <1>2 DEF Planned
<1>6. PassedInv' /\ OrderInv' /\ \A i \in DOMAIN hits' : opened'[hits'[i][1]] <= hits'[i][2]
  <2>1. Len(hits') = 0 /\ Len(batch') = 0 /\ DOMAIN hits' = {}
    BY <1>2, <1>3
  <2> QED
    BY <2>1 DEF PassedInv, OrderInv
<1>7. /\ todo' \in SUBSET Partitions
      /\ position' \in [Partitions -> 0 .. MaxHigh] /\ begun' = position'
      /\ \A p \in Partitions : position'[p] <= high[p]
      /\ pc' \in {"marks", "assign", "loop", "close"}
      /\ outcome' = IF pc' = "close" THEN "failed" ELSE "none"
      /\ pc' # "close" => Planned \subseteq Partitions
      /\ pc' = "assign" => todo' = {}
      /\ pc' \in {"marks", "assign", "loop"} =>
           \A p \in Planned \ (IF pc' = "marks" THEN todo' ELSE {}) : opened[p] <= begun'[p]
  <2>1. CASE ListTopics
    BY <1>1, <1>3, <2>1 DEF ListTopics, Raise, Continue, TypeOK, PositionInv
  <2>2. CASE ReadMark
    <3>1. PICK q \in todo : /\ position' = [position EXCEPT ![q] = Start(q)]
                            /\ begun' = [begun EXCEPT ![q] = Start(q)]
                            /\ todo' = todo \ {q}
      BY <2>2 DEF ReadMark
    <3>2. q \in Partitions /\ Start(q) = high[q] /\ high[q] \in 0 .. MaxHigh
      BY <1>1 DEF Start, Watermarks, TypeOK, LogTypeOK
    <3>3. position' \in [Partitions -> 0 .. MaxHigh] /\ begun' = position'
      BY <1>1, <1>3, <3>1, <3>2 DEF TypeOK
    <3>4. \A p \in Partitions : position'[p] = IF p = q THEN high[p] ELSE position[p]
      BY <1>1, <3>1, <3>2 DEF TypeOK
    <3>5. \A p \in Partitions : position'[p] <= high[p]
      BY <1>0, <1>1, <3>2, <3>4 DEF PositionInv
    <3>6. pc = "marks" /\ Planned \subseteq Partitions
          /\ pc' = (IF todo' = {} THEN "assign" ELSE "marks") /\ outcome' = "none"
      BY <1>1, <1>3, <2>2 DEF ReadMark, Continue, ControlInv
    <3>7. \A p \in Planned \ todo' : opened[p] <= begun'[p]
      BY <1>1, <1>3, <3>1, <3>2, <3>3, <3>4, <3>6 DEF PositionInv
    <3> QED
      BY <1>1, <3>1, <3>3, <3>5, <3>6, <3>7 DEF TypeOK
  <2>3. CASE Assign
    BY <1>1, <1>3, <2>3 DEF Assign, Continue, TypeOK, ControlInv, PositionInv
  <2> QED
    BY <2>1, <2>2, <2>3
<1>8. TypeOK'
  BY <1>1, <1>2, <1>4, <1>7 DEF TypeOK
<1>9. ControlInv'
  BY <1>2, <1>3, <1>5, <1>7 DEF ControlInv
<1>10. PositionInv'
  <2>1. Planned \subseteq Partitions => \A p \in Planned : begun'[p] <= position'[p]
    BY <1>0, <1>7
  <2>2. \A p \in Partitions : opened'[p] <= high'[p]
    BY <1>1, <1>2 DEF PositionInv
  <2> QED
    BY <1>2, <1>5, <1>7, <2>1, <2>2 DEF PositionInv
<1>11. TailFollows'
  <2>1. ASSUME NEW c \in Matching, c[1] \in Planned, begun'[c[1]] <= c[2],
               c[2] < position'[c[1]], pc' \in {"loop", "consume", "records"}
        PROVE  FALSE
    <3>1. c[1] \in Partitions /\ c[2] \in Nat
      BY LogAssumption, TailAssumption DEF Coordinates
    <3> QED
      BY <1>0, <1>7, <2>1, <3>1
  <2> QED
    BY <1>2, <1>5, <1>6, <2>1 DEF TailFollows
<1> QED
  BY <1>4, <1>6, <1>8, <1>9, <1>10, <1>11 DEF IInv

\* The head of the loop, an exception, the finally block and the browser leaving
\* change only where the coroutine is and what it reports.
LEMMA ControlKeepsIInv ==
    ASSUME IInv, LoopHead \/ BrokerTrouble \/ Close \/ Disconnect, UNCHANGED logVars
    PROVE  IInv'
<1>1. TypeOK /\ LogConsistent /\ ControlInv /\ PositionInv /\ PassedInv /\ OrderInv /\ TailFollows
  BY DEF IInv
<1>2. UNCHANGED <<low, high, log, spec, todo, position, batch, scanned, hits, opened, begun,
                  overtaken>>
  BY DEF LoopHead, BrokerTrouble, Close, Disconnect, logVars
<1>3. Planned' = Planned
  BY <1>2 DEF Planned
<1>4. \/ pc = "loop" /\ pc' = "consume" /\ outcome' = outcome
      \/ pc' = "close" /\ outcome' \in {"done", "failed"}
      \/ pc = "close" /\ pc' = "closed" /\ outcome' = outcome
      \/ pc' = pc /\ outcome' = outcome
  BY DEF LoopHead, BrokerTrouble, Close, Disconnect, Raise, Continue
<1>5. TypeOK'
  <2>1. disconnected' \in BOOLEAN
    BY <1>1 DEF LoopHead, BrokerTrouble, Close, Disconnect, TypeOK
  <2> QED
    BY <1>1, <1>2, <1>4, <2>1 DEF TypeOK, LogTypeOK
<1>6. ControlInv'
  BY <1>1, <1>2, <1>3, <1>4 DEF ControlInv
<1>7. PositionInv'
  BY <1>1, <1>2, <1>3, <1>4 DEF PositionInv
<1>8. LogConsistent' /\ PassedInv' /\ OrderInv'
  BY <1>1, <1>2 DEF LogConsistent, PassedInv, Passed, OrderInv
<1>9. TailFollows'
  BY <1>1, <1>2, <1>3, <1>4 DEF TailFollows
<1> QED
  BY <1>5, <1>6, <1>7, <1>8, <1>9 DEF IInv

\* Records appear at the end of the log, so none appears below the position.
LEMMA LogKeepsIInv ==
    ASSUME IInv, LogNext, UNCHANGED tailVars
    PROVE  IInv'
<1>0. MaxHigh \in Nat
  BY LogAssumption
<1>1. TypeOK /\ LogTypeOK /\ LogConsistent /\ PositionInv /\ TailFollows
  BY DEF IInv, TypeOK
<1>2. UNCHANGED <<spec, pc, todo, position, batch, scanned, hits, outcome, disconnected,
                  opened, begun, overtaken>>
  BY DEF tailVars
<1>3. /\ LogTypeOK' /\ LogConsistent'
      /\ \A p \in Partitions : /\ high[p] <= high'[p]
                               /\ \A o \in log'[p] : o \in log[p] \/ high[p] <= o
  BY <1>1, LogStep
<1>4. Planned' = Planned
  BY <1>2 DEF Planned
<1>5. \A p \in Partitions : /\ high[p] \in Nat /\ high'[p] \in Nat
                            /\ position[p] \in Nat /\ opened[p] \in Nat
  BY <1>0, <1>1, <1>3 DEF TypeOK, LogTypeOK
<1>6. TypeOK'
  BY <1>1, <1>2, <1>3 DEF TypeOK
<1>7. PositionInv'
  BY <1>1, <1>2, <1>3, <1>4, <1>5 DEF PositionInv
<1>8. TailFollows'
  <2>1. ASSUME NEW c \in Matching, c[2] \in log'[c[1]], c[2] < position[c[1]]
        PROVE  c[2] \in log[c[1]]
    <3>1. c[1] \in Partitions /\ c[2] \in Nat
      BY LogAssumption, TailAssumption DEF Coordinates
    <3> QED
      BY <1>1, <1>3, <1>5, <2>1, <3>1 DEF PositionInv
  <2> QED
    BY <1>1, <1>2, <1>4, <2>1 DEF TailFollows
<1>9. ControlInv' /\ PassedInv' /\ OrderInv'
  BY <1>2, <1>4 DEF IInv, ControlInv, PassedInv, Passed, OrderInv
<1> QED
  BY <1>3, <1>6, <1>7, <1>8, <1>9 DEF IInv

\* A reset moves the position of p up, and all it jumps over is overtaken.
LEMMA ResetKeepsIInv ==
    ASSUME IInv, NEW p \in Partitions, Reset(p), UNCHANGED logVars
    PROVE  IInv'
<1>0. MaxHigh \in Nat
  BY LogAssumption
<1>1. TypeOK /\ LogTypeOK /\ LogConsistent /\ ControlInv /\ PositionInv /\ PassedInv
      /\ OrderInv /\ TailFollows
  BY DEF IInv, TypeOK
<1>2. /\ UNCHANGED <<low, high, log, spec, pc, todo, batch, scanned, hits, outcome,
                     disconnected, opened, begun>>
      /\ pc = "consume" /\ position[p] < low[p]
      /\ position' = [position EXCEPT ![p] = high[p]]
      /\ overtaken' = overtaken \cup {c \in Coordinates : c[1] = p /\ c[2] \in log[p]}
  BY DEF Reset, logVars
<1>3. Planned' = Planned
  BY <1>2 DEF Planned
<1>4. /\ \A q \in Partitions : /\ position[q] \in Nat /\ begun[q] \in Nat
                               /\ low[q] \in Nat /\ high[q] \in 0 .. MaxHigh
                               /\ position'[q] = IF q = p THEN high[q] ELSE position[q]
      /\ position[p] <= high[p]
  <2>1. /\ \A q \in Partitions : /\ position[q] \in Nat /\ begun[q] \in Nat
                                 /\ low[q] \in Nat /\ high[q] \in 0 .. MaxHigh
                                 /\ position'[q] = IF q = p THEN high[q] ELSE position[q]
    BY <1>0, <1>1, <1>2 DEF TypeOK, LogTypeOK
  <2>2. low[p] <= high[p]
    BY <1>1 DEF LogConsistent
  <2> QED
    BY <1>0, <1>2, <2>1, <2>2
<1>5. \A q \in Partitions : position[q] <= position'[q] /\ position'[q] \in Nat
  BY <1>0, <1>4
<1>6. TypeOK'
  BY <1>1, <1>2, <1>4 DEF TypeOK, LogTypeOK
<1>7. PositionInv'
  BY <1>0, <1>1, <1>2, <1>3, <1>4, <1>5 DEF PositionInv, ControlInv
<1>8. PassedInv'
  <2>1. ASSUME NEW c \in Coordinates, Passed(c) PROVE c[2] < position'[c[1]]
    <3>1. c[1] \in Partitions /\ c[2] \in Nat
      BY LogAssumption DEF Coordinates
    <3> QED
      BY <1>4, <1>5, <2>1, <3>1 DEF Passed
  <2>2. /\ \A i \in 1 .. Len(hits) : hits[i] \in Coordinates
        /\ \A i \in 1 .. Len(batch) : batch[i] \in Coordinates
    BY <1>1 DEF TypeOK
  <2> QED
    BY <1>1, <1>2, <2>1, <2>2 DEF PassedInv, Passed
<1>9. TailFollows'
  <2>1. ASSUME NEW c \in Matching, c[2] \in log[c[1]], c \notin overtaken',
               c[2] < position'[c[1]]
        PROVE  c[2] < position[c[1]]
    <3>1. c \in Coordinates /\ c[1] \in Partitions
      BY TailAssumption DEF Coordinates
    <3> QED
      BY <1>2, <1>4, <2>1, <3>1
  <2> QED
    BY <1>1, <1>2, <1>3, <2>1 DEF TailFollows
<1>10. LogConsistent' /\ ControlInv' /\ OrderInv'
  BY <1>1, <1>2, <1>3 DEF LogConsistent, ControlInv, OrderInv
<1> QED
  BY <1>6, <1>7, <1>8, <1>9, <1>10 DEF IInv

\* What a fetch returns: a batch of pending records, in offset order within a
\* partition and without a gap.
LEMMA BatchOfPending ==
    ASSUME NEW b \in Fetches(Pending, BatchMax)
    PROVE  /\ b \in Seq(Coordinates)
           /\ \A i \in 1 .. Len(b) : b[i] \in Pending
           /\ \A i \in 1 .. Len(b) : \A c \in Pending : c[1] = b[i][1] =>
                (c[2] < b[i][2] <=> \E j \in 1 .. i - 1 : b[j] = c)
<1>1. BatchMax \in Nat
  BY TailAssumption
<1>2. PICK k \in 0 .. BatchMax : b \in [1 .. k -> Pending]
  BY DEF Fetches
<1>3. b \in Seq(Pending) /\ Len(b) = k /\ k \in Nat
  BY <1>1, <1>2
<1>4. b \in Seq(Coordinates)
  BY <1>3 DEF Pending
<1> QED
  BY <1>2, <1>3, <1>4 DEF Fetches

\* A fetch moves the position past the batch, and whatever it passes is in the batch.
LEMMA ConsumeKeepsIInv ==
    ASSUME IInv, Consume, UNCHANGED logVars
    PROVE  IInv'
<1>0. MaxHigh \in Nat
  BY LogAssumption
<1>1. TypeOK /\ LogTypeOK /\ LogConsistent /\ ControlInv /\ PositionInv /\ PassedInv
      /\ OrderInv /\ TailFollows
  BY DEF IInv, TypeOK
<1>2. /\ UNCHANGED <<low, high, log, spec, todo, scanned, hits, disconnected, opened, begun,
                     overtaken>>
      /\ pc = "consume"
  BY DEF Consume, logVars
<1>3. PICK b \in Fetches(Pending, BatchMax) :
        /\ batch' = b
        /\ position' = [p \in Partitions |-> NextPosition(b, p)]
        /\ Continue(IF b = << >> THEN "loop" ELSE "records")
  BY DEF Consume
<1>4. /\ b \in Seq(Coordinates)
      /\ \A i \in 1 .. Len(b) : b[i] \in Pending
      /\ \A i \in 1 .. Len(b) : \A c \in Pending : c[1] = b[i][1] =>
           (c[2] < b[i][2] <=> \E j \in 1 .. i - 1 : b[j] = c)
  BY BatchOfPending
<1>5. Planned' = Planned /\ Planned \subseteq Partitions
  BY <1>1, <1>2 DEF Planned, ControlInv
<1>6. /\ Len(b) \in Nat /\ DOMAIN b = 1 .. Len(b)
      /\ \A i \in 1 .. Len(b) :
           /\ b[i] \in Coordinates /\ b[i] = <<b[i][1], b[i][2]>>
           /\ b[i][1] \in Partitions /\ b[i][2] \in Nat
           /\ b[i][1] \in Planned /\ b[i][2] \in log[b[i][1]]
           /\ low[b[i][1]] <= position[b[i][1]]
           /\ position[b[i][1]] <= b[i][2]
           /\ b[i][2] < high[b[i][1]]
  <2>1. \A i \in 1 .. Len(b) :
           /\ b[i][1] \in Planned /\ b[i][2] \in log[b[i][1]]
           /\ low[b[i][1]] <= position[b[i][1]]
           /\ position[b[i][1]] <= b[i][2]
    BY <1>4 DEF Pending
  <2> QED
    BY <1>1, <1>4, <2>1, MembersAreCoordinates DEF LogConsistent
<1>7. \A p \in Partitions : /\ position[p] \in Nat /\ high[p] \in 0 .. MaxHigh
                            /\ begun[p] \in Nat /\ opened[p] \in Nat /\ position[p] <= high[p]
  BY <1>0, <1>1 DEF TypeOK, LogTypeOK, PositionInv
<1>8. \A p \in Partitions : /\ position'[p] \in 0 .. MaxHigh
                            /\ position[p] <= position'[p]
                            /\ position'[p] <= high[p]
  <2> SUFFICES ASSUME NEW p \in Partitions
               PROVE  /\ position'[p] \in 0 .. MaxHigh
                      /\ position[p] <= position'[p]
                      /\ position'[p] <= high[p]
    OBVIOUS
  <2>1. position'[p] = NextPosition(b, p)
    BY <1>3
  <2>2. CASE NextPosition(b, p) = position[p]
    BY <1>0, <1>7, <2>1, <2>2
  <2>3. CASE \E m \in 1 .. Len(b) : b[m][1] = p /\ NextPosition(b, p) = b[m][2] + 1
    BY <1>0, <1>6, <1>7, <2>1, <2>3
  <2> QED
    BY <1>4, <2>2, <2>3, PositionAfter
<1>9. \A i \in 1 .. Len(b) : b[i][2] < position'[b[i][1]]
  <2> SUFFICES ASSUME NEW i \in 1 .. Len(b) PROVE b[i][2] < position'[b[i][1]]
    OBVIOUS
  <2> DEFINE p == b[i][1]
  <2>1. p \in Partitions /\ position'[p] = NextPosition(b, p)
    BY <1>3, <1>6
  <2>2. PICK m \in 1 .. Len(b) : /\ b[m][1] = p
                                 /\ NextPosition(b, p) = b[m][2] + 1
                                 /\ b[i][2] <= b[m][2]
    BY <1>4, <2>1, PositionAfter
  <2> QED
    BY <1>6, <2>1, <2>2
<1>10. \/ b = << >> /\ Len(b) = 0 /\ pc' = "loop" /\ outcome' = outcome
       \/ b # << >> /\ pc' = "records" /\ outcome' = outcome
  BY <1>3 DEF Continue
<1>11. TypeOK'
  <2>1. position' \in [Partitions -> 0 .. MaxHigh]
    BY <1>3, <1>8
  <2> QED
    BY <1>1, <1>2, <1>3, <1>4, <1>10, <2>1 DEF TypeOK, LogTypeOK
<1>12. ControlInv'
  BY <1>1, <1>2, <1>3, <1>5, <1>10 DEF ControlInv
<1>13. PositionInv'
  BY <1>1, <1>2, <1>5, <1>7, <1>8, <1>10 DEF PositionInv
<1>hits. /\ hits \in Seq(Coordinates)
         /\ \A i \in 1 .. Len(hits) : /\ hits[i] \in Matching /\ Passed(hits[i])
                                      /\ hits[i][2] \in Nat /\ hits[i][1] \in Partitions
  BY <1>1, MembersAreCoordinates DEF PassedInv, TypeOK
<1>14. PassedInv'
  <2>1. \A i \in 1 .. Len(hits) : hits[i][2] < position'[hits[i][1]]
    BY <1>7, <1>8, <1>hits DEF Passed
  <2>2. \A i \in 1 .. Len(b) : opened[b[i][1]] <= b[i][2]
    BY <1>1, <1>2, <1>6, <1>7 DEF PositionInv
  <2> QED
    BY <1>2, <1>3, <1>6, <1>9, <1>hits, <2>1, <2>2 DEF PassedInv, Passed
<1>15. OrderInv'
  <2>1. ASSUME NEW i \in 1 .. Len(b), NEW j \in 1 .. Len(b), i < j, b[i][1] = b[j][1]
        PROVE  b[i][2] < b[j][2]
    <3>1. i \in 1 .. j - 1 /\ b[i] \in Pending
      BY <1>4, <2>1
    <3> QED
      BY <1>4, <2>1, <3>1
  <2>2. ASSUME NEW i \in 1 .. Len(hits), NEW j \in 1 .. Len(b), hits[i][1] = b[j][1]
        PROVE  hits[i][2] < b[j][2]
    BY <1>6, <1>7, <1>hits, <2>2 DEF Passed
  <2> QED
    BY <1>1, <1>2, <1>3, <2>1, <2>2 DEF OrderInv
<1>16. TailFollows'
  <2>1. ASSUME NEW c \in Matching, c[1] \in Planned, c[2] \in log[c[1]],
               begun[c[1]] <= c[2], c[2] < position'[c[1]], c \notin overtaken
        PROVE  (\E i \in DOMAIN hits : hits[i] = c) \/ (\E i \in DOMAIN b : b[i] = c)
    <3>1. c \in Coordinates /\ c = <<c[1], c[2]>> /\ c[1] \in Partitions /\ c[2] \in Nat
      BY LogAssumption, TailAssumption DEF Coordinates
    <3>2. CASE c[2] < position[c[1]]
      <4>1. \E i \in DOMAIN hits : hits[i] = c
        <5>1. batch = << >> /\ DOMAIN batch = {}
          BY <1>1, <1>2 DEF ControlInv
        <5> QED
          BY <1>1, <1>2, <2>1, <3>2, <5>1 DEF TailFollows
      <4> QED
        BY <4>1
    <3>3. CASE position[c[1]] <= c[2]
      <4>1. position'[c[1]] = NextPosition(b, c[1]) /\ position'[c[1]] # position[c[1]]
        BY <1>3, <1>7, <1>8, <2>1, <3>1, <3>3
      <4>2. PICK m \in 1 .. Len(b) : b[m][1] = c[1] /\ position'[c[1]] = b[m][2] + 1
        BY <1>4, <3>1, <4>1, PositionAfter
      <4>3. c \in Pending
        BY <1>6, <2>1, <3>1, <3>3, <4>2 DEF Pending
      <4>4. c[2] <= b[m][2]
        BY <1>6, <2>1, <3>1, <4>2
      <4>5. CASE c[2] = b[m][2]
        <5>1. b[m] = c
          BY <1>6, <3>1, <4>2, <4>5
        <5> QED
          BY <1>6, <5>1
      <4>6. CASE c[2] < b[m][2]
        <5>1. PICK j \in 1 .. m - 1 : b[j] = c
          BY <1>4, <4>2, <4>3, <4>6
        <5>2. j \in 1 .. Len(b)
          BY <1>6
        <5> QED
          BY <1>6, <5>1, <5>2
      <4> QED
        BY <1>6, <3>1, <4>4, <4>5, <4>6
    <3> QED
      BY <1>7, <3>1, <3>2, <3>3
  <2> QED
    BY <1>1, <1>2, <1>3, <1>5, <2>1 DEF TailFollows
<1>17. LogConsistent'
  BY <1>1, <1>2 DEF LogConsistent
<1> QED
  BY <1>11, <1>12, <1>13, <1>14, <1>15, <1>16, <1>17 DEF IInv

\* The record in hand is later than every hit of its partition.
LEMMA RecordInHand ==
    ASSUME IInv, ProcessRecord
    PROVE  /\ outcome = "none" /\ outcome' = "none"
           /\ Head(batch) \in Coordinates /\ Head(batch) = batch[1]
           /\ Len(batch) \in Nat /\ 1 \in 1 .. Len(batch)
           /\ \A i \in 1 .. Len(hits) :
                hits[i][1] = Head(batch)[1] => hits[i][2] < Head(batch)[2]
<1>1. pc = "records" /\ outcome' = outcome
  BY DEF ProcessRecord, Continue
<1>2. batch # << >> /\ outcome = "none" /\ batch \in Seq(Coordinates)
  BY <1>1 DEF IInv, ControlInv, TypeOK
<1>3. /\ Head(batch) \in Coordinates /\ Head(batch) = batch[1]
      /\ Len(batch) \in Nat /\ 1 \in 1 .. Len(batch)
  BY <1>2
<1> QED
  BY <1>1, <1>2, <1>3 DEF IInv, OrderInv

\* The record in hand becomes a hit if it matches; nothing else leaves the batch.
LEMMA ProcessKeepsIInv ==
    ASSUME IInv, ProcessRecord, UNCHANGED logVars
    PROVE  IInv'
<1> DEFINE c == Head(batch)
<1>1. TypeOK /\ ControlInv /\ PositionInv /\ PassedInv /\ OrderInv /\ TailFollows
  BY DEF IInv
<1>2. /\ UNCHANGED <<low, high, log, spec, todo, position, disconnected, opened, begun,
                     overtaken>>
      /\ pc = "records" /\ scanned' = scanned + 1
      /\ batch' = Tail(batch)
      /\ hits' = IF c \in Matching THEN Append(hits, c) ELSE hits
      /\ pc' = (IF batch' = << >> THEN "loop" ELSE "records") /\ outcome' = outcome
  BY DEF ProcessRecord, RestOfBatch, Continue, logVars
<1>3. /\ batch # << >> /\ outcome = "none" /\ Planned' = Planned /\ Planned \subseteq Partitions
      /\ batch \in Seq(Coordinates) /\ hits \in Seq(Coordinates)
  BY <1>1, <1>2 DEF ControlInv, TypeOK, Planned
<1>4. /\ Len(batch) \in Nat /\ c = batch[1] /\ c \in Coordinates /\ 1 \in 1 .. Len(batch)
      /\ batch' \in Seq(Coordinates) /\ Len(batch') = Len(batch) - 1
      /\ DOMAIN batch = 1 .. Len(batch) /\ DOMAIN batch' = 1 .. Len(batch')
      /\ \A i \in 1 .. Len(batch') : batch'[i] = batch[i + 1] /\ i + 1 \in 1 .. Len(batch)
  BY <1>2, <1>3, RecordInHand
<1>5. /\ hits' \in Seq(Coordinates) /\ Len(hits) \in Nat
      /\ DOMAIN hits = 1 .. Len(hits) /\ DOMAIN hits' = 1 .. Len(hits')
      /\ \A i \in 1 .. Len(hits) : i \in 1 .. Len(hits') /\ hits'[i] = hits[i]
      /\ \A i \in 1 .. Len(hits') :
           \/ i \in 1 .. Len(hits)
           \/ i = Len(hits) + 1 /\ c \in Matching /\ hits'[i] = c
      /\ c \in Matching => hits'[Len(hits')] = c /\ Len(hits') \in 1 .. Len(hits')
  <2>1. CASE c \in Matching
    BY <1>2, <1>3, <1>4, <2>1
  <2>2. CASE c \notin Matching
    BY <1>2, <1>3, <1>4, <2>2
  <2> QED
    BY <2>1, <2>2
<1>6. \A i \in 1 .. Len(hits) : hits[i][1] = c[1] => hits[i][2] < c[2]
  BY RecordInHand
<1>7. TypeOK'
  BY <1>1, <1>2, <1>3, <1>4, <1>5 DEF TypeOK, LogTypeOK
<1>8. ControlInv'
  BY <1>1, <1>2, <1>3 DEF ControlInv
<1>9. PositionInv' /\ LogConsistent'
  BY <1>1, <1>2, <1>3 DEF IInv, PositionInv, LogConsistent
<1>10. PassedInv'
  <2>1. Passed(c)
    BY <1>1, <1>4 DEF PassedInv
  <2> QED
    BY <1>1, <1>2, <1>4, <1>5, <2>1 DEF PassedInv, Passed
<1>11. OrderInv'
  <2>1. ASSUME NEW i \in 1 .. Len(hits'), NEW j \in 1 .. Len(hits'), i < j,
               hits'[i][1] = hits'[j][1]
        PROVE  hits'[i][2] < hits'[j][2]
    <3>1. i \in 1 .. Len(hits)
      BY <1>5, <2>1
    <3> QED
      BY <1>1, <1>5, <1>6, <2>1, <3>1 DEF OrderInv
  <2>2. ASSUME NEW i \in 1 .. Len(batch'), NEW j \in 1 .. Len(batch'), i < j,
               batch'[i][1] = batch'[j][1]
        PROVE  batch'[i][2] < batch'[j][2]
    BY <1>1, <1>4, <2>2 DEF OrderInv
  <2>3. ASSUME NEW i \in 1 .. Len(hits'), NEW j \in 1 .. Len(batch'),
               hits'[i][1] = batch'[j][1]
        PROVE  hits'[i][2] < batch'[j][2]
    <3>1. batch'[j] = batch[j + 1] /\ j + 1 \in 1 .. Len(batch) /\ 1 < j + 1
      BY <1>4
    <3>2. CASE i \in 1 .. Len(hits)
      BY <1>1, <1>5, <2>3, <3>1, <3>2 DEF OrderInv
    <3>3. CASE hits'[i] = c
      <4>1. batch[1][1] = batch[j + 1][1]
        BY <1>4, <2>3, <3>1, <3>3
      <4> QED
        BY <1>1, <1>4, <3>1, <3>3, <4>1 DEF OrderInv
    <3> QED
      BY <1>5, <3>2, <3>3
  <2> QED
    BY <2>1, <2>2, <2>3 DEF OrderInv
<1>12. TailFollows'
  <2>1. ASSUME NEW x \in Matching,
               (\E i \in DOMAIN hits : hits[i] = x) \/ (\E i \in DOMAIN batch : batch[i] = x)
        PROVE  (\E i \in DOMAIN hits' : hits'[i] = x) \/ (\E i \in DOMAIN batch' : batch'[i] = x)
    <3>1. CASE \E i \in DOMAIN hits : hits[i] = x
      BY <1>5, <3>1
    <3>2. CASE x = c
      BY <1>5, <2>1, <3>2
    <3>3. ASSUME NEW i \in DOMAIN batch, batch[i] = x, x # c
          PROVE  i - 1 \in DOMAIN batch' /\ batch'[i - 1] = x
      <4>1. i # 1 /\ i \in 1 .. Len(batch)
        BY <1>4, <3>3
      <4>2. i - 1 \in 1 .. Len(batch') /\ (i - 1) + 1 = i
        BY <1>4, <4>1
      <4> QED
        BY <1>4, <3>3, <4>2
    <3> QED
      BY <2>1, <3>1, <3>2, <3>3
  <2>2. \A i \in DOMAIN hits' : opened[hits'[i][1]] <= hits'[i][2]
    BY <1>2, <1>5, <1>10 DEF PassedInv, Passed
  <2> QED
    BY <1>1, <1>2, <1>3, <2>1, <2>2 DEF TailFollows
<1> QED
  BY <1>7, <1>8, <1>9, <1>10, <1>11, <1>12 DEF IInv

\* The hits are different records, so there are no more than the topic can hold.
LEMMA HitsBounded ==
    ASSUME IInv
    PROVE  /\ Len(hits) \in Nat
           /\ Cardinality(Coordinates) \in Nat
           /\ Len(hits) <= Cardinality(Coordinates)
<1>1. hits \in Seq(Coordinates) /\ Len(hits) \in Nat
  BY DEF IInv, TypeOK
<1>2. hits \in [1 .. Len(hits) -> Coordinates]
  BY <1>1
<1>3. \A i, j \in 1 .. Len(hits) : hits[i] = hits[j] => i = j
  <2> SUFFICES ASSUME NEW i \in 1 .. Len(hits), NEW j \in 1 .. Len(hits),
                      hits[i] = hits[j], i < j
               PROVE  FALSE
    BY <1>1
  <2>1. hits[i][2] < hits[j][2] /\ hits[i][2] \in Nat
    BY <1>1, MembersAreCoordinates DEF IInv, OrderInv
  <2> QED
    BY <2>1
<1>4. hits \in Injection(1 .. Len(hits), Coordinates)
  BY <1>2, <1>3 DEF Injection, IsInjective
<1>5. IsFiniteSet(Coordinates) /\ Cardinality(Coordinates) \in Nat
  BY CoordinatesFinite
<1>6. Cardinality(1 .. Len(hits)) = Len(hits)
  <2>1. Len(hits) \in Nat
    BY <1>1
  <2>2. \A n \in Nat : Cardinality(1 .. n) = n
    <3>1. SUFFICES ASSUME NEW n \in Nat PROVE Cardinality(1 .. n) = n
      OBVIOUS
    <3>2. Cardinality(1 .. n) = IF 1 > n THEN 0 ELSE n - 1 + 1
      <4>1. 1 \in Int /\ n \in Int
        OBVIOUS
      <4> QED
        BY <4>1, FS_Interval, Zenon
    <3> QED
      BY <3>2
  <2> QED
    BY <2>1, <2>2
<1>7. Cardinality(1 .. Len(hits)) <= Cardinality(Coordinates)
  BY <1>4, <1>5, FS_Injection
<1> QED
  BY <1>1, <1>5, <1>6, <1>7

-----------------------------------------------------------------------------
(* Theorems                                                                *)

LEMMA Inductive == Spec => []IInv
<1>1. IInv /\ [Next]_vars => IInv'
  <2> SUFFICES ASSUME IInv, [Next]_vars PROVE IInv'
    OBVIOUS
  <2>1. CASE (ListTopics \/ ReadMark \/ Assign) /\ UNCHANGED logVars
    BY <2>1, PlanningKeepsIInv
  <2>2. CASE (LoopHead \/ BrokerTrouble \/ Close \/ Disconnect) /\ UNCHANGED logVars
    BY <2>2, ControlKeepsIInv
  <2>3. CASE Consume /\ UNCHANGED logVars
    BY <2>3, ConsumeKeepsIInv
  <2>4. CASE ProcessRecord /\ UNCHANGED logVars
    BY <2>4, ProcessKeepsIInv
  <2>5. CASE (\E p \in Partitions : Reset(p)) /\ UNCHANGED logVars
    BY <2>5, ResetKeepsIInv
  <2>6. CASE LogNext /\ UNCHANGED tailVars
    BY <2>6, LogKeepsIInv
  <2>7. CASE UNCHANGED vars
    <3>1. UNCHANGED <<low, high, log, spec, pc, todo, position, batch, scanned, hits, outcome,
                      disconnected, opened, begun, overtaken>>
      BY <2>7 DEF vars, logVars, tailVars
    <3>2. Planned' = Planned
      BY <3>1 DEF Planned
    <3>3. TypeOK' /\ LogConsistent'
      BY <3>1 DEF IInv, TypeOK, LogTypeOK, LogConsistent
    <3>4. ControlInv' /\ PositionInv'
      BY <3>1, <3>2 DEF IInv, ControlInv, PositionInv
    <3>5. PassedInv' /\ OrderInv' /\ TailFollows'
      BY <3>1, <3>2 DEF IInv, PassedInv, Passed, OrderInv, TailFollows
    <3> QED
      BY <3>3, <3>4, <3>5 DEF IInv
  <2> QED
    BY <2>1, <2>2, <2>3, <2>4, <2>5, <2>6, <2>7 DEF Next, TailStep
<1> QED
  BY <1>1, InitIInv, PTL DEF Spec

\* Every variable of a tail has its type; in particular the position never leaves
\* the range of offsets.
THEOREM TypeCorrect == Spec => []TypeOK
<1>1. IInv => TypeOK
  BY DEF IInv
<1> QED
  BY <1>1, Inductive, PTL

\* A tail shows nothing that was there before it was requested, and passes no
\* matching record without showing it, unless a reset of its position jumped over
\* it.
THEOREM FollowsTheEnd == Spec => []TailFollows
<1>1. IInv => TailFollows
  BY DEF IInv
<1> QED
  BY <1>1, Inductive, PTL

\* The page gets the stream HitStream promises, without a limit: the record in hand
\* is later than every hit of its partition, and nothing comes after the final event.
THEOREM ImplementsHitStream == Spec => HitStreamImplemented
<1>1. Init => Page!StreamInit
  <2>1. Cardinality(Coordinates) + 1 \in Nat \ {0}
    BY CoordinatesFinite
  <2> QED
    BY <2>1, TailAssumption DEF Init, Page!StreamInit
<1>2. IInv /\ [Next]_vars => [Page!StreamNext]_(Page!streamVars)
  <2> SUFFICES ASSUME IInv, [Next]_vars
               PROVE  Page!StreamNext
                      \/ UNCHANGED <<Matching, Cardinality(Coordinates) + 1, hits, outcome>>
    BY DEF Page!streamVars
  <2>1. CASE ProcessRecord
    <3> DEFINE c == Head(batch)
    <3>1. /\ outcome' = "none" /\ outcome = "none"
          /\ c \in Coordinates
          /\ \A i \in 1 .. Len(hits) : hits[i][1] = c[1] => hits[i][2] < c[2]
      BY <2>1, RecordInHand
    <3>2. hits' = IF c \in Matching THEN Append(hits, c) ELSE hits
      BY <2>1 DEF ProcessRecord
    <3>3. CASE c \in Matching
      <4>1. Len(hits) < Cardinality(Coordinates) + 1
        BY HitsBounded
      <4>2. Page!Show(c)
        BY <3>1, <3>2, <3>3, <4>1 DEF Page!Show, Page!IsNews
      <4> QED
        BY <3>1, <4>2 DEF Page!StreamNext
    <3>4. CASE c \notin Matching
      BY <3>1, <3>2, <3>4
    <3> QED
      BY <3>3, <3>4
  <2>2. CASE Next /\ ~ProcessRecord
    <3>1. UNCHANGED hits
      BY <2>2 DEF Next, TailStep, ListTopics, ReadMark, Assign, LoopHead, Consume, Reset,
                  BrokerTrouble, Close, Disconnect, tailVars
    <3>2. outcome' = outcome \/ (outcome = "none" /\ outcome' \in {"done", "failed"})
      BY <2>2 DEF Next, TailStep, ListTopics, ReadMark, Assign, LoopHead, Consume, Reset,
                  BrokerTrouble, Close, Disconnect, tailVars, Raise, Continue, IInv, ControlInv
    <3> QED
      BY <3>1, <3>2 DEF Page!StreamNext, Page!Finish
  <2>3. CASE UNCHANGED vars
    BY <2>3 DEF vars, tailVars
  <2> QED
    BY <2>1, <2>2, <2>3
<1> QED
  BY <1>1, <1>2, Inductive, PTL DEF Spec, HitStreamImplemented, Page!Stream

-----------------------------------------------------------------------------
(* The prefill of a resend, next to a tail on the same log: the other      *)
(* reader whose position librdkafka moves when it is out of range.         *)

\* fetch_one() looks for the coordinate itself, or for one that is past it unless
\* the coordinate did not exist when the form was asked for.
SeekInv ==
    /\ ~lost => There
    /\ Known /\ ~beyond => coordinate[2] <= high[coordinate[1]]
    /\ formPc # "answered" => answer = "none"
    /\ formPc = "consume" => /\ ~lost => formPosition = coordinate[2]
                             /\ ~beyond => coordinate[2] <= formPosition

FInv ==
    /\ FormTypeOK
    /\ LogConsistent
    /\ SeekInv
    /\ FormFaithful

\* A coordinate is a pair of numbers.
LEMMA AskedIsPair ==
    ASSUME coordinate \in Asked
    PROVE  /\ coordinate[1] \in Nat /\ coordinate[2] \in Nat
           /\ coordinate = <<coordinate[1], coordinate[2]>>
  BY ResendAssumption

LEMMA InitFInv ==
    ASSUME FormInit
    PROVE  FInv
<1>1. LogTypeOK /\ LogConsistent
  BY InitialLog DEF FormInit
<1>2. FormTypeOK
  BY <1>1 DEF FormInit, FormTypeOK, There, Known
<1>3. Known /\ ~beyond => coordinate[2] <= high[coordinate[1]]
  <2>1. SUFFICES ASSUME Known, ~beyond
                 PROVE  coordinate[2] <= high[coordinate[1]]
    OBVIOUS
  <2>2. ~(high[coordinate[1]] < coordinate[2])
    BY <2>1 DEF FormInit
  <2>3. coordinate[1] \in Partitions
    BY <2>1 DEF Known
  <2>4. high[coordinate[1]] \in Nat /\ coordinate[2] \in Nat
    BY <1>1, <2>3, AskedIsPair, LogAssumption DEF FormInit, LogTypeOK
  <2> QED
    BY <2>2, <2>4
<1>4. SeekInv
  BY <1>3 DEF FormInit, SeekInv
<1>5. FormFaithful
  BY DEF FormInit, FormFaithful
<1> QED
  BY <1>1, <1>2, <1>4, <1>5 DEF FInv

\* The record the consumer delivers next is the one in question, if it is there,
\* and never one before its position.
LEMMA NextRecord ==
    ASSUME FInv, formPc = "consume", Known,
           NEW o \in FirstPending
    PROVE  /\ <<coordinate[1], o>> \in Coordinates
           /\ ~lost => o = coordinate[2]
           /\ ~beyond => coordinate[2] <= o
<1>1. /\ o \in log[coordinate[1]] /\ formPosition <= o
      /\ \A x \in log[coordinate[1]] : formPosition <= x => o <= x
  BY DEF FirstPending
<1>2. coordinate[1] \in Partitions /\ o \in 0 .. MaxHigh
  BY <1>1 DEF FInv, FormTypeOK, LogTypeOK, Known
<1>3. o \in Nat /\ formPosition \in Nat /\ coordinate[2] \in Nat
  BY <1>2, LogAssumption, AskedIsPair DEF FInv, FormTypeOK
<1>4. ASSUME ~lost PROVE o = coordinate[2]
  <2>1. formPosition = coordinate[2] /\ coordinate[2] \in log[coordinate[1]]
    BY <1>4 DEF FInv, SeekInv, There
  <2> QED
    BY <1>1, <1>3, <2>1
<1>5. ASSUME ~beyond PROVE coordinate[2] <= o
  BY <1>1, <1>3, <1>5 DEF FInv, SeekInv
<1> QED
  BY <1>2, <1>4, <1>5 DEF Coordinates

LEMMA FormStepKeepsFInv ==
    ASSUME FInv, FormStep \/ FormReset, UNCHANGED logVars
    PROVE  FInv'
<1>1. UNCHANGED <<low, high, log, coordinate, lost, beyond>>
  BY DEF FormStep, FormReset, GetTopic, FormAssign, FormConsume,
         FormTrouble, logVars
<1>2. LogTypeOK /\ LogConsistent /\ LogTypeOK' /\ LogConsistent'
  BY <1>1 DEF FInv, FormTypeOK, LogTypeOK, LogConsistent
<1>4. /\ (Known <=> Known') /\ (There <=> There')
  BY <1>1 DEF Known, There
<1>5. coordinate[2] \in Nat /\ formPosition \in Nat /\ coordinate \in Asked
  BY AskedIsPair DEF FInv, FormTypeOK
<1>6. /\ ~lost => There
      /\ Known /\ ~beyond => coordinate[2] <= high[coordinate[1]]
  BY DEF FInv, SeekInv
<1>7. ASSUME NEW a \in {"missing", "error"}, Answer(a), UNCHANGED <<formPosition, prefill>>
      PROVE  FInv'
  <2>1. formPc' = "answered" /\ answer' = a
    BY <1>7 DEF Answer
  <2>2. FormTypeOK'
    BY <1>1, <1>2, <1>7, <2>1 DEF FInv, FormTypeOK
  <2>3. SeekInv'
    BY <1>1, <1>4, <1>6, <2>1 DEF SeekInv
  <2>4. FormFaithful'
    BY <2>1 DEF FormFaithful
  <2> QED
    BY <1>2, <2>2, <2>3, <2>4 DEF FInv
<1>8. CASE GetTopic /\ formPc' = "assign"
  <2>1. answer' = "none" /\ UNCHANGED <<formPosition, prefill>>
    BY <1>8 DEF GetTopic, Answer, FInv, SeekInv
  <2>2. FormTypeOK'
    BY <1>1, <1>2, <1>8, <2>1 DEF FInv, FormTypeOK
  <2>3. SeekInv'
    BY <1>1, <1>4, <1>6, <1>8, <2>1 DEF SeekInv
  <2> QED
    BY <1>2, <2>1, <2>2, <2>3 DEF FInv, FormFaithful
<1>9. CASE FormAssign
  <2>1. /\ formPc' = "consume" /\ formPosition' = coordinate[2]
        /\ answer' = "none" /\ UNCHANGED <<answer, prefill>>
    BY <1>9 DEF FormAssign, StartAt, FInv, SeekInv
  <2>2. FormTypeOK'
    BY <1>1, <1>2, <1>5, <2>1 DEF FInv, FormTypeOK
  <2>3. SeekInv'
    BY <1>1, <1>4, <1>5, <1>6, <2>1 DEF SeekInv
  <2> QED
    BY <1>2, <2>1, <2>2, <2>3 DEF FInv, FormFaithful
<1>10. CASE FormReset
  <2>1. /\ formPc = "consume" /\ formPc' = "consume" /\ answer = "none"
        /\ Known /\ formPosition' = high[coordinate[1]]
        /\ formPosition < low[coordinate[1]] \/ high[coordinate[1]] < formPosition
        /\ UNCHANGED <<answer, prefill>>
    BY <1>10 DEF FormReset, FInv, SeekInv
  <2>2. /\ coordinate[1] \in Partitions
        /\ low[coordinate[1]] \in Nat /\ high[coordinate[1]] \in Nat
        /\ \A o \in log[coordinate[1]] : low[coordinate[1]] <= o /\ o < high[coordinate[1]]
    <3>1. coordinate[1] \in Partitions
      BY <2>1 DEF Known
    <3>2. low[coordinate[1]] \in 0 .. MaxHigh /\ high[coordinate[1]] \in 0 .. MaxHigh
      BY <1>2, <3>1 DEF LogTypeOK
    <3>3. low[coordinate[1]] \in Nat /\ high[coordinate[1]] \in Nat
      BY <3>2, LogAssumption
    <3>4. \A o \in log[coordinate[1]] : low[coordinate[1]] <= o /\ o < high[coordinate[1]]
      BY <1>2, <3>1 DEF LogConsistent
    <3> QED
      BY <3>1, <3>3, <3>4
  <2>3. lost
    <3>1. SUFFICES ASSUME ~lost PROVE FALSE
      BY DEF FInv, FormTypeOK
    <3>2. formPosition = coordinate[2] /\ coordinate[2] \in log[coordinate[1]]
      BY <1>6, <2>1, <3>1 DEF FInv, SeekInv, There
    <3> QED
      BY <1>5, <2>1, <2>2, <3>2
  <2>4. FormTypeOK'
    BY <1>1, <1>2, <2>1, <2>2 DEF FInv, FormTypeOK
  <2>5. SeekInv'
    BY <1>1, <1>4, <1>6, <2>1, <2>3 DEF SeekInv
  <2> QED
    BY <1>2, <2>1, <2>4, <2>5 DEF FInv, FormFaithful
<1>11. ASSUME NEW o \in FirstPending, formPc = "consume", Known,
              prefill' = <<coordinate[1], o>>, Answer("form"), UNCHANGED formPosition
       PROVE  FInv'
  <2>1. formPc' = "answered" /\ answer' = "form"
    BY <1>11 DEF Answer
  <2>2. /\ <<coordinate[1], o>> \in Coordinates
        /\ ~lost => o = coordinate[2]
        /\ ~beyond => coordinate[2] <= o
    BY <1>11, NextRecord
  <2>3. FormTypeOK'
    BY <1>1, <1>2, <1>11, <2>1, <2>2 DEF FInv, FormTypeOK
  <2>4. SeekInv'
    BY <1>1, <1>4, <1>6, <2>1 DEF SeekInv
  <2>5. coordinate = <<coordinate[1], coordinate[2]>> /\ o \in Nat
    BY <1>5, <2>2, AskedIsPair, LogAssumption DEF Coordinates
  <2>6. FormFaithful'
    BY <1>1, <1>5, <1>11, <2>2, <2>5 DEF FormFaithful
  <2> QED
    BY <1>2, <2>3, <2>4, <2>6 DEF FInv
<1> QED
  BY <1>7, <1>8, <1>9, <1>10, <1>11
  DEF FormStep, GetTopic, FormConsume, FormTrouble

\* Other clients write to the log and remove from it.
LEMMA LogStepKeepsFInv ==
    ASSUME FInv, LogNext, lost' = (lost \/ ~There'),
           UNCHANGED <<coordinate, formPc, formPosition, prefill, answer, beyond>>
    PROVE  FInv'
<1>1. LogTypeOK /\ LogConsistent /\ coordinate[2] \in Nat
  BY AskedIsPair DEF FInv, FormTypeOK
<1>2. /\ LogTypeOK' /\ LogConsistent'
      /\ \A p \in Partitions : high[p] <= high'[p]
  BY <1>1, LogStep
<1>3. \A p \in Partitions : high[p] \in Nat /\ high'[p] \in Nat
  BY <1>1, <1>2, LogAssumption DEF LogTypeOK
<1>5. lost' \in BOOLEAN /\ (~lost' => ~lost /\ There')
  BY DEF FInv, FormTypeOK
<1>6. FormTypeOK'
  BY <1>2, <1>5 DEF FInv, FormTypeOK
<1>7. Known' /\ ~beyond' => coordinate'[2] <= high'[coordinate'[1]]
  BY <1>1, <1>2, <1>3 DEF FInv, SeekInv, Known
<1>8. SeekInv'
  BY <1>5, <1>7 DEF FInv, SeekInv
<1>9. FormFaithful'
  BY <1>5 DEF FInv, FormFaithful
<1> QED
  BY <1>2, <1>6, <1>8, <1>9 DEF FInv

LEMMA FInvHolds == FormSpec => []FInv
<1>1. ASSUME FInv, [FormNext]_resendVars
      PROVE  FInv'
  <2>1. CASE FormNext
    BY <1>1, <2>1, FormStepKeepsFInv, LogStepKeepsFInv
    DEF FormNext, logVars
  <2>2. CASE UNCHANGED resendVars
    <3>1. UNCHANGED <<low, high, log, coordinate, formPc, formPosition, prefill, answer,
                      lost, beyond>>
      BY <2>2 DEF resendVars, logVars, formVars
    <3>2. FormTypeOK'
      BY <1>1, <3>1 DEF FInv, FormTypeOK, LogTypeOK
    <3>3. LogConsistent'
      BY <1>1, <3>1 DEF FInv, LogConsistent
    <3>4. SeekInv'
      BY <1>1, <3>1 DEF FInv, SeekInv, There, Known
    <3>5. FormFaithful'
      BY <1>1, <3>1 DEF FInv, FormFaithful
    <3> QED
      BY <3>2, <3>3, <3>4, <3>5 DEF FInv
  <2> QED
    BY <1>1, <2>1, <2>2
<1> QED
  BY <1>1, InitFInv, PTL DEF FormSpec

\* Every variable of the form has its type.
THEOREM FormTypeCorrect == FormSpec => []FormTypeOK
<1>1. FInv => FormTypeOK
  BY DEF FInv
<1> QED
  BY <1>1, FInvHolds, PTL

\* fetch_one() prefills the message asked for as long as it is in the log, and in any
\* case none before it unless the offset asked for was past the end.
THEOREM FormIsFaithful == FormSpec => []FormFaithful
<1>1. FInv => FormFaithful
  BY DEF FInv
<1> QED
  BY <1>1, FInvHolds, PTL
=============================================================================
