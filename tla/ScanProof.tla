------------------------------ MODULE ScanProof ------------------------------
(***************************************************************************)
(* Proofs about Scan, for every topic, request, budget and batch size.     *)
(***************************************************************************)
EXTENDS Scan, KafkaLogProof

-----------------------------------------------------------------------------
(* The inductive invariant                                                 *)

\* What holds at each await of the coroutine.
ControlInv ==
    /\ pc \notin {"list_topics", "close", "closed"} => Planned \subseteq Partitions
    /\ pc \in {"list_topics", "marks", "starts", "assign"} =>
         read = << >> /\ hits = << >>
    /\ pc \in {"loop", "consume"} => scanned = Len(read)
    /\ pc = "consume" => scanned < Budget
    /\ pc = "records" => scanned < Len(read)
    /\ outcome = "none" <=> pc \notin {"close", "closed"}
    /\ outcome = "none" => reason = "" /\ ~quiet

\* The watermarks _plan read are never ahead of the log.
MarksInv == \A p \in Partitions : marks[p].high <= high[p]

\* What was read lies in a planned partition, from its start on, ...
ReadInv ==
    \A i \in 1 .. Len(read) :
        /\ read[i][1] \in Planned
        /\ starts[read[i][1]] <= read[i][2]
        /\ read[i][2] < high[read[i][1]]

\* ... in offset order within the partition, ...
OrderInv ==
    \A i, j \in 1 .. Len(read) :
        i < j /\ read[i][1] = read[j][1] => read[i][2] < read[j][2]

\* ... and without a gap: what is still in the log below a record that was read
\* was read too.
GaplessInv ==
    \A i \in 1 .. Len(read) : \A o \in log[read[i][1]] :
        starts[read[i][1]] <= o /\ o < read[i][2] =>
            \E j \in 1 .. Len(read) : read[j] = <<read[i][1], o>>

BudgetInv ==
    /\ Len(read) <= Larger(0, Budget)
    /\ reason = BudgetSpent => /\ scanned = Larger(0, MaxScan)
                               /\ Total > MaxScan

\* A partition counted down to zero has nothing left in its window.
RemainingInv ==
    pc \in {"loop", "consume", "records"} =>
        \A p \in Planned : remaining[p] <= 0 =>
            \/ marks[p].high <= starts[p]
            \/ \E i \in 1 .. scanned :
                 read[i][1] = p /\ marks[p].high <= read[i][2] + 1

HitsInv ==
    /\ \A i \in 1 .. Len(hits) :
         hits[i] \in Matching /\ \E j \in 1 .. scanned : hits[i] = read[j]
    /\ outcome = "none" => Len(hits) < Larger(1, spec.limit)

\* Past the disconnect test there is at most one fetch.
DisconnectInv ==
    disconnected => /\ Len(read) <= goneAt + BatchMax
                    /\ pc = "consume" => Len(read) = goneAt

IInv ==
    /\ TypeOK
    /\ LogConsistent
    /\ ControlInv
    /\ MarksInv
    /\ ReadInv
    /\ OrderInv
    /\ GaplessInv
    /\ BudgetInv
    /\ RemainingInv
    /\ HitsInv
    /\ DisconnectInv
    /\ EndOfWindowComplete

-----------------------------------------------------------------------------
(* Lemmas                                                                  *)

\* A record that was read is a coordinate.
LEMMA CoordinateOf ==
    ASSUME TypeOK, NEW i \in 1 .. Len(read)
    PROVE  /\ read[i] \in Coordinates
           /\ read[i] = <<read[i][1], read[i][2]>>
           /\ read[i][1] \in Partitions
           /\ read[i][2] \in Nat
<1>1. read[i] \in Partitions \X (0 .. MaxHigh)
  BY DEF TypeOK, Coordinates
<1>2. read[i][1] \in Partitions /\ read[i][2] \in 0 .. MaxHigh
      /\ read[i] = <<read[i][1], read[i][2]>>
  BY <1>1
<1> QED
  BY <1>1, <1>2, LogAssumption DEF Coordinates

\* The window is finite, so the total and the budget _plan computes are integers, before a step and
\* after it.
LEMMA WindowFinite ==
    /\ IsFiniteSet(Window)
    /\ Total \in Nat
    /\ Budget \in Int
    /\ Budget <= Total
    /\ Budget <= MaxScan
    /\ Budget = Total \/ Budget = MaxScan
    /\ Total' \in Nat
    /\ Budget' \in Int
<1>1. Window \subseteq Coordinates /\ Window' \subseteq Coordinates
  BY DEF Window
<1>2. IsFiniteSet(Window) /\ Total \in Nat /\ Total' \in Nat
  BY <1>1, CoordinatesFinite DEF Total
<1> QED
  BY <1>2, ScanAssumption DEF Budget, Smaller

\* A step that leaves the plan alone leaves the window alone.
LEMMA PlanUnchanged ==
    ASSUME UNCHANGED <<spec, marks, starts>>
    PROVE  Planned' = Planned /\ Matching' = Matching /\ Window' = Window
           /\ Total' = Total /\ Budget' = Budget
<1>1. Planned' = Planned
  BY DEF Planned
<1>2. Window' = Window
  BY <1>1 DEF Window
<1> QED
  BY <1>1, <1>2 DEF Total, Budget, Matching

\* Before the scan reads its first record, the parts of the invariant that are
\* about records hold.
LEMMA NothingRead ==
    ASSUME read = << >>, hits = << >>, spec.limit \in Int
    PROVE  /\ ReadInv /\ OrderInv /\ GaplessInv
           /\ Len(read) <= Larger(0, Budget)
           /\ HitsInv
<1>1. Len(read) = 0 /\ Len(hits) = 0
  OBVIOUS
<1>2. Len(read) <= Larger(0, Budget)
  BY <1>1, WindowFinite DEF Larger
<1>3. HitsInv
  BY <1>1 DEF HitsInv, Larger
<1> QED
  BY <1>1, <1>2, <1>3 DEF ReadInv, OrderInv, GaplessInv

\* The same of the state after a step.
LEMMA NothingReadNext ==
    ASSUME read' = << >>, hits' = << >>, spec'.limit \in Int
    PROVE  /\ ReadInv' /\ OrderInv' /\ GaplessInv'
           /\ Len(read') <= Larger(0, Budget')
           /\ HitsInv'
<1>1. Len(read') = 0 /\ Len(hits') = 0
  OBVIOUS
<1>2. Len(read') <= Larger(0, Budget')
  BY <1>1, WindowFinite DEF Larger
<1>3. HitsInv'
  BY <1>1 DEF HitsInv, Larger
<1> QED
  BY <1>1, <1>2, <1>3 DEF ReadInv, OrderInv, GaplessInv

-----------------------------------------------------------------------------
(* Each kind of step keeps the invariant.                                  *)

LEMMA InitIInv == Init => IInv
<1> SUFFICES ASSUME Init PROVE IInv
  OBVIOUS
<1>0. MaxHigh \in Nat /\ MaxInitial \in 0 .. MaxHigh /\ Specs \subseteq ScanSpec
  BY LogAssumption, ScanAssumption
<1>1. LogTypeOK /\ LogConsistent
  BY <1>0, InitialLog DEF Init
<1>2. TypeOK
  <2>1. /\ marks = [p \in Partitions |-> [low |-> 0, high |-> 0]]
        /\ starts = [p \in Partitions |-> 0]
        /\ remaining = [p \in Partitions |-> 0]
        /\ read = << >> /\ hits = << >>
    BY DEF Init
  <2>2. marks \in [Partitions -> [low : 0 .. MaxHigh, high : 0 .. MaxHigh]]
    BY <1>0, <2>1
  <2>3. starts \in [Partitions -> 0 .. MaxHigh] /\ remaining \in [Partitions -> Int]
    BY <1>0, <2>1
  <2>4. read \in Seq(Coordinates) /\ hits \in Seq(Coordinates) /\ Len(read) = 0
    BY <2>1
  <2>5. 0 \in 0 .. Len(read)
    BY <2>4
  <2> QED
    BY <1>1, <2>2, <2>3, <2>4, <2>5 DEF Init, TypeOK, Reasons
<1>3. spec.limit \in Int
  BY <1>0 DEF Init, ScanSpec
<1>4. ControlInv
  BY DEF Init, ControlInv
<1>5. MarksInv
  <2>1. \A p \in Partitions : high[p] \in 0 .. MaxHigh
    BY <1>1 DEF LogTypeOK
  <2>2. \A p \in Partitions : marks[p].high = 0
    BY DEF Init
  <2> QED
    BY <1>0, <2>1, <2>2 DEF MarksInv
<1>6. ReadInv /\ OrderInv /\ GaplessInv /\ Len(read) <= Larger(0, Budget) /\ HitsInv
  BY <1>3, NothingRead DEF Init
<1>7. BudgetInv
  BY <1>6 DEF Init, BudgetInv, BudgetSpent
<1>8. RemainingInv /\ DisconnectInv /\ EndOfWindowComplete
  BY DEF Init, RemainingInv, DisconnectInv, EndOfWindowComplete, EndOfWindow
<1> QED
  BY <1>1, <1>2, <1>4, <1>5, <1>6, <1>7, <1>8 DEF IInv

\* The calls of _plan and assign: nothing is read yet, so what is left to show
\* of each is its types and where it leads.
LEMMA PlanningKeepsIInv ==
    ASSUME IInv, ListTopics \/ ReadMarks \/ ResolveStarts \/ Assign, UNCHANGED logVars
    PROVE  IInv'
<1>0. /\ MaxHigh \in Nat /\ BatchMax \in Nat /\ BatchMax > 0 /\ AnyPartition \notin Int
      /\ Specs \subseteq ScanSpec /\ Partitions \subseteq Nat /\ IsFiniteSet(Partitions)
      /\ Partitions # {}
  BY LogAssumption, ScanAssumption
<1>1. /\ pc \in {"list_topics", "marks", "starts", "assign"}
      /\ pc' \in {"marks", "starts", "assign", "loop", "close"}
      /\ UNCHANGED <<low, high, log, spec, read, scanned, hits, disconnected, goneAt, quiet>>
  BY DEF ListTopics, ReadMarks, ResolveStarts, Assign, Done, Raise, Continue, logVars
<1>2. /\ TypeOK /\ LogConsistent /\ ControlInv /\ MarksInv
  BY DEF IInv
<1>3. read = << >> /\ hits = << >> /\ outcome = "none" /\ reason = "" /\ ~quiet
  BY <1>1, <1>2 DEF ControlInv
<1>4. scanned = 0 /\ goneAt = 0 /\ Len(read) = 0
  <2>1. Len(read) = 0
    BY <1>3
  <2>2. scanned \in 0 .. Len(read) /\ goneAt \in 0 .. Len(read)
    BY <1>2 DEF TypeOK
  <2> QED
    BY <2>1, <2>2
<1>5. spec \in Specs /\ spec.limit \in Int /\ spec.lookback \in Int /\ spec'.limit \in Int
  BY <1>0, <1>1, <1>2 DEF TypeOK, ScanSpec
<1>6. /\ ReadInv' /\ OrderInv' /\ GaplessInv' /\ HitsInv'
      /\ Len(read') <= Larger(0, Budget')
  BY <1>1, <1>3, <1>5, NothingReadNext
<1>7. \/ pc' = "close" /\ outcome' \in {"done", "failed"} /\ reason' \in {"", NothingThere}
      \/ pc' # "close" /\ outcome' = "none" /\ reason' = ""
  BY <1>3 DEF ListTopics, ReadMarks, ResolveStarts, Assign, Done, Raise, Continue
<1>8. BudgetInv' /\ EndOfWindowComplete' /\ DisconnectInv' /\ LogConsistent'
  <2>1. reason' # BudgetSpent /\ reason' # EndOfWindow
    BY <1>7 DEF BudgetSpent, EndOfWindow, NothingThere
  <2>2. BudgetInv' /\ EndOfWindowComplete'
    BY <1>6, <2>1 DEF BudgetInv, EndOfWindowComplete
  <2>3. DisconnectInv'
    BY <1>0, <1>1, <1>4 DEF DisconnectInv
  <2>4. LogConsistent'
    BY <1>1, <1>2 DEF LogConsistent
  <2> QED
    BY <2>2, <2>3, <2>4
<1>9. Planned' = Planned /\ (pc # "list_topics" => Planned \subseteq Partitions)
  BY <1>1, <1>2 DEF Planned, ControlInv
<1>10. ControlInv'
  <2>1. pc' # "close" => Planned \subseteq Partitions
    <3>1. CASE pc = "list_topics"
      BY <3>1 DEF ListTopics, ReadMarks, ResolveStarts, Assign, Raise
    <3> QED
      BY <1>9, <3>1
  <2> QED
    BY <1>1, <1>3, <1>4, <1>7, <1>9, <2>1 DEF ControlInv
<1>11. TypeOK' /\ MarksInv' /\ RemainingInv'
  <2>0. SUFFICES /\ todo' \in SUBSET Partitions
                 /\ marks' \in [Partitions -> [low : 0 .. MaxHigh, high : 0 .. MaxHigh]]
                 /\ starts' \in [Partitions -> 0 .. MaxHigh]
                 /\ remaining' \in [Partitions -> Int]
                 /\ MarksInv' /\ RemainingInv'
    <3>1. LogTypeOK'
      BY <1>1, <1>2 DEF TypeOK, LogTypeOK
    <3>2. reason' \in Reasons
      BY <1>7 DEF Reasons
    <3> QED
      BY <1>1, <1>2, <1>7, <3>1, <3>2 DEF TypeOK
  <2>1. CASE ListTopics
    BY <1>1, <1>2, <2>1 DEF ListTopics, Raise, Continue, TypeOK, MarksInv, RemainingInv
  <2>2. CASE ReadMarks
    <3>1. PICK p \in todo : /\ marks' = [marks EXCEPT ![p] = Watermarks(p)]
                            /\ todo' = todo \ {p}
      BY <2>2 DEF ReadMarks
    <3>2. p \in Partitions /\ Watermarks(p) \in [low : 0 .. MaxHigh, high : 0 .. MaxHigh]
      BY <1>2 DEF TypeOK, LogTypeOK, Watermarks
    <3>3. marks' \in [Partitions -> [low : 0 .. MaxHigh, high : 0 .. MaxHigh]]
      BY <1>2, <3>1, <3>2 DEF TypeOK
    <3>4. MarksInv'
      BY <1>1, <1>2, <3>1, <3>2 DEF TypeOK, LogTypeOK, MarksInv, Watermarks
    <3>5. RemainingInv'
      BY <2>2 DEF ReadMarks, Continue, RemainingInv
    <3> QED
      BY <1>2, <2>2, <3>1, <3>3, <3>4, <3>5 DEF TypeOK, ReadMarks
  <2>3. CASE ResolveStarts
    <3>1. UNCHANGED <<todo, marks, remaining>>
      BY <2>3 DEF ResolveStarts
    <3>2. ASSUME NEW p \in Planned PROVE StartOf(p) \in 0 .. MaxHigh
      <4>1. /\ p \in Partitions /\ low[p] \in 0 .. MaxHigh /\ high[p] \in 0 .. MaxHigh
            /\ log[p] \subseteq 0 .. MaxHigh
            /\ marks[p].low \in 0 .. MaxHigh /\ marks[p].high \in 0 .. MaxHigh
        BY <1>2, <1>9, <2>3 DEF TypeOK, LogTypeOK, ResolveStarts
      <4>2. OffsetForTime(p) \in (0 .. MaxHigh) \cup {-1}
        BY <1>0, <1>2, <4>1, FirstAfter DEF TypeOK
      <4>3. Cardinality(Planned) \in Nat \ {0}
        <5>1. IsFiniteSet(Planned)
          BY <1>0, <1>9, <2>3, FS_Subset DEF ResolveStarts
        <5> QED
          BY <5>1, FS_CardinalityType, FS_EmptySet
      <4>4. spec.lookback \div Cardinality(Planned) \in Int
        BY <1>5, <4>3
      <4>5. spec.start \in {"latest", "earliest", "timestamp"}
        BY <1>0, <1>5 DEF ScanSpec
      <4> QED
        BY <1>0, <4>1, <4>2, <4>4, <4>5 DEF StartOf, TailStart, PerPartition, Larger
    <3>3. starts' \in [Partitions -> 0 .. MaxHigh]
      BY <1>0, <1>2, <2>3, <3>2 DEF ResolveStarts, TypeOK
    <3>4. MarksInv' /\ RemainingInv'
      BY <1>1, <1>2, <2>3, <3>1 DEF ResolveStarts, Raise, Done, Continue, MarksInv, RemainingInv
    <3> QED
      BY <1>2, <3>1, <3>3, <3>4 DEF TypeOK
  <2>4. CASE Assign
    <3>1. /\ remaining' = [p \in Partitions |->
                             IF p \in Planned THEN marks[p].high - starts[p] ELSE 0]
          /\ UNCHANGED <<todo, marks, starts>>
      BY <2>4 DEF Assign
    <3>2. \A p \in Partitions : marks[p].high \in Int /\ starts[p] \in Int
      BY <1>0, <1>2 DEF TypeOK
    <3>3. remaining' \in [Partitions -> Int]
      BY <3>1, <3>2
    <3>4. RemainingInv'
      BY <1>9, <2>4, <3>1, <3>2 DEF Assign, RemainingInv
    <3>5. MarksInv'
      BY <1>1, <1>2, <3>1 DEF MarksInv
    <3> QED
      BY <1>2, <3>1, <3>3, <3>4, <3>5 DEF TypeOK
  <2> QED
    BY <2>1, <2>2, <2>3, <2>4
<1> QED
  BY <1>6, <1>8, <1>10, <1>11 DEF IInv

LEMMA LogKeepsIInv ==
    ASSUME IInv, LogNext, UNCHANGED scanVars
    PROVE  IInv'
<1>0. MaxHigh \in Nat
  BY LogAssumption
<1>1. TypeOK /\ LogTypeOK /\ LogConsistent /\ MarksInv
  BY DEF IInv, TypeOK
<1>2. UNCHANGED <<spec, pc, todo, marks, starts, remaining, read, scanned, hits,
                  outcome, reason, disconnected, goneAt, quiet>>
  BY DEF scanVars
<1>3. /\ LogTypeOK' /\ LogConsistent'
      /\ \A p \in Partitions : /\ high[p] <= high'[p]
                               /\ \A o \in log'[p] : o \in log[p] \/ high[p] <= o
  BY <1>1, LogStep
<1>4. Planned' = Planned /\ Matching' = Matching /\ Window' = Window
      /\ Total' = Total /\ Budget' = Budget
  BY <1>2, PlanUnchanged
<1>5. \A p \in Partitions : /\ high[p] \in Nat /\ high'[p] \in Nat /\ marks[p].high \in Nat
                            /\ log'[p] \subseteq Nat
  BY <1>0, <1>1, <1>3 DEF TypeOK, LogTypeOK
<1>6. TypeOK'
  BY <1>1, <1>2, <1>3 DEF TypeOK
<1>7. MarksInv'
  BY <1>1, <1>2, <1>3, <1>5 DEF MarksInv
<1>8. \A i \in 1 .. Len(read) : read[i][1] \in Partitions /\ read[i][2] \in Nat
  BY <1>1, CoordinateOf
<1>9. ReadInv'
  BY <1>2, <1>3, <1>4, <1>5, <1>8 DEF IInv, ReadInv
<1>10. GaplessInv'
  <2> SUFFICES ASSUME NEW i \in 1 .. Len(read), NEW o \in log'[read[i][1]],
                      starts[read[i][1]] <= o, o < read[i][2]
               PROVE  \E j \in 1 .. Len(read) : read[j] = <<read[i][1], o>>
    BY <1>2 DEF GaplessInv
  <2>1. read[i][1] \in Partitions /\ read[i][2] \in Nat /\ read[i][2] < high[read[i][1]]
    BY <1>8 DEF IInv, ReadInv
  <2>2. o \in log[read[i][1]]
    BY <1>3, <1>5, <2>1
  <2> QED
    BY <2>2 DEF IInv, GaplessInv
<1>11. EndOfWindowComplete'
  <2>1. ASSUME NEW c \in Window, c[2] \in log'[c[1]] PROVE c[2] \in log[c[1]]
    <3>1. c[1] \in Partitions /\ c[2] \in Nat /\ c[2] < marks[c[1]].high
      BY <1>0 DEF Window, Coordinates
    <3> QED
      BY <1>1, <1>3, <1>5, <2>1, <3>1 DEF MarksInv
  <2> QED
    BY <1>2, <1>4, <2>1 DEF IInv, EndOfWindowComplete
<1>12. ControlInv' /\ OrderInv' /\ BudgetInv' /\ RemainingInv' /\ HitsInv' /\ DisconnectInv'
  BY <1>2, <1>4
     DEF IInv, ControlInv, OrderInv, BudgetInv, RemainingInv, HitsInv, DisconnectInv
<1> QED
  BY <1>3, <1>6, <1>7, <1>9, <1>10, <1>11, <1>12 DEF IInv

\* What lies in the window at or below a record that was read was read as well.
LEMMA WindowCovered ==
    ASSUME IInv, NEW c \in Window, c[2] \in log[c[1]],
           NEW i \in 1 .. Len(read), read[i][1] = c[1], c[2] <= read[i][2]
    PROVE  \E j \in 1 .. Len(read) : read[j] = c
<1>1. c \in Coordinates /\ starts[c[1]] <= c[2]
  BY DEF Window
<1>2. read[i] = <<c[1], read[i][2]>> /\ read[i][2] \in Nat
  BY CoordinateOf DEF IInv
<1>3. c = <<c[1], c[2]>> /\ c[2] \in Nat
  BY <1>1, LogAssumption DEF Coordinates
<1>4. CASE c[2] = read[i][2]
  <2>1. read[i] = c
    BY <1>2, <1>3, <1>4
  <2> QED
    BY <2>1
<1>5. CASE c[2] < read[i][2]
  <2>1. PICK j \in 1 .. Len(read) : read[j] = <<read[i][1], c[2]>>
    BY <1>1, <1>5 DEF IInv, GaplessInv
  <2> QED
    BY <1>3, <2>1
<1> QED
  BY <1>2, <1>3, <1>4, <1>5

\* If all that was read lies in the window and there is as much of it as the
\* window is large, then it is the window.
LEMMA WindowExhausted ==
    ASSUME IInv, Len(read) >= Total, \A i \in 1 .. Len(read) : read[i] \in Window
    PROVE  \A c \in Window : \E i \in 1 .. Len(read) : read[i] = c
<1>1. read \in Seq(Coordinates) /\ Len(read) \in Nat
  BY DEF IInv, TypeOK
<1>2. read \in [1 .. Len(read) -> Window]
  BY <1>1
<1>3. \A i, j \in 1 .. Len(read) : read[i] = read[j] => i = j
  <2> SUFFICES ASSUME NEW i \in 1 .. Len(read), NEW j \in 1 .. Len(read),
                      read[i] = read[j], i < j
               PROVE  FALSE
    BY <1>1
  <2>1. read[i][2] < read[j][2]
    BY DEF IInv, OrderInv
  <2>2. read[i][2] \in Int
    BY <1>1, LogAssumption DEF Coordinates
  <2> QED
    BY <2>1, <2>2
<1>4. read \in Injection(1 .. Len(read), Window)
  BY <1>2, <1>3 DEF Injection, IsInjective
<1>5. Cardinality(1 .. Len(read)) = Len(read)
  BY <1>1, FS_Interval
<1>6. /\ Cardinality(1 .. Len(read)) <= Cardinality(Window)
      /\ Cardinality(1 .. Len(read)) = Cardinality(Window)
           <=> read \in Surjection(1 .. Len(read), Window)
  BY <1>4, WindowFinite, FS_Injection
<1>7. read \in Surjection(1 .. Len(read), Window)
  BY <1>1, <1>5, <1>6, WindowFinite DEF Total
<1> QED
  BY <1>7 DEF Surjection

\* The head of the loop, an exception, the finally block and the browser leaving
\* change only where the coroutine is and what it reports.
LEMMA ControlKeepsIInv ==
    ASSUME IInv, LoopHead \/ BrokerTrouble \/ Close \/ Disconnect, UNCHANGED logVars
    PROVE  IInv'
<1>0. MaxScan \in Int /\ BatchMax \in Nat
  BY ScanAssumption
<1>1. UNCHANGED <<low, high, log, spec, todo, marks, starts, remaining, read, scanned,
                  hits, quiet>>
  BY DEF LoopHead, BrokerTrouble, Close, Disconnect, logVars
<1>2. Planned' = Planned /\ Matching' = Matching /\ Window' = Window
      /\ Total' = Total /\ Budget' = Budget
  BY <1>1, PlanUnchanged
<1>3. TypeOK /\ ControlInv /\ Len(read) \in Nat /\ scanned \in 0 .. Len(read)
      /\ goneAt \in 0 .. Len(read)
  BY DEF IInv, TypeOK
<1>4. LogConsistent' /\ MarksInv' /\ ReadInv' /\ OrderInv' /\ GaplessInv'
  BY <1>1, <1>2 DEF IInv, LogConsistent, MarksInv, ReadInv, OrderInv, GaplessInv
<1>5. LogTypeOK'
  BY <1>1, <1>3 DEF TypeOK, LogTypeOK
<1>6. CASE LoopHead
  <2>1. /\ pc = "loop" /\ scanned = Len(read) /\ outcome = "none" /\ reason = ""
        /\ ~quiet
    BY <1>3, <1>6 DEF LoopHead, ControlInv
  <2>len. Len(read) \in Nat /\ Len(read) = scanned
    BY <1>3, <2>1
  <2>2. UNCHANGED <<disconnected, goneAt>>
    BY <1>6 DEF LoopHead
  <2>3. \/ pc' = "close" /\ outcome' = "done" /\ reason' = Cancelled
        \/ /\ pc' = "close" /\ outcome' = "done"
           /\ scanned >= Budget /\ Budget < Total /\ reason' = BudgetSpent
        \/ /\ pc' = "close" /\ outcome' = "done"
           /\ scanned >= Budget /\ ~(Budget < Total) /\ reason' = EndOfWindow
        \/ /\ pc' = "close" /\ outcome' = "done"
           /\ WindowRead /\ reason' = EndOfWindow
        \/ /\ pc' = "consume" /\ outcome' = "none" /\ reason' = ""
           /\ ~disconnected /\ scanned < Budget
    BY <1>6, <2>1 DEF LoopHead, Done, Continue, StopReading
  <2>4. TypeOK'
    BY <1>1, <1>3, <1>5, <2>2, <2>3 DEF TypeOK, Reasons
  <2>5. ControlInv'
    BY <1>1, <1>2, <1>3, <2>1, <2>3 DEF ControlInv
  <2>6. BudgetInv'
    <3>1. Len(read') <= Larger(0, Budget')
      BY <1>1, <1>2 DEF IInv, BudgetInv
    <3>2. ASSUME reason' = BudgetSpent
          PROVE  scanned' = Larger(0, MaxScan) /\ Total' > MaxScan
      <4>1. scanned >= Budget /\ Budget < Total
        BY <2>3, <3>2 DEF BudgetSpent, EndOfWindow, Cancelled
      <4>2. Budget = MaxScan /\ Budget \in Int /\ Total \in Nat
        BY <4>1, WindowFinite
      <4>3. Len(read) <= Larger(0, MaxScan)
        BY <4>2 DEF IInv, BudgetInv
      <4>4. scanned = Larger(0, MaxScan) /\ Total > MaxScan
        BY <1>0, <2>len, <4>1, <4>2, <4>3 DEF Larger
      <4> QED
        BY <1>1, <1>2, <4>4
    <3> QED
      BY <3>1, <3>2 DEF BudgetInv
  <2>7. EndOfWindowComplete'
    <3>1. ASSUME reason' = EndOfWindow, \A i \in 1 .. Len(read) : read[i] \in Window,
                 NEW c \in Window, c[2] \in log[c[1]]
          PROVE  \E i \in 1 .. Len(read) : read[i] = c
      <4>1. CASE scanned >= Budget /\ ~(Budget < Total)
        <5>1. Total \in Nat /\ Budget \in Int /\ Budget <= Total
          BY WindowFinite
        <5>2. Len(read) >= Total
          BY <2>len, <4>1, <5>1
        <5> QED
          BY <3>1, <5>2, WindowExhausted
      <4>2. CASE WindowRead
        <5>1. /\ c[1] \in Planned /\ starts[c[1]] <= c[2] /\ c[2] < marks[c[1]].high
              /\ c[2] \in Nat /\ c[1] \in Partitions
          BY LogAssumption DEF Window, Coordinates
        <5>2. starts[c[1]] \in Int /\ marks[c[1]].high \in Int
          BY <1>3, <5>1, LogAssumption DEF TypeOK
        <5>3. PICK i \in 1 .. scanned :
                     read[i][1] = c[1] /\ marks[c[1]].high <= read[i][2] + 1
          <6>1. remaining[c[1]] <= 0
            BY <4>2, <5>1 DEF WindowRead
          <6>2. \/ marks[c[1]].high <= starts[c[1]]
                \/ \E i \in 1 .. scanned :
                     read[i][1] = c[1] /\ marks[c[1]].high <= read[i][2] + 1
            BY <2>1, <5>1, <6>1 DEF IInv, RemainingInv
          <6> QED
            BY <5>1, <5>2, <6>2
        <5>4. i \in 1 .. Len(read) /\ read[i][2] \in Nat
          BY <1>3, <2>1, <5>3, CoordinateOf
        <5>5. c[2] <= read[i][2]
          BY <5>1, <5>2, <5>3, <5>4
        <5> QED
          BY <3>1, <5>3, <5>4, <5>5, WindowCovered
      <4> QED
        BY <2>3, <3>1, <4>1, <4>2 DEF BudgetSpent, EndOfWindow, Cancelled
    <3> QED
      BY <1>1, <1>2, <2>1, <3>1 DEF EndOfWindowComplete
  <2>8. RemainingInv' /\ HitsInv' /\ DisconnectInv'
    BY <1>1, <1>2, <2>1, <2>2, <2>3 DEF IInv, RemainingInv, HitsInv, DisconnectInv
  <2> QED
    BY <1>4, <2>4, <2>5, <2>6, <2>7, <2>8 DEF IInv
<1>7. CASE BrokerTrouble \/ Close
  <2>1. UNCHANGED <<disconnected, goneAt, reason>>
    BY <1>7 DEF BrokerTrouble, Close, Raise, Continue
  <2>2. \/ pc' = "close" /\ outcome = "none" /\ outcome' = "failed"
        \/ pc' = "closed" /\ outcome # "none" /\ outcome' = outcome
    BY <1>3, <1>7 DEF BrokerTrouble, Close, Raise, Continue, ControlInv
  <2>3. TypeOK'
    BY <1>1, <1>3, <1>5, <2>1, <2>2 DEF TypeOK
  <2>4. ControlInv'
    BY <1>1, <1>2, <1>3, <2>1, <2>2 DEF ControlInv
  <2>5. BudgetInv' /\ RemainingInv' /\ HitsInv' /\ DisconnectInv' /\ EndOfWindowComplete'
    BY <1>1, <1>2, <2>1, <2>2 DEF IInv, BudgetInv, RemainingInv, HitsInv, DisconnectInv,
                                  EndOfWindowComplete
  <2> QED
    BY <1>4, <2>3, <2>4, <2>5 DEF IInv
<1>8. CASE Disconnect
  <2>1. /\ UNCHANGED <<pc, outcome, reason>>
        /\ disconnected' = TRUE /\ goneAt' = Len(read)
    BY <1>8 DEF Disconnect
  <2>2. TypeOK'
    BY <1>1, <1>3, <1>5, <2>1 DEF TypeOK
  <2>3. DisconnectInv'
    BY <1>0, <1>1, <1>3, <2>1 DEF DisconnectInv
  <2>4. ControlInv' /\ BudgetInv' /\ RemainingInv' /\ HitsInv' /\ EndOfWindowComplete'
    BY <1>1, <1>2, <2>1 DEF IInv, ControlInv, BudgetInv, RemainingInv, HitsInv,
                            EndOfWindowComplete
  <2> QED
    BY <1>4, <2>2, <2>3, <2>4 DEF IInv
<1> QED
  BY <1>6, <1>7, <1>8

\* What a fetch returns continues what was read.
LEMMA BatchContinues ==
    ASSUME IInv, pc = "consume", NEW b \in Fetches(PendingRecords, BatchSize), read' = read \o b,
           UNCHANGED <<low, high, log, spec, marks, starts>>
    PROVE  /\ b \in Seq(Coordinates) /\ read' \in Seq(Coordinates)
           /\ Len(read') = Len(read) + Len(b)
           /\ Len(b) <= BatchMax
           /\ Len(read') <= Larger(0, Budget)
           /\ ReadInv' /\ OrderInv' /\ GaplessInv'
<1>0. MaxHigh \in Nat /\ BatchMax \in Nat /\ BatchMax > 0
  BY LogAssumption, ScanAssumption
<1>1. TypeOK /\ LogConsistent /\ ReadInv /\ OrderInv /\ GaplessInv
  BY DEF IInv
<1>2. /\ read \in Seq(Coordinates) /\ Len(read) \in Nat
      /\ scanned = Len(read) /\ scanned < Budget
  <2>1. read \in Seq(Coordinates)
    BY DEF IInv, TypeOK
  <2>2. scanned = Len(read) /\ scanned < Budget
    BY DEF IInv, ControlInv
  <2> QED
    BY <2>1, <2>2
<1>3. Budget \in Int
  BY WindowFinite
<1>4. BatchSize \in Nat /\ BatchSize <= BatchMax /\ BatchSize <= Budget - scanned
  BY <1>0, <1>2, <1>3 DEF BatchSize, Larger, Smaller
<1>5. PICK k \in 0 .. BatchSize : b \in [1 .. k -> PendingRecords]
  BY DEF Fetches
<1>6. b \in Seq(PendingRecords) /\ Len(b) = k /\ k \in Nat
  BY <1>4, <1>5
<1>7. \A i \in 1 .. Len(b) : \A c \in PendingRecords : c[1] = b[i][1] =>
        (c[2] < b[i][2] <=> \E j \in 1 .. i - 1 : b[j] = c)
  BY <1>5, <1>6 DEF Fetches
<1>8. b \in Seq(Coordinates)
  BY <1>6 DEF PendingRecords
<1>9. /\ Len(read') = Len(read) + Len(b) /\ read' \in Seq(Coordinates)
      /\ \A i \in 1 .. Len(read) : read'[i] = read[i]
      /\ \A i \in Len(read) + 1 .. Len(read') :
           read'[i] = b[i - Len(read)] /\ i - Len(read) \in 1 .. Len(b)
  BY <1>2, <1>8
<1>10. \A i \in 1 .. Len(b) :
         /\ b[i] \in Coordinates /\ b[i] \in PendingRecords
         /\ b[i][1] \in Planned /\ b[i][1] \in Partitions
         /\ b[i][2] \in Nat /\ b[i][2] \in log[b[i][1]]
         /\ starts[b[i][1]] <= b[i][2]
         /\ \A m \in 1 .. Len(read) : read[m][1] = b[i][1] => read[m][2] < b[i][2]
  <2> SUFFICES ASSUME NEW i \in 1 .. Len(b)
               PROVE  /\ b[i] \in Coordinates /\ b[i] \in PendingRecords
                      /\ b[i][1] \in Planned /\ b[i][1] \in Partitions
                      /\ b[i][2] \in Nat /\ b[i][2] \in log[b[i][1]]
                      /\ starts[b[i][1]] <= b[i][2]
                      /\ \A m \in 1 .. Len(read) : read[m][1] = b[i][1] => read[m][2] < b[i][2]
    OBVIOUS
  <2>1. b[i] \in PendingRecords
    BY <1>6
  <2>2. b[i] \in Coordinates /\ b[i][1] \in Planned /\ b[i][2] \in Pending(b[i][1])
    BY <2>1 DEF PendingRecords
  <2>3. b[i][1] \in Partitions /\ b[i][2] \in Nat
    BY <1>0, <2>2 DEF Coordinates
  <2> QED
    BY <2>1, <2>2, <2>3 DEF Pending
<1>11. Planned' = Planned
  BY DEF Planned
<1>12. ReadInv'
  <2> SUFFICES ASSUME NEW i \in 1 .. Len(read')
               PROVE  /\ read'[i][1] \in Planned
                      /\ starts[read'[i][1]] <= read'[i][2]
                      /\ read'[i][2] < high[read'[i][1]]
    BY <1>11 DEF ReadInv
  <2>1. CASE i \in 1 .. Len(read)
    BY <1>1, <1>9, <2>1 DEF ReadInv
  <2>2. CASE i \in Len(read) + 1 .. Len(read')
    BY <1>1, <1>9, <1>10, <2>2 DEF LogConsistent
  <2> QED
    BY <1>2, <1>6, <1>9, <2>1, <2>2
<1>13. OrderInv'
  <2> SUFFICES ASSUME NEW i \in 1 .. Len(read'), NEW j \in 1 .. Len(read'), i < j,
                      read'[i][1] = read'[j][1]
               PROVE  read'[i][2] < read'[j][2]
    BY DEF OrderInv
  <2>1. CASE j \in 1 .. Len(read)
    <3>1. i \in 1 .. Len(read)
      BY <1>2, <1>6, <1>9, <2>1
    <3> QED
      BY <1>1, <1>9, <2>1, <3>1 DEF OrderInv
  <2>2. CASE i \in 1 .. Len(read) /\ j \in Len(read) + 1 .. Len(read')
    BY <1>9, <1>10, <2>2
  <2>3. CASE i \in Len(read) + 1 .. Len(read') /\ j \in Len(read) + 1 .. Len(read')
    <3> DEFINE m == i - Len(read)
               n == j - Len(read)
    <3>1. m \in 1 .. Len(b) /\ n \in 1 .. Len(b) /\ m \in 1 .. n - 1
      BY <1>2, <1>6, <1>9, <2>3
    <3>2. read'[i] = b[m] /\ read'[j] = b[n]
      BY <1>9, <2>3
    <3>3. b[m] \in PendingRecords /\ b[m][1] = b[n][1]
      BY <1>10, <3>1, <3>2
    <3>4. b[m][2] < b[n][2]
      BY <1>7, <3>1, <3>3
    <3> QED
      BY <3>2, <3>4
  <2> QED
    BY <1>2, <1>6, <1>9, <2>1, <2>2, <2>3
<1>14. GaplessInv'
  <2> SUFFICES ASSUME NEW i \in 1 .. Len(read'), NEW o \in log[read'[i][1]],
                      starts[read'[i][1]] <= o, o < read'[i][2]
               PROVE  \E j \in 1 .. Len(read') : read'[j] = <<read'[i][1], o>>
    BY DEF GaplessInv
  <2>0. \A j \in 1 .. Len(read) : j \in 1 .. Len(read')
    BY <1>2, <1>6, <1>9
  <2>1. CASE i \in 1 .. Len(read)
    <3>1. PICK j \in 1 .. Len(read) : read[j] = <<read[i][1], o>>
      BY <1>1, <1>9, <2>1 DEF GaplessInv
    <3> QED
      BY <1>9, <2>0, <2>1, <3>1
  <2>2. CASE i \in Len(read) + 1 .. Len(read')
    <3> DEFINE n == i - Len(read)
               p == b[n][1]
               c == <<p, o>>
    <3>1. n \in 1 .. Len(b) /\ read'[i] = b[n]
      BY <1>9, <2>2
    <3>2. p \in Planned /\ p \in Partitions /\ o \in log[p] /\ starts[p] <= o /\ o < b[n][2]
      BY <1>10, <3>1
    <3>3. c \in Coordinates
      BY <1>1, <3>2 DEF TypeOK, LogTypeOK, Coordinates
    <3>4. CASE \A m \in 1 .. Len(read) : read[m][1] = p => read[m][2] < o
      <4>1. c \in PendingRecords
        BY <3>2, <3>3, <3>4 DEF PendingRecords, Pending
      <4>2. PICK j \in 1 .. n - 1 : b[j] = c
        BY <1>7, <3>1, <3>2, <4>1
      <4>3. /\ Len(read) + j \in Len(read) + 1 .. Len(read')
            /\ Len(read) + j \in 1 .. Len(read')
            /\ (Len(read) + j) - Len(read) = j
        BY <1>2, <1>6, <1>9, <3>1
      <4>4. read'[Len(read) + j] = c
        BY <1>9, <4>2, <4>3
      <4> QED
        BY <3>1, <4>3, <4>4
    <3>5. ASSUME NEW m \in 1 .. Len(read), read[m][1] = p, ~(read[m][2] < o)
          PROVE  \E j \in 1 .. Len(read) : read[j] = c
      <4>1. read[m] = <<p, read[m][2]>> /\ read[m][2] \in Nat /\ o \in Nat
        <5>1. read[m] = <<p, read[m][2]>> /\ read[m][2] \in Nat
          BY <1>1, <3>5, CoordinateOf
        <5>2. o \in 0 .. MaxHigh
          BY <1>1, <3>2 DEF TypeOK, LogTypeOK
        <5> QED
          BY <1>0, <5>1, <5>2
      <4>2. CASE read[m][2] = o
        <5>1. read[m] = c
          BY <4>1, <4>2
        <5> QED
          BY <5>1
      <4>3. CASE o < read[m][2]
        BY <1>1, <3>2, <3>5, <4>3 DEF GaplessInv
      <4> QED
        BY <3>5, <4>1, <4>2, <4>3
    <3>6. CASE \E m \in 1 .. Len(read) : read[m][1] = p /\ ~(read[m][2] < o)
      <4>1. PICK j \in 1 .. Len(read) : read[j] = c
        BY <3>5, <3>6
      <4> QED
        BY <1>9, <2>0, <3>1, <4>1
    <3>7. \/ \A m \in 1 .. Len(read) : read[m][1] = p => read[m][2] < o
          \/ \E m \in 1 .. Len(read) : read[m][1] = p /\ ~(read[m][2] < o)
      OBVIOUS
    <3> QED
      BY <3>4, <3>6, <3>7
  <2>3. i \in 1 .. Len(read) \/ i \in Len(read) + 1 .. Len(read')
    BY <1>2, <1>6, <1>9
  <2> QED
    BY <2>1, <2>2, <2>3
<1>15. Len(read') <= Larger(0, Budget)
  BY <1>2, <1>3, <1>4, <1>5, <1>6, <1>9 DEF Larger
<1> QED
  BY <1>0, <1>4, <1>6, <1>8, <1>9, <1>12, <1>13, <1>14, <1>15

LEMMA ConsumeKeepsIInv ==
    ASSUME IInv, Consume, UNCHANGED logVars
    PROVE  IInv'
<1>0. MaxHigh \in Nat /\ BatchMax \in Nat
  BY LogAssumption, ScanAssumption
<1>1. /\ pc = "consume"
      /\ UNCHANGED <<low, high, log, spec, todo, marks, starts, remaining, scanned, hits,
                     disconnected, goneAt>>
  BY DEF Consume, logVars
<1>2. PICK b \in Fetches(PendingRecords, BatchSize) :
        /\ read' = read \o b
        /\ IF b = << >> THEN EmptyBatch ELSE Continue("records")
        /\ quiet' = (b = << >> /\ PendingRecords \cap Window # {})
  BY DEF Consume
<1>3. /\ b \in Seq(Coordinates) /\ read' \in Seq(Coordinates)
      /\ Len(read') = Len(read) + Len(b) /\ Len(b) <= BatchMax
      /\ Len(read') <= Larger(0, Budget)
      /\ ReadInv' /\ OrderInv' /\ GaplessInv'
  BY <1>1, <1>2, BatchContinues
<1>4. Planned' = Planned /\ Matching' = Matching /\ Window' = Window
      /\ Total' = Total /\ Budget' = Budget
  BY <1>1, PlanUnchanged
<1>5. TypeOK /\ ControlInv /\ Len(read) \in Nat /\ Len(b) \in Nat
  BY <1>3 DEF IInv, TypeOK
<1>6. scanned = Len(read) /\ goneAt \in 0 .. Len(read) /\ outcome = "none" /\ reason = ""
  BY <1>1, <1>5 DEF ControlInv, TypeOK
<1>len. /\ Len(read) \in Nat /\ Len(b) \in Nat /\ Len(read') = Len(read) + Len(b)
        /\ Len(b) <= BatchMax /\ BatchMax \in Nat
        /\ scanned = Len(read) /\ goneAt \in 0 .. Len(read)
        /\ scanned' = scanned /\ goneAt' = goneAt
  BY <1>0, <1>1, <1>3, <1>5, <1>6
<1>7. \A i \in 1 .. Len(read) : read'[i] = read[i]
  BY <1>2, <1>3, <1>5 DEF TypeOK
<1>8. \/ /\ b = << >> /\ pc' = "close" /\ outcome' = "done" /\ reason' = EndOfWindow
      \/ /\ b # << >> /\ pc' = "records" /\ outcome' = "none" /\ reason' = "" /\ ~quiet'
  BY <1>2, <1>6 DEF EmptyBatch, Done, Continue
<1>9. TypeOK'
  <2>1. LogTypeOK'
    BY <1>1, <1>5 DEF TypeOK, LogTypeOK
  <2>2. scanned' \in 0 .. Len(read') /\ goneAt' \in 0 .. Len(read')
    BY <1>len
  <2>3. quiet' \in BOOLEAN
    BY <1>2
  <2> QED
    BY <1>1, <1>3, <1>5, <1>8, <2>1, <2>2, <2>3 DEF TypeOK, Reasons
<1>10. ControlInv'
  <2>1. b # << >> => Len(b) > 0
    BY <1>3, <1>len
  <2>2. b # << >> => scanned' < Len(read')
    BY <1>len, <2>1
  <2> QED
    BY <1>1, <1>4, <1>5, <1>8, <2>2 DEF ControlInv
<1>11. LogConsistent' /\ MarksInv'
  BY <1>1 DEF IInv, LogConsistent, MarksInv
<1>12. BudgetInv'
  BY <1>3, <1>4, <1>8 DEF BudgetInv, BudgetSpent, EndOfWindow
<1>13. RemainingInv'
  <2>1. \A i \in 1 .. scanned : read'[i] = read[i]
    BY <1>6, <1>7
  <2> QED
    BY <1>1, <1>4, <1>8, <2>1 DEF IInv, RemainingInv
<1>14. HitsInv'
  <2>1. \A i \in 1 .. scanned : read'[i] = read[i]
    BY <1>6, <1>7
  <2> QED
    <3>1. \A i \in 1 .. Len(hits) : \E j \in 1 .. scanned : hits[i] = read'[j]
      BY <2>1 DEF IInv, HitsInv
    <3>2. Len(hits') < Larger(1, spec'.limit)
      BY <1>1, <1>6 DEF IInv, HitsInv
    <3>3. \A i \in 1 .. Len(hits) : hits[i] \in Matching
      BY DEF IInv, HitsInv
    <3> QED
      BY <1>1, <1>4, <3>1, <3>2, <3>3 DEF HitsInv
<1>15. DisconnectInv'
  <2>1. disconnected => Len(read) = goneAt
    BY <1>1 DEF IInv, DisconnectInv
  <2>2. disconnected => Len(read') <= goneAt' + BatchMax
    BY <1>len, <2>1
  <2> QED
    BY <1>1, <1>8, <2>2 DEF DisconnectInv
<1>16. EndOfWindowComplete'
  <2>1. ASSUME b = << >>, ~quiet', NEW c \in Window, c[2] \in log[c[1]]
        PROVE  \E i \in 1 .. Len(read) : read[i] = c
    <3>1. c \in Coordinates /\ c[1] \in Planned /\ starts[c[1]] <= c[2]
      BY DEF Window
    <3>2. c \notin PendingRecords
      BY <1>2, <2>1
    <3>3. PICK i \in 1 .. Len(read) : read[i][1] = c[1] /\ ~(read[i][2] < c[2])
      BY <2>1, <3>1, <3>2 DEF PendingRecords, Pending
    <3>4. read[i][2] \in Nat /\ c[2] \in Nat
      BY <1>0, <1>5, <3>1, CoordinateOf DEF Coordinates
    <3> QED
      BY <2>1, <3>3, <3>4, WindowCovered
  <2>2. b = << >> => Len(read') = Len(read)
    BY <1>3, <1>5
  <2> QED
    BY <1>1, <1>4, <1>6, <1>7, <1>8, <2>1, <2>2 DEF EndOfWindowComplete, EndOfWindow
<1> QED
  BY <1>3, <1>9, <1>10, <1>11, <1>12, <1>13, <1>14, <1>15, <1>16 DEF IInv

LEMMA ProcessKeepsIInv ==
    ASSUME IInv, ProcessRecord, UNCHANGED logVars
    PROVE  IInv'
<1> DEFINE c == read[scanned + 1]
<1>0. MaxHigh \in Nat
  BY LogAssumption
<1>1. /\ pc = "records"
      /\ UNCHANGED <<low, high, log, spec, todo, marks, starts, read, disconnected,
                     goneAt, quiet>>
      /\ scanned' = scanned + 1
      /\ remaining' = [remaining EXCEPT ![c[1]] = LeftAfter(c)]
      /\ hits' = IF c \in Matching THEN Append(hits, c) ELSE hits
      /\ IF c \in Matching /\ LimitHit(Len(hits'))
           THEN Done(LimitReached)
           ELSE Continue(IF scanned' = Len(read) THEN "loop" ELSE "records")
  BY DEF ProcessRecord, logVars
<1>2. TypeOK /\ ControlInv
  BY DEF IInv
<1>3. outcome = "none" /\ reason = "" /\ ~quiet /\ scanned < Len(read)
  BY <1>1, <1>2 DEF ControlInv
<1>4. Planned' = Planned /\ Matching' = Matching /\ Window' = Window
      /\ Total' = Total /\ Budget' = Budget
  BY <1>1, PlanUnchanged
<1>5. /\ Len(read) \in Nat /\ scanned \in Nat /\ scanned + 1 \in 1 .. Len(read)
      /\ scanned' \in 0 .. Len(read)
  <2>1. Len(read) \in Nat /\ scanned \in 0 .. Len(read)
    BY <1>2 DEF TypeOK
  <2>2. scanned' = scanned + 1 /\ scanned < Len(read)
    BY <1>1, <1>3
  <2> QED
    BY <2>1, <2>2
<1>6. c \in Coordinates /\ c[1] \in Partitions /\ c[2] \in Nat
  BY <1>2, <1>5, CoordinateOf
<1>7. marks[c[1]].high \in Nat /\ LeftAfter(c) = marks[c[1]].high - c[2] - 1 /\ LeftAfter(c) \in Int
  <2>1. marks[c[1]].high \in 0 .. MaxHigh
    BY <1>2, <1>6 DEF TypeOK
  <2> QED
    BY <1>0, <1>6, <2>1 DEF LeftAfter
<1>8. \/ /\ pc' = "close" /\ outcome' = "done" /\ reason' = LimitReached
      \/ /\ pc' = "loop" /\ outcome' = "none" /\ reason' = "" /\ scanned' = Len(read)
         /\ ~(c \in Matching /\ LimitHit(Len(hits')))
      \/ /\ pc' = "records" /\ outcome' = "none" /\ reason' = "" /\ scanned' # Len(read)
         /\ ~(c \in Matching /\ LimitHit(Len(hits')))
  BY <1>1, <1>3 DEF Done, Continue
<1>9. hits \in Seq(Coordinates) /\ hits' \in Seq(Coordinates)
  BY <1>1, <1>2, <1>6 DEF TypeOK
<1>10. TypeOK'
  <2>1. LogTypeOK'
    BY <1>1, <1>2 DEF TypeOK, LogTypeOK
  <2>2. remaining' \in [Partitions -> Int]
    BY <1>1, <1>2, <1>6, <1>7 DEF TypeOK
  <2> QED
    BY <1>1, <1>2, <1>5, <1>8, <1>9, <2>1, <2>2 DEF TypeOK, Reasons
<1>11. ControlInv'
  <2>1. scanned' # Len(read) => scanned' < Len(read')
    BY <1>1, <1>5
  <2> QED
    BY <1>1, <1>2, <1>3, <1>4, <1>8, <2>1 DEF ControlInv
<1>12. LogConsistent' /\ MarksInv' /\ ReadInv' /\ OrderInv' /\ GaplessInv'
  BY <1>1, <1>4 DEF IInv, LogConsistent, MarksInv, ReadInv, OrderInv, GaplessInv
<1>13. BudgetInv' /\ EndOfWindowComplete'
  <2>1. reason' # BudgetSpent /\ reason' # EndOfWindow
    BY <1>8 DEF BudgetSpent, EndOfWindow, LimitReached
  <2>2. Len(read') <= Larger(0, Budget')
    BY <1>1, <1>4 DEF IInv, BudgetInv
  <2> QED
    BY <2>1, <2>2 DEF BudgetInv, EndOfWindowComplete
<1>14. RemainingInv'
  <2> SUFFICES ASSUME NEW p \in Planned, remaining'[p] <= 0
               PROVE  \/ marks[p].high <= starts[p]
                      \/ \E i \in 1 .. scanned + 1 :
                           read[i][1] = p /\ marks[p].high <= read[i][2] + 1
    BY <1>1, <1>4 DEF RemainingInv
  <2>1. p \in Partitions
    BY <1>1, <1>2 DEF ControlInv
  <2>2. CASE p = c[1]
    <3>1. remaining'[p] = LeftAfter(c)
      BY <1>1, <1>2, <2>1, <2>2 DEF TypeOK
    <3>2. marks[p].high <= c[2] + 1
      BY <1>6, <1>7, <2>2, <3>1
    <3>3. scanned + 1 \in 1 .. scanned + 1
      BY <1>5
    <3> QED
      BY <2>2, <3>2, <3>3
  <2>3. CASE p # c[1]
    <3>1. remaining[p] <= 0
      BY <1>1, <1>2, <2>1, <2>3 DEF TypeOK
    <3>2. \/ marks[p].high <= starts[p]
          \/ \E i \in 1 .. scanned : read[i][1] = p /\ marks[p].high <= read[i][2] + 1
      BY <1>1, <3>1 DEF IInv, RemainingInv
    <3>3. \A i \in 1 .. scanned : i \in 1 .. scanned + 1
      BY <1>5
    <3> QED
      BY <3>2, <3>3
  <2> QED
    BY <2>2, <2>3
<1>15. HitsInv'
  <2>0. HitsInv /\ spec.limit \in Int
    BY <1>2, ScanAssumption DEF IInv, TypeOK, ScanSpec
  <2>1. ASSUME NEW i \in 1 .. Len(hits')
        PROVE  hits'[i] \in Matching /\ \E j \in 1 .. scanned + 1 : hits'[i] = read[j]
    <3>1. \A j \in 1 .. scanned : j \in 1 .. scanned + 1
      BY <1>5
    <3>2. CASE i \in 1 .. Len(hits)
      <4>1. hits'[i] = hits[i]
        BY <1>1, <1>9, <3>2
      <4> QED
        BY <2>0, <3>1, <3>2, <4>1 DEF HitsInv
    <3>3. CASE i \notin 1 .. Len(hits)
      <4>1. hits' = Append(hits, c) /\ c \in Matching
        BY <1>1, <3>3
      <4>2. hits'[i] = c
        BY <1>6, <1>9, <3>3, <4>1
      <4>3. scanned + 1 \in 1 .. scanned + 1
        BY <1>5
      <4> QED
        BY <4>1, <4>2, <4>3
    <3> QED
      BY <3>2, <3>3
  <2>2. outcome' = "none" => Len(hits') < Larger(1, spec.limit)
    <3>1. Len(hits) < Larger(1, spec.limit) /\ Len(hits) \in Nat
      <4>1. Len(hits) \in Nat
        BY <1>9
      <4>2. Len(hits) < Larger(1, spec.limit)
        BY <1>3, <2>0 DEF HitsInv
      <4> QED
        BY <4>1, <4>2
    <3>2. CASE c \in Matching
      <4>1. Len(hits') \in Nat /\ Len(hits') >= 1
        BY <1>1, <1>9, <3>2
      <4>2. outcome' = "none" => ~(Len(hits') >= spec.limit)
        BY <1>8, <3>2 DEF LimitHit
      <4> QED
        BY <2>0, <4>1, <4>2 DEF Larger
    <3>3. CASE c \notin Matching
      BY <1>1, <3>1, <3>3
    <3> QED
      BY <3>2, <3>3
  <2> QED
    BY <1>1, <1>4, <2>1, <2>2 DEF HitsInv
<1>16. DisconnectInv'
  BY <1>1, <1>8 DEF IInv, DisconnectInv
<1> QED
  BY <1>10, <1>11, <1>12, <1>13, <1>14, <1>15, <1>16 DEF IInv

-----------------------------------------------------------------------------
(* The theorems                                                            *)

\* IInv is an invariant of every scan of every topic.
THEOREM Inductive == Spec => []IInv
<1>1. Init => IInv
  BY InitIInv
<1>2. IInv /\ [Next]_vars => IInv'
  <2> SUFFICES ASSUME IInv, [Next]_vars PROVE IInv'
    OBVIOUS
  <2>1. CASE ScanStep /\ UNCHANGED logVars
    BY <2>1, PlanningKeepsIInv, ControlKeepsIInv, ConsumeKeepsIInv, ProcessKeepsIInv
       DEF ScanStep
  <2>2. CASE Disconnect /\ UNCHANGED logVars
    BY <2>2, ControlKeepsIInv
  <2>3. CASE LogNext /\ UNCHANGED scanVars
    BY <2>3, LogKeepsIInv
  <2>4. CASE UNCHANGED vars
    <3>1. UNCHANGED <<logVars, scanVars>>
      BY <2>4 DEF vars
    <3>2. UNCHANGED <<low, high, log, spec, pc, todo, marks, starts, remaining, read,
                      scanned, hits, outcome, reason, disconnected, goneAt, quiet>>
      BY <3>1 DEF logVars, scanVars
    <3>3. Planned' = Planned /\ Matching' = Matching /\ Window' = Window
          /\ Total' = Total /\ Budget' = Budget
      BY <3>2, PlanUnchanged
    <3>4. TypeOK'
      BY <3>2 DEF IInv, TypeOK, LogTypeOK
    <3>5. LogConsistent' /\ MarksInv' /\ ReadInv' /\ OrderInv' /\ GaplessInv'
      BY <3>2, <3>3 DEF IInv, LogConsistent, MarksInv, ReadInv, OrderInv, GaplessInv
    <3>6. ControlInv' /\ BudgetInv' /\ RemainingInv'
      BY <3>2, <3>3 DEF IInv, ControlInv, BudgetInv, RemainingInv
    <3>7. HitsInv' /\ DisconnectInv'
      BY <3>2, <3>3 DEF IInv, HitsInv, DisconnectInv
    <3>8. EndOfWindowComplete'
      BY <3>2, <3>3 DEF IInv, EndOfWindowComplete
    <3> QED
      BY <3>4, <3>5, <3>6, <3>7, <3>8 DEF IInv
  <2> QED
    BY <2>1, <2>2, <2>3, <2>4 DEF Next
<1> QED
  BY <1>1, <1>2, PTL DEF Spec

\* The variables of scan() and _plan() keep their types: starts stay within the
\* offsets of the log for any lookback, positive or not.
THEOREM TypeCorrect == Spec => []TypeOK
<1>1. IInv => TypeOK
  BY DEF IInv
<1> QED
  BY <1>1, Inductive, PTL

\* A scan never takes more records off the broker than KAFKASCOPE_SCAN_LIMIT,
\* and blames the budget only when it is spent.
THEOREM BudgetIsExact == Spec => []BudgetExact
<1>1. IInv => BudgetExact
  <2> SUFFICES ASSUME IInv PROVE BudgetExact
    OBVIOUS
  <2>1. BudgetInv
    BY DEF IInv
  <2>2. Len(read) \in Nat
    BY DEF IInv, TypeOK
  <2>3. Budget \in Int /\ Budget <= MaxScan /\ MaxScan \in Int
    BY WindowFinite, ScanAssumption
  <2>4. Len(read) <= Larger(0, Budget)
    BY <2>1 DEF BudgetInv
  <2>5. Len(read) <= Larger(0, MaxScan)
    BY <2>2, <2>3, <2>4 DEF Larger
  <2> QED
    BY <2>1, <2>5 DEF BudgetInv, BudgetExact
<1> QED
  BY <1>1, Inductive, PTL

\* "Reached the end of the window" is true of a scan that met neither a quiet
\* broker nor records newer than its window.
THEOREM EndOfWindowIsComplete == Spec => []EndOfWindowComplete
<1>1. IInv => EndOfWindowComplete
  BY DEF IInv
<1> QED
  BY <1>1, Inductive, PTL

\* Once the browser is gone, at most one more fetch returns records.
THEOREM DisconnectIsNoticed == Spec => []DisconnectStopsScan
<1>1. IInv => DisconnectStopsScan
  BY DEF IInv, DisconnectInv, DisconnectStopsScan
<1> QED
  BY <1>1, Inductive, PTL

\* The page gets the stream HitStream promises: a record of the batch in hand is
\* later than every hit of its partition, and the limit and the final event stop
\* the stream.
THEOREM ImplementsHitStream == Spec => HitStreamImplemented
<1>1. Init => Page!StreamInit
  <2> SUFFICES ASSUME Init PROVE Page!StreamInit
    OBVIOUS
  <2>1. spec.limit \in Int
    BY ScanAssumption DEF Init, ScanSpec
  <2>2. Larger(1, spec.limit) \in Nat \ {0}
    BY <2>1 DEF Larger
  <2>3. Matching \subseteq Coordinates
    BY DEF Init, Matching, MatchingFor
  <2> QED
    BY <2>2, <2>3 DEF Init, Page!StreamInit
<1>2. IInv /\ [Next]_vars => [Page!StreamNext]_(Page!streamVars)
  <2> SUFFICES ASSUME IInv, [Next]_vars
               PROVE  Page!StreamNext
                      \/ UNCHANGED <<Matching, Larger(1, spec.limit), hits, outcome>>
    BY DEF Page!streamVars
  <2>0. TypeOK /\ ControlInv /\ HitsInv /\ OrderInv
    BY DEF IInv
  <2>1. CASE ProcessRecord
    <3> DEFINE c == read[scanned + 1]
    <3>1. /\ pc = "records" /\ UNCHANGED <<spec, read>>
          /\ hits' = IF c \in Matching THEN Append(hits, c) ELSE hits
          /\ IF c \in Matching /\ LimitHit(Len(hits'))
               THEN Done(LimitReached)
               ELSE Continue(IF scanned' = Len(read) THEN "loop" ELSE "records")
      BY <2>1 DEF ProcessRecord
    <3>2. outcome = "none" /\ outcome' \in {"none", "done"}
          /\ (c \notin Matching => outcome' = outcome)
      BY <2>0, <3>1 DEF ControlInv, Done, Continue
    <3>3. scanned + 1 \in 1 .. Len(read) /\ scanned \in Nat
      <4>1. scanned \in 0 .. Len(read) /\ Len(read) \in Nat
        BY <2>0 DEF TypeOK
      <4>2. scanned < Len(read)
        BY <2>0, <3>1 DEF ControlInv
      <4> QED
        BY <4>1, <4>2
    <3>4. CASE c \in Matching
      <4>1. ASSUME NEW i \in 1 .. Len(hits), hits[i][1] = c[1] PROVE hits[i][2] < c[2]
        <5>1. PICK j \in 1 .. scanned : hits[i] = read[j]
          BY <2>0 DEF HitsInv
        <5>2. j \in 1 .. Len(read) /\ j < scanned + 1
          BY <3>3
        <5> QED
          BY <2>0, <3>3, <4>1, <5>1, <5>2 DEF OrderInv
      <4>2. Len(hits) < Larger(1, spec.limit)
        BY <2>0, <3>2 DEF HitsInv
      <4>3. c \in Coordinates
        BY <2>0, <3>3, CoordinateOf
      <4>4. /\ Larger(1, spec'.limit) = Larger(1, spec.limit)
            /\ hits' = Append(hits, c)
            /\ Matching' = Matching
        BY <3>1, <3>4 DEF Matching
      <4>5. Page!Show(c)
        BY <3>2, <3>4, <4>1, <4>2, <4>4 DEF Page!Show, Page!IsNews
      <4> QED
        BY <4>3, <4>5 DEF Page!StreamNext
    <3>5. CASE c \notin Matching
      BY <3>1, <3>2, <3>5 DEF Matching
    <3> QED
      BY <3>4, <3>5
  <2>2. CASE Next /\ ~ProcessRecord
    <3>1. UNCHANGED <<spec, hits>>
      BY <2>2 DEF Next, ScanStep, ListTopics, ReadMarks, ResolveStarts, Assign, LoopHead,
                  Consume, BrokerTrouble, Close, Disconnect, scanVars
    <3>2. outcome' = outcome \/ (outcome = "none" /\ outcome' \in {"done", "failed"})
      BY <2>0, <2>2 DEF Next, ScanStep, ListTopics, ReadMarks, ResolveStarts, Assign,
           LoopHead, Consume, EmptyBatch, BrokerTrouble, Close, Disconnect, scanVars,
           Done, Raise, Continue, ControlInv
    <3> QED
      BY <3>1, <3>2 DEF Page!StreamNext, Page!Finish, Matching
  <2>3. CASE UNCHANGED vars
    BY <2>3 DEF vars, scanVars, Matching
  <2> QED
    BY <2>1, <2>2, <2>3
<1> QED
  BY <1>1, <1>2, Inductive, PTL DEF Spec, HitStreamImplemented, Page!Stream

-----------------------------------------------------------------------------
(* Induction                                                               *)

\* A set that has 0 and the successors of its numbers has every number.
LEMMA Induction ==
    ASSUME NEW T, 0 \in T, \A n \in Nat : n \in T => n + 1 \in T
    PROVE  Nat \subseteq T
<1> SUFFICES ASSUME Nat \ T # {} PROVE FALSE
  OBVIOUS
<1>1. PICK x \in Nat \ T : \A y \in Nat \ T : x <= y
  BY SmallestOffset
<1>2. x \in Nat /\ x # 0 /\ x \notin T
  OBVIOUS
<1>3. x - 1 \in Nat /\ x - 1 < x /\ x - 1 + 1 = x
  BY <1>2
<1>4. x - 1 \in T
  BY <1>1, <1>3
<1> QED
  BY <1>2, <1>3, <1>4

-----------------------------------------------------------------------------
(* The walk along a path                                                   *)

\* One step of the walk: from position v with the i-th segment.
WalkStep(json, path, v, i) ==
    IF Present(json, v) THEN Child(json, v, path[i]) ELSE Nowhere

\* w is the walk along the first n segments of the path.
IsWalk(json, path, w, n) ==
    w = [i \in 0 .. n |-> IF i = 0 THEN << >> ELSE WalkStep(json, path, w[i - 1], i)]

\* The recursion of the walk has a solution.
LEMMA WalkExists ==
    ASSUME NEW json, NEW path, NEW n \in Nat
    PROVE  \E w : IsWalk(json, path, w, n)
<1> DEFINE T == {k \in Nat : \E w : IsWalk(json, path, w, k)}
<1>1. 0 \in T
  <2>1. IsWalk(json, path, [i \in 0 .. 0 |-> << >>], 0)
    BY DEF IsWalk
  <2> QED
    BY <2>1
<1>2. ASSUME NEW k \in Nat, k \in T PROVE k + 1 \in T
  <2>1. PICK w : IsWalk(json, path, w, k)
    BY <1>2
  <2> DEFINE v == [i \in 0 .. k + 1 |->
                     IF i = k + 1 THEN WalkStep(json, path, w[k], i) ELSE w[i]]
  <2>2. ASSUME NEW i \in 0 .. k + 1
        PROVE  v[i] = IF i = 0 THEN << >> ELSE WalkStep(json, path, v[i - 1], i)
    <3>1. v[0] = w[0] /\ w[0] = << >>
      BY <2>1 DEF IsWalk
    <3>2. CASE i = 0
      BY <3>1, <3>2
    <3>3. CASE i = k + 1
      <4>1. v[k + 1] = WalkStep(json, path, w[k], k + 1) /\ v[k] = w[k]
        OBVIOUS
      <4>2. i - 1 = k /\ i # 0
        BY <3>3
      <4> HIDE DEF v
      <4> QED
        BY <3>3, <4>1, <4>2
    <3>4. CASE i \in 1 .. k
      <4>1. i \in 0 .. k + 1 /\ i - 1 \in 0 .. k + 1 /\ i # k + 1 /\ i - 1 # k + 1 /\ i # 0 /\ i \in 0 .. k
        BY <3>4
      <4>2. v[i] = w[i] /\ v[i - 1] = w[i - 1]
        BY <4>1
      <4>3. w[i] = WalkStep(json, path, w[i - 1], i)
        BY <2>1, <4>1 DEF IsWalk
      <4> HIDE DEF v
      <4> QED
        BY <4>1, <4>2, <4>3
    <3>5. i = 0 \/ i = k + 1 \/ i \in 1 .. k
      OBVIOUS
    <3> QED
      BY <3>2, <3>3, <3>4, <3>5
  <2>3. v = [i \in 0 .. k + 1 |-> v[i]]
    OBVIOUS
  <2> HIDE DEF v
  <2>4. v = [i \in 0 .. k + 1 |->
               IF i = 0 THEN << >> ELSE WalkStep(json, path, v[i - 1], i)]
    BY <2>2, <2>3, Zenon
  <2>5. IsWalk(json, path, v, k + 1)
    BY <2>4 DEF IsWalk
  <2> QED
    BY <2>5
<1> HIDE DEF T
<1>3. n \in T
  BY <1>1, <1>2, Induction
<1> QED
  BY <1>3 DEF T

\* json_lookup ends where the walk does.
LEMMA LookupIsWalk ==
    ASSUME NEW json, NEW path \in Seq(STRING)
    PROVE  \E w : /\ IsWalk(json, path, w, Len(path))
                  /\ json_lookup(json, path) = w[Len(path)]
<1> DEFINE walk == CHOOSE w : w = [i \in 0 .. Len(path) |->
                 IF i = 0 THEN << >>
          ELSE IF Present(json, w[i - 1])
            THEN Child(json, w[i - 1], path[i])
            ELSE Nowhere]
<1>1. json_lookup(json, path) = walk[Len(path)]
  BY DEF json_lookup
<1>2. Len(path) \in Nat
  OBVIOUS
<1> HIDE DEF walk
<1>3. PICK w : IsWalk(json, path, w, Len(path))
  BY <1>2, WalkExists
<1>4. IsWalk(json, path, walk, Len(path))
  BY <1>3 DEF walk, IsWalk, WalkStep
<1> QED
  BY <1>1, <1>4

\* The positions of the walk, one by one.
LEMMA WalkAt ==
    ASSUME NEW json, NEW path, NEW n \in Nat, NEW w, IsWalk(json, path, w, n)
    PROVE  /\ w[0] = << >>
           /\ \A i \in 0 .. n - 1 : w[i + 1] = WalkStep(json, path, w[i], i + 1)
<1>1. w[0] = << >>
  BY DEF IsWalk
<1>2. ASSUME NEW i \in 0 .. n - 1 PROVE w[i + 1] = WalkStep(json, path, w[i], i + 1)
  <2>1. i + 1 \in 0 .. n /\ i + 1 # 0 /\ i + 1 - 1 = i
    OBVIOUS
  <2>2. w[i + 1] = IF i + 1 = 0 THEN << >> ELSE WalkStep(json, path, w[i + 1 - 1], i + 1)
    BY <2>1 DEF IsWalk
  <2> QED
    BY <2>1, <2>2
<1> QED
  BY <1>1, <1>2

\* A child's position is its parent's and one more name.
LEMMA ChildExtends ==
    ASSUME NEW json, NEW p \in Seq(STRING), NEW s \in STRING,
           IsJson(json), p \in DOMAIN json, Present(json, Child(json, p, s))
    PROVE  /\ Child(json, p, s) = Append(p, NameBelow(json[p], s))
           /\ Child(json, p, s) \in DOMAIN json
<1>1. Child(json, p, s) \in DOMAIN json /\ Child(json, p, s) # Nowhere
  BY DEF Present, IsJson
<1>2. CASE json[p].kind = "dict"
  BY <1>1, <1>2 DEF Child, NameBelow
<1>3. CASE json[p].kind = "list" /\ s \in DOMAIN Index
  BY <1>1, <1>3 DEF Child, NameBelow
<1>4. json[p].kind = "dict" \/ (json[p].kind = "list" /\ s \in DOMAIN Index)
  BY <1>1 DEF Child
<1> QED
  BY <1>1, <1>2, <1>3, <1>4

\* What a sequence begins with, it begins with when it grows.
LEMMA PrefixOfAppend ==
    ASSUME NEW S, NEW p \in Seq(S), NEW x, NEW k \in 1 .. Len(p) + 1
    PROVE  SubSeq(Append(p, x), 1, k - 1) = SubSeq(p, 1, k - 1)
<1> DEFINE q == Append(p, x)
<1>1. Len(p) \in Nat /\ k - 1 \in 0 .. Len(p)
  OBVIOUS
<1>2. \A i \in 1 .. k - 1 : q[i] = p[i]
  OBVIOUS
<1>3. SubSeq(q, 1, k - 1) = [i \in 1 .. k - 1 |-> q[i]]
  BY SMT
<1>4. SubSeq(p, 1, k - 1) = [i \in 1 .. k - 1 |-> p[i]]
  OBVIOUS
<1> HIDE DEF q
<1> QED
  BY <1>2, <1>3, <1>4

\* A beginning of a sequence and its next element.
LEMMA OneMore ==
    ASSUME NEW S, NEW p \in Seq(S), NEW n \in Nat, n + 1 <= Len(p)
    PROVE  Append(SubSeq(p, 1, n), p[n + 1]) = SubSeq(p, 1, n + 1)
<1> DEFINE a == Append(SubSeq(p, 1, n), p[n + 1])
           b == SubSeq(p, 1, n + 1)
<1>1. Len(p) \in Nat /\ n + 1 \in 1 .. Len(p) /\ p[n + 1] \in S
  OBVIOUS
<1>2. SubSeq(p, 1, n) \in Seq(S) /\ Len(SubSeq(p, 1, n)) = n
  BY <1>1
<1>3. \A i \in 1 .. n : SubSeq(p, 1, n)[i] = p[i]
  BY <1>1
<1>4. b \in Seq(S) /\ Len(b) = n + 1 /\ \A i \in 1 .. n + 1 : b[i] = p[i]
  BY <1>1
<1>5. a \in Seq(S) /\ Len(a) = n + 1 /\ a[n + 1] = p[n + 1]
  BY <1>1, <1>2
<1>6. \A i \in 1 .. n : a[i] = p[i]
  BY <1>1, <1>2, <1>3
<1>7. \A i \in 1 .. n + 1 : a[i] = b[i]
  BY <1>4, <1>5, <1>6
<1> HIDE DEF a, b
<1> QED
  BY <1>4, <1>5, <1>7

\* A walk that ends at a node was led there by the names on the path.
LEMMA WalkNames ==
    ASSUME NEW json, NEW path \in Seq(STRING), NEW w,
           IsJson(json), IsWalk(json, path, w, Len(path)), Present(json, w[Len(path)])
    PROVE  Names(json, path, w[Len(path)])
<1> DEFINE Led(i) ==
             /\ w[i] \in DOMAIN json
             /\ Len(w[i]) = i
             /\ \A k \in 1 .. i :
                  w[i][k] = NameBelow(json[SubSeq(w[i], 1, k - 1)], path[k])
           T == {i \in Nat : i <= Len(path) /\ Present(json, w[i]) => Led(i)}
<1>1. Len(path) \in Nat /\ \A i \in 1 .. Len(path) : path[i] \in STRING
  OBVIOUS
<1>2. w[0] = << >> /\ \A i \in 0 .. Len(path) - 1 :
        w[i + 1] = WalkStep(json, path, w[i], i + 1)
  BY <1>1, WalkAt
<1>3. 0 \in T
  BY <1>2 DEF Present
<1>4. ASSUME NEW n \in Nat, n \in T, n + 1 <= Len(path), Present(json, w[n + 1])
      PROVE  Led(n + 1)
  <2> DEFINE p == w[n]
             name == NameBelow(json[p], path[n + 1])
  <2>1. w[n + 1] = WalkStep(json, path, w[n], n + 1)
    BY <1>1, <1>2, <1>4
  <2>2. w[n + 1] # Nowhere
    BY <1>4 DEF Present, IsJson
  <2>3. Present(json, p) /\ w[n + 1] = Child(json, p, path[n + 1])
    BY <2>1, <2>2 DEF WalkStep
  <2>4. n <= Len(path) /\ n + 1 \in 1 .. Len(path)
    BY <1>1, <1>4
  <2>5. Led(n)
    BY <1>4, <2>3, <2>4
  <2>6. p \in Seq(STRING) /\ path[n + 1] \in STRING
    BY <1>1, <2>4, <2>5 DEF IsJson
  <2>7. w[n + 1] = Append(p, name) /\ w[n + 1] \in DOMAIN json
    BY <1>4, <2>3, <2>5, <2>6, ChildExtends
  <2>8. ASSUME NEW k \in 1 .. n + 1
        PROVE  w[n + 1][k] = NameBelow(json[SubSeq(w[n + 1], 1, k - 1)], path[k])
    <3>1. SubSeq(Append(p, name), 1, k - 1) = SubSeq(p, 1, k - 1)
      BY <2>5, <2>6, PrefixOfAppend
    <3>2. CASE k = n + 1
      <4>1. Append(p, name)[n + 1] = name
        BY <2>5, <2>6
      <4>2. SubSeq(p, 1, n) = p
        BY <2>5, <2>6
      <4>3. k - 1 = n
        BY <3>2
      <4> HIDE DEF p, name
      <4> QED
        BY <3>1, <3>2, <4>1, <4>2, <4>3, <2>7 DEF name
    <3>3. CASE k # n + 1
      <4>1. k \in 1 .. n
        BY <3>3
      <4>2. Append(p, name)[k] = p[k]
        BY <4>1, <2>5, <2>6
      <4>3. p[k] = NameBelow(json[SubSeq(p, 1, k - 1)], path[k])
        BY <4>1, <2>5
      <4> HIDE DEF p, name
      <4> QED
        BY <3>1, <4>2, <4>3, <2>7
    <3> QED
      BY <3>2, <3>3
  <2>9. Len(w[n + 1]) = n + 1
    <3>1. Len(Append(p, name)) = Len(p) + 1
      BY <2>6
    <3> QED
      BY <2>5, <2>7, <3>1
  <2> QED
    BY <2>7, <2>8, <2>9
<1>5. \A n \in Nat : n \in T => n + 1 \in T
  BY <1>4
<1> HIDE DEF T
<1>6. Len(path) \in T
  BY <1>1, <1>3, <1>5, Induction
<1>7. Led(Len(path))
  BY <1>1, <1>6 DEF T
<1> QED
  BY <1>7 DEF Names

\* A walk along the names of a node leads to it.
LEMMA NamesWalk ==
    ASSUME NEW json, NEW path \in Seq(STRING), NEW w,
           IsJson(json), IsWalk(json, path, w, Len(path)),
           NEW p \in DOMAIN json, Names(json, path, p)
    PROVE  w[Len(path)] = p
<1> DEFINE T == {i \in Nat : i <= Len(path) => w[i] = SubSeq(p, 1, i)}
<1>0. Len(path) \in Nat
  OBVIOUS
<1>1. Len(path) \in Nat /\ Len(p) = Len(path) /\ p \in Seq(STRING)
  BY <1>0 DEF Names, IsJson
<1>2. w[0] = << >> /\ \A i \in 0 .. Len(path) - 1 :
        w[i + 1] = WalkStep(json, path, w[i], i + 1)
  BY <1>0, WalkAt
<1>3. 0 \in T
  <2>1. SubSeq(p, 1, 0) = << >>
    BY <1>1
  <2>2. w[0] = SubSeq(p, 1, 0)
    BY <1>2, <2>1
  <2> QED
    BY <2>2
<1>4. ASSUME NEW n \in Nat, n \in T, n + 1 <= Len(path)
      PROVE  w[n + 1] = SubSeq(p, 1, n + 1)
  <2> DEFINE above == SubSeq(p, 1, n)
             s == path[n + 1]
  <2>1. n + 1 \in 1 .. Len(p) /\ n \in 0 .. Len(path) - 1 /\ n + 1 - 1 = n
    BY <1>1, <1>4
  <2>2. w[n] = above
    BY <1>4, <2>1
  <2>3. /\ above \in DOMAIN json
        /\ json[above].kind = "dict" \/ (json[above].kind = "list" /\ p[n + 1] \in DOMAIN Index)
    BY <2>1 DEF IsJson
  <2>4. p[n + 1] = NameBelow(json[above], s)
    BY <1>1, <2>1 DEF Names
  <2>5. Child(json, above, s) = Append(above, p[n + 1])
    <3> HIDE DEF above, s
    <3>1. CASE json[above].kind = "dict"
      BY <2>4, <3>1 DEF Child, NameBelow
    <3>2. CASE json[above].kind = "list" /\ p[n + 1] \in DOMAIN Index
      BY <2>4, <3>2 DEF Child, NameBelow
    <3> QED
      BY <2>3, <3>1, <3>2
  <2>6. Present(json, above)
    BY <2>3 DEF Present
  <2>7. w[n + 1] = Append(above, p[n + 1])
    BY <1>2, <2>1, <2>2, <2>5, <2>6 DEF WalkStep
  <2>8. Append(above, p[n + 1]) = SubSeq(p, 1, n + 1)
    BY <1>1, <2>1, OneMore
  <2> QED
    BY <2>7, <2>8
<1>5. \A n \in Nat : n \in T => n + 1 \in T
  BY <1>4
<1> HIDE DEF T
<1>6. Len(path) \in T
  BY <1>1, <1>3, <1>5, Induction
<1>7. w[Len(path)] = SubSeq(p, 1, Len(p))
  BY <1>1, <1>6 DEF T
<1> QED
  BY <1>1, <1>7

\* A record passes the filters when it has what the user asked for.
LEMMA MatchesExact ==
    ASSUME NEW message, NEW filter \in FilterSpec, IsJson(message.json)
    PROVE  matches(message, filter) <=> Wanted(message, filter)
<1> DEFINE json == message.json
           path == filter.json_path
           node == json_lookup(json, path)
<1>1. path \in Seq(STRING)
  BY DEF FilterSpec
<1>2. PICK w : IsWalk(json, path, w, Len(path)) /\ node = w[Len(path)]
  BY <1>1, LookupIsWalk
<1>3. ASSUME Present(json, node) PROVE node \in DOMAIN json /\ Names(json, path, node)
  BY <1>1, <1>2, <1>3, WalkNames DEF Present
<1>4. ASSUME NEW p \in DOMAIN json, Names(json, path, p) PROVE node = p
  BY <1>1, <1>2, <1>4, NamesWalk
<1>5. (Present(json, node) /\ Contains(json[node].text, filter.json_value))
      <=> \E p \in DOMAIN json : /\ Names(json, path, p)
                                 /\ json[p].kind # "null"
                                 /\ filter.json_value \in json[p].text \cup {""}
  <2> HIDE DEF node, path, json
  <2>1. ASSUME Present(json, node), Contains(json[node].text, filter.json_value)
        PROVE  \E p \in DOMAIN json : /\ Names(json, path, p)
                                     /\ json[p].kind # "null"
                                     /\ filter.json_value \in json[p].text \cup {""}
    BY <1>3, <2>1 DEF Present, Contains
  <2>2. ASSUME NEW p \in DOMAIN json, Names(json, path, p), json[p].kind # "null",
               filter.json_value \in json[p].text \cup {""}
        PROVE  Present(json, node) /\ Contains(json[node].text, filter.json_value)
    <3>1. node = p
      BY <1>4, <2>2
    <3>2. Present(json, p) /\ Contains(json[p].text, filter.json_value)
      BY <2>2 DEF Present, Contains
    <3> QED
      BY <3>1, <3>2
  <2> QED
    BY <2>1, <2>2
<1>6. (\E h \in message.headers : /\ h.name = filter.header_key
                                  /\ Contains(h.value, filter.header_value))
      <=> {h.name : h \in {g \in message.headers :
                             filter.header_value \in g.value \cup {""}}}
            \cap {filter.header_key} # {}
  BY DEF Contains
<1>7. /\ Contains(message.key, filter.key_contains)
        <=> filter.key_contains \in message.key \cup {""}
      /\ Contains(message.value, filter.value_contains)
        <=> filter.value_contains \in message.value \cup {""}
  BY DEF Contains
<1> QED
  BY <1>5, <1>6, <1>7 DEF matches, Wanted

-----------------------------------------------------------------------------
(* The filters are exact                                                   *)

\* A record that was scanned and passes the filters is a hit.
FoundInv ==
    \A i \in 1 .. scanned :
        read[i] \in Matching => \E k \in 1 .. Len(hits) : hits[k] = read[i]

\* Only ProcessRecord counts a record as scanned; it shows it in the same step.
LEMMA StepKeepsFound ==
    ASSUME IInv, FoundInv, [Next]_vars
    PROVE  FoundInv'
<1>1. /\ read \in Seq(Coordinates) /\ hits \in Seq(Coordinates) /\ Len(read) \in Nat
      /\ scanned \in 0 .. Len(read)
  BY DEF IInv, TypeOK
<1>2. CASE UNCHANGED <<spec, read, scanned, hits>>
  BY <1>2 DEF FoundInv, Matching
<1>3. ASSUME Consume, UNCHANGED logVars PROVE FoundInv'
  <2>1. PICK b \in Fetches(PendingRecords, BatchSize) : read' = read \o b
    BY <1>3 DEF Consume
  <2>2. pc = "consume" /\ UNCHANGED <<low, high, log, spec, marks, starts, scanned, hits>>
    BY <1>3 DEF Consume, logVars
  <2>3. b \in Seq(Coordinates)
    BY <2>1, <2>2, BatchContinues
  <2>4. \A i \in 1 .. scanned : read'[i] = read[i]
    BY <1>1, <2>1, <2>3
  <2> QED
    BY <2>2, <2>4 DEF FoundInv, Matching
<1>4. ASSUME ProcessRecord PROVE FoundInv'
  <2> DEFINE c == read[scanned + 1]
  <2>1. /\ UNCHANGED <<spec, read>> /\ scanned' = scanned + 1 /\ pc = "records"
        /\ hits' = IF c \in Matching THEN Append(hits, c) ELSE hits
    BY <1>4 DEF ProcessRecord
  <2>2. Matching' = Matching
    BY <2>1 DEF Matching
  <2>3. scanned < Len(read)
    BY <2>1 DEF IInv, ControlInv
  <2>4. c \in Coordinates
    BY <1>1, <2>3
  <2>5. \A k \in 1 .. Len(hits) : k \in 1 .. Len(hits') /\ hits'[k] = hits[k]
    BY <1>1, <2>1, <2>4
  <2>6. c \in Matching => Len(hits') \in 1 .. Len(hits') /\ hits'[Len(hits')] = c
    BY <1>1, <2>1, <2>4
  <2>7. ASSUME NEW i \in 1 .. scanned', read[i] \in Matching
        PROVE  \E k \in 1 .. Len(hits') : hits'[k] = read[i]
    <3>1. CASE i = scanned + 1
      BY <2>6, <2>7, <3>1
    <3>2. CASE i # scanned + 1
      <4>1. i \in 1 .. scanned
        BY <1>1, <2>1, <3>2
      <4>2. PICK k \in 1 .. Len(hits) : hits[k] = read[i]
        BY <2>7, <4>1 DEF FoundInv
      <4> QED
        BY <2>5, <4>2
    <3> QED
      BY <3>1, <3>2
  <2> HIDE DEF c
  <2> QED
    BY <2>1, <2>2, <2>7 DEF FoundInv
<1>5. \/ UNCHANGED <<spec, read, scanned, hits>>
      \/ Consume /\ UNCHANGED logVars
      \/ ProcessRecord
  BY DEF Next, ScanStep, ListTopics, ReadMarks, ResolveStarts, Assign, LoopHead,
         BrokerTrouble, Close, Disconnect, vars, scanVars
<1> QED
  BY <1>2, <1>3, <1>4, <1>5

\* Of the records scanned, whatever they contain and whatever path, header and
\* texts the filters ask for, the page is shown those that have them, and no other.
THEOREM FiltersAreExact == Spec => []FilterExact
<1>1. IInv /\ FoundInv => FilterExact
  <2> SUFFICES ASSUME IInv, FoundInv, NEW i \in 1 .. scanned
      PROVE  (\E k \in 1 .. Len(hits) : hits[k] = read[i])
               <=> Wanted(Content[read[i]], spec.filter)
    BY DEF FilterExact
  <2>1. /\ read \in Seq(Coordinates) /\ Len(read) \in Nat /\ scanned \in 0 .. Len(read)
        /\ spec \in Specs
    BY DEF IInv, TypeOK
  <2>2. read[i] \in Coordinates
    BY <2>1
  <2>3. spec.filter \in FilterSpec
    BY <2>1, ScanAssumption DEF ScanSpec
  <2>4. IsJson(Content[read[i]].json)
    BY <2>2, ScanAssumption
  <2>5. read[i] \in Matching <=> matches(Content[read[i]], spec.filter)
    <3>1. Matching = {c \in Coordinates : matches(Content[c], spec.filter)}
      BY <2>1 DEF Matching, MatchingFor
    <3> QED
      BY <2>2, <3>1
  <2>6. matches(Content[read[i]], spec.filter) <=> Wanted(Content[read[i]], spec.filter)
    BY <2>3, <2>4, MatchesExact
  <2>7. (\E k \in 1 .. Len(hits) : hits[k] = read[i]) <=> read[i] \in Matching
    BY DEF IInv, HitsInv, FoundInv
  <2> QED
    BY <2>5, <2>6, <2>7
<1>2. Init => FoundInv
  BY DEF Init, FoundInv
<1>3. IInv /\ FoundInv /\ [Next]_vars => FoundInv'
  BY StepKeepsFound
<1> QED
  BY <1>1, <1>2, <1>3, Inductive, PTL DEF Spec
=============================================================================
