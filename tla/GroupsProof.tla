----------------------------- MODULE GroupsProof -----------------------------
(***************************************************************************)
(* Proofs about Groups, for any number of requests, partitions and records.*)
(***************************************************************************)
EXTENDS Groups, KafkaLogProof

-----------------------------------------------------------------------------
(* The inductive invariant                                                 *)

\* Where request r is tells what it has been through.
ControlInv(r) ==
    /\ pc[r] = "answered" <=> answer[r] # "none"
    /\ pc[r] \notin {"start", "answered"} /\ op[r].kind # "view" =>
         op[r].write /\ op[r].confirmed
    /\ pc[r] \in {"topics", "times", "resolve", "verify"} => op[r].kind = "reset"
    /\ pc[r] = "delete" => op[r].kind = "delete"
    /\ pc[r] \notin {"start", "answered"} /\ op[r].kind = "reset" => op[r].target # "unknown"
    /\ pc[r] \in {"times", "resolve"} /\ op[r].target = "offset" => op[r].offset # NoOffset
    /\ pc[r] \in {"topics", "times", "resolve", "verify", "delete"} => seen[r] = "EMPTY"
    /\ pc[r] \in {"times", "resolve", "verify"} => Planned(r) \subseteq Partitions
    /\ answer[r] = "page" \/ (answer[r] = "ok" /\ op[r].kind = "reset") => todo[r] = {}

\* What r changed, it was allowed to change, and it will be accounted for.
MovedInv(r) ==
    /\ moved[r] # {} =>
         /\ op[r].write /\ op[r].confirmed /\ op[r].kind # "view"
         /\ seen[r] = "EMPTY"
         /\ pc[r] \in {"verify", "answered"}
         /\ answer[r] # "none" => audited[r] \in {"ok", "error"}
    /\ pc[r] = "verify" => moved[r] \subseteq Planned(r)

\* The offsets r read or computed are within the log, and stay so since high
\* watermarks only grow.
OffsetInv(r) ==
    \A p \in Partitions : snap[r][p] <= high[p] /\ targets[r][p] <= high[p]

\* A row that is complete has its high watermark read after its offset.
RowInv(r) ==
    /\ pc[r] = "rows" \/ answer[r] = "page" =>
         \A p \in Partitions : snap[r][p] # NONE /\ p \notin todo[r] =>
            snap[r][p] <= marks[r][p].high
    /\ pc[r] = "verify" \/ (answer[r] = "ok" /\ op[r].kind = "reset") =>
         /\ moved[r] \subseteq Planned(r)
         /\ \A p \in Planned(r) : p \notin todo[r] =>
              targets[r][p] <= marks[r][p].high /\ p \in moved[r]

\* A partition with a record at or after the time has its target already when
\* _resolve_targets turns to those that have none.
AskedInv(r) ==
    /\ pc[r] \in {"start", "describe", "committed", "rows", "topics", "times"} => asked[r] = {}
    /\ pc[r] \in {"resolve", "verify"} =>
         \A c \in asked[r] : targets[r][c[1]] <= c[2]
    /\ pc[r] = "resolve" => \A c \in asked[r] : c[1] \notin todo[r]

RequestInv(r) ==
    ControlInv(r) /\ MovedInv(r) /\ OffsetInv(r) /\ RowInv(r) /\ AskedInv(r)

GInv ==
    /\ TypeOK
    /\ LogConsistent
    /\ CommittedInLog
    /\ \A r \in Requests : RequestInv(r)

\* A step of another request does not touch r's variables.
Untouched(r) ==
    /\ pc'[r] = pc[r] /\ seen'[r] = seen[r] /\ snap'[r] = snap[r]
    /\ marks'[r] = marks[r] /\ todo'[r] = todo[r] /\ targets'[r] = targets[r]
    /\ answer'[r] = answer[r] /\ audited'[r] = audited[r]
    /\ moved'[r] = moved[r] /\ asked'[r] = asked[r]

\* What has to be shown of a step of r.
Kept(r) ==
    /\ TypeOK' /\ CommittedInLog' /\ RequestInv(r)' /\ op' = op
    /\ \A q \in Requests \ {r} : Untouched(q)

-----------------------------------------------------------------------------
LEMMA InitGInv == Init => GInv
<1> SUFFICES ASSUME Init PROVE GInv
  OBVIOUS
<1>0. MaxHigh \in Nat /\ MaxInitial \in 0 .. MaxHigh
  BY LogAssumption, GroupsAssumption
<1>1. LogTypeOK /\ LogConsistent /\ \A p \in Partitions : high[p] \in Nat
  BY <1>0, InitialLog DEF Init, LogTypeOK
<1>2. /\ snap = [r \in Requests |-> [p \in Partitions |-> NONE]]
      /\ marks = [r \in Requests |-> [p \in Partitions |-> [low |-> 0, high |-> 0]]]
      /\ targets = [r \in Requests |-> [p \in Partitions |-> NONE]]
      /\ pc = [r \in Requests |-> "start"] /\ seen = [r \in Requests |-> "DEAD"]
      /\ todo = [r \in Requests |-> {}] /\ moved = [r \in Requests |-> {}]
      /\ asked = [r \in Requests |-> {}]
      /\ answer = [r \in Requests |-> "none"] /\ audited = [r \in Requests |-> "none"]
      /\ op \in [Requests -> Ops]
      /\ coord \in {"DEAD", "EMPTY", "STABLE"}
      /\ committed \in [Partitions -> NONE .. MaxHigh]
  BY DEF Init
<1>3. TypeOK
  <2>1. snap \in [Requests -> [Partitions -> NONE .. MaxHigh]]
        /\ targets \in [Requests -> [Partitions -> NONE .. MaxHigh]]
    BY <1>0, <1>2 DEF NONE
  <2>2. marks \in [Requests -> [Partitions -> Row]]
    BY <1>0, <1>2 DEF Row
  <2> QED
    BY <1>1, <1>2, <2>1, <2>2 DEF TypeOK
<1>4. CommittedInLog
  BY DEF Init, CommittedInLog
<1>5. ASSUME NEW r \in Requests PROVE RequestInv(r)
  <2>1. OffsetInv(r)
    BY <1>1, <1>2 DEF OffsetInv, NONE
  <2>2. ControlInv(r) /\ MovedInv(r) /\ RowInv(r) /\ AskedInv(r)
    BY <1>2 DEF ControlInv, MovedInv, RowInv, AskedInv
  <2> QED
    BY <2>1, <2>2 DEF RequestInv
<1> QED
  BY <1>1, <1>3, <1>4, <1>5 DEF GInv

\* Answers: the request is over, and only what it answers and audits is new.
LEMMA AnswerEffect ==
    ASSUME TypeOK, NEW r \in Requests,
           NEW a \in {"page", "missing", "forbidden", "denied", "refused", "error", "ok"},
           NEW o \in {"none", "denied", "error", "ok"}, Answer(r, a, o)
    PROVE  /\ pc' \in [Requests -> {"start", "describe", "committed", "rows", "topics",
                                    "times", "resolve", "verify", "delete", "answered"}]
           /\ answer' \in [Requests -> {"none", "page", "missing", "forbidden", "denied",
                                        "refused", "error", "ok"}]
           /\ audited' \in [Requests -> {"none", "denied", "error", "ok"}]
           /\ pc'[r] = "answered" /\ answer'[r] = a /\ audited'[r] = o
           /\ \A q \in Requests \ {r} : /\ pc'[q] = pc[q] /\ answer'[q] = answer[q]
                                        /\ audited'[q] = audited[q]
  BY DEF Answer, TypeOK

LEMMA ContinueEffect ==
    ASSUME TypeOK, NEW r \in Requests,
           NEW l \in {"describe", "committed", "rows", "topics", "times", "resolve",
                      "verify", "delete"}, Continue(r, l)
    PROVE  /\ pc' \in [Requests -> {"start", "describe", "committed", "rows", "topics",
                                    "times", "resolve", "verify", "delete", "answered"}]
           /\ pc'[r] = l
           /\ answer' = answer /\ audited' = audited
           /\ \A q \in Requests \ {r} : pc'[q] = pc[q]
  BY DEF Continue, TypeOK

LEMMA RaiseEffect ==
    ASSUME TypeOK, NEW r \in Requests, Raise(r)
    PROVE  /\ pc' \in [Requests -> {"start", "describe", "committed", "rows", "topics",
                                    "times", "resolve", "verify", "delete", "answered"}]
           /\ answer' \in [Requests -> {"none", "page", "missing", "forbidden", "denied",
                                        "refused", "error", "ok"}]
           /\ audited' \in [Requests -> {"none", "denied", "error", "ok"}]
           /\ pc'[r] = "answered" /\ answer'[r] = "error" /\ audited'[r] = ErrorOutcome(r)
           /\ \A q \in Requests \ {r} : /\ pc'[q] = pc[q] /\ answer'[q] = answer[q]
                                        /\ audited'[q] = audited[q]
<1>1. ErrorOutcome(r) \in {"none", "denied", "error", "ok"}
  BY DEF ErrorOutcome
<1> QED
  BY <1>1, AnswerEffect DEF Raise

\* A request that ends in an exception keeps the invariant, whatever it changed
\* before, if it was entitled to the change.
LEMMA RaiseKeeps ==
    ASSUME GInv, NEW r \in Requests, Raise(r),
           UNCHANGED <<low, high, log, op, seen, snap, marks, targets, asked>>,
           coord' \in {"DEAD", "EMPTY", "STABLE"},
           committed' \in [Partitions -> NONE .. MaxHigh], CommittedInLog',
           todo' \in [Requests -> SUBSET Partitions],
           moved' \in [Requests -> SUBSET Partitions],
           \A q \in Requests \ {r} : todo'[q] = todo[q] /\ moved'[q] = moved[q],
           moved'[r] # {} => /\ op[r].write /\ op[r].confirmed /\ op[r].kind # "view"
                             /\ seen[r] = "EMPTY"
    PROVE  Kept(r)
<1>1. TypeOK /\ RequestInv(r)
  BY DEF GInv
<1>2. /\ pc' \in [Requests -> {"start", "describe", "committed", "rows", "topics",
                               "times", "resolve", "verify", "delete", "answered"}]
      /\ answer' \in [Requests -> {"none", "page", "missing", "forbidden", "denied",
                                   "refused", "error", "ok"}]
      /\ audited' \in [Requests -> {"none", "denied", "error", "ok"}]
      /\ pc'[r] = "answered" /\ answer'[r] = "error" /\ audited'[r] = ErrorOutcome(r)
      /\ \A q \in Requests \ {r} : /\ pc'[q] = pc[q] /\ answer'[q] = answer[q]
                                   /\ audited'[q] = audited[q]
  BY <1>1, RaiseEffect
<1>3. TypeOK'
  <2>1. LogTypeOK'
    BY <1>1 DEF TypeOK, LogTypeOK
  <2> QED
    BY <1>1, <1>2, <2>1 DEF TypeOK
<1>4. ControlInv(r)' /\ RowInv(r)' /\ AskedInv(r)'
  BY <1>2 DEF ControlInv, RowInv, AskedInv
<1>5. MovedInv(r)'
  BY <1>2 DEF MovedInv, ErrorOutcome
<1>6. OffsetInv(r)'
  BY <1>1 DEF RequestInv, OffsetInv
<1>7. \A q \in Requests \ {r} : Untouched(q)
  BY <1>2 DEF Untouched
<1> QED
  BY <1>3, <1>4, <1>5, <1>6, <1>7 DEF Kept, RequestInv

\* The same, of an answer the endpoint gives without having changed anything.
LEMMA AnswerKeeps ==
    ASSUME GInv, NEW r \in Requests,
           NEW a \in {"missing", "forbidden", "denied", "refused"},
           NEW o \in {"none", "denied"}, Answer(r, a, o), moved[r] = {},
           UNCHANGED <<low, high, log, coord, committed, op, seen, snap, marks, todo,
                       targets, moved, asked>>
    PROVE  Kept(r)
<1>1. TypeOK /\ RequestInv(r) /\ CommittedInLog
  BY DEF GInv
<1>2. /\ pc' \in [Requests -> {"start", "describe", "committed", "rows", "topics",
                               "times", "resolve", "verify", "delete", "answered"}]
      /\ answer' \in [Requests -> {"none", "page", "missing", "forbidden", "denied",
                                   "refused", "error", "ok"}]
      /\ audited' \in [Requests -> {"none", "denied", "error", "ok"}]
      /\ pc'[r] = "answered" /\ answer'[r] = a /\ audited'[r] = o
      /\ \A q \in Requests \ {r} : /\ pc'[q] = pc[q] /\ answer'[q] = answer[q]
                                   /\ audited'[q] = audited[q]
  BY <1>1, AnswerEffect
<1>3. TypeOK'
  <2>1. LogTypeOK'
    BY <1>1 DEF TypeOK, LogTypeOK
  <2> QED
    BY <1>1, <1>2, <2>1 DEF TypeOK
<1>4. ControlInv(r)' /\ RowInv(r)' /\ AskedInv(r)' /\ MovedInv(r)'
  BY <1>2 DEF ControlInv, RowInv, AskedInv, MovedInv
<1>5. OffsetInv(r)' /\ CommittedInLog'
  BY <1>1 DEF RequestInv, OffsetInv, CommittedInLog
<1>6. \A q \in Requests \ {r} : Untouched(q)
  BY <1>2 DEF Untouched
<1> QED
  BY <1>3, <1>4, <1>5, <1>6 DEF Kept, RequestInv

\* A request that goes on with its next round trip.  What it read (snap, marks,
\* todo, targets, asked) is new; what it did is not.
LEMMA ContinueKeeps ==
    ASSUME GInv, NEW r \in Requests,
           NEW l \in {"describe", "committed", "rows", "topics", "times", "resolve",
                      "verify", "delete"}, Continue(r, l),
           UNCHANGED <<low, high, log, coord, committed, op, moved>>,
           pc[r] # "answered",
           seen' \in [Requests -> {"DEAD", "EMPTY", "STABLE"}],
           snap' \in [Requests -> [Partitions -> NONE .. MaxHigh]],
           marks' \in [Requests -> [Partitions -> Row]],
           todo' \in [Requests -> SUBSET Partitions],
           targets' \in [Requests -> [Partitions -> NONE .. MaxHigh]],
           asked' \in [Requests -> SUBSET Late],
           \A q \in Requests \ {r} :
               /\ seen'[q] = seen[q] /\ snap'[q] = snap[q] /\ marks'[q] = marks[q]
               /\ todo'[q] = todo[q] /\ targets'[q] = targets[q] /\ asked'[q] = asked[q],
           ControlInv(r)', MovedInv(r)', OffsetInv(r)', RowInv(r)', AskedInv(r)'
    PROVE  Kept(r)
<1>1. TypeOK /\ CommittedInLog
  BY DEF GInv
<1>2. /\ pc' \in [Requests -> {"start", "describe", "committed", "rows", "topics",
                               "times", "resolve", "verify", "delete", "answered"}]
      /\ answer' = answer /\ audited' = audited
      /\ \A q \in Requests \ {r} : pc'[q] = pc[q]
  BY <1>1, ContinueEffect
<1>3. TypeOK'
  <2>1. LogTypeOK'
    BY <1>1 DEF TypeOK, LogTypeOK
  <2> QED
    BY <1>1, <1>2, <2>1 DEF TypeOK
<1>4. CommittedInLog'
  BY <1>1 DEF CommittedInLog
<1>5. \A q \in Requests \ {r} : Untouched(q)
  BY <1>2 DEF Untouched
<1> QED
  BY <1>3, <1>4, <1>5 DEF Kept, RequestInv

-----------------------------------------------------------------------------
(* One lemma per action                                                    *)

\* What a request asks for is one of the operations.
LEMMA OpFacts ==
    ASSUME GInv, NEW r \in Requests
    PROVE  /\ op[r] \in GroupOp
           /\ op[r].kind \in {"view", "reset", "delete"}
           /\ op[r].target \in {"earliest", "latest", "timestamp", "offset", "unknown"}
           /\ op[r].offset \in Int \cup {NoOffset}
<1>1. op[r] \in GroupOp
  BY GroupsAssumption DEF GInv, TypeOK
<1> QED
  BY <1>1 DEF GroupOp

LEMMA ReceiveKeeps ==
    ASSUME GInv, NEW r \in Requests, Receive(r), UNCHANGED logVars
    PROVE  Kept(r)
<1>1. /\ UNCHANGED <<low, high, log, coord, committed, op, seen, snap, marks, todo, targets,
                     moved, asked>>
      /\ pc[r] = "start"
  BY DEF Receive, logVars
<1>2. TypeOK /\ RequestInv(r) /\ CommittedInLog
  BY DEF GInv
<1>3. moved[r] = {} /\ asked[r] = {} /\ answer[r] = "none"
  BY <1>1, <1>2 DEF RequestInv, MovedInv, AskedInv, ControlInv
<1>4. \/ Answer(r, "forbidden", "none") \/ Answer(r, "denied", "denied")
      \/ Answer(r, "refused", "none") \/ Raise(r)
      \/ /\ Continue(r, "describe")
         /\ op[r].kind # "view" => op[r].write /\ op[r].confirmed
         /\ op[r].kind = "reset" => op[r].target # "unknown"
  BY OpFacts DEF Receive, ConfirmationMissing, Refused
<1>5. CASE Raise(r)
  <2>1. CommittedInLog'
    BY <1>1, <1>2 DEF CommittedInLog
  <2> QED
    BY <1>1, <1>2, <1>3, <1>5, <2>1, RaiseKeeps DEF TypeOK
<1>6. CASE /\ Continue(r, "describe")
           /\ op[r].kind # "view" => op[r].write /\ op[r].confirmed
           /\ op[r].kind = "reset" => op[r].target # "unknown"
  <2>1. pc'[r] = "describe" /\ answer' = answer
    BY <1>2, <1>6, ContinueEffect
  <2>2. ControlInv(r)' /\ MovedInv(r)' /\ RowInv(r)' /\ AskedInv(r)'
    BY <1>1, <1>3, <1>6, <2>1 DEF ControlInv, MovedInv, RowInv, AskedInv
  <2>3. OffsetInv(r)'
    BY <1>1, <1>2 DEF RequestInv, OffsetInv
  <2> QED
    BY <1>1, <1>2, <1>6, <2>2, <2>3, ContinueKeeps DEF TypeOK
<1> QED
  BY <1>1, <1>3, <1>4, <1>5, <1>6, AnswerKeeps

LEMMA DescribeKeeps ==
    ASSUME GInv, NEW r \in Requests, Describe(r), UNCHANGED logVars
    PROVE  Kept(r)
<1>1. /\ UNCHANGED <<low, high, log, coord, committed, op, snap, marks, todo, targets,
                     moved, asked>>
      /\ pc[r] = "describe"
  BY DEF Describe, logVars
<1>2. TypeOK /\ RequestInv(r) /\ CommittedInLog /\ CommittedInLog'
  BY <1>1 DEF GInv, CommittedInLog
<1>3. moved[r] = {} /\ asked[r] = {} /\ answer[r] = "none"
  BY <1>1, <1>2 DEF RequestInv, MovedInv, AskedInv, ControlInv
<1>4. CASE UNCHANGED seen /\ (Answer(r, "missing", "none") \/ Raise(r))
  BY <1>1, <1>2, <1>3, <1>4, RaiseKeeps, AnswerKeeps DEF TypeOK
<1>5. CASE seen' = [seen EXCEPT ![r] = coord] /\ Continue(r, "committed")
  <2>1. pc'[r] = "committed" /\ answer' = answer
    BY <1>2, <1>5, ContinueEffect
  <2>2. ControlInv(r)'
    BY <1>1, <1>2, <1>3, <2>1 DEF RequestInv, ControlInv
  <2>3. MovedInv(r)' /\ RowInv(r)' /\ AskedInv(r)'
    BY <1>1, <1>3, <2>1 DEF MovedInv, RowInv, AskedInv
  <2>4. OffsetInv(r)'
    BY <1>1, <1>2 DEF RequestInv, OffsetInv
  <2>5. /\ seen' \in [Requests -> {"DEAD", "EMPTY", "STABLE"}]
        /\ \A q \in Requests \ {r} : seen'[q] = seen[q]
    BY <1>2, <1>5 DEF TypeOK
  <2> QED
    BY <1>1, <1>2, <1>5, <2>2, <2>3, <2>4, <2>5, ContinueKeeps DEF TypeOK
<1> QED
  BY <1>4, <1>5 DEF Describe

LEMMA ReadCommittedKeeps ==
    ASSUME GInv, NEW r \in Requests, ReadCommitted(r), UNCHANGED logVars
    PROVE  Kept(r)
<1>1. /\ UNCHANGED <<low, high, log, coord, committed, op, seen, marks, targets, moved, asked>>
      /\ pc[r] = "committed"
      /\ snap' = [snap EXCEPT ![r] = committed]
      /\ todo' = [todo EXCEPT ![r] = {p \in Partitions : committed[p] # NONE}]
      /\ Continue(r, "rows")
  BY DEF ReadCommitted, logVars
<1>2. TypeOK /\ RequestInv(r) /\ CommittedInLog
  BY DEF GInv
<1>3. moved[r] = {} /\ asked[r] = {} /\ answer[r] = "none"
  BY <1>1, <1>2 DEF RequestInv, MovedInv, AskedInv, ControlInv
<1>4. pc'[r] = "rows" /\ answer' = answer
  BY <1>1, <1>2, ContinueEffect
<1>5. /\ snap'[r] = committed
      /\ todo'[r] = {p \in Partitions : committed[p] # NONE}
      /\ snap' \in [Requests -> [Partitions -> NONE .. MaxHigh]]
      /\ todo' \in [Requests -> SUBSET Partitions]
      /\ \A q \in Requests \ {r} : snap'[q] = snap[q] /\ todo'[q] = todo[q]
  BY <1>1, <1>2 DEF TypeOK
<1>6. ControlInv(r)'
  BY <1>1, <1>2, <1>3, <1>4 DEF RequestInv, ControlInv
<1>7. MovedInv(r)' /\ RowInv(r)' /\ AskedInv(r)'
  BY <1>1, <1>3, <1>4, <1>5 DEF MovedInv, RowInv, AskedInv
<1>8. OffsetInv(r)'
  BY <1>1, <1>2, <1>5 DEF RequestInv, OffsetInv, CommittedInLog
<1> QED
  BY <1>1, <1>2, <1>5, <1>6, <1>7, <1>8, ContinueKeeps DEF TypeOK

LEMMA ReadRowKeeps ==
    ASSUME GInv, NEW r \in Requests, ReadRow(r), UNCHANGED logVars
    PROVE  Kept(r)
<1>1. /\ UNCHANGED <<low, high, log, coord, committed, op, seen, snap, targets, moved, asked>>
      /\ pc[r] = "rows"
      /\ Continue(r, "rows")
  BY DEF ReadRow, logVars
<1>2. PICK p \in Partitions :
        /\ p \in todo[r]
        /\ marks' = [marks EXCEPT ![r][p] = Watermarks(p)]
        /\ todo' = [todo EXCEPT ![r] = todo[r] \ {p}]
  BY DEF ReadRow, Visit, Rest
<1>3. TypeOK /\ RequestInv(r) /\ CommittedInLog
  BY DEF GInv
<1>4. moved[r] = {} /\ asked[r] = {} /\ answer[r] = "none"
  BY <1>1, <1>3 DEF RequestInv, MovedInv, AskedInv, ControlInv
<1>5. pc'[r] = "rows" /\ answer' = answer
  BY <1>1, <1>3, ContinueEffect
<1>6. Watermarks(p) \in Row /\ Watermarks(p).high = high[p]
  BY <1>3 DEF TypeOK, LogTypeOK, Watermarks, Row
<1>7. /\ marks' \in [Requests -> [Partitions -> Row]]
      /\ todo' \in [Requests -> SUBSET Partitions]
      /\ todo'[r] = todo[r] \ {p}
      /\ marks'[r][p].high = high[p]
      /\ \A q \in Partitions \ {p} : marks'[r][q] = marks[r][q]
      /\ \A q \in Requests \ {r} : marks'[q] = marks[q] /\ todo'[q] = todo[q]
  BY <1>2, <1>3, <1>6 DEF TypeOK
<1>8. ControlInv(r)'
  BY <1>1, <1>3, <1>4, <1>5 DEF RequestInv, ControlInv
<1>9. MovedInv(r)' /\ AskedInv(r)'
  BY <1>1, <1>4, <1>5 DEF MovedInv, AskedInv
<1>10. OffsetInv(r)'
  BY <1>1, <1>3 DEF RequestInv, OffsetInv
<1>11. RowInv(r)'
  <2>1. ASSUME NEW q \in Partitions, snap[r][q] # NONE, q \notin todo'[r]
        PROVE  snap[r][q] <= marks'[r][q].high
    <3>1. CASE q = p
      BY <1>3, <1>7, <3>1 DEF RequestInv, OffsetInv
    <3>2. CASE q # p
      BY <1>1, <1>3, <1>7, <2>1, <3>2 DEF RequestInv, RowInv
    <3> QED
      BY <3>1, <3>2
  <2> QED
    BY <1>1, <1>4, <1>5, <2>1 DEF RowInv
<1> QED
  BY <1>1, <1>3, <1>7, <1>8, <1>9, <1>10, <1>11, ContinueKeeps DEF TypeOK

LEMMA JudgeKeeps ==
    ASSUME GInv, NEW r \in Requests, Judge(r), UNCHANGED logVars
    PROVE  Kept(r)
<1>1. /\ UNCHANGED <<low, high, log, coord, committed, op, seen, snap, marks, todo, targets,
                     moved, asked>>
      /\ pc[r] = "rows" /\ todo[r] = {}
  BY DEF Judge, logVars
<1>2. TypeOK /\ RequestInv(r) /\ CommittedInLog /\ CommittedInLog'
  BY <1>1 DEF GInv, CommittedInLog
<1>3. moved[r] = {} /\ asked[r] = {} /\ answer[r] = "none"
  BY <1>1, <1>2 DEF RequestInv, MovedInv, AskedInv, ControlInv
<1>4. \/ op[r].kind = "view" /\ Answer(r, "missing", "none")
      \/ op[r].kind = "view" /\ Answer(r, "page", "none")
      \/ Raise(r)
      \/ op[r].kind = "reset" /\ seen[r] = "EMPTY" /\ Continue(r, "topics")
      \/ op[r].kind = "delete" /\ seen[r] = "EMPTY" /\ Continue(r, "delete")
  BY OpFacts DEF Judge, MayChange
<1>5. CASE Raise(r) \/ Answer(r, "missing", "none")
  BY <1>1, <1>2, <1>3, <1>5, RaiseKeeps, AnswerKeeps DEF TypeOK
<1>6. CASE op[r].kind = "view" /\ Answer(r, "page", "none")
  <2>1. /\ pc' \in [Requests -> {"start", "describe", "committed", "rows", "topics",
                                 "times", "resolve", "verify", "delete", "answered"}]
        /\ answer' \in [Requests -> {"none", "page", "missing", "forbidden", "denied",
                                     "refused", "error", "ok"}]
        /\ audited' \in [Requests -> {"none", "denied", "error", "ok"}]
        /\ pc'[r] = "answered" /\ answer'[r] = "page" /\ audited'[r] = "none"
        /\ \A q \in Requests \ {r} : /\ pc'[q] = pc[q] /\ answer'[q] = answer[q]
                                     /\ audited'[q] = audited[q]
    BY <1>2, <1>6, AnswerEffect
  <2>2. TypeOK'
    <3>1. LogTypeOK'
      BY <1>1, <1>2 DEF TypeOK, LogTypeOK
    <3> QED
      BY <1>1, <1>2, <2>1, <3>1 DEF TypeOK
  <2>3. ControlInv(r)' /\ MovedInv(r)' /\ AskedInv(r)'
    BY <1>1, <1>3, <2>1 DEF ControlInv, MovedInv, AskedInv
  <2>4. OffsetInv(r)'
    BY <1>1, <1>2 DEF RequestInv, OffsetInv
  <2>5. RowInv(r)'
    BY <1>1, <1>2, <2>1 DEF RequestInv, RowInv
  <2>6. \A q \in Requests \ {r} : Untouched(q)
    BY <1>1, <2>1 DEF Untouched
  <2> QED
    BY <1>1, <1>2, <2>2, <2>3, <2>4, <2>5, <2>6 DEF Kept, RequestInv
<1>7. ASSUME NEW l \in {"topics", "delete"}, Continue(r, l), seen[r] = "EMPTY",
             l = "topics" => op[r].kind = "reset", l = "delete" => op[r].kind = "delete"
      PROVE  Kept(r)
  <2>1. pc'[r] = l /\ answer' = answer
    BY <1>2, <1>7, ContinueEffect
  <2>2. ControlInv(r)'
    BY <1>1, <1>2, <1>3, <1>7, <2>1 DEF RequestInv, ControlInv
  <2>3. MovedInv(r)' /\ RowInv(r)' /\ AskedInv(r)'
    BY <1>1, <1>3, <1>7, <2>1 DEF MovedInv, RowInv, AskedInv
  <2>4. OffsetInv(r)'
    BY <1>1, <1>2 DEF RequestInv, OffsetInv
  <2> QED
    BY <1>1, <1>2, <1>7, <2>2, <2>3, <2>4, ContinueKeeps DEF TypeOK
<1> QED
  BY <1>4, <1>5, <1>6, <1>7

LEMMA ListTopicsKeeps ==
    ASSUME GInv, NEW r \in Requests, ListTopics(r), UNCHANGED logVars
    PROVE  Kept(r)
<1>1. /\ UNCHANGED <<low, high, log, coord, committed, op, seen, snap, marks, targets,
                     moved, asked>>
      /\ pc[r] = "topics"
  BY DEF ListTopics, logVars
<1>2. TypeOK /\ RequestInv(r) /\ CommittedInLog /\ CommittedInLog'
  BY <1>1 DEF GInv, CommittedInLog
<1>3. moved[r] = {} /\ asked[r] = {} /\ answer[r] = "none"
  BY <1>1, <1>2 DEF RequestInv, MovedInv, AskedInv, ControlInv
<1>4. CASE Raise(r) /\ UNCHANGED todo
  BY <1>1, <1>2, <1>3, <1>4, RaiseKeeps DEF TypeOK
<1>5. ASSUME NEW l \in {"times", "resolve"}, Continue(r, l),
             Planned(r) \subseteq Partitions, ~BadOffsetRequest(r),
             todo' = [todo EXCEPT ![r] = Planned(r)]
      PROVE  Kept(r)
  <2>1. pc'[r] = l /\ answer' = answer
    BY <1>2, <1>5, ContinueEffect
  <2>2. /\ todo' \in [Requests -> SUBSET Partitions]
        /\ \A q \in Requests \ {r} : todo'[q] = todo[q]
        /\ Planned(r)' = Planned(r)
    BY <1>1, <1>2, <1>5 DEF TypeOK, Planned
  <2>3. ControlInv(r)'
    BY <1>1, <1>2, <1>3, <1>5, <2>1, <2>2 DEF RequestInv, ControlInv, BadOffsetRequest
  <2>4. MovedInv(r)' /\ RowInv(r)' /\ AskedInv(r)'
    BY <1>1, <1>3, <1>5, <2>1 DEF MovedInv, RowInv, AskedInv
  <2>5. OffsetInv(r)'
    BY <1>1, <1>2 DEF RequestInv, OffsetInv
  <2> QED
    BY <1>1, <1>2, <1>5, <2>2, <2>3, <2>4, <2>5, ContinueKeeps DEF TypeOK
<1>6. \/ Raise(r) /\ UNCHANGED todo
      \/ /\ Continue(r, "times") \/ Continue(r, "resolve")
         /\ Planned(r) \subseteq Partitions /\ ~BadOffsetRequest(r)
         /\ todo' = [todo EXCEPT ![r] = Planned(r)]
  BY DEF ListTopics
<1> QED
  BY <1>4, <1>5, <1>6

LEMMA AskTimesKeeps ==
    ASSUME GInv, NEW r \in Requests, AskTimes(r), UNCHANGED logVars
    PROVE  Kept(r)
<1> DEFINE found == [p \in Partitions |-> IF p \in Planned(r) THEN OffsetForTime(p) ELSE NONE]
           left  == {p \in Planned(r) : NothingAfter(OffsetForTime(p))}
           known == {c \in Late : c[1] \in Planned(r) /\ c[2] \in log[c[1]]}
<1>1. /\ UNCHANGED <<low, high, log, coord, committed, op, seen, snap, marks, moved>>
      /\ pc[r] = "times"
      /\ targets' = [targets EXCEPT ![r] = found]
      /\ todo' = [todo EXCEPT ![r] = left]
      /\ asked' = [asked EXCEPT ![r] = known]
      /\ Continue(r, "resolve")
  BY DEF AskTimes, logVars
<1>2. TypeOK /\ LogTypeOK /\ LogConsistent /\ RequestInv(r)
  BY DEF GInv, TypeOK
<1>3. moved[r] = {} /\ answer[r] = "none" /\ Planned(r) \subseteq Partitions
  BY <1>1, <1>2 DEF RequestInv, MovedInv, ControlInv
<1>4. pc'[r] = "resolve" /\ answer' = answer
  BY <1>1, <1>2, ContinueEffect
<1>5. \A p \in Partitions : /\ OffsetForTime(p) \in NONE .. MaxHigh
                            /\ OffsetForTime(p) <= high[p]
  <2> SUFFICES ASSUME NEW p \in Partitions
               PROVE  OffsetForTime(p) \in NONE .. MaxHigh /\ OffsetForTime(p) <= high[p]
    OBVIOUS
  <2>1. OffsetForTime(p) \in log[p] \cup {-1}
    BY <1>2, FirstAfter
  <2>2. /\ log[p] \subseteq 0 .. MaxHigh /\ high[p] \in 0 .. MaxHigh /\ MaxHigh \in Nat
        /\ \A o \in log[p] : o < high[p]
    BY <1>2, LogAssumption DEF LogTypeOK, LogConsistent
  <2> QED
    BY <2>1, <2>2 DEF NONE
<1>6. \A p \in Partitions : found[p] \in NONE .. MaxHigh /\ found[p] <= high[p]
  <2>1. MaxHigh \in Nat /\ \A p \in Partitions : high[p] \in 0 .. MaxHigh
    BY <1>2, LogAssumption DEF LogTypeOK
  <2>2. NONE \in NONE .. MaxHigh /\ \A p \in Partitions : NONE <= high[p]
    BY <2>1 DEF NONE
  <2> QED
    BY <1>5, <2>2
<1>7. \A c \in known : found[c[1]] <= c[2] /\ c[1] \notin left
  <2> SUFFICES ASSUME NEW c \in known PROVE found[c[1]] <= c[2] /\ c[1] \notin left
    OBVIOUS
  <2>1. c \in Late /\ c[1] \in Planned(r) /\ c[1] \in Partitions /\ c[2] \in log[c[1]]
    BY <1>3
  <2>2. c = <<c[1], c[2]>>
    BY <2>1, LogAssumption DEF Coordinates
  <2>3. OffsetForTime(c[1]) <= c[2] /\ OffsetForTime(c[1]) \in log[c[1]]
    BY <1>2, <2>1, <2>2, FirstAfter
  <2>4. found[c[1]] = OffsetForTime(c[1])
    BY <2>1
  <2>5. log[c[1]] \subseteq 0 .. MaxHigh
    BY <1>2, <2>1 DEF LogTypeOK
  <2>6. ~ NothingAfter(OffsetForTime(c[1]))
    BY <2>3, <2>5, LogAssumption DEF NothingAfter
  <2> QED
    BY <2>3, <2>4, <2>6
<1>8. /\ targets' \in [Requests -> [Partitions -> NONE .. MaxHigh]]
      /\ todo' \in [Requests -> SUBSET Partitions]
      /\ asked' \in [Requests -> SUBSET Late]
      /\ targets'[r] = found /\ todo'[r] = left /\ asked'[r] = known
      /\ \A q \in Requests \ {r} : /\ targets'[q] = targets[q] /\ todo'[q] = todo[q]
                                   /\ asked'[q] = asked[q]
      /\ Planned(r)' = Planned(r)
  <2>1. found \in [Partitions -> NONE .. MaxHigh] /\ left \in SUBSET Partitions
        /\ known \in SUBSET Late
    BY <1>3, <1>6
  <2> HIDE DEF found, left, known
  <2> QED
    BY <1>1, <1>2, <2>1 DEF TypeOK, Planned
<1> HIDE DEF found, left, known
<1>9. ControlInv(r)'
  BY <1>1, <1>2, <1>3, <1>4, <1>8 DEF RequestInv, ControlInv
<1>10. MovedInv(r)' /\ RowInv(r)'
  BY <1>1, <1>3, <1>4 DEF MovedInv, RowInv
<1>11. AskedInv(r)'
  BY <1>4, <1>7, <1>8 DEF AskedInv
<1>12. OffsetInv(r)'
  BY <1>1, <1>2, <1>6, <1>8 DEF RequestInv, OffsetInv
<1> QED
  BY <1>1, <1>2, <1>8, <1>9, <1>10, <1>11, <1>12, ContinueKeeps DEF TypeOK

LEMMA ResolveTargetKeeps ==
    ASSUME GInv, NEW r \in Requests, ResolveTarget(r), UNCHANGED logVars
    PROVE  Kept(r)
<1>1. /\ UNCHANGED <<low, high, log, coord, committed, op, seen, snap, marks, moved, asked>>
      /\ pc[r] = "resolve"
  BY DEF ResolveTarget, logVars
<1>2. TypeOK /\ LogTypeOK /\ LogConsistent /\ RequestInv(r) /\ CommittedInLog'
  BY <1>1 DEF GInv, TypeOK, CommittedInLog
<1>3. moved[r] = {} /\ answer[r] = "none" /\ op[r].kind = "reset"
      /\ Planned(r) \subseteq Partitions
  BY <1>1, <1>2 DEF RequestInv, MovedInv, ControlInv
<1>8. /\ op[r].target \in {"earliest", "latest", "timestamp", "offset"}
      /\ op[r].target = "offset" => op[r].offset \in Int
  <2>1. op[r].target # "unknown" /\ (op[r].target = "offset" => op[r].offset # NoOffset)
    BY <1>1, <1>2, <1>3 DEF RequestInv, ControlInv
  <2> QED
    BY <2>1, OpFacts
<1>4. PICK p \in Partitions :
        /\ p \in todo[r]
        /\ todo' = [todo EXCEPT ![r] = todo[r] \ {p}]
        /\ IF op[r].target = "offset" /\ ~InRange(op[r].offset, p)
             THEN Raise(r) /\ UNCHANGED targets
             ELSE /\ targets' = [targets EXCEPT ![r][p] =
                       CASE op[r].target = "earliest" -> low[p]
                         [] op[r].target = "offset" -> op[r].offset
                         [] op[r].target \in {"latest", "timestamp"} -> high[p]]
                  /\ Continue(r, "resolve")
  BY DEF ResolveTarget, Visit, Rest
<1>5. /\ todo' \in [Requests -> SUBSET Partitions]
      /\ todo'[r] = todo[r] \ {p}
      /\ \A q \in Requests \ {r} : todo'[q] = todo[q]
  BY <1>2, <1>4 DEF TypeOK
<1>6. CASE Raise(r) /\ UNCHANGED targets
  BY <1>1, <1>2, <1>3, <1>5, <1>6, RaiseKeeps DEF TypeOK
<1>7. ASSUME op[r].target = "offset" => low[p] <= op[r].offset /\ op[r].offset <= high[p],
             NEW t, t = CASE op[r].target = "earliest" -> low[p]
                         [] op[r].target = "offset" -> op[r].offset
                         [] op[r].target \in {"latest", "timestamp"} -> high[p],
             targets' = [targets EXCEPT ![r][p] = t], Continue(r, "resolve")
      PROVE  Kept(r)
  <2>1. pc'[r] = "resolve" /\ answer' = answer
    BY <1>2, <1>7, ContinueEffect
  <2>2. low[p] \in 0 .. MaxHigh /\ high[p] \in 0 .. MaxHigh /\ low[p] <= high[p]
        /\ MaxHigh \in Nat
    BY <1>2, LogAssumption DEF LogTypeOK, LogConsistent
  <2>3. t \in NONE .. MaxHigh /\ t <= high[p]
    <3>1. CASE op[r].target = "offset"
      <4>1. t = op[r].offset
        BY <1>7, <3>1
      <4>2. op[r].offset \in Int /\ low[p] <= op[r].offset /\ op[r].offset <= high[p]
        BY <1>7, <1>8, <3>1
      <4> QED
        BY <2>2, <4>1, <4>2 DEF NONE
    <3>2. CASE op[r].target = "earliest"
      <4>1. t = low[p]
        BY <1>7, <3>2
      <4> QED
        BY <2>2, <4>1 DEF NONE
    <3>3. CASE op[r].target \in {"latest", "timestamp"}
      <4>1. t = high[p]
        BY <1>7, <3>3
      <4> QED
        BY <2>2, <4>1 DEF NONE
    <3> QED
      BY <1>8, <3>1, <3>2, <3>3
  <2>4. /\ targets' \in [Requests -> [Partitions -> NONE .. MaxHigh]]
        /\ targets'[r][p] = t
        /\ \A q \in Partitions \ {p} : targets'[r][q] = targets[r][q]
        /\ \A q \in Requests \ {r} : targets'[q] = targets[q]
        /\ Planned(r)' = Planned(r)
    BY <1>1, <1>2, <1>7, <2>3 DEF TypeOK, Planned
  <2>5. ControlInv(r)'
    BY <1>1, <1>2, <1>3, <2>1, <2>4 DEF RequestInv, ControlInv
  <2>6. MovedInv(r)' /\ RowInv(r)'
    BY <1>1, <1>3, <2>1 DEF MovedInv, RowInv
  <2>7. AskedInv(r)'
    <3>1. ASSUME NEW c \in asked[r] PROVE targets'[r][c[1]] <= c[2] /\ c[1] \notin todo'[r]
      <4>1. c[1] \notin todo[r] /\ c[1] # p /\ targets[r][c[1]] <= c[2]
        BY <1>1, <1>2, <1>4 DEF RequestInv, AskedInv
      <4>2. c[1] \in Partitions
        <5>1. asked[r] \subseteq Late
          BY <1>2 DEF TypeOK
        <5> QED
          BY <5>1, LogAssumption DEF Coordinates
      <4> QED
        BY <1>5, <2>4, <4>1, <4>2
    <3> QED
      BY <1>1, <2>1, <3>1 DEF AskedInv
  <2>8. OffsetInv(r)'
    BY <1>1, <1>2, <2>3, <2>4 DEF RequestInv, OffsetInv
  <2> QED
    BY <1>1, <1>2, <1>5, <1>7, <2>4, <2>5, <2>6, <2>7, <2>8, ContinueKeeps DEF TypeOK
<1> QED
  BY <1>4, <1>6, <1>7 DEF InRange

LEMMA AlterKeeps ==
    ASSUME GInv, NEW r \in Requests, Alter(r), UNCHANGED logVars
    PROVE  Kept(r)
<1>1. /\ UNCHANGED <<low, high, log, op, seen, snap, marks, targets, asked>>
      /\ pc[r] = "resolve" /\ todo[r] = {}
  BY DEF Alter, logVars
<1>2. TypeOK /\ RequestInv(r) /\ CommittedInLog
  BY DEF GInv
<1>3. /\ moved[r] = {} /\ answer[r] = "none" /\ op[r].kind = "reset"
      /\ op[r].write /\ op[r].confirmed /\ seen[r] = "EMPTY"
      /\ Planned(r) \subseteq Partitions
  BY <1>1, <1>2 DEF RequestInv, MovedInv, ControlInv
<1>4. CASE Raise(r) /\ UNCHANGED <<coord, committed, moved, todo>>
  <2>1. CommittedInLog'
    BY <1>1, <1>2, <1>4 DEF CommittedInLog
  <2> QED
    BY <1>1, <1>2, <1>3, <1>4, <2>1, RaiseKeeps DEF TypeOK
<1>5. ASSUME NEW accepted \in SUBSET Planned(r),
             committed' = [p \in Partitions |->
                             IF p \in accepted THEN targets[r][p] ELSE committed[p]],
             coord' = IF accepted # {} THEN "EMPTY" ELSE coord,
             moved' = [moved EXCEPT ![r] = accepted],
             \/ todo' = [todo EXCEPT ![r] = Planned(r)] /\ Continue(r, "verify")
             \/ UNCHANGED todo /\ Raise(r)
      PROVE  Kept(r)
  <2>1. \A p \in Partitions : targets[r][p] \in NONE .. MaxHigh /\ targets[r][p] <= high[p]
    BY <1>2 DEF TypeOK, RequestInv, OffsetInv
  <2>2. /\ coord' \in {"DEAD", "EMPTY", "STABLE"}
        /\ committed' \in [Partitions -> NONE .. MaxHigh]
    BY <1>2, <1>5, <2>1 DEF TypeOK
  <2>3. CommittedInLog'
    BY <1>1, <1>2, <1>5, <2>1 DEF CommittedInLog
  <2>4. /\ moved' \in [Requests -> SUBSET Partitions]
        /\ moved'[r] = accepted
        /\ \A q \in Requests \ {r} : moved'[q] = moved[q]
    BY <1>2, <1>3, <1>5 DEF TypeOK
  <2>5. CASE UNCHANGED todo /\ Raise(r)
    BY <1>1, <1>2, <1>3, <2>2, <2>3, <2>4, <2>5, RaiseKeeps DEF TypeOK
  <2>6. CASE todo' = [todo EXCEPT ![r] = Planned(r)] /\ Continue(r, "verify")
    <3>1. pc'[r] = "verify" /\ answer' = answer /\ audited' = audited
          /\ pc' \in [Requests -> {"start", "describe", "committed", "rows", "topics",
                                   "times", "resolve", "verify", "delete", "answered"}]
          /\ \A q \in Requests \ {r} : pc'[q] = pc[q]
      BY <1>2, <2>6, ContinueEffect
    <3>2. /\ todo' \in [Requests -> SUBSET Partitions]
          /\ todo'[r] = Planned(r)
          /\ \A q \in Requests \ {r} : todo'[q] = todo[q]
      BY <1>2, <1>3, <2>6 DEF TypeOK
    <3>3. TypeOK'
      <4>1. LogTypeOK'
        BY <1>1, <1>2 DEF TypeOK, LogTypeOK
      <4> QED
        BY <1>1, <1>2, <2>2, <2>4, <3>1, <3>2, <4>1 DEF TypeOK
    <3>4. Planned(r)' = Planned(r)
      BY <1>1 DEF Planned
    <3>5. ControlInv(r)'
      BY <1>1, <1>2, <1>3, <3>1, <3>4 DEF RequestInv, ControlInv
    <3>6. MovedInv(r)'
      BY <1>1, <1>3, <2>4, <3>1, <3>4 DEF MovedInv
    <3>7. RowInv(r)'
      BY <1>1, <1>3, <2>4, <3>1, <3>2, <3>4 DEF RowInv
    <3>8. AskedInv(r)'
      BY <1>1, <1>2, <3>1 DEF RequestInv, AskedInv
    <3>9. OffsetInv(r)'
      BY <1>1, <1>2 DEF RequestInv, OffsetInv
    <3>10. \A q \in Requests \ {r} : Untouched(q)
      BY <1>1, <2>4, <3>1, <3>2 DEF Untouched
    <3> QED
      BY <1>1, <2>3, <3>3, <3>5, <3>6, <3>7, <3>8, <3>9, <3>10 DEF Kept, RequestInv
  <2> QED
    BY <1>5, <2>5, <2>6
<1> QED
  <2>1. \/ Raise(r) /\ UNCHANGED <<coord, committed, moved, todo>>
        \/ \E accepted \in SUBSET Planned(r) :
             /\ committed' = [p \in Partitions |->
                                IF p \in accepted THEN targets[r][p] ELSE committed[p]]
             /\ coord' = IF accepted # {} THEN "EMPTY" ELSE coord
             /\ moved' = [moved EXCEPT ![r] = accepted]
             /\ \/ todo' = [todo EXCEPT ![r] = Planned(r)] /\ Continue(r, "verify")
                \/ UNCHANGED todo /\ Raise(r)
    BY DEF Alter
  <2> QED
    BY <1>4, <1>5, <2>1

LEMMA VerifyPartitionKeeps ==
    ASSUME GInv, NEW r \in Requests, VerifyPartition(r), UNCHANGED logVars
    PROVE  Kept(r)
<1>1. /\ UNCHANGED <<low, high, log, coord, committed, op, seen, snap, targets, moved, asked>>
      /\ pc[r] = "verify"
  BY DEF VerifyPartition, logVars
<1>2. TypeOK /\ RequestInv(r) /\ CommittedInLog /\ CommittedInLog'
  BY <1>1 DEF GInv, CommittedInLog
<1>3. /\ answer[r] = "none" /\ op[r].kind = "reset"
      /\ op[r].write /\ op[r].confirmed /\ seen[r] = "EMPTY"
      /\ Planned(r) \subseteq Partitions
  BY <1>1, <1>2 DEF RequestInv, ControlInv
<1>4. PICK p \in Partitions :
        /\ p \in todo[r]
        /\ \/ Raise(r) /\ UNCHANGED <<marks, todo>>
           \/ /\ p \in moved[r]
              /\ marks' = [marks EXCEPT ![r][p] = Watermarks(p)]
              /\ todo' = [todo EXCEPT ![r] = todo[r] \ {p}]
              /\ Continue(r, "verify")
  BY DEF VerifyPartition, Visit, Rest, PartitionFailed
<1>5. CASE Raise(r) /\ UNCHANGED <<marks, todo>>
  BY <1>1, <1>2, <1>3, <1>5, RaiseKeeps DEF TypeOK
<1>6. CASE /\ p \in moved[r]
           /\ marks' = [marks EXCEPT ![r][p] = Watermarks(p)]
           /\ todo' = [todo EXCEPT ![r] = todo[r] \ {p}]
           /\ Continue(r, "verify")
  <2>1. pc'[r] = "verify" /\ answer' = answer /\ audited' = audited
    BY <1>2, <1>6, ContinueEffect DEF Continue
  <2>2. Watermarks(p) \in Row /\ Watermarks(p).high = high[p]
    BY <1>2 DEF TypeOK, LogTypeOK, Watermarks, Row
  <2>3. /\ marks' \in [Requests -> [Partitions -> Row]]
        /\ todo' \in [Requests -> SUBSET Partitions]
        /\ todo'[r] = todo[r] \ {p}
        /\ marks'[r][p].high = high[p]
        /\ \A q \in Partitions \ {p} : marks'[r][q] = marks[r][q]
        /\ \A q \in Requests \ {r} : marks'[q] = marks[q] /\ todo'[q] = todo[q]
    BY <1>2, <1>6, <2>2 DEF TypeOK
  <2>4. Planned(r)' = Planned(r)
    BY <1>1 DEF Planned
  <2>5. ControlInv(r)'
    BY <1>1, <1>2, <1>3, <2>1, <2>4 DEF RequestInv, ControlInv
  <2>6. MovedInv(r)'
    BY <1>1, <1>2, <1>3, <2>1, <2>4 DEF RequestInv, MovedInv
  <2>7. AskedInv(r)'
    BY <1>1, <1>2, <2>1 DEF RequestInv, AskedInv
  <2>8. OffsetInv(r)'
    BY <1>1, <1>2 DEF RequestInv, OffsetInv
  <2>9. RowInv(r)'
    <3>1. ASSUME NEW q \in Planned(r), q \notin todo'[r]
          PROVE  targets[r][q] <= marks'[r][q].high /\ q \in moved[r]
      <4>1. CASE q = p
        BY <1>2, <1>6, <2>3, <4>1 DEF RequestInv, OffsetInv
      <4>2. CASE q # p
        <5>1. q \in Partitions \ {p} /\ q \notin todo[r]
          BY <1>3, <2>3, <3>1, <4>2
        <5>2. targets[r][q] <= marks[r][q].high /\ q \in moved[r]
          BY <1>1, <1>2, <5>1 DEF RequestInv, RowInv
        <5> QED
          BY <2>3, <5>1, <5>2
      <4> QED
        BY <4>1, <4>2
    <3>2. moved[r] \subseteq Planned(r)
      BY <1>1, <1>2 DEF RequestInv, MovedInv
    <3> QED
      BY <1>1, <1>3, <2>1, <2>4, <3>1, <3>2 DEF RowInv
  <2> QED
    BY <1>1, <1>2, <1>6, <2>3, <2>5, <2>6, <2>7, <2>8, <2>9, ContinueKeeps DEF TypeOK
<1> QED
  BY <1>4, <1>5, <1>6

LEMMA ResetDoneKeeps ==
    ASSUME GInv, NEW r \in Requests, ResetDone(r), UNCHANGED logVars
    PROVE  Kept(r)
<1>1. /\ UNCHANGED <<low, high, log, coord, committed, op, seen, snap, marks, todo, targets,
                     moved, asked>>
      /\ pc[r] = "verify" /\ todo[r] = {} /\ Answer(r, "ok", "ok")
  BY DEF ResetDone, logVars
<1>2. TypeOK /\ RequestInv(r) /\ CommittedInLog /\ CommittedInLog'
  BY <1>1 DEF GInv, CommittedInLog
<1>3. /\ op[r].kind = "reset" /\ op[r].write /\ op[r].confirmed /\ seen[r] = "EMPTY"
  BY <1>1, <1>2 DEF RequestInv, ControlInv
<1>4. /\ pc' \in [Requests -> {"start", "describe", "committed", "rows", "topics",
                               "times", "resolve", "verify", "delete", "answered"}]
      /\ answer' \in [Requests -> {"none", "page", "missing", "forbidden", "denied",
                                   "refused", "error", "ok"}]
      /\ audited' \in [Requests -> {"none", "denied", "error", "ok"}]
      /\ pc'[r] = "answered" /\ answer'[r] = "ok" /\ audited'[r] = "ok"
      /\ \A q \in Requests \ {r} : /\ pc'[q] = pc[q] /\ answer'[q] = answer[q]
                                   /\ audited'[q] = audited[q]
  BY <1>1, <1>2, AnswerEffect
<1>5. TypeOK'
  <2>1. LogTypeOK'
    BY <1>1, <1>2 DEF TypeOK, LogTypeOK
  <2> QED
    BY <1>1, <1>2, <1>4, <2>1 DEF TypeOK
<1>6. Planned(r)' = Planned(r)
  BY <1>1 DEF Planned
<1>7. ControlInv(r)' /\ AskedInv(r)' /\ MovedInv(r)'
  BY <1>1, <1>3, <1>4, <1>6 DEF ControlInv, AskedInv, MovedInv
<1>8. RowInv(r)'
  BY <1>1, <1>2, <1>4, <1>6 DEF RequestInv, RowInv
<1>9. OffsetInv(r)'
  BY <1>1, <1>2 DEF RequestInv, OffsetInv
<1>10. \A q \in Requests \ {r} : Untouched(q)
  BY <1>1, <1>4 DEF Untouched
<1> QED
  BY <1>1, <1>2, <1>5, <1>7, <1>8, <1>9, <1>10 DEF Kept, RequestInv

LEMMA DeleteGroupKeeps ==
    ASSUME GInv, NEW r \in Requests, DeleteGroup(r), UNCHANGED logVars
    PROVE  Kept(r)
<1>1. /\ UNCHANGED <<low, high, log, op, seen, snap, marks, todo, targets, asked>>
      /\ pc[r] = "delete"
  BY DEF DeleteGroup, logVars
<1>2. TypeOK /\ RequestInv(r) /\ CommittedInLog
  BY DEF GInv
<1>3. /\ moved[r] = {} /\ answer[r] = "none" /\ op[r].kind = "delete"
      /\ op[r].write /\ op[r].confirmed /\ seen[r] = "EMPTY"
  BY <1>1, <1>2 DEF RequestInv, MovedInv, ControlInv
<1>4. CASE Raise(r) /\ UNCHANGED <<coord, committed, moved>>
  <2>1. CommittedInLog'
    BY <1>1, <1>2, <1>4 DEF CommittedInLog
  <2> QED
    BY <1>1, <1>2, <1>3, <1>4, <2>1, RaiseKeeps DEF TypeOK
<1>5. CASE /\ coord' = "DEAD"
           /\ committed' = [p \in Partitions |-> NONE]
           /\ moved' = [moved EXCEPT ![r] = Partitions]
           /\ Answer(r, "ok", "ok") \/ Raise(r)
  <2>1. /\ committed' \in [Partitions -> NONE .. MaxHigh]
        /\ CommittedInLog'
    <3>1. \A p \in Partitions : high[p] \in 0 .. MaxHigh
      BY <1>2 DEF TypeOK, LogTypeOK
    <3> QED
      BY <1>1, <1>5, <3>1, LogAssumption DEF CommittedInLog, NONE
  <2>2. /\ moved' \in [Requests -> SUBSET Partitions]
        /\ \A q \in Requests \ {r} : moved'[q] = moved[q]
    BY <1>2, <1>5 DEF TypeOK
  <2>3. CASE Raise(r)
    BY <1>1, <1>2, <1>3, <1>5, <2>1, <2>2, <2>3, RaiseKeeps DEF TypeOK
  <2>4. CASE Answer(r, "ok", "ok")
    <3>1. /\ pc' \in [Requests -> {"start", "describe", "committed", "rows", "topics",
                                   "times", "resolve", "verify", "delete", "answered"}]
          /\ answer' \in [Requests -> {"none", "page", "missing", "forbidden", "denied",
                                       "refused", "error", "ok"}]
          /\ audited' \in [Requests -> {"none", "denied", "error", "ok"}]
          /\ pc'[r] = "answered" /\ answer'[r] = "ok" /\ audited'[r] = "ok"
          /\ \A q \in Requests \ {r} : /\ pc'[q] = pc[q] /\ answer'[q] = answer[q]
                                       /\ audited'[q] = audited[q]
      BY <1>2, <2>4, AnswerEffect
    <3>2. TypeOK'
      <4>1. LogTypeOK'
        BY <1>1, <1>2 DEF TypeOK, LogTypeOK
      <4> QED
        BY <1>1, <1>2, <1>5, <2>1, <2>2, <3>1, <4>1 DEF TypeOK
    <3>3. ControlInv(r)' /\ MovedInv(r)' /\ RowInv(r)' /\ AskedInv(r)'
      BY <1>1, <1>3, <3>1 DEF ControlInv, MovedInv, RowInv, AskedInv
    <3>4. OffsetInv(r)'
      BY <1>1, <1>2 DEF RequestInv, OffsetInv
    <3>5. \A q \in Requests \ {r} : Untouched(q)
      BY <1>1, <2>2, <3>1 DEF Untouched
    <3> QED
      BY <1>1, <2>1, <3>2, <3>3, <3>4, <3>5 DEF Kept, RequestInv
  <2> QED
    BY <1>5, <2>3, <2>4
<1> QED
  BY <1>4, <1>5 DEF DeleteGroup

LEMMA BrokerTroubleKeeps ==
    ASSUME GInv, NEW r \in Requests, BrokerTrouble(r), UNCHANGED logVars
    PROVE  Kept(r)
<1>1. /\ UNCHANGED <<low, high, log, coord, committed, op, seen, snap, marks, todo, targets,
                     moved, asked>>
      /\ pc[r] \in {"committed", "topics", "times", "resolve", "delete", "rows", "verify"}
      /\ Raise(r)
  BY DEF BrokerTrouble, logVars
<1>2. TypeOK /\ RequestInv(r) /\ CommittedInLog /\ CommittedInLog'
  BY <1>1 DEF GInv, CommittedInLog
<1>3. moved[r] # {} => /\ op[r].write /\ op[r].confirmed /\ op[r].kind # "view"
                       /\ seen[r] = "EMPTY"
  BY <1>2 DEF RequestInv, MovedInv
<1> QED
  BY <1>1, <1>2, <1>3, RaiseKeeps DEF TypeOK

-----------------------------------------------------------------------------
(* The invariant is inductive                                              *)

\* Requests do not disturb each other, though they change the same group.
LEMMA StepGInv ==
    ASSUME GInv, NEW r \in Requests, Step(r), UNCHANGED logVars
    PROVE  GInv'
<1>1. Kept(r)
  BY ReceiveKeeps, DescribeKeeps, ReadCommittedKeeps, ReadRowKeeps, JudgeKeeps,
     ListTopicsKeeps, AskTimesKeeps, ResolveTargetKeeps, AlterKeeps, VerifyPartitionKeeps,
     ResetDoneKeeps, DeleteGroupKeeps, BrokerTroubleKeeps DEF Step
<1>2. /\ UNCHANGED <<low, high, log, op>> /\ TypeOK' /\ CommittedInLog' /\ RequestInv(r)'
      /\ \A q \in Requests \ {r} : Untouched(q)
  BY <1>1 DEF Kept, logVars
<1>3. LogConsistent'
  BY <1>2 DEF GInv, LogConsistent
<1>4. ASSUME NEW q \in Requests, q # r PROVE RequestInv(q)'
  <2>1. Untouched(q) /\ RequestInv(q)
    BY <1>2, <1>4 DEF GInv
  <2>2. Planned(q)' = Planned(q)
    BY <1>2 DEF Planned
  <2>3. ControlInv(q)' /\ MovedInv(q)' /\ RowInv(q)' /\ AskedInv(q)' /\ OffsetInv(q)'
    BY <1>2, <2>1, <2>2 DEF RequestInv, ControlInv, MovedInv, RowInv, AskedInv, OffsetInv,
                            Untouched
  <2> QED
    BY <2>3 DEF RequestInv
<1> QED
  BY <1>2, <1>3, <1>4 DEF GInv

\* Members and the coordinator keep committed offsets within the log.
LEMMA GroupGInv ==
    ASSUME GInv, GroupNext, UNCHANGED <<logVars, requestVars>>
    PROVE  GInv'
<1>1. UNCHANGED <<low, high, log, op, pc, seen, snap, marks, todo, targets, answer, audited,
                  moved, asked>>
  BY DEF logVars, requestVars
<1>2. TypeOK /\ LogTypeOK /\ LogConsistent /\ CommittedInLog
  BY DEF GInv, TypeOK
<1>3. /\ coord' \in {"DEAD", "EMPTY", "STABLE"}
      /\ committed' \in [Partitions -> NONE .. MaxHigh]
      /\ \A p \in Partitions : committed'[p] <= high[p]
  <2>0. /\ MaxHigh \in Nat /\ \A p \in Partitions : high[p] \in 0 .. MaxHigh
        /\ coord \in {"DEAD", "EMPTY", "STABLE"}
        /\ committed \in [Partitions -> NONE .. MaxHigh]
        /\ \A p \in Partitions : committed[p] <= high[p]
    BY <1>2, LogAssumption DEF TypeOK, LogTypeOK, CommittedInLog
  <2>1. CASE ConsumerJoins \/ ConsumerLeaves
    BY <2>0, <2>1 DEF ConsumerJoins, ConsumerLeaves
  <2>2. CASE GroupExpires
    BY <2>0, <2>2 DEF GroupExpires, NONE
  <2>3. ASSUME NEW p \in Partitions, NEW o \in 0 .. MaxHigh, ConsumerCommits(p, o)
        PROVE  /\ coord' \in {"DEAD", "EMPTY", "STABLE"}
               /\ committed' \in [Partitions -> NONE .. MaxHigh]
               /\ \A q \in Partitions : committed'[q] <= high[q]
    BY <2>0, <2>3 DEF ConsumerCommits, NONE
  <2> QED
    BY <2>1, <2>2, <2>3 DEF GroupNext
<1>4. TypeOK' /\ LogConsistent' /\ CommittedInLog'
  <2>1. LogTypeOK' /\ LogConsistent'
    BY <1>1, <1>2 DEF LogTypeOK, LogConsistent
  <2> QED
    BY <1>1, <1>2, <1>3, <2>1 DEF TypeOK, CommittedInLog
<1>5. ASSUME NEW q \in Requests PROVE RequestInv(q)'
  <2>1. RequestInv(q)
    BY DEF GInv
  <2>2. Planned(q)' = Planned(q)
    BY <1>1 DEF Planned
  <2> QED
    BY <1>1, <2>1, <2>2 DEF RequestInv, ControlInv, MovedInv, RowInv, AskedInv, OffsetInv
<1> QED
  BY <1>4, <1>5 DEF GInv

\* High watermarks only grow, so offsets that were in the log still are, or were
\* purged below it.
LEMMA LogGInv ==
    ASSUME GInv, LogNext, UNCHANGED <<groupVars, requestVars>>
    PROVE  GInv'
<1>1. UNCHANGED <<coord, committed, op, pc, seen, snap, marks, todo, targets, answer, audited,
                  moved, asked>>
  BY DEF groupVars, requestVars
<1>2. TypeOK /\ LogTypeOK /\ LogConsistent /\ CommittedInLog
  BY DEF GInv, TypeOK
<1>3. LogTypeOK' /\ LogConsistent' /\ \A p \in Partitions : high[p] <= high'[p]
  BY <1>2, LogStep
<1>4. TypeOK'
  BY <1>1, <1>2, <1>3 DEF TypeOK
<1>5. \A p \in Partitions : high[p] \in Int /\ high'[p] \in Int /\ committed[p] \in Int
                            /\ high[p] <= high'[p]
  <2>1. \A p \in Partitions : high[p] \in 0 .. MaxHigh /\ high'[p] \in 0 .. MaxHigh
                              /\ committed[p] \in NONE .. MaxHigh
    BY <1>2, <1>3 DEF TypeOK, LogTypeOK
  <2> QED
    BY <1>3, <2>1, LogAssumption DEF NONE
<1>6. CommittedInLog'
  BY <1>1, <1>2, <1>5 DEF CommittedInLog
<1>7. ASSUME NEW q \in Requests PROVE RequestInv(q)'
  <2>1. RequestInv(q)
    BY DEF GInv
  <2>2. Planned(q)' = Planned(q)
    BY <1>1 DEF Planned
  <2>3. ControlInv(q)' /\ MovedInv(q)' /\ RowInv(q)' /\ AskedInv(q)'
    BY <1>1, <2>1, <2>2 DEF RequestInv, ControlInv, MovedInv, RowInv, AskedInv
  <2>4. \A p \in Partitions : snap[q][p] \in Int /\ targets[q][p] \in Int
    <3>1. /\ snap \in [Requests -> [Partitions -> NONE .. MaxHigh]]
          /\ targets \in [Requests -> [Partitions -> NONE .. MaxHigh]]
      BY <1>2 DEF TypeOK
    <3>2. \A p \in Partitions : snap[q][p] \in NONE .. MaxHigh
                                /\ targets[q][p] \in NONE .. MaxHigh
      BY <3>1
    <3> QED
      BY <3>2, LogAssumption DEF NONE
  <2>5. OffsetInv(q)'
    BY <1>1, <1>5, <2>1, <2>4 DEF RequestInv, OffsetInv
  <2> QED
    BY <2>3, <2>5 DEF RequestInv
<1> QED
  BY <1>3, <1>4, <1>6, <1>7 DEF GInv

\* Every reachable state satisfies the invariant.
THEOREM Inductive == Spec => []GInv
<1>1. Init => GInv
  BY InitGInv
<1>2. GInv /\ [Next]_vars => GInv'
  <2> SUFFICES ASSUME GInv, [Next]_vars PROVE GInv'
    OBVIOUS
  <2>1. CASE \E r \in Requests : Step(r) /\ UNCHANGED logVars
    BY <2>1, StepGInv
  <2>2. CASE GroupNext /\ UNCHANGED <<logVars, requestVars>>
    BY <2>2, GroupGInv
  <2>3. CASE LogNext /\ UNCHANGED <<groupVars, requestVars>>
    BY <2>3, LogGInv
  <2>4. CASE UNCHANGED vars
    <3>1. UNCHANGED <<low, high, log, coord, committed, op, pc, seen, snap, marks, todo,
                      targets, answer, audited, moved, asked>>
      BY <2>4 DEF vars, logVars, groupVars, requestVars
    <3>2. TypeOK' /\ LogConsistent' /\ CommittedInLog'
      <4>1. LogTypeOK' /\ LogConsistent'
        BY <3>1 DEF GInv, TypeOK, LogTypeOK, LogConsistent
      <4> QED
        BY <3>1, <4>1 DEF GInv, TypeOK, CommittedInLog
    <3>3. ASSUME NEW q \in Requests PROVE RequestInv(q)'
      <4>1. RequestInv(q)
        BY DEF GInv
      <4>2. Planned(q)' = Planned(q)
        BY <3>1 DEF Planned
      <4> QED
        BY <3>1, <4>1, <4>2 DEF RequestInv, ControlInv, MovedInv, RowInv, AskedInv, OffsetInv
    <3> QED
      BY <3>2, <3>3 DEF GInv
  <2> QED
    BY <2>1, <2>2, <2>3, <2>4 DEF Next
<1> QED
  BY <1>1, <1>2, PTL DEF Spec

-----------------------------------------------------------------------------
(* What follows from it                                                    *)

\* Every variable keeps its type; in particular a reset target is an offset of the
\* log or none, whatever the form said.
THEOREM TypeCorrect == Spec => []TypeOK
<1>1. GInv => TypeOK
  BY DEF GInv
<1> QED
  BY <1>1, Inductive, PTL

\* No reset leaves a group beyond the end of a partition.
THEOREM CommittedStaysInLog == Spec => []CommittedInLog
<1>1. GInv => CommittedInLog
  BY DEF GInv
<1> QED
  BY <1>1, Inductive, PTL

\* No group page and no reset result shows a negative lag, because offsets are read
\* or fixed before the high watermarks they are subtracted from.
THEOREM LagIsNeverNegative == Spec => []LagNeverNegative
<1>1. GInv => LagNeverNegative
  <2> SUFFICES ASSUME GInv, NEW r \in Requests, NEW p \in Partitions
               PROVE  /\ (answer[r] = "page" /\ snap[r][p] # NONE) => ShownLag(r, p) >= 0
                      /\ (answer[r] = "ok" /\ op[r].kind = "reset" /\ p \in Planned(r)) =>
                            Lag(targets[r][p], marks[r][p].high) >= 0
    BY DEF LagNeverNegative
  <2>1. ControlInv(r) /\ RowInv(r)
    BY DEF GInv, RequestInv
  <2>2. marks[r][p].high \in Int /\ snap[r][p] \in Int /\ targets[r][p] \in Int
    <3>1. /\ marks[r][p] \in Row /\ snap[r][p] \in NONE .. MaxHigh
          /\ targets[r][p] \in NONE .. MaxHigh
      BY DEF GInv, TypeOK
    <3> QED
      BY <3>1, LogAssumption DEF Row, NONE
  <2>3. ASSUME answer[r] = "page", snap[r][p] # NONE PROVE ShownLag(r, p) >= 0
    <3>1. snap[r][p] <= marks[r][p].high
      BY <2>1, <2>3 DEF ControlInv, RowInv
    <3> QED
      BY <2>2, <3>1 DEF ShownLag, Lag
  <2>4. ASSUME answer[r] = "ok", op[r].kind = "reset", p \in Planned(r)
        PROVE  Lag(targets[r][p], marks[r][p].high) >= 0
    <3>1. targets[r][p] <= marks[r][p].high
      BY <2>1, <2>4 DEF ControlInv, RowInv
    <3> QED
      BY <2>2, <3>1 DEF Lag
  <2> QED
    BY <2>3, <2>4
<1> QED
  BY <1>1, Inductive, PTL

\* The two together, which is what the runs check.
THEOREM OffsetsAreSound == Spec => []OffsetsSound
<1>1. CommittedInLog /\ LagNeverNegative => OffsetsSound
  BY DEF OffsetsSound
<1> QED
  BY <1>1, CommittedStaysInLog, LagIsNeverNegative, PTL

\* A reset that answers ok moved every partition it was asked to move.
THEOREM OkMeansAllMoved == Spec => []OkMeansMoved
<1>1. GInv => OkMeansMoved
  <2> SUFFICES ASSUME GInv, NEW r \in Requests, answer[r] = "ok", op[r].kind = "reset"
               PROVE  moved[r] = Planned(r)
    BY DEF OkMeansMoved
  <2>1. ControlInv(r) /\ RowInv(r)
    BY DEF GInv, RequestInv
  <2>2. todo[r] = {}
    BY <2>1 DEF ControlInv
  <2>3. moved[r] \subseteq Planned(r) /\ \A p \in Planned(r) : p \in moved[r]
    BY <2>1, <2>2 DEF RowInv
  <2> QED
    BY <2>3
<1> QED
  BY <1>1, Inductive, PTL

\* Whatever changed a group was entitled to, saw the group empty, and is audited by
\* the time it is answered.
THEOREM ChangesAreAccounted == Spec => []ChangesAccounted
<1>1. GInv => ChangesAccounted
  BY DEF GInv, RequestInv, MovedInv, ChangesAccounted
<1> QED
  BY <1>1, Inductive, PTL

\* A reset to a time skips no record that was there when the broker was asked.
THEOREM TimestampKeepsWhatWasKnown == Spec => []TimestampKeepsKnown
<1>1. GInv => TimestampKeepsKnown
  BY DEF GInv, RequestInv, AskedInv, TimestampKeepsKnown
<1> QED
  BY <1>1, Inductive, PTL
=============================================================================
