----------------------------- MODULE AdminProof -----------------------------
(***************************************************************************)
(* Proofs about Admin, for any requests, topics, configuration keys and    *)
(* bounds.                                                                 *)
(***************************************************************************)
EXTENDS Admin, FiniteSetTheorems, WellFoundedInduction, TLAPS

-----------------------------------------------------------------------------
(* The inductive invariant                                                 *)

\* Generations are numbered in the order of creation, and a log has its low end
\* before its high one.
TopicInv ==
    /\ \A n \in Names : gen[n] <= gens
    /\ \A n \in Names, p \in PartIds : low[n][p] <= high[n][p]

\* What r keeps to itself.
ThreadInv ==
    /\ DOMAIN marks = Requests /\ DOMAIN shown = Requests /\ DOMAIN found = Requests
    /\ DOMAIN rendered = Requests
    /\ \A r \in Requests :
         /\ found[r].gen \in Nat /\ found[r].gen <= gens
         /\ \A p \in DOMAIN found[r].ends : found[r].ends[p] \in Nat

\* r passed everything that is judged before the broker is asked.
MayAct(r) ==
    /\ IsView(r) \/ op[r].write
    /\ NeedsConfirmation(r) => op[r].confirmed /\ op[r].name \notin Internal

\* Nobody's request reaches the broker unjudged; what reached it is in one of three
\* places, and accounted for as soon as the request is answered.
SubmitInv(r) ==
    /\ pc[r] \notin {"form", "start", "answered"} => MayAct(r)
    /\ pc[r] = "marks" => IsView(r) \/ op[r].kind = "purge"
    /\ pc[r] = "describe" => op[r].kind = "page"
    /\ pc[r] \in {"submit", "result"} => ~IsView(r)
    /\ pc[r] \in {"form", "start"} => marks[r] = << >>
    /\ inflight[r] \cup done[r] \cup refused[r] # {} =>
         /\ MayAct(r) /\ ~IsView(r)
         /\ pc[r] \in {"result", "answered"}
         /\ pc[r] = "answered" => audited[r] \in {"ok", "error"}
    /\ inflight[r] \cup done[r] \cup refused[r] \subseteq Items(r)
    /\ inflight[r] \cap done[r] = {} /\ inflight[r] \cap refused[r] = {}
    /\ done[r] \cap refused[r] = {}
    /\ answer[r] = "none" <=> pc[r] # "answered"
    /\ answer[r] = "ok" /\ ~IsView(r) => done[r] = Items(r)

\* The topic r found is still there.
SameTopic(r) == Exists(op[r].name) /\ gen[op[r].name] = found[r].gen

\* As long as it is, a purge has in its marks, or still to read, every partition
\* there was, and none of its marks is before the end it found.
PurgeInv(r) ==
    op[r].kind = "purge" /\ pc[r] \notin {"form", "start"} /\ SameTopic(r) =>
        LET n == op[r].name
            ends == found[r].ends
        IN /\ DOMAIN ends \subseteq PartsOf(n)
           /\ \A p \in DOMAIN ends : ends[p] <= high[n][p]
           /\ \A p \in DOMAIN ends \cap DOMAIN marks[r] : ends[p] <= marks[r][p]
           /\ pc[r] = "marks" => DOMAIN ends \subseteq todo[r] \cup DOMAIN marks[r]
           /\ pc[r] \in {"submit", "result"} \/ answer[r] = "ok" =>
                DOMAIN ends \subseteq DOMAIN marks[r]
           /\ \A p \in done[r] : marks[r][p] <= low[n][p]

AInv ==
    /\ TypeOK
    /\ TopicInv
    /\ ThreadInv
    /\ \A r \in Requests : SubmitInv(r) /\ PurgeInv(r)

-----------------------------------------------------------------------------
(* Lemmas                                                                  *)

\* The type invariant in two parts: the topics, and the requests.
TopicTypes ==
    /\ gen \in [Names -> 0 .. MaxGens]
    /\ gens \in 1 .. MaxGens
    /\ parts \in [Names -> 1 .. MaxParts]
    /\ conf \in [Names -> [Keys -> Values \cup {Default}]]
    /\ low \in [Names -> [PartIds -> 0 .. MaxHigh]]
    /\ high \in [Names -> [PartIds -> 0 .. MaxHigh]]

Labels == {"form", "start", "list", "marks", "describe", "submit", "result", "answered"}

ThreadTypes ==
    /\ op \in [Requests -> Ops]
    /\ \A r \in Requests : /\ DOMAIN rendered[r] \subseteq Keys
                           /\ \A k \in DOMAIN rendered[r] : rendered[r][k] \in Values
    /\ pc \in [Requests -> Labels]
    /\ todo \in [Requests -> SUBSET PartIds]
    /\ \A r \in Requests : /\ DOMAIN marks[r] \subseteq PartIds
                           /\ \A p \in DOMAIN marks[r] : marks[r][p] \in 0 .. MaxHigh
    /\ counted \in [Requests -> Nat]
    /\ inflight \in [Requests -> SUBSET PartIds]
    /\ done \in [Requests -> SUBSET PartIds]
    /\ refused \in [Requests -> SUBSET PartIds]
    /\ \A r \in Requests : DOMAIN shown[r] \subseteq Keys
    /\ answer \in [Requests -> {"none", "forbidden", "denied", "gone", "error", "ok"}]
    /\ audited \in [Requests -> {"none", "denied", "error", "ok"}]
    /\ removed \in [Requests -> Nat]

LEMMA TypesSplit == TypeOK <=> TopicTypes /\ ThreadTypes
BY DEF TypeOK, TopicTypes, ThreadTypes, Labels

LEMMA TypesSplitNext == TypeOK' <=> TopicTypes' /\ ThreadTypes'
BY TypesSplit, PTL

LEMMA Bounds ==
    /\ MaxParts \in Nat \ {0} /\ MaxHigh \in Nat \ {0} /\ MaxGens \in Nat \ {0}
    /\ 0 \in PartIds /\ \A p \in PartIds : p \in Nat
BY AdminAssumption DEF PartIds

LEMMA OpFacts ==
    ASSUME ThreadTypes, NEW r \in Requests
    PROVE  /\ op[r].kind \in {"create", "delete", "grow", "configure", "purge", "count", "page"}
           /\ op[r].name \in Names
           /\ op[r].parts \in 1 .. MaxParts
           /\ op[r].changes \in [Keys -> Values \cup {Default, Keep}]
<1>1. op[r] \in AdminOp
  BY AdminAssumption DEF ThreadTypes
<1> QED
  BY <1>1 DEF AdminOp

LEMMA TopicFacts ==
    ASSUME TopicTypes, NEW n \in Names
    PROVE  /\ gen[n] \in Nat /\ gens \in Nat /\ parts[n] \in Nat /\ parts[n] >= 1
           /\ PartsOf(n) \subseteq PartIds
           /\ \A p \in PartIds : /\ low[n][p] \in 0 .. MaxHigh /\ low[n][p] \in Nat
                                 /\ high[n][p] \in 0 .. MaxHigh /\ high[n][p] \in Nat
<1>1. gen[n] \in Nat /\ gens \in Nat /\ parts[n] \in Nat /\ parts[n] >= 1 /\ parts[n] <= MaxParts
  BY Bounds DEF TopicTypes
<1>2. PartsOf(n) \subseteq PartIds
  BY <1>1, Bounds DEF PartsOf, PartIds
<1>3. ASSUME NEW p \in PartIds PROVE low[n][p] \in 0 .. MaxHigh /\ high[n][p] \in 0 .. MaxHigh
  BY DEF TopicTypes
<1> QED
  BY <1>1, <1>2, <1>3, Bounds

\* What a step of r's thread leaves alone, as far as the invariant goes.
OthersSame(r) ==
    /\ UNCHANGED <<gen, gens, parts, conf, low, high, op, removed, done, refused>>
    /\ \A q \in Requests \ {r} :
         /\ pc'[q] = pc[q] /\ answer'[q] = answer[q] /\ audited'[q] = audited[q]
         /\ todo'[q] = todo[q] /\ marks'[q] = marks[q] /\ counted'[q] = counted[q]
         /\ shown'[q] = shown[q] /\ found'[q] = found[q] /\ inflight'[q] = inflight[q]

\* A step of r's thread has only to be right for r.
LEMMA ThreadStepKeepsAInv ==
    ASSUME AInv, NEW r \in Requests, OthersSame(r), ThreadTypes', ThreadInv',
           SubmitInv(r)', PurgeInv(r)'
    PROVE  AInv'
<1>1. /\ TopicTypes /\ TopicInv
      /\ \A q \in Requests : SubmitInv(q) /\ PurgeInv(q)
  BY TypesSplit DEF AInv
<1>2. TypeOK'
  <2>1. TopicTypes'
    BY <1>1 DEF TopicTypes, OthersSame
  <2> QED
    BY <2>1, TypesSplitNext
<1>3. TopicInv'
  BY <1>1 DEF TopicInv, OthersSame
<1>4. ASSUME NEW q \in Requests PROVE SubmitInv(q)' /\ PurgeInv(q)'
  <2>1. CASE q = r
    BY <2>1
  <2>2. CASE q # r
    <3>1. SubmitInv(q)'
      BY <1>1, <2>2 DEF SubmitInv, OthersSame, MayAct, NeedsConfirmation, IsView, Items
    <3>2. PurgeInv(q)'
      BY <1>1, <2>2 DEF PurgeInv, OthersSame, SameTopic, Exists, PartsOf
    <3> QED
      BY <3>1, <3>2
  <2> QED
    BY <2>1, <2>2
<1> QED
  BY <1>2, <1>3, <1>4 DEF AInv

Outcomes == {"none", "denied", "error", "ok"}

Answers == {"none", "forbidden", "denied", "gone", "error", "ok"}

\* r's thread is at a label with an answer and an outcome, and the others are where
\* they were.
Moved(r, label, a, outcome) ==
    /\ pc' \in [Requests -> Labels]
    /\ answer' \in [Requests -> Answers]
    /\ audited' \in [Requests -> Outcomes]
    /\ pc'[r] = label /\ answer'[r] = a /\ audited'[r] = outcome
    /\ \A q \in Requests \ {r} :
         pc'[q] = pc[q] /\ answer'[q] = answer[q] /\ audited'[q] = audited[q]

LEMMA ContinueMoves ==
    ASSUME ThreadTypes, NEW r \in Requests, NEW label \in Labels, Continue(r, label)
    PROVE  Moved(r, label, answer[r], audited[r])
BY DEF ThreadTypes, Continue, Moved, Answers, Outcomes

LEMMA AnswerMoves ==
    ASSUME ThreadTypes, NEW r \in Requests, NEW a \in Answers, NEW outcome \in Outcomes,
           Answer(r, a, outcome)
    PROVE  Moved(r, "answered", a, outcome)
BY DEF ThreadTypes, Answer, Moved, Answers, Outcomes, Labels

LEMMA RaiseMoves ==
    ASSUME ThreadTypes, NEW r \in Requests, Raise(r)
    PROVE  Moved(r, "answered", "error", IF IsView(r) THEN "none" ELSE "error")
<1>1. /\ "error" \in Answers
      /\ (IF IsView(r) THEN "none" ELSE "error") \in Outcomes
      /\ Answer(r, "error", IF IsView(r) THEN "none" ELSE "error")
  BY DEF Raise, ErrorOutcome, Answers, Outcomes
<1> QED
  BY <1>1, AnswerMoves

\* A round trip failed, or the thread gave up waiting: r is answered and audited,
\* and nothing else of it changes.
LEMMA RaiseKeepsAInv ==
    ASSUME AInv, NEW r \in Requests, pc[r] \notin {"form", "start", "answered"}, Raise(r),
           UNCHANGED <<topicVars, op, rendered, removed, todo, marks, counted, shown, found, brokerVars>>
    PROVE  AInv'
<1>1. /\ ThreadTypes /\ ThreadInv /\ SubmitInv(r) /\ PurgeInv(r)
  BY TypesSplit DEF AInv
<1>2. UNCHANGED <<gen, gens, parts, conf, low, high, op, rendered, removed, done, refused, todo,
                  marks, counted, shown, found, inflight>>
  BY DEF topicVars, brokerVars
<1>3. Moved(r, "answered", "error", IF IsView(r) THEN "none" ELSE "error")
  BY <1>1, RaiseMoves
<1>4. OthersSame(r)
  BY <1>2, <1>3 DEF OthersSame, Moved
<1>5. ThreadTypes'
  BY <1>1, <1>2, <1>3 DEF ThreadTypes, Moved, Answers, Outcomes
<1>6. ThreadInv'
  BY <1>1, <1>2 DEF ThreadInv
<1>7. SubmitInv(r)'
  BY <1>1, <1>2, <1>3 DEF Moved, SubmitInv, MayAct, NeedsConfirmation, IsView, Items
<1>8. PurgeInv(r)'
  BY <1>1, <1>2, <1>3 DEF Moved, PurgeInv, SameTopic, Exists, PartsOf
<1> QED
  BY <1>4, <1>5, <1>6, <1>7, <1>8, ThreadStepKeepsAInv

\* The form shows the overrides there are, and has the rest of r alone.
LEMMA OpenFormKeepsAInv ==
    ASSUME AInv, NEW r \in Requests, OpenForm(r)
    PROVE  AInv'
<1>1. /\ TopicTypes /\ ThreadTypes /\ ThreadInv /\ SubmitInv(r)
  BY TypesSplit DEF AInv
<1> DEFINE f == Overrides(op[r].name)
<1>2. /\ pc[r] = "form" /\ Continue(r, "start")
      /\ UNCHANGED <<gen, gens, parts, conf, low, high, op, removed, done, refused, todo,
                     marks, counted, shown, found, inflight>>
      /\ rendered' = [rendered EXCEPT ![r] = f]
  BY DEF OpenForm, topicVars, brokerVars
<1>3. Moved(r, "start", answer[r], audited[r])
  BY <1>1, <1>2, ContinueMoves DEF Labels
<1>4. DOMAIN f \subseteq Keys /\ \A k \in DOMAIN f : f[k] \in Values
  BY <1>1, OpFacts DEF TopicTypes, Overrides
<1> HIDE DEF f
<1>5. /\ DOMAIN rendered' = Requests /\ rendered'[r] = f
      /\ \A q \in Requests \ {r} : rendered'[q] = rendered[q]
  BY <1>1, <1>2 DEF ThreadInv
<1>6. OthersSame(r)
  BY <1>2, <1>3 DEF OthersSame, Moved
<1>7. \A q \in Requests : /\ DOMAIN rendered'[q] \subseteq Keys
                          /\ \A k \in DOMAIN rendered'[q] : rendered'[q][k] \in Values
  BY <1>1, <1>4, <1>5 DEF ThreadTypes
<1>8. ThreadTypes'
  BY <1>1, <1>2, <1>3, <1>7 DEF ThreadTypes, Moved, Answers, Outcomes
<1>9. ThreadInv'
  BY <1>1, <1>2, <1>5 DEF ThreadInv
<1>10. SubmitInv(r)'
  BY <1>1, <1>2, <1>3 DEF Moved, SubmitInv, MayAct, NeedsConfirmation, IsView, Items
<1>11. PurgeInv(r)'
  BY <1>3 DEF PurgeInv, Moved
<1> QED
  BY <1>6, <1>8, <1>9, <1>10, <1>11, ThreadStepKeepsAInv

\* The request comes in and finds the topic as it is.
LEMMA ReceiveKeepsAInv ==
    ASSUME AInv, NEW r \in Requests, Receive(r)
    PROVE  AInv'
<1>1. /\ TopicTypes /\ ThreadTypes /\ TopicInv /\ ThreadInv /\ SubmitInv(r)
  BY TypesSplit DEF AInv
<1> DEFINE n == op[r].name
           f == [gen |-> gen[n], starts |-> [p \in PartsOf(n) |-> low[n][p]],
                                 ends |-> [p \in PartsOf(n) |-> high[n][p]]]
<1>2. /\ pc[r] = "start"
      /\ UNCHANGED <<gen, gens, parts, conf, low, high, op, rendered, removed, done, refused, todo,
                     marks, counted, shown, inflight>>
      /\ found' = [found EXCEPT ![r] = f]
  BY DEF Receive, ThreadOnly, topicVars, brokerVars
<1>3. \/ \E a \in {"forbidden", "denied", "error"}, o \in {"none", "denied", "error"} :
           Moved(r, "answered", a, o)
      \/ Moved(r, "list", answer[r], audited[r]) /\ MayAct(r)
  <2>1. \/ Answer(r, "forbidden", "none") \/ Answer(r, "denied", "denied") \/ Raise(r)
        \/ Continue(r, "list") /\ MayAct(r)
    BY DEF Receive, MayAct, Invalid, Protected
  <2>2. /\ Answer(r, "forbidden", "none") => Moved(r, "answered", "forbidden", "none")
        /\ Answer(r, "denied", "denied") => Moved(r, "answered", "denied", "denied")
    BY <1>1, AnswerMoves DEF Answers, Outcomes
  <2>3. Raise(r) => \E o \in {"none", "error"} : Moved(r, "answered", "error", o)
    BY <1>1, RaiseMoves
  <2>4. Continue(r, "list") => Moved(r, "list", answer[r], audited[r])
    BY <1>1, ContinueMoves DEF Labels
  <2> QED
    BY <2>1, <2>2, <2>3, <2>4
<1>4. n \in Names /\ gen[n] \in Nat /\ gen[n] <= gens /\ DOMAIN f.ends = PartsOf(n)
      /\ f.gen = gen[n] /\ \A p \in PartsOf(n) : f.ends[p] = high[n][p] /\ high[n][p] \in Nat
  BY <1>1, OpFacts, TopicFacts DEF TopicInv
<1>5. DOMAIN found' = Requests /\ found'[r] = f /\ \A q \in Requests \ {r} : found'[q] = found[q]
  BY <1>1, <1>2 DEF ThreadInv
<1>6. marks[r] = << >> /\ DOMAIN marks[r] = {} /\ done[r] = {}
  BY <1>1, <1>2 DEF SubmitInv
<1> HIDE DEF f, n
<1>7. OthersSame(r)
  BY <1>2, <1>3, <1>5 DEF OthersSame, Moved
<1>8. ThreadTypes'
  BY <1>1, <1>2, <1>3 DEF ThreadTypes, Moved, Answers, Outcomes
<1>9. ThreadInv'
  <2> SUFFICES ASSUME NEW q \in Requests
               PROVE  /\ found'[q].gen \in Nat /\ found'[q].gen <= gens
                      /\ \A p \in DOMAIN found'[q].ends : found'[q].ends[p] \in Nat
    BY <1>1, <1>2, <1>5 DEF ThreadInv
  <2>1. CASE q = r
    BY <1>4, <1>5, <2>1
  <2>2. CASE q # r
    BY <1>1, <1>5, <2>2 DEF ThreadInv
  <2> QED
    BY <2>1, <2>2
<1>10. SubmitInv(r)'
  BY <1>1, <1>2, <1>3, <1>6 DEF Moved, SubmitInv, MayAct, NeedsConfirmation, IsView, Items
<1>11. PurgeInv(r)'
  <2>1. op'[r].name = n /\ PartsOf(op[r].name)' = PartsOf(n)
    BY <1>2 DEF n, PartsOf
  <2>2. pc'[r] \in {"list", "answered"} /\ answer'[r] # "ok"
    BY <1>1, <1>2, <1>3 DEF Moved, SubmitInv
  <2>3. /\ found'[r] = f /\ DOMAIN f.ends = PartsOf(op[r].name)'
        /\ \A p \in DOMAIN f.ends : f.ends[p] <= high'[op'[r].name][p]
    BY <1>2, <1>4, <1>5, <2>1
  <2>4. DOMAIN marks'[r] = {} /\ done'[r] = {}
    BY <1>2, <1>6
  <2>5. pc'[r] # "marks" /\ ~(pc'[r] \in {"submit", "result"} \/ answer'[r] = "ok")
    BY <2>2
  <2> QED
    BY <2>3, <2>4, <2>5 DEF PurgeInv
<1> QED
  BY <1>7, <1>8, <1>9, <1>10, <1>11, ThreadStepKeepsAInv

\* The topic is looked up: the partitions a purge will read are all it found.
LEMMA ListKeepsAInv ==
    ASSUME AInv, NEW r \in Requests, ListTopics(r)
    PROVE  AInv'
<1>1. /\ TopicTypes /\ ThreadTypes /\ ThreadInv /\ SubmitInv(r) /\ PurgeInv(r)
  BY TypesSplit DEF AInv
<1>2. /\ pc[r] = "list"
      /\ UNCHANGED <<gen, gens, parts, conf, low, high, op, rendered, removed, done, refused, marks,
                     counted, shown, found, inflight>>
  BY DEF ListTopics, ThreadOnly, topicVars, brokerVars
<1>3. CASE Raise(r) /\ UNCHANGED todo
  BY <1>2, <1>3, RaiseKeepsAInv DEF topicVars, brokerVars
<1>4. CASE \/ UNCHANGED todo /\ IsView(r) /\ Answer(r, "gone", "none")
           \/ UNCHANGED todo /\ ~IsView(r) /\ op[r].kind # "purge" /\ Continue(r, "submit")
           \/ /\ todo' = [todo EXCEPT ![r] = PartsOf(op[r].name)]
              /\ IsView(r) \/ op[r].kind = "purge"
              /\ Continue(r, "marks")
  <2>1. \/ UNCHANGED todo /\ IsView(r) /\ Moved(r, "answered", "gone", "none")
        \/ /\ UNCHANGED todo /\ ~IsView(r) /\ op[r].kind # "purge"
           /\ Moved(r, "submit", answer[r], audited[r])
        \/ /\ todo' = [todo EXCEPT ![r] = PartsOf(op[r].name)]
           /\ IsView(r) \/ op[r].kind = "purge"
           /\ Moved(r, "marks", answer[r], audited[r])
    <3>1. Answer(r, "gone", "none") => Moved(r, "answered", "gone", "none")
      BY <1>1, AnswerMoves DEF Answers, Outcomes
    <3>2. /\ Continue(r, "submit") => Moved(r, "submit", answer[r], audited[r])
          /\ Continue(r, "marks") => Moved(r, "marks", answer[r], audited[r])
      BY <1>1, ContinueMoves DEF Labels
    <3> QED
      BY <1>4, <3>1, <3>2
  <2>2. PartsOf(op[r].name) \subseteq PartIds
    BY <1>1, OpFacts, TopicFacts
  <2>3. /\ todo' \in [Requests -> SUBSET PartIds]
        /\ \A q \in Requests \ {r} : todo'[q] = todo[q]
        /\ Moved(r, "marks", answer[r], audited[r]) => todo'[r] = PartsOf(op[r].name)
    BY <1>1, <2>1, <2>2 DEF ThreadTypes, Moved
  <2>4. OthersSame(r)
    BY <1>2, <2>1, <2>3 DEF OthersSame, Moved
  <2>5. ThreadTypes'
    BY <1>1, <1>2, <2>1, <2>3 DEF ThreadTypes, Moved, Answers, Outcomes
  <2>6. ThreadInv'
    BY <1>1, <1>2 DEF ThreadInv
  <2>7. SubmitInv(r)'
    BY <1>1, <1>2, <2>1 DEF Moved, SubmitInv, MayAct, NeedsConfirmation, IsView, Items
  <2>8. PurgeInv(r)'
    <3>1. SameTopic(r)' => SameTopic(r)
      BY <1>2 DEF SameTopic, Exists
    <3>2. PartsOf(op[r].name)' = PartsOf(op[r].name)
      BY <1>2 DEF PartsOf
    <3>3. answer[r] # "ok" /\ pc[r] \notin {"form", "start"}
      BY <1>1, <1>2 DEF SubmitInv
    <3>4. op[r].kind = "purge" => pc'[r] = "marks" /\ answer'[r] = answer[r]
                                   /\ todo'[r] = PartsOf(op[r].name)
      BY <2>1, <2>3 DEF Moved, IsView
    <3> QED
      BY <1>1, <1>2, <3>1, <3>2, <3>3, <3>4 DEF PurgeInv
  <2> QED
    BY <2>4, <2>5, <2>6, <2>7, <2>8, ThreadStepKeepsAInv
<1> QED
  BY <1>3, <1>4 DEF ListTopics

\* One watermark more: of a topic that is still the one r found, it is not before
\* the end r found.
LEMMA ReadKeepsAInv ==
    ASSUME AInv, NEW r \in Requests, ReadMark(r)
    PROVE  AInv'
<1>1. /\ TopicTypes /\ ThreadTypes /\ TopicInv /\ ThreadInv /\ SubmitInv(r) /\ PurgeInv(r)
  BY TypesSplit DEF AInv
<1>2. /\ pc[r] = "marks"
      /\ UNCHANGED <<gen, gens, parts, conf, low, high, op, rendered, removed, done, refused, shown,
                     found, inflight>>
  BY DEF ReadMark, ThreadOnly, topicVars, brokerVars
<1>3. CASE Raise(r) /\ UNCHANGED <<marks, counted, todo>>
  BY <1>2, <1>3, RaiseKeepsAInv DEF topicVars, brokerVars
<1> DEFINE n == op[r].name
           m(p) == [q \in DOMAIN marks[r] \cup {p} |-> IF q = p THEN high[n][p] ELSE marks[r][q]]
<1>4. ASSUME NEW p \in todo[r], Exists(n), p \in PartsOf(n),
             marks' = [marks EXCEPT ![r] = m(p)],
             counted' = [counted EXCEPT ![r] = @ + Count(n, p)],
             todo' = [todo EXCEPT ![r] = @ \ {p}],
             IF todo'[r] # {} THEN Continue(r, "marks") ELSE MarksRead(r)
      PROVE  AInv'
  <2>1. /\ p \in PartIds /\ high[n][p] \in 0 .. MaxHigh /\ high[n][p] - low[n][p] \in Nat
    <3>1. n \in Names /\ p \in PartIds
      BY <1>1, <1>4, OpFacts DEF ThreadTypes
    <3>2. /\ low[n][p] \in Nat /\ high[n][p] \in Nat /\ high[n][p] \in 0 .. MaxHigh
          /\ low[n][p] <= high[n][p]
      BY <1>1, <3>1, TopicFacts DEF TopicInv
    <3> QED
      BY <3>1, <3>2
  <2>2. /\ DOMAIN marks' = Requests /\ marks'[r] = m(p)
        /\ \A q \in Requests \ {r} : marks'[q] = marks[q]
    BY <1>1, <1>4 DEF ThreadInv
  <2>3. /\ todo' \in [Requests -> SUBSET PartIds] /\ todo'[r] = todo[r] \ {p}
        /\ \A q \in Requests \ {r} : todo'[q] = todo[q]
    BY <1>1, <1>4 DEF ThreadTypes
  <2>4. /\ counted' \in [Requests -> Nat]
        /\ \A q \in Requests \ {r} : counted'[q] = counted[q]
    <3>1. counted[r] \in Nat /\ counted[r] + (high[n][p] - low[n][p]) \in Nat
      BY <1>1, <2>1 DEF ThreadTypes
    <3> QED
      BY <1>1, <1>4, <3>1 DEF ThreadTypes, Count
  <2>5. /\ DOMAIN m(p) = DOMAIN marks[r] \cup {p} /\ m(p)[p] = high[n][p]
        /\ \A q \in DOMAIN marks[r] \ {p} : m(p)[q] = marks[r][q]
    OBVIOUS
  <2> HIDE DEF m
  <2>6. \/ Moved(r, "marks", answer[r], audited[r])
        \/ todo'[r] = {} /\ op[r].kind = "purge" /\ Moved(r, "submit", answer[r], audited[r])
        \/ op[r].kind = "page" /\ Moved(r, "describe", answer[r], audited[r])
        \/ op[r].kind = "count" /\ Moved(r, "answered", "ok", "none")
    <3>1. \/ Continue(r, "marks")
          \/ todo'[r] = {} /\ op[r].kind = "purge" /\ Continue(r, "submit")
          \/ op[r].kind = "page" /\ Continue(r, "describe")
          \/ op[r].kind = "count" /\ Answer(r, "ok", "none")
      <4>1. op[r].kind \in {"purge", "page", "count"}
        BY <1>1, <1>2 DEF SubmitInv, IsView
      <4> QED
        BY <1>4, <4>1 DEF MarksRead
    <3>2. /\ Continue(r, "marks") => Moved(r, "marks", answer[r], audited[r])
          /\ Continue(r, "submit") => Moved(r, "submit", answer[r], audited[r])
          /\ Continue(r, "describe") => Moved(r, "describe", answer[r], audited[r])
      BY <1>1, ContinueMoves DEF Labels
    <3>3. Answer(r, "ok", "none") => Moved(r, "answered", "ok", "none")
      BY <1>1, AnswerMoves DEF Answers, Outcomes
    <3> QED
      BY <3>1, <3>2, <3>3
  <2>7. OthersSame(r)
    BY <1>2, <2>2, <2>3, <2>4, <2>6 DEF OthersSame, Moved
  <2>8. ThreadTypes'
    <3>1. ASSUME NEW q \in Requests
          PROVE  /\ DOMAIN marks'[q] \subseteq PartIds
                 /\ \A x \in DOMAIN marks'[q] : marks'[q][x] \in 0 .. MaxHigh
      <4>1. CASE q = r
        BY <1>1, <2>1, <2>2, <2>5, <4>1 DEF ThreadTypes
      <4>2. CASE q # r
        BY <1>1, <2>2, <4>2 DEF ThreadTypes
      <4> QED
        BY <4>1, <4>2
    <3> HIDE DEF n
    <3> QED
      BY <1>1, <1>2, <2>3, <2>4, <2>6, <3>1 DEF ThreadTypes, Moved, Answers, Outcomes
  <2>9. ThreadInv'
    BY <1>1, <1>2, <2>2 DEF ThreadInv
  <2>10. SubmitInv(r)'
    <3>1. inflight[r] \cup done[r] \cup refused[r] = {}
      BY <1>1, <1>2 DEF SubmitInv
    <3> QED
      BY <1>1, <1>2, <2>6, <3>1 DEF Moved, SubmitInv, MayAct, NeedsConfirmation, IsView, Items
  <2>11. PurgeInv(r)'
    <3> SUFFICES ASSUME op[r].kind = "purge", SameTopic(r) PROVE PurgeInv(r)'
      BY <1>2 DEF PurgeInv, SameTopic, Exists
    <3> DEFINE ends == found[r].ends
    <3>1. /\ DOMAIN ends \subseteq PartsOf(n)
          /\ \A x \in DOMAIN ends : ends[x] <= high[n][x]
          /\ \A x \in DOMAIN ends \cap DOMAIN marks[r] : ends[x] <= marks[r][x]
          /\ DOMAIN ends \subseteq todo[r] \cup DOMAIN marks[r]
          /\ done[r] = {}
      BY <1>1, <1>2 DEF PurgeInv, SubmitInv
    <3>2. \A x \in DOMAIN ends \cap DOMAIN marks'[r] : ends[x] <= marks'[r][x]
      BY <2>2, <2>5, <3>1
    <3>3. DOMAIN ends \subseteq todo'[r] \cup DOMAIN marks'[r]
      BY <2>2, <2>3, <2>5, <3>1
    <3>4. answer[r] # "ok"
      BY <1>1, <1>2 DEF SubmitInv
    <3>5. pc'[r] \in {"submit", "result"} \/ answer'[r] = "ok" => todo'[r] = {}
      BY <2>6, <3>4 DEF Moved
    <3>6. /\ found'[r].ends = ends /\ op'[r].name = n /\ PartsOf(op[r].name)' = PartsOf(n)
          /\ high' = high /\ done'[r] = {}
      BY <1>2, <3>1 DEF PartsOf
    <3> HIDE DEF ends, n
    <3> QED
      BY <3>1, <3>2, <3>3, <3>5, <3>6 DEF PurgeInv
  <2> QED
    BY <2>7, <2>8, <2>9, <2>10, <2>11, ThreadStepKeepsAInv
<1> QED
  BY <1>3, <1>4 DEF ReadMark, PurgeTo

\* The page shows the overrides; only a view comes here.
LEMMA DescribeKeepsAInv ==
    ASSUME AInv, NEW r \in Requests, Describe(r)
    PROVE  AInv'
<1>1. /\ TopicTypes /\ ThreadTypes /\ ThreadInv /\ SubmitInv(r) /\ PurgeInv(r)
  BY TypesSplit DEF AInv
<1>2. /\ pc[r] = "describe"
      /\ UNCHANGED <<gen, gens, parts, conf, low, high, op, rendered, removed, done, refused, todo,
                     marks, counted, found, inflight>>
  BY DEF Describe, ThreadOnly, topicVars, brokerVars
<1>3. CASE Raise(r) /\ UNCHANGED shown
  BY <1>2, <1>3, RaiseKeepsAInv DEF topicVars, brokerVars
<1> DEFINE page == Overrides(op[r].name)
<1>4. CASE Answer(r, "ok", "none") /\ shown' = [shown EXCEPT ![r] = page]
  <2>1. Moved(r, "answered", "ok", "none")
    BY <1>1, <1>4, AnswerMoves DEF Answers, Outcomes
  <2>2. DOMAIN page \subseteq Keys
    BY DEF Overrides
  <2> HIDE DEF page
  <2>3. /\ DOMAIN shown' = Requests /\ shown'[r] = page
        /\ \A q \in Requests \ {r} : shown'[q] = shown[q]
    BY <1>1, <1>4 DEF ThreadInv
  <2>4. OthersSame(r)
    BY <1>2, <2>1, <2>3 DEF OthersSame, Moved
  <2>5. ThreadTypes'
    <3>1. \A q \in Requests : DOMAIN shown'[q] \subseteq Keys
      BY <1>1, <2>2, <2>3 DEF ThreadTypes
    <3> QED
      BY <1>1, <1>2, <2>1, <3>1 DEF ThreadTypes, Moved, Answers, Outcomes
  <2>6. ThreadInv'
    BY <1>1, <1>2, <2>3 DEF ThreadInv
  <2>7. IsView(r) /\ op[r].kind # "purge"
    BY <1>1, <1>2 DEF SubmitInv, IsView
  <2>8. SubmitInv(r)'
    BY <1>1, <1>2, <2>1, <2>7 DEF Moved, SubmitInv, MayAct, NeedsConfirmation, IsView, Items
  <2>9. PurgeInv(r)'
    BY <1>2, <2>7 DEF PurgeInv
  <2> QED
    BY <2>4, <2>5, <2>6, <2>8, <2>9, ThreadStepKeepsAInv
<1> QED
  BY <1>3, <1>4 DEF Describe

\* Everything the operation consists of is handed to the broker at once.
LEMMA SubmitKeepsAInv ==
    ASSUME AInv, NEW r \in Requests, Submit(r)
    PROVE  AInv'
<1>1. /\ TopicTypes /\ ThreadTypes /\ ThreadInv /\ SubmitInv(r) /\ PurgeInv(r)
  BY TypesSplit DEF AInv
<1>2. /\ pc[r] = "submit" /\ inflight' = [inflight EXCEPT ![r] = Items(r)]
      /\ UNCHANGED <<gen, gens, parts, conf, low, high, op, rendered, removed, done, refused, todo,
                     marks, counted, shown, found>>
  BY DEF Submit, ThreadOnly, topicVars
<1>3. Moved(r, "result", answer[r], audited[r])
  BY <1>1, ContinueMoves DEF Submit, Labels
<1>4. Items(r) \subseteq PartIds
  BY <1>1, Bounds DEF Items, ThreadTypes
<1>5. /\ inflight' \in [Requests -> SUBSET PartIds] /\ inflight'[r] = Items(r)
      /\ \A q \in Requests \ {r} : inflight'[q] = inflight[q]
  BY <1>1, <1>2, <1>4 DEF ThreadTypes
<1>6. OthersSame(r)
  BY <1>2, <1>3, <1>5 DEF OthersSame, Moved
<1>7. ThreadTypes'
  BY <1>1, <1>2, <1>3, <1>5 DEF ThreadTypes, Moved, Answers, Outcomes
<1>8. ThreadInv'
  BY <1>1, <1>2 DEF ThreadInv
<1>9. SubmitInv(r)'
  <2>1. done[r] = {} /\ refused[r] = {} /\ answer[r] = "none"
    BY <1>1, <1>2 DEF SubmitInv
  <2>2. Items(r)' = Items(r)
    BY <1>2 DEF Items
  <2> QED
    BY <1>1, <1>2, <1>3, <1>5, <2>1, <2>2 DEF Moved, SubmitInv, MayAct, NeedsConfirmation, IsView
<1>10. PurgeInv(r)'
  BY <1>1, <1>2, <1>3 DEF Moved, PurgeInv, SubmitInv, SameTopic, Exists, PartsOf
<1> QED
  BY <1>6, <1>7, <1>8, <1>9, <1>10, ThreadStepKeepsAInv

\* The futures were all waited for when the answer is "ok".
LEMMA ResultKeepsAInv ==
    ASSUME AInv, NEW r \in Requests, Result(r)
    PROVE  AInv'
<1>1. /\ TopicTypes /\ ThreadTypes /\ ThreadInv /\ SubmitInv(r) /\ PurgeInv(r)
  BY TypesSplit DEF AInv
<1>2. /\ pc[r] = "result"
      /\ UNCHANGED <<gen, gens, parts, conf, low, high, op, rendered, removed, done, refused, todo,
                     marks, counted, shown, found, inflight>>
  BY DEF Result, ThreadOnly, topicVars, brokerVars
<1>3. CASE Raise(r)
  BY <1>2, <1>3, RaiseKeepsAInv DEF topicVars, brokerVars
<1>4. CASE AllDone(r) /\ Answer(r, "ok", "ok")
  <2>1. Moved(r, "answered", "ok", "ok")
    BY <1>1, <1>4, AnswerMoves DEF Answers, Outcomes
  <2>2. done[r] = Items(r)
    BY <1>4 DEF AllDone
  <2>3. OthersSame(r)
    BY <1>2, <2>1 DEF OthersSame, Moved
  <2>4. ThreadTypes'
    BY <1>1, <1>2, <2>1 DEF ThreadTypes, Moved, Answers, Outcomes
  <2>5. ThreadInv'
    BY <1>1, <1>2 DEF ThreadInv
  <2>6. SubmitInv(r)'
    BY <1>1, <1>2, <2>1, <2>2 DEF Moved, SubmitInv, MayAct, NeedsConfirmation, IsView, Items
  <2>7. PurgeInv(r)'
    BY <1>1, <1>2, <2>1 DEF Moved, PurgeInv, SameTopic, Exists, PartsOf
  <2> QED
    BY <2>3, <2>4, <2>5, <2>6, <2>7, ThreadStepKeepsAInv
<1> QED
  BY <1>3, <1>4 DEF Result

LEMMA StepKeepsAInv ==
    ASSUME AInv, NEW r \in Requests, Step(r)
    PROVE  AInv'
<1>1. CASE Receive(r)
  BY <1>1, ReceiveKeepsAInv
<1>2. CASE ListTopics(r)
  BY <1>2, ListKeepsAInv
<1>3. CASE ReadMark(r)
  BY <1>3, ReadKeepsAInv
<1>4. CASE Describe(r)
  BY <1>4, DescribeKeepsAInv
<1>5. CASE Submit(r)
  BY <1>5, SubmitKeepsAInv
<1>6. CASE Result(r)
  BY <1>6, ResultKeepsAInv
<1>7. CASE BrokerTrouble(r)
  BY <1>7, RaiseKeepsAInv DEF BrokerTrouble, Bounded, ThreadOnly
<1>8. CASE OpenForm(r)
  BY <1>8, OpenFormKeepsAInv
<1> QED
  BY <1>1, <1>2, <1>3, <1>4, <1>5, <1>6, <1>7, <1>8 DEF Step

-----------------------------------------------------------------------------
(* The broker, and other clients                                           *)

\* How topics change while somebody looks: one that goes on keeps what it has, and a
\* new one of the same name has a number of its own.
TopicsGoOn ==
    /\ gens <= gens'
    /\ \A n \in Names :
         \/ /\ gen'[n] = gen[n] /\ parts[n] <= parts'[n]
            /\ \A p \in PartIds : low[n][p] <= low'[n][p] /\ high[n][p] <= high'[n][p]
         \/ gen'[n] = 0
         \/ gen'[n] > gens

\* So what a purge knows of its topic stays true, if what the broker has newly done
\* for it is.
LEMMA PurgeGoesOn ==
    ASSUME AInv, TopicTypes', TopicsGoOn, NEW r \in Requests,
           UNCHANGED threadVars,
           \A p \in done'[r] \ done[r] : marks[r][p] <= low'[op[r].name][p],
           done[r] \subseteq PartIds
    PROVE  PurgeInv(r)'
<1>1. /\ TopicTypes /\ ThreadTypes /\ ThreadInv /\ SubmitInv(r) /\ PurgeInv(r)
  BY TypesSplit DEF AInv
<1>2. UNCHANGED <<op, rendered, pc, todo, marks, counted, shown, answer, audited, found>>
  BY DEF threadVars
<1> DEFINE n == op[r].name
           ends == found[r].ends
<1>3. n \in Names /\ op'[r].name = n /\ found'[r].ends = ends /\ found'[r].gen = found[r].gen
  BY <1>1, <1>2, OpFacts
<1> HIDE DEF n
<1> SUFFICES ASSUME op[r].kind = "purge", pc[r] \notin {"form", "start"}, SameTopic(r)' PROVE PurgeInv(r)'
  BY <1>2 DEF PurgeInv
<1>4. gen'[n] # 0 /\ gen'[n] = found[r].gen
  BY <1>3 DEF SameTopic, Exists
<1>5. found[r].gen \in Nat /\ found[r].gen <= gens /\ gens \in Nat
  BY <1>1, Bounds DEF ThreadInv, TopicTypes
<1>6. /\ gen'[n] = gen[n] /\ parts[n] <= parts'[n]
      /\ \A p \in PartIds : low[n][p] <= low'[n][p] /\ high[n][p] <= high'[n][p]
  BY <1>3, <1>4, <1>5 DEF TopicsGoOn
<1>7. SameTopic(r)
  BY <1>4, <1>6 DEF SameTopic, Exists, n
<1>8. /\ DOMAIN ends \subseteq PartsOf(n)
      /\ \A p \in DOMAIN ends : ends[p] <= high[n][p]
      /\ \A p \in DOMAIN ends \cap DOMAIN marks[r] : ends[p] <= marks[r][p]
      /\ pc[r] = "marks" => DOMAIN ends \subseteq todo[r] \cup DOMAIN marks[r]
      /\ pc[r] \in {"submit", "result"} \/ answer[r] = "ok" =>
           DOMAIN ends \subseteq DOMAIN marks[r]
      /\ \A p \in done[r] : marks[r][p] <= low[n][p]
  BY <1>1, <1>7 DEF PurgeInv, n
<1>9. /\ parts[n] \in Nat /\ parts'[n] \in Nat /\ PartsOf(n) \subseteq PartIds
      /\ \A p \in PartIds : /\ low[n][p] \in Nat /\ high[n][p] \in Nat
                            /\ low'[n][p] \in Nat /\ high'[n][p] \in Nat
  <2>1. /\ parts'[n] \in 1 .. MaxParts
        /\ \A p \in PartIds : low'[n][p] \in 0 .. MaxHigh /\ high'[n][p] \in 0 .. MaxHigh
    BY <1>3 DEF TopicTypes
  <2>2. parts'[n] \in Nat /\ \A p \in PartIds : low'[n][p] \in Nat /\ high'[n][p] \in Nat
    BY <2>1, Bounds
  <2> QED
    BY <1>1, <1>3, <2>2, TopicFacts
<1>10. DOMAIN ends \subseteq PartsOf(op[r].name)'
  <2>1. PartsOf(op[r].name)' = 0 .. parts'[n] - 1
    BY <1>3 DEF PartsOf
  <2>2. PartsOf(n) \subseteq 0 .. parts'[n] - 1
    BY <1>6, <1>9 DEF PartsOf
  <2> QED
    BY <1>8, <2>1, <2>2
<1>11. \A p \in DOMAIN ends : ends[p] <= high'[n][p]
  <2> SUFFICES ASSUME NEW p \in DOMAIN ends PROVE ends[p] <= high'[n][p]
    OBVIOUS
  <2>1. p \in PartIds /\ ends[p] \in Nat
    BY <1>1, <1>8, <1>9 DEF ThreadInv
  <2>2. ends[p] <= high[n][p] /\ high[n][p] <= high'[n][p]
    BY <1>6, <1>8, <2>1
  <2> HIDE DEF ends
  <2> QED
    BY <1>9, <2>1, <2>2
<1>12. \A p \in done'[r] : marks[r][p] <= low'[n][p]
  <2> SUFFICES ASSUME NEW p \in done'[r] PROVE marks[r][p] <= low'[n][p]
    OBVIOUS
  <2>1. CASE p \notin done[r]
    BY <2>1 DEF n
  <2>2. CASE p \in done[r]
    <3>1. p \in PartIds /\ p \in DOMAIN marks[r]
      BY <1>1, <2>2 DEF SubmitInv, Items
    <3>2. marks[r][p] \in Nat
      BY <1>1, <3>1, Bounds DEF ThreadTypes
    <3>3. marks[r][p] <= low[n][p] /\ low[n][p] <= low'[n][p]
      BY <1>6, <1>8, <2>2, <3>1
    <3> QED
      BY <1>9, <3>1, <3>2, <3>3
  <2> QED
    BY <2>1, <2>2
<1> HIDE DEF ends
<1> QED
  BY <1>2, <1>3, <1>8, <1>10, <1>11, <1>12 DEF PurgeInv

\* One item leaves r's requests in flight for what is done or what is refused.
LEMMA ItemKeepsAInv ==
    ASSUME AInv, NEW r \in Requests, NEW x \in inflight[r],
           inflight' = [inflight EXCEPT ![r] = @ \ {x}],
           \/ done' = [done EXCEPT ![r] = @ \cup {x}] /\ UNCHANGED refused
           \/ refused' = [refused EXCEPT ![r] = @ \cup {x}] /\ UNCHANGED done,
           UNCHANGED threadVars,
           TopicTypes', TopicInv', TopicsGoOn,
           removed' \in [Requests -> Nat],
           op[r].kind = "purge" /\ done' # done => marks[r][x] <= low'[op[r].name][x]
    PROVE  AInv'
<1>1. /\ TopicTypes /\ ThreadTypes /\ ThreadInv
      /\ \A q \in Requests : SubmitInv(q) /\ PurgeInv(q)
  BY TypesSplit DEF AInv
<1>2. UNCHANGED <<op, rendered, pc, todo, marks, counted, shown, answer, audited, found>>
  BY DEF threadVars
<1>3. x \in PartIds
  BY <1>1 DEF ThreadTypes
<1>4. /\ inflight' \in [Requests -> SUBSET PartIds]
      /\ inflight'[r] = inflight[r] \ {x}
      /\ \A q \in Requests \ {r} : inflight'[q] = inflight[q]
  BY <1>1 DEF ThreadTypes
<1>5. /\ done' \in [Requests -> SUBSET PartIds]
      /\ refused' \in [Requests -> SUBSET PartIds]
      /\ \/ done'[r] = done[r] \cup {x} /\ refused'[r] = refused[r]
         \/ done' = done /\ refused'[r] = refused[r] \cup {x}
      /\ \A q \in Requests \ {r} : done'[q] = done[q] /\ refused'[q] = refused[q]
  <2>1. CASE done' = [done EXCEPT ![r] = @ \cup {x}] /\ UNCHANGED refused
    BY <1>1, <1>3, <2>1 DEF ThreadTypes
  <2>2. CASE refused' = [refused EXCEPT ![r] = @ \cup {x}] /\ UNCHANGED done
    BY <1>1, <1>3, <2>2 DEF ThreadTypes
  <2> QED
    BY <2>1, <2>2
<1>6. TypeOK'
  <2>1. ThreadTypes'
    BY <1>1, <1>2, <1>4, <1>5 DEF ThreadTypes
  <2> QED
    BY <2>1, TypesSplitNext
<1>7. ThreadInv'
  <2> SUFFICES ASSUME NEW q \in Requests PROVE found'[q].gen \in Nat /\ found'[q].gen <= gens'
    BY <1>1, <1>2 DEF ThreadInv
  <2>1. found[q].gen \in Nat /\ found[q].gen <= gens /\ gens <= gens'
    BY <1>1 DEF ThreadInv, TopicsGoOn
  <2>2. gens \in Nat /\ gens' \in Nat
    BY <1>1, Bounds DEF TopicTypes
  <2> QED
    BY <1>2, <2>1, <2>2
<1>8. ASSUME NEW q \in Requests PROVE SubmitInv(q)'
  <2>1. CASE q = r
    <3>1. /\ MayAct(r) /\ ~IsView(r) /\ pc[r] \in {"result", "answered"}
          /\ pc[r] = "answered" => audited[r] \in {"ok", "error"}
          /\ inflight[r] \cup done[r] \cup refused[r] \subseteq Items(r)
          /\ inflight[r] \cap done[r] = {} /\ inflight[r] \cap refused[r] = {}
          /\ done[r] \cap refused[r] = {}
          /\ answer[r] = "none" <=> pc[r] # "answered"
      BY <1>1 DEF SubmitInv
    <3>2. answer[r] # "ok"
      BY <1>1, <3>1 DEF SubmitInv
    <3>3. /\ inflight'[r] \cup done'[r] \cup refused'[r] \subseteq Items(r)
          /\ inflight'[r] \cap done'[r] = {} /\ inflight'[r] \cap refused'[r] = {}
          /\ done'[r] \cap refused'[r] = {}
      BY <1>4, <1>5, <3>1
    <3>4. (MayAct(r)' <=> MayAct(r)) /\ (IsView(r)' <=> IsView(r)) /\ Items(r)' = Items(r)
      BY <1>2 DEF MayAct, NeedsConfirmation, IsView, Items
    <3> QED
      BY <1>2, <2>1, <3>1, <3>2, <3>3, <3>4 DEF SubmitInv
  <2>2. CASE q # r
    BY <1>1, <1>2, <1>4, <1>5, <2>2 DEF SubmitInv, MayAct, NeedsConfirmation, IsView, Items
  <2> QED
    BY <2>1, <2>2
<1>9. ASSUME NEW q \in Requests PROVE PurgeInv(q)'
  <2>1. CASE op[q].kind = "purge"
    <3>1. done[q] \subseteq PartIds
      BY <1>1 DEF ThreadTypes
    <3>2. \A p \in done'[q] \ done[q] : marks[q][p] <= low'[op[q].name][p]
      BY <1>5, <2>1
    <3> QED
      BY <3>1, <3>2, PurgeGoesOn
  <2>2. CASE op[q].kind # "purge"
    BY <1>2, <2>2 DEF PurgeInv
  <2> QED
    BY <2>1, <2>2
<1> QED
  BY <1>6, <1>7, <1>8, <1>9 DEF AInv

\* A topic that is created, again or for the first time, is empty and has a number
\* that nobody saw before.
LEMMA CreateGoesOn ==
    ASSUME TopicTypes, TopicInv, NEW n \in Names, NEW k \in 1 .. MaxParts,
           NEW c \in [Keys -> Values \cup {Default}], gens < MaxGens, Create(n, k, c)
    PROVE  TopicTypes' /\ TopicInv' /\ TopicsGoOn
<1>1. /\ gens' = gens + 1 /\ gen' = [gen EXCEPT ![n] = gens + 1]
      /\ parts' = [parts EXCEPT ![n] = k] /\ conf' = [conf EXCEPT ![n] = c]
      /\ low' = [low EXCEPT ![n] = [p \in PartIds |-> 0]]
      /\ high' = [high EXCEPT ![n] = [p \in PartIds |-> 0]]
  BY DEF Create, Empty
<1>2. gens \in Nat /\ gens + 1 \in 1 .. MaxGens /\ gens + 1 \in 0 .. MaxGens /\ 0 \in 0 .. MaxHigh
  BY Bounds DEF TopicTypes
<1>3. TopicTypes'
  BY <1>1, <1>2 DEF TopicTypes
<1>4. /\ gen'[n] = gens + 1 /\ \A p \in PartIds : low'[n][p] = 0 /\ high'[n][p] = 0
      /\ \A m \in Names \ {n} : /\ gen'[m] = gen[m] /\ parts'[m] = parts[m]
                                /\ low'[m] = low[m] /\ high'[m] = high[m]
  BY <1>1 DEF TopicTypes
<1>5. \A m \in Names : /\ gen[m] \in Nat /\ parts[m] \in Nat
                       /\ \A p \in PartIds : low[m][p] \in Nat /\ high[m][p] \in Nat
  BY TopicFacts
<1>6. TopicInv'
  BY <1>1, <1>2, <1>4, <1>5 DEF TopicInv
<1>7. TopicsGoOn
  BY <1>1, <1>2, <1>4, <1>5 DEF TopicsGoOn
<1> QED
  BY <1>3, <1>6, <1>7

LEMMA DeleteGoesOn ==
    ASSUME TopicTypes, TopicInv, NEW n \in Names, Delete(n)
    PROVE  TopicTypes' /\ TopicInv' /\ TopicsGoOn
<1>1. /\ gens' = gens /\ gen' = [gen EXCEPT ![n] = 0]
      /\ parts' = [parts EXCEPT ![n] = 1]
      /\ conf' = [conf EXCEPT ![n] = [k \in Keys |-> Default]]
      /\ low' = [low EXCEPT ![n] = [p \in PartIds |-> 0]]
      /\ high' = [high EXCEPT ![n] = [p \in PartIds |-> 0]]
  BY DEF Delete, Empty
<1>2. 0 \in 0 .. MaxGens /\ 0 \in 0 .. MaxHigh /\ 1 \in 1 .. MaxParts /\ gens \in Nat
  BY Bounds DEF TopicTypes
<1>3. TopicTypes'
  BY <1>1, <1>2 DEF TopicTypes
<1>4. /\ gen'[n] = 0 /\ \A p \in PartIds : low'[n][p] = 0 /\ high'[n][p] = 0
      /\ \A m \in Names \ {n} : /\ gen'[m] = gen[m] /\ parts'[m] = parts[m]
                                /\ low'[m] = low[m] /\ high'[m] = high[m]
  BY <1>1 DEF TopicTypes
<1>5. \A m \in Names : /\ gen[m] \in Nat /\ parts[m] \in Nat
                       /\ \A p \in PartIds : low[m][p] \in Nat /\ high[m][p] \in Nat
  BY TopicFacts
<1>6. TopicInv'
  BY <1>1, <1>2, <1>4, <1>5 DEF TopicInv
<1>7. TopicsGoOn
  BY <1>1, <1>2, <1>4, <1>5 DEF TopicsGoOn
<1> QED
  BY <1>3, <1>6, <1>7

\* What the broker does for a request that it applies.
LEMMA ApplyGoesOn ==
    ASSUME AInv, NEW r \in Requests, NEW x \in inflight[r], BrokerApplies(r, x)
    PROVE  /\ TopicTypes' /\ TopicInv' /\ TopicsGoOn
           /\ removed' \in [Requests -> Nat]
           /\ op[r].kind = "purge" => marks[r][x] <= low'[op[r].name][x]
<1>1. /\ TopicTypes /\ ThreadTypes /\ TopicInv /\ ThreadInv /\ SubmitInv(r)
  BY TypesSplit DEF AInv
<1> DEFINE n == op[r].name
<1>2. /\ n \in Names /\ op[r].parts \in 1 .. MaxParts
      /\ op[r].changes \in [Keys -> Values \cup {Default, Keep}]
  BY <1>1, OpFacts
<1>3. /\ removed \in [Requests -> Nat] /\ x \in PartIds
  BY <1>1 DEF ThreadTypes
<1>4. /\ Possible(r, x) /\ gens \in Nat
      /\ \A m \in Names : /\ gen[m] \in Nat /\ parts[m] \in Nat
                          /\ \A p \in PartIds : low[m][p] \in Nat /\ high[m][p] \in Nat
  BY <1>1, <1>2, TopicFacts DEF BrokerApplies
<1>5. CASE BrokerCreates(r)
  <2> DEFINE c == [k \in Keys |-> IF op[r].changes[k] = Keep THEN Default ELSE op[r].changes[k]]
  <2>1. c \in [Keys -> Values \cup {Default}]
    BY <1>2
  <2>2. op[r].kind = "create" /\ Create(n, op[r].parts, c) /\ removed' = removed
    BY <1>5 DEF BrokerCreates, Create
  <2>3. gens < MaxGens
    BY <1>4, <2>2 DEF Possible
  <2> HIDE DEF c, n
  <2>4. TopicTypes' /\ TopicInv' /\ TopicsGoOn
    BY <1>1, <1>2, <2>1, <2>2, <2>3, CreateGoesOn
  <2> QED
    BY <1>3, <2>2, <2>4
<1>6. CASE BrokerDeletes(r)
  <2>1. op[r].kind = "delete" /\ Delete(n) /\ removed' = removed
    BY <1>6 DEF BrokerDeletes, Delete
  <2> QED
    BY <1>1, <1>2, <1>3, <2>1, DeleteGoesOn
<1>7. CASE BrokerGrows(r)
  <2>1. /\ op[r].kind = "grow" /\ parts' = [parts EXCEPT ![n] = op[r].parts]
        /\ UNCHANGED <<gen, gens, conf, low, high, removed>>
    BY <1>7 DEF BrokerGrows
  <2>2. op[r].parts > parts[n]
    BY <1>4, <2>1 DEF Possible
  <2> HIDE DEF n
  <2>3. parts' \in [Names -> 1 .. MaxParts] /\ \A m \in Names : parts[m] <= parts'[m]
    BY <1>1, <1>2, <1>4, <2>1, <2>2, Bounds DEF TopicTypes
  <2>4. TopicTypes' /\ TopicInv'
    BY <1>1, <2>1, <2>3 DEF TopicTypes, TopicInv
  <2>5. TopicsGoOn
    BY <1>4, <2>1, <2>3 DEF TopicsGoOn
  <2> QED
    BY <1>3, <2>1, <2>4, <2>5
<1>8. CASE BrokerConfigures(r)
  <2> DEFINE c == [k \in Keys |-> IF k \in DOMAIN Entries(r) THEN Entries(r)[k] ELSE conf[n][k]]
  <2>1. /\ op[r].kind = "configure" /\ conf' = [conf EXCEPT ![n] = c]
        /\ UNCHANGED <<gen, gens, parts, low, high, removed>>
    BY <1>8 DEF BrokerConfigures
  <2>2. c \in [Keys -> Values \cup {Default}]
    <3>1. conf[n] \in [Keys -> Values \cup {Default}]
      BY <1>1, <1>2 DEF TopicTypes
    <3>2. \A k \in DOMAIN Entries(r) : k \in Keys => Entries(r)[k] \in Values \cup {Default}
      BY <1>1, <1>2, <1>3 DEF ThreadTypes, Entries
    <3> QED
      BY <3>1, <3>2
  <2> HIDE DEF c, n
  <2>3. TopicTypes' /\ TopicInv'
    BY <1>1, <1>2, <2>1, <2>2 DEF TopicTypes, TopicInv
  <2>4. TopicsGoOn
    BY <1>4, <2>1 DEF TopicsGoOn
  <2> QED
    BY <1>3, <2>1, <2>3, <2>4
<1>9. CASE BrokerPurges(r, x)
  <2> DEFINE to == IF marks[r][x] > low[n][x] THEN marks[r][x] ELSE low[n][x]
  <2>1. /\ op[r].kind = "purge" /\ low' = [low EXCEPT ![n][x] = to]
        /\ removed' = [removed EXCEPT ![r] =
                         IF gen[n] = found[r].gen THEN @ + low'[n][x] - low[n][x] ELSE @]
        /\ UNCHANGED <<gen, gens, parts, conf, high>>
    BY <1>9 DEF BrokerPurges
  <2>2. marks[r][x] <= high[n][x] /\ low[n][x] <= high[n][x] /\ high[n][x] \in 0 .. MaxHigh
    BY <1>1, <1>2, <1>3, <1>4, <2>1, TopicFacts DEF Possible, TopicInv
  <2>3. marks[r][x] \in Nat
    <3>1. x \in DOMAIN marks[r]
      BY <1>1, <2>1 DEF SubmitInv, Items
    <3> QED
      BY <1>1, <3>1, Bounds DEF ThreadTypes
  <2>4. /\ to \in Nat /\ to \in 0 .. MaxHigh /\ to <= high[n][x] /\ marks[r][x] <= to
        /\ low[n][x] <= to
    BY <1>2, <1>3, <1>4, <2>2, <2>3, Bounds
  <2> HIDE DEF to, n
  <2>5. /\ low' \in [Names -> [PartIds -> 0 .. MaxHigh]] /\ low'[n][x] = to
        /\ \A m \in Names, p \in PartIds : m # n \/ p # x => low'[m][p] = low[m][p]
    BY <1>1, <1>2, <1>3, <2>1, <2>4 DEF TopicTypes
  <2>6. removed' \in [Requests -> Nat]
    <3>1. removed[r] \in Nat /\ removed[r] + to - low[n][x] \in Nat
      BY <1>2, <1>3, <1>4, <2>4
    <3> QED
      BY <1>3, <2>1, <2>5, <3>1
  <2>7. TopicTypes' /\ TopicInv'
    BY <1>1, <2>1, <2>4, <2>5 DEF TopicTypes, TopicInv
  <2>8. TopicsGoOn
    BY <1>2, <1>3, <1>4, <2>1, <2>4, <2>5 DEF TopicsGoOn
  <2>9. marks[r][x] <= low'[n][x]
    BY <2>4, <2>5
  <2> QED
    BY <2>6, <2>7, <2>8, <2>9 DEF n
<1> QED
  BY <1>5, <1>6, <1>7, <1>8, <1>9 DEF BrokerApplies

LEMMA BrokerKeepsAInv ==
    ASSUME AInv, NEW r \in Requests, Broker(r)
    PROVE  AInv'
<1>1. /\ TopicTypes /\ ThreadTypes /\ TopicInv
  BY TypesSplit DEF AInv
<1>2. PICK x \in inflight[r] : /\ inflight' = [inflight EXCEPT ![r] = @ \ {x}]
                               /\ BrokerApplies(r, x) \/ BrokerRefuses(r, x)
                               /\ UNCHANGED threadVars
  BY DEF Broker
<1>3. CASE BrokerApplies(r, x)
  <2>1. done' = [done EXCEPT ![r] = @ \cup {x}] /\ UNCHANGED refused
    BY <1>3 DEF BrokerApplies
  <2>2. /\ TopicTypes' /\ TopicInv' /\ TopicsGoOn
        /\ removed' \in [Requests -> Nat]
        /\ op[r].kind = "purge" => marks[r][x] <= low'[op[r].name][x]
    BY <1>3, ApplyGoesOn
  <2> QED
    BY <1>2, <2>1, <2>2, ItemKeepsAInv
<1>4. CASE BrokerRefuses(r, x)
  <2>1. /\ refused' = [refused EXCEPT ![r] = @ \cup {x}] /\ UNCHANGED done
        /\ UNCHANGED <<gen, gens, parts, conf, low, high, removed>>
    BY <1>4 DEF BrokerRefuses, topicVars
  <2>2. TopicTypes' /\ TopicInv' /\ removed' \in [Requests -> Nat]
    BY <1>1, <2>1 DEF TopicTypes, TopicInv, ThreadTypes
  <2>3. TopicsGoOn
    <3>1. \A m \in Names : /\ parts[m] \in Nat
                           /\ \A p \in PartIds : low[m][p] \in Nat /\ high[m][p] \in Nat
      BY <1>1, TopicFacts
    <3>2. gens \in Nat
      BY <1>1, Bounds DEF TopicTypes
    <3> QED
      BY <2>1, <3>1, <3>2 DEF TopicsGoOn
  <2> QED
    BY <1>2, <2>1, <2>2, <2>3, ItemKeepsAInv
<1> QED
  BY <1>2, <1>3, <1>4

\* Other clients replace topics and write to them.
LEMMA OthersKeepAInv ==
    ASSUME AInv, UNCHANGED <<brokerVars, threadVars, removed>>, TopicTypes', TopicInv', TopicsGoOn
    PROVE  AInv'
<1>1. /\ TopicTypes /\ ThreadTypes /\ ThreadInv
      /\ \A q \in Requests : SubmitInv(q) /\ PurgeInv(q)
  BY TypesSplit DEF AInv
<1>2. UNCHANGED <<op, rendered, pc, todo, marks, counted, shown, answer, audited, found, inflight, done,
                  refused, removed>>
  BY DEF threadVars, brokerVars
<1>3. TypeOK'
  <2>1. ThreadTypes'
    BY <1>1, <1>2 DEF ThreadTypes
  <2> QED
    BY <2>1, TypesSplitNext
<1>4. ThreadInv'
  <2> SUFFICES ASSUME NEW q \in Requests PROVE found'[q].gen \in Nat /\ found'[q].gen <= gens'
    BY <1>1, <1>2 DEF ThreadInv
  <2>1. found[q].gen \in Nat /\ found[q].gen <= gens /\ gens <= gens'
    BY <1>1 DEF ThreadInv, TopicsGoOn
  <2>2. gens \in Nat /\ gens' \in Nat
    BY <1>1, Bounds DEF TopicTypes
  <2> QED
    BY <1>2, <2>1, <2>2
<1>5. ASSUME NEW q \in Requests PROVE SubmitInv(q)' /\ PurgeInv(q)'
  <2>1. SubmitInv(q)'
    BY <1>1, <1>2 DEF SubmitInv, MayAct, NeedsConfirmation, IsView, Items
  <2>2. done[q] \subseteq PartIds /\ done'[q] \ done[q] = {}
    BY <1>1, <1>2 DEF ThreadTypes
  <2>3. PurgeInv(q)'
    BY <2>2, PurgeGoesOn
  <2> QED
    BY <2>1, <2>3
<1> QED
  BY <1>3, <1>4, <1>5 DEF AInv

LEMMA ReplaceGoesOn ==
    ASSUME AInv, NEW n \in Names, OthersReplace(n)
    PROVE  /\ TopicTypes' /\ TopicInv' /\ TopicsGoOn
           /\ UNCHANGED <<brokerVars, threadVars, removed>>
<1>1. TopicTypes /\ TopicInv
  BY TypesSplit DEF AInv
<1> DEFINE c == [k \in Keys |-> Default]
<1>2. /\ gens < MaxGens /\ Create(n, MaxParts, c) /\ UNCHANGED <<brokerVars, threadVars, removed>>
  BY DEF OthersReplace, Create
<1>3. c \in [Keys -> Values \cup {Default}] /\ MaxParts \in 1 .. MaxParts
  BY Bounds
<1> HIDE DEF c
<1>4. TopicTypes' /\ TopicInv' /\ TopicsGoOn
  BY <1>1, <1>2, <1>3, CreateGoesOn
<1> QED
  BY <1>2, <1>4

LEMMA AppendGoesOn ==
    ASSUME AInv, NEW n \in Names, NEW p \in PartsOf(n), Append(n, p)
    PROVE  /\ TopicTypes' /\ TopicInv' /\ TopicsGoOn
           /\ UNCHANGED <<brokerVars, threadVars, removed>>
<1>1. TopicTypes /\ TopicInv
  BY TypesSplit DEF AInv
<1>2. /\ high[n][p] < MaxHigh /\ high' = [high EXCEPT ![n][p] = @ + 1]
      /\ UNCHANGED <<gen, gens, parts, conf, low, brokerVars, threadVars, removed>>
  BY DEF Append
<1>3. /\ p \in PartIds /\ gens \in Nat
      /\ \A m \in Names : /\ parts[m] \in Nat
                          /\ \A q \in PartIds : low[m][q] \in Nat /\ high[m][q] \in Nat
  BY <1>1, TopicFacts
<1>4. high[n][p] + 1 \in 0 .. MaxHigh
  BY <1>2, <1>3, Bounds
<1>5. /\ high' \in [Names -> [PartIds -> 0 .. MaxHigh]] /\ high'[n][p] = high[n][p] + 1
      /\ \A m \in Names, q \in PartIds : m # n \/ q # p => high'[m][q] = high[m][q]
  BY <1>1, <1>2, <1>3, <1>4 DEF TopicTypes
<1>6. \A m \in Names, q \in PartIds : high[m][q] <= high'[m][q] /\ low[m][q] <= high'[m][q]
  <2> SUFFICES ASSUME NEW m \in Names, NEW q \in PartIds
               PROVE  high[m][q] <= high'[m][q] /\ low[m][q] <= high'[m][q]
    OBVIOUS
  <2>1. low[m][q] \in Nat /\ high[m][q] \in Nat /\ low[m][q] <= high[m][q]
    BY <1>1, <1>3 DEF TopicInv
  <2>2. high'[m][q] = high[m][q] + 1 \/ high'[m][q] = high[m][q]
    BY <1>5
  <2> QED
    BY <2>1, <2>2
<1>7. TopicTypes' /\ TopicInv'
  BY <1>1, <1>2, <1>5, <1>6 DEF TopicTypes, TopicInv
<1>8. TopicsGoOn
  BY <1>2, <1>3, <1>6 DEF TopicsGoOn
<1> QED
  BY <1>2, <1>7, <1>8

-----------------------------------------------------------------------------
(* The theorems                                                            *)

LEMMA InitAInv == Init => AInv
<1> SUFFICES ASSUME Init PROVE AInv
  OBVIOUS
<1>1. /\ 0 \in 0 .. MaxGens /\ 1 \in 0 .. MaxGens /\ 1 \in 1 .. MaxGens /\ 0 <= 1
      /\ 0 \in 0 .. MaxHigh /\ 1 \in 0 .. MaxHigh
  BY Bounds
<1>2. TopicTypes
  <2>1. high \in [Names -> [PartIds -> 0 .. MaxHigh]]
    <3>1. high \in [Names -> [PartIds -> {0, 1}]]
      BY DEF Init
    <3>2. {0, 1} \subseteq 0 .. MaxHigh
      BY <1>1
    <3> QED
      BY <3>1, <3>2
  <2>2. gen \in [Names -> 0 .. MaxGens]
    BY <1>1 DEF Init
  <2> QED
    BY <1>1, <2>1, <2>2 DEF Init, TopicTypes
<1>3. \A r \in Requests : /\ marks[r] = << >> /\ DOMAIN marks[r] = {}
                          /\ shown[r] = << >> /\ DOMAIN shown[r] = {}
                          /\ rendered[r] = << >> /\ DOMAIN rendered[r] = {}
  BY DEF Init
<1>4. ThreadTypes
  BY <1>3 DEF Init, ThreadTypes, Labels
<1>5. TypeOK
  BY <1>2, <1>4, TypesSplit
<1>6. TopicInv
  <2>1. \A n \in Names : gen[n] = 0 \/ gen[n] = 1
    BY DEF Init
  <2>2. \A n \in Names, p \in PartIds : low[n][p] = 0 /\ (high[n][p] = 0 \/ high[n][p] = 1)
    BY DEF Init
  <2>3. gens = 1
    BY DEF Init
  <2> QED
    BY <2>1, <2>2, <2>3 DEF TopicInv
<1>7. ThreadInv
  <2>1. \A r \in Requests : /\ found[r].gen = 0 /\ found[r].ends = << >>
                            /\ DOMAIN found[r].ends = {}
    BY DEF Init
  <2>2. /\ DOMAIN marks = Requests /\ DOMAIN shown = Requests /\ DOMAIN found = Requests
        /\ DOMAIN rendered = Requests /\ gens = 1
    BY DEF Init
  <2> QED
    BY <2>1, <2>2 DEF ThreadInv
<1>8. ASSUME NEW r \in Requests PROVE SubmitInv(r) /\ PurgeInv(r)
  BY <1>3 DEF Init, SubmitInv, PurgeInv
<1> QED
  BY <1>5, <1>6, <1>7, <1>8 DEF AInv

\* Nothing has to happen to the topics.
LEMMA StillGoesOn ==
    ASSUME AInv, UNCHANGED topicVars
    PROVE  TopicTypes' /\ TopicInv' /\ TopicsGoOn
<1>1. UNCHANGED <<gen, gens, parts, conf, low, high>>
  BY DEF topicVars
<1>2. TopicTypes /\ TopicInv
  BY TypesSplit DEF AInv
<1>3. TopicTypes' /\ TopicInv'
  BY <1>1, <1>2 DEF TopicTypes, TopicInv
<1>4. TopicsGoOn
  <2>1. gens \in Nat
    BY <1>2, Bounds DEF TopicTypes
  <2>2. \A m \in Names : /\ parts[m] \in Nat
                         /\ \A p \in PartIds : low[m][p] \in Nat /\ high[m][p] \in Nat
    BY <1>2, TopicFacts
  <2> QED
    BY <1>1, <2>1, <2>2 DEF TopicsGoOn
<1> QED
  BY <1>3, <1>4

LEMMA NextKeepsAInv == AInv /\ [Next]_vars => AInv'
<1> SUFFICES ASSUME AInv, [Next]_vars PROVE AInv'
  OBVIOUS
<1>1. CASE \E r \in Requests : Step(r) \/ Broker(r)
  BY <1>1, StepKeepsAInv, BrokerKeepsAInv
<1>2. CASE \E n \in Names : OthersReplace(n)
  BY <1>2, ReplaceGoesOn, OthersKeepAInv
<1>3. CASE \E n \in Names : \E p \in PartsOf(n) : Append(n, p)
  BY <1>3, AppendGoesOn, OthersKeepAInv
<1>4. CASE UNCHANGED vars
  <2>1. UNCHANGED topicVars /\ UNCHANGED <<brokerVars, threadVars, removed>>
    BY <1>4 DEF vars
  <2> QED
    BY <2>1, StillGoesOn, OthersKeepAInv
<1> QED
  BY <1>1, <1>2, <1>3, <1>4 DEF Next

LEMMA AInvHolds == Spec => []AInv
BY InitAInv, NextKeepsAInv, PTL DEF Spec

\* Every variable has its type; in particular no count is ever negative.
THEOREM TypeCorrect == Spec => []TypeOK
<1>1. AInv => TypeOK
  BY DEF AInv
<1> QED
  BY <1>1, AInvHolds, PTL

\* future.result() of every partition was waited for when an endpoint answers "ok";
\* and after purge_topic() nothing is left of what the topic held when the request
\* came in, as long as it is the same topic.
THEOREM DoneMeansDone == Spec => []OkMeansDone
<1>1. AInv => OkMeansDone
  <2> SUFFICES ASSUME AInv, NEW r \in Requests, answer[r] = "ok", ~IsView(r)
               PROVE  /\ done[r] = Items(r) /\ refused[r] = {}
                      /\ op[r].kind = "purge" /\ SameTopic(r) =>
                           \A p \in DOMAIN found[r].ends :
                             found[r].ends[p] <= low[op[r].name][p]
    BY DEF OkMeansDone, SameTopic
  <2>1. /\ TopicTypes /\ ThreadTypes /\ ThreadInv /\ SubmitInv(r) /\ PurgeInv(r)
    BY TypesSplit DEF AInv
  <2>2. done[r] = Items(r) /\ refused[r] = {} /\ pc[r] = "answered"
    BY <2>1 DEF SubmitInv
  <2>3. ASSUME op[r].kind = "purge", SameTopic(r), NEW p \in DOMAIN found[r].ends
        PROVE  found[r].ends[p] <= low[op[r].name][p]
    <3>1. /\ p \in DOMAIN marks[r] /\ p \in PartsOf(op[r].name)
          /\ found[r].ends[p] <= marks[r][p]
      BY <2>1, <2>2, <2>3 DEF PurgeInv
    <3>2. marks[r][p] <= low[op[r].name][p]
      BY <2>1, <2>2, <2>3, <3>1 DEF PurgeInv, Items
    <3>3. op[r].name \in Names /\ p \in PartIds /\ low[op[r].name][p] \in Nat
      BY <2>1, <3>1, OpFacts, TopicFacts
    <3>4. marks[r][p] \in Nat /\ found[r].ends[p] \in Nat
      BY <2>1, <2>3, <3>1, Bounds DEF ThreadTypes, ThreadInv
    <3> QED
      BY <3>1, <3>2, <3>3, <3>4
  <2> QED
    BY <2>2, <2>3
<1> QED
  BY <1>1, AInvHolds, PTL

\* The broker does nothing for a request that require_write, the confirmation or the
\* protection of internal topics turned away; and what it does is audited, also when
\* it comes after the thread gave up.
THEOREM ChangesAudited == Spec => []ChangesAccounted
<1>1. AInv => ChangesAccounted
  BY DEF AInv, SubmitInv, MayAct, NeedsConfirmation, ChangesAccounted
<1> QED
  BY <1>1, AInvHolds, PTL

\* Of a topic that goes on, only a save under way changes the configuration, and only
\* to what is in its form.
THEOREM SavesItsForm == Spec => SavesOnlyItsForm
<1> DEFINE InForm(r, n, k) ==
              /\ Saves(r, n)
              /\ conf'[n][k] = IF op[r].changes[k] # Keep THEN op[r].changes[k]
                               ELSE IF k \in DOMAIN rendered[r] THEN rendered[r][k]
                               ELSE conf[n][k]
           Own == \A n \in Names, k \in Keys :
                     Reconfigured(n, k) => \E r \in Requests : InForm(r, n, k)
<1>1. ASSUME AInv, [Next]_vars PROVE Own
  <2> SUFFICES ASSUME NEW n \in Names, NEW k \in Keys,
                      gen[n] # 0, gen'[n] = gen[n], conf'[n][k] # conf[n][k]
               PROVE  \E r \in Requests : InForm(r, n, k)
    BY DEF Exists, Reconfigured
  <2>1. /\ TopicTypes /\ ThreadTypes /\ TopicInv
    BY <1>1, TypesSplit DEF AInv
  <2>2. gen[n] <= gens /\ gens \in Nat
    BY <2>1, Bounds DEF TopicInv, TopicTypes
  <2>3. ASSUME NEW m \in Names, NEW j, NEW c, Create(m, j, c) \/ Delete(m) PROVE FALSE
    <3>1. CASE Create(m, j, c)
      <4>1. conf' = [conf EXCEPT ![m] = c] /\ gen' = [gen EXCEPT ![m] = gens + 1]
        BY <3>1 DEF Create, Empty
      <4>2. CASE m = n
        BY <2>1, <2>2, <4>1, <4>2 DEF TopicTypes
      <4>3. CASE m # n
        BY <2>1, <4>1, <4>3 DEF TopicTypes
      <4> QED
        BY <4>2, <4>3
    <3>2. CASE Delete(m)
      <4> DEFINE c0 == [x \in Keys |-> Default]
      <4>1. conf' = [conf EXCEPT ![m] = c0] /\ gen' = [gen EXCEPT ![m] = 0]
        BY <3>2 DEF Delete, Empty
      <4> HIDE DEF c0
      <4>2. CASE m = n
        BY <2>1, <4>1, <4>2 DEF TopicTypes
      <4>3. CASE m # n
        BY <2>1, <4>1, <4>3 DEF TopicTypes
      <4> QED
        BY <4>2, <4>3
    <3> QED
      BY <2>3, <3>1, <3>2
  <2>4. CASE UNCHANGED conf
    BY <2>4
  <2>5. ASSUME NEW r \in Requests, Broker(r)
        PROVE  \E q \in Requests : InForm(q, n, k)
    <3>1. PICK x \in inflight[r] : BrokerApplies(r, x) \/ BrokerRefuses(r, x)
      BY <2>5 DEF Broker
    <3>2. op[r].name \in Names /\ op[r].changes \in [Keys -> Values \cup {Default, Keep}]
      BY <2>1, OpFacts
    <3>3. \/ UNCHANGED conf \/ BrokerConfigures(r) \/ Delete(op[r].name)
          \/ \E j, c : Create(op[r].name, j, c)
      BY <3>1 DEF BrokerRefuses, BrokerApplies, BrokerCreates, BrokerDeletes, BrokerGrows,
                  BrokerPurges, topicVars
    <3>4. CASE BrokerConfigures(r)
      <4> DEFINE c == [y \in Keys |-> IF y \in DOMAIN Entries(r) THEN Entries(r)[y]
                                                               ELSE conf[op[r].name][y]]
      <4>1. op[r].kind = "configure" /\ conf' = [conf EXCEPT ![op[r].name] = c]
        BY <3>4 DEF BrokerConfigures
      <4>2. c[k] = IF k \in DOMAIN Entries(r) THEN Entries(r)[k] ELSE conf[op[r].name][k]
        OBVIOUS
      <4>3. IF op[r].changes[k] # Keep
              THEN k \in DOMAIN Entries(r) /\ Entries(r)[k] = op[r].changes[k]
              ELSE IF k \in DOMAIN rendered[r]
                THEN k \in DOMAIN Entries(r) /\ Entries(r)[k] = rendered[r][k]
                ELSE k \notin DOMAIN Entries(r)
        BY DEF Entries
      <4> HIDE DEF c
      <4>4. op[r].name = n
        BY <2>1, <4>1 DEF TopicTypes
      <4>5. conf'[n] = c
        BY <2>1, <4>1, <4>4 DEF TopicTypes
      <4>6. Saves(r, n)
        BY <3>1, <4>1, <4>4 DEF Saves
      <4>7. conf'[n][k] = IF op[r].changes[k] # Keep THEN op[r].changes[k]
                          ELSE IF k \in DOMAIN rendered[r] THEN rendered[r][k]
                          ELSE conf[n][k]
        BY <4>2, <4>3, <4>4, <4>5
      <4> QED
        BY <4>6, <4>7
    <3> QED
      BY <2>3, <2>4, <3>2, <3>3, <3>4
  <2>6. CASE \E r \in Requests : Step(r)
    BY <2>4, <2>6 DEF Step, OpenForm, Receive, ListTopics, ReadMark, Describe, Submit, Result,
                      BrokerTrouble, ThreadOnly, topicVars
  <2>7. CASE \E m \in Names : OthersReplace(m)
    BY <2>3, <2>7 DEF OthersReplace
  <2>8. CASE \E m \in Names : \E p \in PartsOf(m) : Append(m, p)
    BY <2>4, <2>8 DEF Append
  <2>9. CASE UNCHANGED vars
    BY <2>4, <2>9 DEF vars, topicVars
  <2> QED
    BY <1>1, <2>5, <2>6, <2>7, <2>8, <2>9 DEF Next
<1>2. AInv /\ [Next]_vars => [Own]_vars
  BY <1>1
<1> QED
  BY <1>2, AInvHolds, PTL DEF Spec, SavesOnlyItsForm

-----------------------------------------------------------------------------
(* Sums over finite sets                                                   *)

\* A set that has 0 and the successors of its numbers has every number.
LEMMA Induction ==
    ASSUME NEW T, 0 \in T, \A n \in Nat : n \in T => n + 1 \in T
    PROVE  Nat \subseteq T
<1> DEFINE R == OpToRel(<, Nat)
           U == Nat \ T
<1>1. \A x, y \in Nat : <<x, y>> \in R <=> x < y
  BY DEF OpToRel
<1>2. IsWellFoundedOn(R, Nat)
  BY NatLessThanWellFounded
<1> HIDE DEF R
<1> SUFFICES ASSUME U # {} PROVE FALSE
  OBVIOUS
<1>3. PICK x \in U : \A y \in U : ~(<<y, x>> \in R)
  BY <1>2, WFMin
<1>4. x \in Nat /\ x # 0 /\ x \notin T
  OBVIOUS
<1>5. x - 1 \in Nat /\ x - 1 < x /\ x - 1 + 1 = x
  BY <1>4
<1>6. x - 1 \in T
  BY <1>1, <1>3, <1>4, <1>5
<1> QED
  BY <1>4, <1>5, <1>6

\* The element a sum takes next.
Taken(s) == CHOOSE x \in s : TRUE

\* The subsets of at most n elements.
Layer(S, n) == {s \in SUBSET S : Cardinality(s) <= n}

\* g sums f over the sets in D.
Sums(g, f, D) == g = [s \in D |-> IF s = {} THEN 0 ELSE f[Taken(s)] + g[s \ {Taken(s)}]]

LEMMA OneFewer ==
    ASSUME NEW s, IsFiniteSet(s), s # {}
    PROVE  /\ Taken(s) \in s
           /\ \A x \in s : /\ IsFiniteSet(s \ {x})
                           /\ Cardinality(s) \in Nat \ {0}
                           /\ Cardinality(s \ {x}) = Cardinality(s) - 1
<1>1. Taken(s) \in s
  BY DEF Taken
<1>2. ASSUME NEW x \in s
      PROVE  /\ IsFiniteSet(s \ {x})
             /\ Cardinality(s) \in Nat \ {0}
             /\ Cardinality(s \ {x}) = Cardinality(s) - 1
  <2>1. IsFiniteSet(s \ {x}) /\ Cardinality(s \ {x}) = Cardinality(s) - 1
    BY FS_RemoveElement
  <2>2. Cardinality(s) \in Nat /\ Cardinality(s) # 0
    BY FS_CardinalityType, FS_EmptySet
  <2> QED
    BY <2>1, <2>2
<1> QED
  BY <1>1, <1>2

\* The recursion of a sum has a solution, ...
LEMMA SumsExist ==
    ASSUME NEW S, IsFiniteSet(S), NEW f
    PROVE  \E g : Sums(g, f, SUBSET S)
<1> DEFINE T == {n \in Nat : \E g : Sums(g, f, Layer(S, n))}
<1>0. \A s \in SUBSET S : IsFiniteSet(s) /\ Cardinality(s) \in Nat
                          /\ Cardinality(s) <= Cardinality(S)
  BY FS_Subset, FS_CardinalityType
<1>1. 0 \in T
  <2>1. Layer(S, 0) \subseteq {{}}
    BY <1>0, FS_EmptySet DEF Layer
  <2>2. Sums([s \in Layer(S, 0) |-> 0], f, Layer(S, 0))
    BY <2>1 DEF Sums
  <2> QED
    BY <2>2
<1>2. ASSUME NEW n \in Nat, n \in T PROVE n + 1 \in T
  <2>1. PICK g : Sums(g, f, Layer(S, n))
    BY <1>2
  <2> DEFINE D == Layer(S, n + 1)
             h == [s \in D |-> IF s \in Layer(S, n) THEN g[s]
                               ELSE f[Taken(s)] + g[s \ {Taken(s)}]]
  <2>2. ASSUME NEW s \in D
        PROVE  h[s] = IF s = {} THEN 0 ELSE f[Taken(s)] + h[s \ {Taken(s)}]
    <3> DEFINE t == s \ {Taken(s)}
    <3>1. h[s] = IF s \in Layer(S, n) THEN g[s] ELSE f[Taken(s)] + g[t]
      OBVIOUS
    <3>2. s \in SUBSET S /\ IsFiniteSet(s) /\ Cardinality(s) \in Nat /\ Cardinality(s) <= n + 1
      BY <1>0 DEF Layer
    <3>3. CASE s = {}
      <4>1. s \in Layer(S, n)
        BY <3>3, FS_EmptySet DEF Layer
      <4>2. g[s] = 0
        BY <2>1, <3>3, <4>1 DEF Sums
      <4> QED
        BY <3>1, <3>3, <4>1, <4>2
    <3>4. CASE s # {}
      <4>1. Taken(s) \in s /\ Cardinality(t) = Cardinality(s) - 1 /\ Cardinality(s) # 0
        BY <3>2, <3>4, OneFewer
      <4>2. Cardinality(t) <= n /\ Cardinality(t) <= n + 1 /\ t \in SUBSET S
        BY <3>2, <4>1
      <4>3. t \in Layer(S, n) /\ t \in D
        BY <4>2 DEF Layer
      <4>4. h[t] = g[t]
        BY <4>3
      <4>5. CASE s \in Layer(S, n)
        <5>1. g[s] = f[Taken(s)] + g[t]
          BY <2>1, <3>4, <4>5 DEF Sums
        <5> HIDE DEF h, t
        <5> QED
          BY <3>1, <3>4, <4>4, <4>5, <5>1 DEF t
      <4>6. CASE s \notin Layer(S, n)
        <5> HIDE DEF h, t
        <5> QED
          BY <3>1, <3>4, <4>4, <4>6 DEF t
      <4> QED
        BY <4>5, <4>6
    <3> QED
      BY <3>3, <3>4
  <2>3. h = [s \in D |-> h[s]]
    OBVIOUS
  <2> HIDE DEF h
  <2>4. Sums(h, f, D)
    BY <2>2, <2>3, Zenon DEF Sums
  <2> QED
    BY <2>4
<1> HIDE DEF T
<1>3. Cardinality(S) \in T
  BY <1>0, <1>1, <1>2, Induction
<1>4. PICK g : Sums(g, f, Layer(S, Cardinality(S)))
  BY <1>3 DEF T
<1>5. Layer(S, Cardinality(S)) = SUBSET S
  BY <1>0 DEF Layer
<1> QED
  BY <1>4, <1>5

\* ... and only one.
LEMMA SumsAgree ==
    ASSUME NEW f, NEW S, NEW R, NEW g, NEW h, Sums(g, f, SUBSET S), Sums(h, f, SUBSET R),
           NEW s, s \subseteq S, s \subseteq R, IsFiniteSet(s)
    PROVE  g[s] = h[s]
<1> DEFINE T == {n \in Nat : \A t \in SUBSET (S \cap R) :
                   IsFiniteSet(t) /\ Cardinality(t) = n => g[t] = h[t]}
<1>1. ASSUME NEW t \in SUBSET (S \cap R)
      PROVE  /\ g[t] = IF t = {} THEN 0 ELSE f[Taken(t)] + g[t \ {Taken(t)}]
             /\ h[t] = IF t = {} THEN 0 ELSE f[Taken(t)] + h[t \ {Taken(t)}]
  BY DEF Sums
<1>2. 0 \in T
  BY <1>1, FS_EmptySet
<1>3. ASSUME NEW n \in Nat, n \in T, NEW t \in SUBSET (S \cap R), IsFiniteSet(t),
             Cardinality(t) = n + 1
      PROVE  g[t] = h[t]
  <2>1. t # {}
    BY <1>3, FS_EmptySet
  <2>2. IsFiniteSet(t \ {Taken(t)}) /\ Cardinality(t \ {Taken(t)}) = n
    <3>1. Taken(t) \in t /\ \A x \in t : /\ IsFiniteSet(t \ {x})
                                         /\ Cardinality(t \ {x}) = Cardinality(t) - 1
      BY <1>3, <2>1, OneFewer
    <3>2. Cardinality(t) - 1 = n
      BY <1>3
    <3> QED
      BY <3>1, <3>2
  <2>3. g[t \ {Taken(t)}] = h[t \ {Taken(t)}]
    BY <1>3, <2>2
  <2> QED
    BY <1>1, <2>1, <2>3
<1>4. \A n \in Nat : n \in T => n + 1 \in T
  BY <1>3
<1> HIDE DEF T
<1>5. Cardinality(s) \in T
  BY <1>2, <1>4, Induction, FS_CardinalityType
<1> QED
  BY <1>5 DEF T

LEMMA TotalIsSum ==
    ASSUME NEW S, IsFiniteSet(S), NEW f
    PROVE  \E g : Sums(g, f, SUBSET S) /\ Total(S, f) = g[S]
<1> DEFINE iter == CHOOSE iter : iter = [s \in SUBSET S |->
        IF s = {} THEN 0
        ELSE LET x == CHOOSE x \in s : TRUE IN f[x] + iter[s \ {x}]]
<1>1. Total(S, f) = iter[S]
  BY DEF Total, MapThenSumSet, MapThenFoldSet
<1> HIDE DEF iter
<1>2. PICK g : Sums(g, f, SUBSET S)
  BY SumsExist
<1>3. Sums(iter, f, SUBSET S)
  BY <1>2 DEF iter, Sums, Taken
<1> QED
  BY <1>1, <1>3

LEMMA TotalNext ==
    ASSUME NEW S, IsFiniteSet(S), NEW f
    PROVE  Total(S, f) = IF S = {} THEN 0 ELSE f[Taken(S)] + Total(S \ {Taken(S)}, f)
<1>1. PICK g : Sums(g, f, SUBSET S) /\ Total(S, f) = g[S]
  BY TotalIsSum
<1>2. g[S] = IF S = {} THEN 0 ELSE f[Taken(S)] + g[S \ {Taken(S)}]
  BY <1>1 DEF Sums
<1>3. CASE S = {}
  BY <1>1, <1>2, <1>3
<1>4. CASE S # {}
  <2> DEFINE t == S \ {Taken(S)}
  <2>1. IsFiniteSet(t) /\ t \subseteq S
    BY FS_Subset
  <2>2. PICK h : Sums(h, f, SUBSET t) /\ Total(t, f) = h[t]
    BY <2>1, TotalIsSum
  <2> HIDE DEF t
  <2>3. g[t] = h[t]
    <3>1. Sums(g, f, SUBSET S) /\ Sums(h, f, SUBSET t) /\ t \subseteq t
      BY <1>1, <2>2
    <3> QED
      BY <2>1, <3>1, SumsAgree
  <2> QED
    BY <1>1, <1>2, <1>4, <2>2, <2>3 DEF t
<1> QED
  BY <1>3, <1>4

\* A sum of numbers is one, ...
LEMMA TotalNat ==
    ASSUME NEW S, IsFiniteSet(S), NEW f, \A x \in S : f[x] \in Nat
    PROVE  Total(S, f) \in Nat
<1> DEFINE T == {n \in Nat : \A s \in SUBSET S : Cardinality(s) = n => Total(s, f) \in Nat}
<1>0. \A s \in SUBSET S : IsFiniteSet(s) /\ Cardinality(s) \in Nat
  BY FS_Subset, FS_CardinalityType
<1>1. 0 \in T
  BY <1>0, FS_EmptySet, TotalNext
<1>2. ASSUME NEW n \in Nat, n \in T, NEW s \in SUBSET S, Cardinality(s) = n + 1
      PROVE  Total(s, f) \in Nat
  <2> DEFINE y == Taken(s)
  <2>1. IsFiniteSet(s) /\ s # {}
    BY <1>0, <1>2, FS_EmptySet
  <2>2. y \in s /\ Cardinality(s \ {y}) = Cardinality(s) - 1
    BY <2>1, OneFewer
  <2>3. Cardinality(s \ {y}) = n
    BY <1>2, <2>2
  <2>4. Total(s \ {y}, f) \in Nat
    BY <1>2, <2>3
  <2>5. Total(s, f) = f[y] + Total(s \ {y}, f)
    BY <2>1, TotalNext
  <2> HIDE DEF y
  <2> QED
    BY <2>2, <2>4, <2>5
<1>3. \A n \in Nat : n \in T => n + 1 \in T
  BY <1>2
<1> HIDE DEF T
<1>4. Cardinality(S) \in T
  BY <1>0, <1>1, <1>3, Induction
<1> QED
  BY <1>4 DEF T

\* ... and any element may be taken first.
LEMMA TotalAny ==
    ASSUME NEW S, IsFiniteSet(S), NEW f, \A x \in S : f[x] \in Nat, NEW e \in S
    PROVE  Total(S, f) = f[e] + Total(S \ {e}, f)
<1> DEFINE Fine(s) == \A x \in s : Total(s, f) = f[x] + Total(s \ {x}, f)
           T == {n \in Nat : \A s \in SUBSET S : Cardinality(s) = n => Fine(s)}
<1>0. \A s \in SUBSET S : IsFiniteSet(s) /\ Cardinality(s) \in Nat /\ Total(s, f) \in Nat
  BY FS_Subset, FS_CardinalityType, TotalNat
<1>1. 0 \in T
  <2>1. \A s \in SUBSET S : Cardinality(s) = 0 => s = {}
    BY <1>0, FS_EmptySet
  <2> QED
    BY <2>1
<1>2. ASSUME NEW n \in Nat, n \in T, NEW s \in SUBSET S, Cardinality(s) = n + 1
      PROVE  Fine(s)
  <2> DEFINE y == Taken(s)
  <2>1. IsFiniteSet(s) /\ s # {}
    BY <1>0, <1>2, FS_EmptySet
  <2>2. y \in s /\ \A x \in s : Cardinality(s \ {x}) = n
    <3>1. y \in s /\ \A x \in s : Cardinality(s \ {x}) = Cardinality(s) - 1
      BY <2>1, OneFewer
    <3>2. Cardinality(s) - 1 = n
      BY <1>2
    <3> QED
      BY <3>1, <3>2
  <2>3. \A x \in s : Fine(s \ {x})
    BY <1>2, <2>2
  <2>4. Total(s, f) = f[y] + Total(s \ {y}, f)
    BY <2>1, TotalNext
  <2> HIDE DEF y
  <2>5. ASSUME NEW x \in s PROVE Total(s, f) = f[x] + Total(s \ {x}, f)
    <3>1. CASE x = y
      BY <2>4, <3>1
    <3>2. CASE x # y
      <4> DEFINE t == (s \ {x}) \ {y}
      <4>1. /\ x \in s \ {y} /\ (s \ {y}) \ {x} = t
            /\ y \in s \ {x} /\ (s \ {x}) \ {y} = t
        BY <2>2, <3>2
      <4>2. Total(s \ {y}, f) = f[x] + Total(t, f)
        BY <2>2, <2>3, <4>1
      <4>3. Total(s \ {x}, f) = f[y] + Total(t, f)
        BY <2>3, <4>1
      <4>4. Total(t, f) \in Nat /\ f[x] \in Nat /\ f[y] \in Nat
        BY <1>0, <2>2
      <4> HIDE DEF t
      <4> QED
        BY <2>4, <4>2, <4>3, <4>4
    <3> QED
      BY <3>1, <3>2
  <2> QED
    BY <2>5
<1>3. ASSUME NEW n \in Nat, n \in T PROVE n + 1 \in T
  <2>1. \A s \in SUBSET S : Cardinality(s) = n + 1 => Fine(s)
    BY <1>2, <1>3
  <2> HIDE DEF Fine
  <2> QED
    BY <2>1
<1> HIDE DEF T
<1>4. Cardinality(S) \in T
  BY <1>0, <1>1, <1>3, Induction
<1> QED
  BY <1>4 DEF T

\* A larger set of larger numbers has the larger sum.
LEMMA TotalGrows ==
    ASSUME NEW S, NEW R, IsFiniteSet(R), S \subseteq R, NEW f, NEW g,
           \A x \in S : f[x] \in Nat /\ f[x] <= g[x], \A x \in R : g[x] \in Nat
    PROVE  Total(S, f) <= Total(R, g)
<1> DEFINE T == {n \in Nat : \A r \in SUBSET R : Cardinality(r) = n =>
                               Total(S \cap r, f) <= Total(r, g)}
<1>0. \A r \in SUBSET R : /\ IsFiniteSet(r) /\ Cardinality(r) \in Nat
                          /\ IsFiniteSet(S \cap r)
                          /\ Total(r, g) \in Nat /\ Total(S \cap r, f) \in Nat
  <2> SUFFICES ASSUME NEW r \in SUBSET R
               PROVE  /\ IsFiniteSet(r) /\ Cardinality(r) \in Nat
                      /\ IsFiniteSet(S \cap r)
                      /\ Total(r, g) \in Nat /\ Total(S \cap r, f) \in Nat
    OBVIOUS
  <2>1. IsFiniteSet(r) /\ IsFiniteSet(S \cap r)
    BY FS_Subset
  <2>2. Total(r, g) \in Nat
    BY <2>1, TotalNat
  <2>3. Total(S \cap r, f) \in Nat
    BY <2>1, TotalNat
  <2> QED
    BY <2>1, <2>2, <2>3, FS_CardinalityType
<1>1. 0 \in T
  <2>1. \A r \in SUBSET R : Cardinality(r) = 0 => r = {}
    BY <1>0, FS_EmptySet
  <2>2. Total(S \cap {}, f) = 0 /\ Total({}, g) = 0
    <3>1. S \cap {} = {}
      OBVIOUS
    <3> QED
      BY <3>1, TotalNext, FS_EmptySet
  <2> QED
    BY <2>1, <2>2
<1>2. ASSUME NEW n \in Nat, n \in T, NEW r \in SUBSET R, Cardinality(r) = n + 1
      PROVE  Total(S \cap r, f) <= Total(r, g)
  <2>1. IsFiniteSet(r) /\ r # {}
    <3>1. IsFiniteSet(r)
      BY <1>0
    <3>2. Cardinality(r) # 0
      BY <1>2
    <3> QED
      BY <3>1, <3>2, FS_EmptySet
  <2>2. PICK x \in r : TRUE
    BY <2>1
  <2> DEFINE t == r \ {x}
  <2>3. t \in SUBSET R /\ Cardinality(t) = n
    <3>1. Cardinality(t) = Cardinality(r) - 1
      BY <2>1, <2>2, OneFewer
    <3> QED
      BY <1>2, <3>1
  <2>4. Total(S \cap t, f) <= Total(t, g)
    BY <1>2, <2>3
  <2>5. Total(r, g) = g[x] + Total(t, g)
    BY <2>1, <2>2, TotalAny
  <2>6. /\ Total(t, g) \in Nat /\ Total(S \cap t, f) \in Nat /\ g[x] \in Nat
    BY <1>0, <2>2, <2>3
  <2>7. CASE x \in S
    <3>1. x \in S \cap r /\ (S \cap r) \ {x} = S \cap t /\ IsFiniteSet(S \cap r)
      BY <1>0, <2>2, <2>7
    <3>2. Total(S \cap r, f) = f[x] + Total((S \cap r) \ {x}, f)
      BY <3>1, TotalAny
    <3>3. f[x] \in Nat /\ f[x] <= g[x]
      BY <2>7
    <3> HIDE DEF t
    <3> QED
      BY SMTT(20), <2>4, <2>5, <2>6, <3>1, <3>2, <3>3
  <2>8. CASE x \notin S
    <3>1. S \cap r = S \cap t
      BY <2>8
    <3>2. Total(S \cap r, f) = Total(S \cap t, f)
      BY <3>1
    <3>3. Total(t, g) <= g[x] + Total(t, g)
      BY <2>6
    <3> HIDE DEF t
    <3>4. Total(S \cap t, f) <= g[x] + Total(t, g)
      BY <2>4, <2>6, <3>3
    <3> QED
      BY <2>5, <3>2, <3>4
  <2> QED
    BY <2>7, <2>8
<1>3. \A n \in Nat : n \in T => n + 1 \in T
  BY <1>2
<1> HIDE DEF T
<1>4. Cardinality(R) \in T
  BY <1>0, <1>1, <1>3, Induction
<1>5. S \cap R = S
  OBVIOUS
<1> QED
  BY <1>4, <1>5 DEF T

\* One more element.
LEMMA TotalAdd ==
    ASSUME NEW S, IsFiniteSet(S), NEW e, e \notin S, NEW f, NEW g, f[e] \in Nat,
           \A x \in S : g[x] \in Nat /\ f[x] = g[x]
    PROVE  Total(S \cup {e}, f) = f[e] + Total(S, g)
<1> DEFINE R == S \cup {e}
<1>1. IsFiniteSet(R)
  BY FS_AddElement
<1>2. e \in R /\ R \ {e} = S /\ \A x \in R : f[x] \in Nat
  OBVIOUS
<1> HIDE DEF R
<1>3. Total(R, f) = f[e] + Total(R \ {e}, f)
  BY <1>1, <1>2, TotalAny
<1>4. \A x \in S : f[x] \in Nat /\ f[x] <= g[x] /\ g[x] \in Nat /\ g[x] <= f[x]
  OBVIOUS
<1>5. Total(S, f) <= Total(S, g) /\ Total(S, g) <= Total(S, f)
  BY <1>4, TotalGrows
<1>6. Total(S, f) \in Nat /\ Total(S, g) \in Nat
  BY <1>4, TotalNat
<1>7. Total(S, f) = Total(S, g)
  BY <1>5, <1>6
<1> QED
  BY <1>2, <1>3, <1>7 DEF R

-----------------------------------------------------------------------------
(* What is counted                                                         *)

\* The low end of partition p as r found it.
Was(r, p) == IF p \in DOMAIN found[r].starts THEN found[r].starts[p] ELSE 0

\* As long as the topic r found is there, it has every partition r found or looked
\* at; the ends r read lie between what it found and what is there now; and a view
\* that is done has read every partition it found.
SeenInv(r) ==
    LET n == op[r].name
        ends == found[r].ends
        seen == DOMAIN marks[r]
    IN
    /\ DOMAIN found[r].starts = DOMAIN ends
    /\ \A p \in DOMAIN ends : found[r].starts[p] \in Nat
    /\ pc[r] \in {"form", "start", "list"} => marks[r] = << >> /\ todo[r] = {}
    /\ todo[r] \cap seen = {}
    /\ pc[r] \notin {"form", "start"} /\ SameTopic(r) =>
         /\ DOMAIN ends \subseteq PartsOf(n)
         /\ \A p \in DOMAIN ends : ends[p] <= high[n][p] /\ found[r].starts[p] <= low[n][p]
         /\ todo[r] \cup seen \subseteq PartsOf(n)
         /\ \A p \in seen : marks[r][p] <= high[n][p]
         /\ \A p \in seen \cap DOMAIN ends : ends[p] <= marks[r][p]
         /\ pc[r] = "marks" => DOMAIN ends \subseteq todo[r] \cup seen
         /\ pc[r] = "describe" \/ (answer[r] = "ok" /\ IsView(r)) => DOMAIN ends \subseteq seen

\* What r counted is the sum over the partitions it read; of each, as long as it is
\* the topic r found, at least what it can remove and at most what was ever there.
Covers(r, c) ==
    LET n == op[r].name IN
    /\ counted[r] = Total(DOMAIN marks[r], c)
    /\ removed[r] <= IF op[r].kind = "purge" THEN Total(done[r], c) ELSE 0
    /\ SameTopic(r) => \A p \in DOMAIN marks[r] :
         /\ marks[r][p] - low[n][p] <= c[p]
         /\ c[p] <= marks[r][p] - Was(r, p)

SumInv(r) == \E c \in [PartIds -> Nat] : Covers(r, c)

CountInv == \A r \in Requests : SeenInv(r) /\ SumInv(r)

\* The topic r found, if it is there after a step, was there before.
LEMMA SameGoesOn ==
    ASSUME AInv, TopicTypes', TopicsGoOn, NEW r \in Requests,
           op'[r] = op[r], found'[r] = found[r], SameTopic(r)'
    PROVE  LET n == op[r].name IN
           /\ SameTopic(r)
           /\ PartsOf(n) \subseteq PartsOf(n)' /\ PartsOf(n) \subseteq PartIds
           /\ \A p \in PartIds : /\ low[n][p] <= low'[n][p] /\ high[n][p] <= high'[n][p]
                                 /\ low[n][p] \in Nat /\ high[n][p] \in Nat
                                 /\ low'[n][p] \in Nat /\ high'[n][p] \in Nat
<1> DEFINE n == op[r].name
<1>1. TopicTypes /\ ThreadTypes /\ ThreadInv
  BY TypesSplit DEF AInv
<1>2. n \in Names
  BY <1>1, OpFacts
<1>3. gen'[n] # 0 /\ gen'[n] = found[r].gen
  BY DEF SameTopic, Exists
<1>4. found[r].gen \in Nat /\ found[r].gen <= gens /\ gens \in Nat
  BY <1>1, Bounds DEF ThreadInv, TopicTypes
<1> HIDE DEF n
<1>5. /\ gen'[n] = gen[n] /\ parts[n] <= parts'[n]
      /\ \A p \in PartIds : low[n][p] <= low'[n][p] /\ high[n][p] <= high'[n][p]
  BY <1>2, <1>3, <1>4 DEF TopicsGoOn
<1>6. SameTopic(r)
  BY <1>3, <1>5 DEF SameTopic, Exists, n
<1>7. /\ parts[n] \in Nat /\ PartsOf(n) \subseteq PartIds
      /\ \A p \in PartIds : low[n][p] \in Nat /\ high[n][p] \in Nat
  BY <1>1, <1>2, TopicFacts
<1>8. /\ parts'[n] \in Nat
      /\ \A p \in PartIds : low'[n][p] \in Nat /\ high'[n][p] \in Nat
  <2>1. /\ parts'[n] \in 1 .. MaxParts
        /\ \A p \in PartIds : low'[n][p] \in 0 .. MaxHigh /\ high'[n][p] \in 0 .. MaxHigh
    BY <1>2 DEF TopicTypes
  <2> QED
    BY <2>1, Bounds
<1>9. PartsOf(n) \subseteq PartsOf(n)'
  BY <1>5, <1>7, <1>8 DEF PartsOf, n
<1> QED
  BY <1>5, <1>6, <1>7, <1>8, <1>9 DEF n

\* What r saw stays true while it, and the others, do anything but look.
LEMMA SeenGoesOn ==
    ASSUME AInv, TopicTypes', TopicsGoOn, NEW r \in Requests, SeenInv(r),
           op'[r] = op[r], todo'[r] = todo[r], marks'[r] = marks[r], found'[r] = found[r],
           \/ pc'[r] = pc[r] /\ answer'[r] = answer[r]
           \/ /\ pc[r] \notin {"form", "start"} /\ pc'[r] \in {"submit", "result", "answered"}
              /\ answer'[r] = "ok" /\ IsView(r) => pc[r] = "describe"
    PROVE  SeenInv(r)'
<1> DEFINE n == op[r].name
           ends == found[r].ends
           starts == found[r].starts
           seen == DOMAIN marks[r]
<1>1. ThreadTypes /\ ThreadInv
  BY TypesSplit DEF AInv
<1>2. /\ DOMAIN starts = DOMAIN ends /\ \A p \in DOMAIN ends : starts[p] \in Nat
      /\ todo[r] \cap seen = {}
      /\ pc[r] \in {"form", "start", "list"} => marks[r] = << >> /\ todo[r] = {}
  BY DEF SeenInv
<1>3. ASSUME pc'[r] \notin {"form", "start"}, SameTopic(r)'
      PROVE  /\ DOMAIN ends \subseteq PartsOf(n)'
             /\ \A p \in DOMAIN ends : ends[p] <= high'[n][p] /\ starts[p] <= low'[n][p]
             /\ todo[r] \cup seen \subseteq PartsOf(n)'
             /\ \A p \in seen : marks[r][p] <= high'[n][p]
             /\ \A p \in seen \cap DOMAIN ends : ends[p] <= marks[r][p]
             /\ pc[r] = "marks" => DOMAIN ends \subseteq todo[r] \cup seen
             /\ pc[r] = "describe" \/ (answer[r] = "ok" /\ IsView(r)) => DOMAIN ends \subseteq seen
  <2>1. /\ SameTopic(r)
        /\ PartsOf(n) \subseteq PartsOf(n)' /\ PartsOf(n) \subseteq PartIds
        /\ \A p \in PartIds : /\ low[n][p] <= low'[n][p] /\ high[n][p] <= high'[n][p]
                              /\ low[n][p] \in Nat /\ high[n][p] \in Nat
                              /\ low'[n][p] \in Nat /\ high'[n][p] \in Nat
    BY <1>3, SameGoesOn
  <2>2. /\ DOMAIN ends \subseteq PartsOf(n)
        /\ \A p \in DOMAIN ends : ends[p] <= high[n][p] /\ starts[p] <= low[n][p]
        /\ todo[r] \cup seen \subseteq PartsOf(n)
        /\ \A p \in seen : marks[r][p] <= high[n][p]
        /\ \A p \in seen \cap DOMAIN ends : ends[p] <= marks[r][p]
        /\ pc[r] = "marks" => DOMAIN ends \subseteq todo[r] \cup seen
        /\ pc[r] = "describe" \/ (answer[r] = "ok" /\ IsView(r)) => DOMAIN ends \subseteq seen
    BY <1>3, <2>1 DEF SeenInv
  <2>3. ASSUME NEW p \in DOMAIN ends PROVE ends[p] <= high'[n][p] /\ starts[p] <= low'[n][p]
    <3>1. p \in PartIds /\ ends[p] \in Nat /\ starts[p] \in Nat
      BY <1>1, <1>2, <2>1, <2>2, <2>3 DEF ThreadInv
    <3>2. ends[p] <= high[n][p] /\ starts[p] <= low[n][p]
      BY <2>2, <2>3
    <3> HIDE DEF ends, starts, n
    <3> QED
      BY <2>1, <3>1, <3>2
  <2>4. ASSUME NEW p \in seen PROVE marks[r][p] <= high'[n][p]
    <3>1. p \in PartIds /\ marks[r][p] \in Nat
      BY <1>1, <2>4, Bounds DEF ThreadTypes
    <3>2. marks[r][p] <= high[n][p]
      BY <2>2, <2>4
    <3> HIDE DEF n
    <3> QED
      BY <2>1, <3>1, <3>2
  <2> QED
    BY <2>1, <2>2, <2>3, <2>4
<1>4. IsView(r)' <=> IsView(r)
  BY DEF IsView
<1>5. PartsOf(op[r].name)' = PartsOf(n)'
  OBVIOUS
<1> HIDE DEF n, ends, starts, seen
<1> QED
  BY <1>2, <1>3, <1>4, <1>5 DEF SeenInv, n, ends, starts, seen

\* Sums over what was read, or done, are numbers.
LEMMA SumFacts ==
    ASSUME ThreadTypes, NEW r \in Requests, NEW c \in [PartIds -> Nat], NEW s, s \subseteq PartIds
    PROVE  IsFiniteSet(s) /\ Total(s, c) \in Nat
<1>1. IsFiniteSet(PartIds)
  BY Bounds, FS_Interval DEF PartIds
<1>2. IsFiniteSet(s)
  BY <1>1, FS_Subset
<1>3. \A x \in s : c[x] \in Nat
  OBVIOUS
<1> QED
  BY <1>2, <1>3, TotalNat

\* What the marks of r say stays true of the topic.
LEMMA MarksGoOn ==
    ASSUME AInv, AInv', TopicsGoOn, NEW r \in Requests, NEW c \in [PartIds -> Nat],
           Covers(r, c), op'[r] = op[r], found'[r] = found[r], SameTopic(r)',
           NEW p \in DOMAIN marks[r]
    PROVE  /\ marks[r][p] - low'[op[r].name][p] <= c[p]
           /\ c[p] <= marks[r][p] - Was(r, p)'
<1> DEFINE n == op[r].name
<1>1. /\ TopicTypes /\ ThreadTypes /\ ThreadInv /\ TopicTypes'
  BY TypesSplit, TypesSplitNext DEF AInv
<1>2. p \in PartIds /\ marks[r][p] \in Nat /\ c[p] \in Nat
  BY <1>1, Bounds DEF ThreadTypes
<1>3. SameTopic(r) /\ low[n][p] <= low'[n][p] /\ low[n][p] \in Nat /\ low'[n][p] \in Nat
  BY <1>1, <1>2, SameGoesOn
<1>4. marks[r][p] - low[n][p] <= c[p] /\ c[p] <= marks[r][p] - Was(r, p)
  BY <1>3 DEF Covers
<1>5. Was(r, p)' = Was(r, p)
  BY DEF Was
<1> HIDE DEF n
<1>6. marks[r][p] - low'[n][p] <= c[p]
  BY <1>2, <1>3, <1>4
<1> QED
  BY <1>4, <1>5, <1>6 DEF n

\* What was counted stays covered when r reads nothing and purges nothing.
LEMMA SumGoesOn ==
    ASSUME AInv, AInv', TopicsGoOn, NEW r \in Requests, SumInv(r),
           op'[r] = op[r], marks'[r] = marks[r], counted'[r] = counted[r],
           removed'[r] = removed[r], done[r] \subseteq done'[r],
           found'[r] = found[r] \/ marks[r] = << >>
    PROVE  SumInv(r)'
<1>1. /\ TopicTypes /\ ThreadTypes /\ ThreadInv /\ TopicTypes' /\ ThreadTypes'
  BY TypesSplit, TypesSplitNext DEF AInv
<1>2. PICK c \in [PartIds -> Nat] : Covers(r, c)
  BY DEF SumInv
<1> DEFINE n == op[r].name
<1>3. counted'[r] = Total(DOMAIN marks'[r], c)
  BY <1>2 DEF Covers
<1>4. removed'[r] <= IF op'[r].kind = "purge" THEN Total(done'[r], c) ELSE 0
  <2>1. done[r] \subseteq PartIds /\ done'[r] \subseteq PartIds /\ removed[r] \in Nat
    BY <1>1 DEF ThreadTypes
  <2>2. /\ Total(done[r], c) \in Nat /\ Total(done'[r], c) \in Nat
        /\ IsFiniteSet(done'[r])
    BY <1>1, <2>1, SumFacts
  <2>3. /\ \A x \in done[r] : c[x] \in Nat /\ c[x] <= c[x]
        /\ \A x \in done'[r] : c[x] \in Nat
    BY <2>1
  <2>4. Total(done[r], c) <= Total(done'[r], c)
    BY <2>2, <2>3, TotalGrows
  <2>5. removed[r] <= IF op[r].kind = "purge" THEN Total(done[r], c) ELSE 0
    BY <1>2 DEF Covers
  <2> QED
    BY <2>1, <2>2, <2>4, <2>5
<1>5. ASSUME SameTopic(r)', NEW p \in DOMAIN marks[r]
      PROVE  marks[r][p] - low'[n][p] <= c[p] /\ c[p] <= marks[r][p] - Was(r, p)'
  <2>1. found'[r] = found[r]
    BY <1>5
  <2> QED
    BY <1>2, <1>5, <2>1, MarksGoOn
<1>6. Covers(r, c)'
  BY <1>3, <1>4, <1>5 DEF Covers
<1> QED
  BY <1>6 DEF SumInv

\* When r comes in it has read nothing.
LEMMA ReceiveKeepsSeen ==
    ASSUME AInv, AInv', NEW r \in Requests, Receive(r), SeenInv(r)
    PROVE  SeenInv(r)' /\ marks[r] = << >>
<1> DEFINE n == op[r].name
           f == [gen |-> gen[n], starts |-> [p \in PartsOf(n) |-> low[n][p]],
                                 ends |-> [p \in PartsOf(n) |-> high[n][p]]]
<1>1. /\ TopicTypes /\ ThreadTypes /\ ThreadInv /\ SubmitInv(r)
  BY TypesSplit DEF AInv
<1>2. /\ pc[r] = "start"
      /\ UNCHANGED <<gen, gens, parts, conf, low, high, op, rendered, todo, marks>>
      /\ found' = [found EXCEPT ![r] = f]
  BY DEF Receive, ThreadOnly, topicVars
<1>3. pc'[r] \in {"list", "answered"} /\ (answer'[r] = "none" \/ answer'[r] # "ok")
  BY <1>1, <1>2 DEF Receive, Answer, Raise, Continue, ErrorOutcome, ThreadTypes, SubmitInv
<1>4. found'[r] = f
  BY <1>1, <1>2 DEF ThreadInv
<1>5. marks[r] = << >> /\ todo[r] = {} /\ DOMAIN marks[r] = {}
  BY <1>2 DEF SeenInv
<1>6. n \in Names
  BY <1>1, OpFacts
<1>7. PartsOf(n) \subseteq PartIds /\ \A p \in PartIds : low[n][p] \in Nat /\ high[n][p] \in Nat
  BY <1>1, <1>6, TopicFacts
<1>8. /\ DOMAIN f.starts = PartsOf(n) /\ DOMAIN f.ends = PartsOf(n)
      /\ \A p \in PartsOf(n) : f.starts[p] = low[n][p] /\ f.ends[p] = high[n][p]
  OBVIOUS
<1>9. PartsOf(op[r].name)' = PartsOf(n) /\ op'[r].name = n
  BY <1>2 DEF PartsOf
<1> HIDE DEF f, n
<1>10. pc'[r] # "marks" /\ pc'[r] # "describe" /\ answer'[r] # "ok"
  BY <1>3
<1>11. \A p \in PartsOf(n) : f.ends[p] <= high[n][p] /\ f.starts[p] <= low[n][p]
                             /\ f.starts[p] \in Nat
  BY <1>7, <1>8
<1> QED
  BY <1>2, <1>4, <1>5, <1>8, <1>9, <1>10, <1>11 DEF SeenInv

\* What is to be read is every partition there is, among them those r found.
LEMMA ListKeepsSeen ==
    ASSUME AInv, AInv', NEW r \in Requests, ListTopics(r), SeenInv(r)
    PROVE  SeenInv(r)'
<1>1. /\ TopicTypes /\ ThreadTypes /\ ThreadInv /\ SubmitInv(r)
      /\ TopicTypes' /\ TopicsGoOn
  <2>1. UNCHANGED topicVars
    BY DEF ListTopics, ThreadOnly
  <2> QED
    BY <2>1, TypesSplit, StillGoesOn DEF AInv
<1>2. /\ pc[r] = "list" /\ UNCHANGED <<gen, gens, parts, conf, low, high, op, rendered, marks, found>>
  BY DEF ListTopics, ThreadOnly, topicVars
<1>3. CASE /\ UNCHANGED todo
           /\ Answer(r, "gone", "none") \/ Raise(r) \/ Continue(r, "submit")
  <2>1. pc'[r] \in {"submit", "answered"} /\ answer'[r] # "ok"
    BY <1>1, <1>2, <1>3 DEF Answer, Raise, Continue, ErrorOutcome, ThreadTypes, SubmitInv
  <2> QED
    BY <1>1, <1>2, <1>3, <2>1, SeenGoesOn
<1>4. CASE Continue(r, "marks") /\ todo' = [todo EXCEPT ![r] = PartsOf(op[r].name)]
  <2>1. pc'[r] = "marks" /\ todo'[r] = PartsOf(op[r].name) /\ answer'[r] # "ok"
    BY <1>1, <1>2, <1>4 DEF Continue, ThreadTypes, SubmitInv
  <2>2. marks[r] = << >> /\ DOMAIN marks[r] = {}
    BY <1>2 DEF SeenInv
  <2>3. SameTopic(r)' => SameTopic(r)
    BY <1>2 DEF SameTopic, Exists
  <2>4. PartsOf(op[r].name)' = PartsOf(op[r].name)
    BY <1>2 DEF PartsOf
  <2> QED
    BY <1>2, <2>1, <2>2, <2>3, <2>4 DEF SeenInv
<1> QED
  BY <1>3, <1>4 DEF ListTopics

\* One partition more is read: it counts what is there.
LEMMA ReadKeepsCount ==
    ASSUME AInv, AInv', NEW r \in Requests, ReadMark(r), SeenInv(r), SumInv(r)
    PROVE  SeenInv(r)' /\ SumInv(r)'
<1> DEFINE n == op[r].name
           m(p) == [q \in DOMAIN marks[r] \cup {p} |-> IF q = p THEN high[n][p] ELSE marks[r][q]]
<1>1. /\ TopicTypes /\ ThreadTypes /\ TopicInv /\ ThreadInv /\ SubmitInv(r)
      /\ TopicTypes' /\ TopicsGoOn
  <2>1. UNCHANGED topicVars
    BY DEF ReadMark, ThreadOnly
  <2> QED
    BY <2>1, TypesSplit, StillGoesOn DEF AInv
<1>2. /\ pc[r] = "marks"
      /\ UNCHANGED <<gen, gens, parts, conf, low, high, op, rendered, removed, done, found>>
  BY DEF ReadMark, ThreadOnly, topicVars, brokerVars
<1>3. CASE Raise(r) /\ UNCHANGED <<marks, counted, todo>>
  <2>1. pc'[r] = "answered" /\ answer'[r] = "error"
    BY <1>1, <1>3, RaiseMoves DEF Moved
  <2>2. SeenInv(r)'
    BY <1>1, <1>2, <1>3, <2>1, SeenGoesOn
  <2>3. SumInv(r)'
    BY <1>1, <1>2, <1>3, SumGoesOn
  <2> QED
    BY <2>2, <2>3
<1>4. ASSUME NEW p \in todo[r], Exists(n), p \in PartsOf(n),
             marks' = [marks EXCEPT ![r] = m(p)],
             counted' = [counted EXCEPT ![r] = @ + Count(n, p)],
             todo' = [todo EXCEPT ![r] = @ \ {p}],
             IF todo'[r] # {} THEN Continue(r, "marks") ELSE MarksRead(r)
      PROVE  SeenInv(r)' /\ SumInv(r)'
  <2> DEFINE seen == DOMAIN marks[r]
             ends == found[r].ends
             starts == found[r].starts
  <2>1. n \in Names /\ p \in PartIds /\ seen \subseteq PartIds
    BY <1>1, <1>4, OpFacts DEF ThreadTypes
  <2>2. /\ low[n][p] \in Nat /\ high[n][p] \in Nat /\ low[n][p] <= high[n][p]
        /\ PartsOf(n) \subseteq PartIds
    BY <1>1, <2>1, TopicFacts DEF TopicInv
  <2>3. Count(n, p) = high[n][p] - low[n][p] /\ Count(n, p) \in Nat
    BY <2>2 DEF Count
  <2>4. marks'[r] = m(p) /\ todo'[r] = todo[r] \ {p} /\ counted'[r] = counted[r] + Count(n, p)
    BY <1>1, <1>4 DEF ThreadInv, ThreadTypes
  <2>5. /\ DOMAIN m(p) = seen \cup {p} /\ m(p)[p] = high[n][p]
        /\ \A q \in seen \ {p} : m(p)[q] = marks[r][q]
    OBVIOUS
  <2>6. /\ p \notin seen /\ (todo[r] \ {p}) \cap (seen \cup {p}) = {}
        /\ DOMAIN starts = DOMAIN ends /\ \A q \in DOMAIN ends : starts[q] \in Nat
    BY <1>4 DEF SeenInv
  <2>7. \A q \in seen : q # p /\ m(p)[q] = marks[r][q]
    BY <2>5, <2>6
  <2>8. (SameTopic(r)' <=> SameTopic(r)) /\ PartsOf(op[r].name)' = PartsOf(n)
    BY <1>2 DEF SameTopic, Exists, PartsOf
  <2>9. pc'[r] \in {"marks", "submit", "describe", "answered"}
        /\ (pc'[r] # "marks" => todo'[r] = {})
        /\ (pc'[r] = "marks" => answer'[r] # "ok")
    <3>1. op[r].kind \in {"purge", "page", "count"} /\ answer[r] = "none"
      BY <1>1, <1>2 DEF SubmitInv, IsView
    <3> QED
      BY ZenonT(40), <1>1, <1>4, <3>1 DEF MarksRead, Continue, Answer, ThreadTypes
  <2> HIDE DEF m
  <2>10. SeenInv(r)'
    <3>1. ASSUME SameTopic(r)
          PROVE  /\ DOMAIN ends \subseteq PartsOf(n)
                 /\ \A q \in DOMAIN ends : ends[q] <= high[n][q] /\ starts[q] <= low[n][q]
                 /\ (todo[r] \ {p}) \cup (seen \cup {p}) \subseteq PartsOf(n)
                 /\ \A q \in seen \cup {p} : m(p)[q] <= high[n][q]
                 /\ \A q \in (seen \cup {p}) \cap DOMAIN ends : ends[q] <= m(p)[q]
                 /\ DOMAIN ends \subseteq (todo[r] \ {p}) \cup (seen \cup {p})
      <4>1. /\ DOMAIN ends \subseteq PartsOf(n)
            /\ \A q \in DOMAIN ends : ends[q] <= high[n][q] /\ starts[q] <= low[n][q]
            /\ todo[r] \cup seen \subseteq PartsOf(n)
            /\ \A q \in seen : marks[r][q] <= high[n][q]
            /\ \A q \in seen \cap DOMAIN ends : ends[q] <= marks[r][q]
            /\ DOMAIN ends \subseteq todo[r] \cup seen
        BY <1>2, <3>1 DEF SeenInv
      <4>2. \A q \in seen \cup {p} : m(p)[q] <= high[n][q]
        BY <2>2, <2>5, <2>7, <4>1
      <4>3. \A q \in (seen \cup {p}) \cap DOMAIN ends : ends[q] <= m(p)[q]
        BY <2>5, <2>7, <4>1
      <4> QED
        BY <1>4, <4>1, <4>2, <4>3
    <3> HIDE DEF n, seen, ends, starts
    <3>2. pc'[r] # "marks" \/ answer'[r] = "ok" => todo[r] \ {p} = {} /\ pc'[r] # "marks"
      BY <2>4, <2>9
    <3> QED
      BY <1>2, <2>4, <2>5, <2>6, <2>8, <2>9, <3>1, <3>2 DEF SeenInv, n, seen, ends, starts
  <2>11. SumInv(r)'
    <3>1. PICK c \in [PartIds -> Nat] : Covers(r, c)
      BY DEF SumInv
    <3>2. PICK d \in [PartIds -> Nat] : d[p] = Count(n, p) /\ \A q \in PartIds \ {p} : d[q] = c[q]
      <4>1. [c EXCEPT ![p] = Count(n, p)] \in [PartIds -> Nat]
        BY <2>3
      <4> QED
        BY <2>1, <4>1
    <3>3. counted'[r] = Total(DOMAIN marks'[r], d)
      <4>1. IsFiniteSet(seen)
        BY <1>1, <2>1, SumFacts
      <4>2. d[p] \in Nat /\ \A x \in seen : c[x] \in Nat /\ d[x] = c[x]
        BY <2>1, <2>6, <3>2
      <4>3. Total(seen \cup {p}, d) = d[p] + Total(seen, c)
        BY <2>6, <4>1, <4>2, TotalAdd
      <4>4. counted[r] = Total(seen, c) /\ counted[r] \in Nat
        BY <1>1, <3>1 DEF Covers, ThreadTypes
      <4>5. DOMAIN marks'[r] = seen \cup {p}
        BY <2>4, <2>5
      <4> HIDE DEF seen, n
      <4> QED
        BY <2>3, <2>4, <3>2, <4>3, <4>4, <4>5
    <3>4. done[r] = {} /\ done'[r] = {}
      BY <1>1, <1>2 DEF SubmitInv
    <3>5. removed'[r] <= IF op'[r].kind = "purge" THEN Total(done'[r], d) ELSE 0
      <4>1. Total({}, c) = 0 /\ Total({}, d) = 0
        BY TotalNext, FS_EmptySet
      <4>2. removed[r] <= IF op[r].kind = "purge" THEN Total(done[r], c) ELSE 0
        BY <3>1 DEF Covers
      <4> QED
        BY <1>2, <3>4, <4>1, <4>2
    <3>6. ASSUME SameTopic(r), NEW q \in seen \cup {p}
          PROVE  m(p)[q] - low[n][q] <= d[q] /\ d[q] <= m(p)[q] - Was(r, q)
      <4>1. CASE q \in seen
        <5>1. q # p /\ q \in PartIds /\ m(p)[q] = marks[r][q]
          BY <2>1, <2>7, <4>1
        <5>2. marks[r][q] - low[n][q] <= c[q] /\ c[q] <= marks[r][q] - Was(r, q)
          BY <3>1, <3>6, <4>1 DEF Covers
        <5>3. d[q] = c[q]
          BY <3>2, <5>1
        <5> QED
          BY <5>1, <5>2, <5>3
      <4>2. CASE q = p
        <5>1. Was(r, p) \in Nat /\ Was(r, p) <= low[n][p]
          <6>1. CASE p \in DOMAIN starts
            <7>1. starts[p] \in Nat /\ starts[p] <= low[n][p]
              BY <1>2, <2>6, <3>6, <6>1 DEF SeenInv
            <7> QED
              BY <6>1, <7>1 DEF Was
          <6>2. CASE p \notin DOMAIN starts
            BY <2>2, <6>2 DEF Was
          <6> QED
            BY <6>1, <6>2
        <5>2. m(p)[q] = high[n][p] /\ d[q] = high[n][p] - low[n][p] /\ q = p
          BY <2>3, <2>5, <3>2, <4>2
        <5> HIDE DEF n
        <5> QED
          BY <2>2, <5>1, <5>2
      <4> QED
        BY <4>1, <4>2
    <3>7. \A q \in PartIds : Was(r, q)' = Was(r, q)
      BY <1>2 DEF Was
    <3>8. \A q \in DOMAIN marks'[r] : q \in seen \cup {p} /\ q \in PartIds
      BY <2>1, <2>4, <2>5
    <3>9. ASSUME SameTopic(r)', NEW q \in DOMAIN marks'[r]
          PROVE  marks'[r][q] - low'[n][q] <= d[q] /\ d[q] <= marks'[r][q] - Was(r, q)'
      BY <1>2, <2>4, <2>8, <3>6, <3>7, <3>8, <3>9
    <3>10. op'[r].name = n
      BY <1>2
    <3> HIDE DEF n, seen, ends, starts
    <3>11. Covers(r, d)'
      BY <3>3, <3>5, <3>9, <3>10 DEF Covers
    <3> QED
      BY <3>11 DEF SumInv
  <2> QED
    BY <2>10, <2>11
<1>5. \/ Raise(r) /\ UNCHANGED <<marks, counted, todo>>
      \/ \E p \in todo[r] :
           /\ Exists(n) /\ p \in PartsOf(n)
           /\ marks' = [marks EXCEPT ![r] = m(p)]
           /\ counted' = [counted EXCEPT ![r] = @ + Count(n, p)]
           /\ todo' = [todo EXCEPT ![r] = @ \ {p}]
           /\ IF todo'[r] # {} THEN Continue(r, "marks") ELSE MarksRead(r)
  <2>1. PICK p \in todo[r] :
         IF Exists(n) /\ p \in PartsOf(n)
           THEN /\ marks' = [marks EXCEPT ![r] =
                     [q \in DOMAIN @ \cup {p} |-> IF q = p THEN PurgeTo(n, p) ELSE @[q]]]
                /\ counted' = [counted EXCEPT ![r] = @ + Count(n, p)]
                /\ todo' = [todo EXCEPT ![r] = @ \ {p}]
                /\ IF todo'[r] # {} THEN Continue(r, "marks") ELSE MarksRead(r)
           ELSE Raise(r) /\ UNCHANGED <<marks, counted, todo>>
    BY DEF ReadMark
  <2>2. PurgeTo(n, p) = high[n][p]
    BY DEF PurgeTo
  <2>3. marks' = [marks EXCEPT ![r] = [q \in DOMAIN @ \cup {p} |->
                     IF q = p THEN high[n][p] ELSE @[q]]]
        => marks' = [marks EXCEPT ![r] = m(p)]
    BY <1>1 DEF ThreadInv
  <2> HIDE DEF m, n
  <2> QED
    BY <2>1, <2>2, <2>3
<1> QED
  BY <1>3, <1>4, <1>5

\* Nothing of r changes but where it is.
LEMMA QuietKeepsCount ==
    ASSUME AInv, AInv', TopicsGoOn, NEW r \in Requests, SeenInv(r), SumInv(r),
           op'[r] = op[r], todo'[r] = todo[r], marks'[r] = marks[r], found'[r] = found[r],
           counted'[r] = counted[r], removed'[r] = removed[r], done[r] \subseteq done'[r],
           \/ pc'[r] = pc[r] /\ answer'[r] = answer[r]
           \/ /\ pc[r] \notin {"form", "start"} /\ pc'[r] \in {"submit", "result", "answered"}
              /\ answer'[r] = "ok" /\ IsView(r) => pc[r] = "describe"
    PROVE  SeenInv(r)' /\ SumInv(r)'
<1>1. TopicTypes'
  BY TypesSplitNext DEF AInv
<1>2. SeenInv(r)'
  BY <1>1, SeenGoesOn
<1>3. SumInv(r)'
  BY SumGoesOn
<1> QED
  BY <1>2, <1>3

\* A partition is purged: what it loses was counted.
LEMMA PurgeKeepsSum ==
    ASSUME AInv, AInv', TopicsGoOn, NEW r \in Requests, SumInv(r), NEW x \in inflight[r],
           Possible(r, x), BrokerPurges(r, x), done' = [done EXCEPT ![r] = @ \cup {x}],
           UNCHANGED threadVars
    PROVE  SumInv(r)'
<1> DEFINE n == op[r].name
<1>1. /\ TopicTypes /\ ThreadTypes /\ ThreadInv /\ SubmitInv(r)
  BY TypesSplit DEF AInv
<1>2. /\ op[r].kind = "purge" /\ Exists(n)
      /\ low' = [low EXCEPT ![n][x] = IF marks[r][x] > @ THEN marks[r][x] ELSE @]
      /\ removed' = [removed EXCEPT ![r] =
           IF gen[n] = found[r].gen THEN @ + low'[n][x] - low[n][x] ELSE @]
      /\ UNCHANGED <<op, marks, counted, found>>
  BY DEF BrokerPurges, Possible, threadVars
<1>3. x \in DOMAIN marks[r] /\ x \notin done[r] /\ x \in PartIds /\ done[r] \subseteq PartIds
  BY <1>1, <1>2 DEF SubmitInv, Items, ThreadTypes
<1>4. PICK c \in [PartIds -> Nat] : Covers(r, c)
  BY DEF SumInv
<1>5. done'[r] = done[r] \cup {x}
  BY <1>1 DEF ThreadTypes
<1>6. Total(done'[r], c) = c[x] + Total(done[r], c) /\ Total(done[r], c) \in Nat /\ c[x] \in Nat
  <2>1. IsFiniteSet(done[r]) /\ Total(done[r], c) \in Nat
    BY <1>1, <1>3, SumFacts
  <2>2. c[x] \in Nat /\ \A y \in done[r] : c[y] \in Nat /\ c[y] = c[y]
    BY <1>3
  <2> QED
    BY <1>3, <1>5, <2>1, <2>2, TotalAdd
<1>7. removed[r] <= Total(done[r], c) /\ removed[r] \in Nat
  BY <1>1, <1>2, <1>4 DEF Covers, ThreadTypes
<1>8. removed'[r] <= c[x] + Total(done[r], c)
  <2>1. n \in Names
    BY <1>1, OpFacts
  <2>2. low[n][x] \in Nat /\ marks[r][x] \in Nat
    BY <1>1, <1>3, <2>1, TopicFacts, Bounds DEF ThreadTypes
  <2>3. low'[n][x] = IF marks[r][x] > low[n][x] THEN marks[r][x] ELSE low[n][x]
    BY <1>1, <1>2, <1>3, <2>1 DEF TopicTypes
  <2>4. removed'[r] = IF gen[n] = found[r].gen THEN removed[r] + low'[n][x] - low[n][x]
                      ELSE removed[r]
    BY <1>1, <1>2 DEF ThreadTypes
  <2>5. gen[n] = found[r].gen => marks[r][x] - low[n][x] <= c[x]
    BY <1>2, <1>3, <1>4 DEF Covers, SameTopic
  <2> HIDE DEF n
  <2>6. CASE gen[n] = found[r].gen
    BY <1>6, <1>7, <2>2, <2>3, <2>4, <2>5, <2>6
  <2>7. CASE gen[n] # found[r].gen
    BY <1>6, <1>7, <2>4, <2>7
  <2> QED
    BY <2>6, <2>7
<1>9. ASSUME SameTopic(r)', NEW p \in DOMAIN marks[r]
      PROVE  marks[r][p] - low'[n][p] <= c[p] /\ c[p] <= marks[r][p] - Was(r, p)'
  BY <1>2, <1>4, <1>9, MarksGoOn
<1>10. Covers(r, c)'
  <2>1. counted[r] = Total(DOMAIN marks[r], c)
    BY <1>4 DEF Covers
  <2>2. removed'[r] <= Total(done'[r], c)
    BY <1>6, <1>8
  <2> QED
    BY <1>2, <1>9, <2>1, <2>2 DEF Covers
<1> QED
  BY <1>10 DEF SumInv

LEMMA BrokerKeepsCount ==
    ASSUME AInv, AInv', NEW r \in Requests, Broker(r), CountInv
    PROVE  CountInv'
<1>1. ThreadTypes /\ TopicTypes
  BY TypesSplit DEF AInv
<1>2. PICK x \in inflight[r] : BrokerApplies(r, x) \/ BrokerRefuses(r, x)
  BY DEF Broker
<1>3. /\ UNCHANGED threadVars
      /\ UNCHANGED <<op, rendered, pc, todo, marks, counted, answer, found>>
  BY DEF Broker, threadVars
<1>4. TopicsGoOn
  <2>1. CASE BrokerApplies(r, x)
    BY <2>1, ApplyGoesOn
  <2>2. CASE BrokerRefuses(r, x)
    BY <2>2, StillGoesOn DEF BrokerRefuses
  <2> QED
    BY <1>2, <2>1, <2>2
<1>5. /\ \A q \in Requests : done[q] \subseteq done'[q]
      /\ \A q \in Requests \ {r} : removed'[q] = removed[q]
      /\ removed'[r] = removed[r] \/ (BrokerApplies(r, x) /\ BrokerPurges(r, x))
  <2>1. CASE BrokerApplies(r, x)
    <3>1. \A q \in Requests : done[q] \subseteq done'[q]
      BY <1>1, <2>1 DEF BrokerApplies, ThreadTypes
    <3>2. UNCHANGED removed \/ BrokerPurges(r, x)
      BY <2>1 DEF BrokerApplies, BrokerCreates, Create, BrokerDeletes, Delete, BrokerGrows,
                  BrokerConfigures
    <3>3. BrokerPurges(r, x) => \A q \in Requests \ {r} : removed'[q] = removed[q]
      BY <1>1 DEF BrokerPurges, ThreadTypes
    <3> QED
      BY <2>1, <3>1, <3>2, <3>3
  <2>2. CASE BrokerRefuses(r, x)
    BY <2>2 DEF BrokerRefuses
  <2> QED
    BY <1>2, <2>1, <2>2
<1>6. ASSUME NEW q \in Requests PROVE SeenInv(q)' /\ SumInv(q)'
  <2>1. SeenInv(q) /\ SumInv(q)
    BY DEF CountInv
  <2>2. CASE removed'[q] = removed[q]
    BY <1>3, <1>4, <1>5, <2>1, <2>2, QuietKeepsCount
  <2>3. CASE q = r /\ BrokerApplies(r, x) /\ BrokerPurges(r, x)
    <3>1. SeenInv(r)'
      <4>1. TopicTypes'
        BY TypesSplitNext DEF AInv
      <4> QED
        BY <1>3, <1>4, <2>1, <2>3, <4>1, SeenGoesOn
    <3>2. SumInv(r)'
      BY <1>3, <1>4, <2>1, <2>3, PurgeKeepsSum DEF BrokerApplies
    <3> QED
      BY <2>3, <3>1, <3>2
  <2> QED
    BY <1>5, <2>2, <2>3
<1> QED
  BY <1>6 DEF CountInv

\* A step of r's thread is nobody else's.
LEMMA StepIsOwn ==
    ASSUME AInv, NEW r \in Requests, Step(r), NEW q \in Requests, q # r
    PROVE  /\ pc'[q] = pc[q] /\ answer'[q] = answer[q] /\ todo'[q] = todo[q]
           /\ marks'[q] = marks[q] /\ counted'[q] = counted[q] /\ found'[q] = found[q]
           /\ UNCHANGED <<topicVars, op, removed, done>>
<1>1. ThreadTypes /\ ThreadInv
  BY TypesSplit DEF AInv
<1>2. OpenForm(r) \/ Receive(r) \/ ListTopics(r) \/ ReadMark(r) \/ Describe(r) \/ Submit(r)
      \/ Result(r) \/ BrokerTrouble(r)
  BY DEF Step
<1>3. UNCHANGED <<topicVars, op, removed, done>>
  BY <1>2 DEF OpenForm, Receive, ListTopics, ReadMark, Describe, Submit, Result, BrokerTrouble,
              ThreadOnly, brokerVars
<1>4. pc'[q] = pc[q] /\ answer'[q] = answer[q]
  <2>1. CASE ReadMark(r)
    <3>1. op[r].kind \in {"purge", "page", "count"}
      BY <2>1 DEF ReadMark, AInv, SubmitInv, IsView
    <3>2. Continue(r, "marks") \/ MarksRead(r) \/ Raise(r)
      BY <2>1 DEF ReadMark
    <3>3. MarksRead(r) => Continue(r, "submit") \/ Continue(r, "describe")
                          \/ Answer(r, "ok", "none")
      BY <3>1 DEF MarksRead
    <3> QED
      BY <1>1, <3>2, <3>3 DEF Continue, Answer, Raise, ThreadTypes
  <2>2. CASE ~ReadMark(r)
    BY <1>1, <1>2, <2>2 DEF OpenForm, Receive, ListTopics, Describe, Submit, Result,
                            BrokerTrouble, Continue, Answer, Raise, ThreadTypes
  <2> QED
    BY <2>1, <2>2
<1>5. /\ todo'[q] = todo[q] /\ marks'[q] = marks[q] /\ counted'[q] = counted[q]
      /\ found'[q] = found[q]
  BY <1>1, <1>2 DEF OpenForm, Receive, ListTopics, ReadMark, Describe, Submit, Result, BrokerTrouble,
                    ThreadOnly, ThreadTypes, ThreadInv
<1> QED
  BY <1>3, <1>4, <1>5

LEMMA StepKeepsCount ==
    ASSUME AInv, AInv', NEW r \in Requests, Step(r), CountInv
    PROVE  CountInv'
<1>1. ThreadTypes /\ ThreadInv /\ SubmitInv(r) /\ SeenInv(r) /\ SumInv(r)
  BY TypesSplit DEF AInv, CountInv
<1>2. TopicsGoOn /\ TopicTypes' /\ UNCHANGED <<op, removed, done>>
  <2>1. UNCHANGED topicVars /\ UNCHANGED <<op, removed, done>>
    BY DEF Step, OpenForm, Receive, ListTopics, ReadMark, Describe, Submit, Result, BrokerTrouble,
           ThreadOnly, brokerVars
  <2> QED
    BY <2>1, StillGoesOn
<1>3. ASSUME NEW q \in Requests, q # r PROVE SeenInv(q)' /\ SumInv(q)'
  <2>1. SeenInv(q) /\ SumInv(q)
    BY DEF CountInv
  <2>2. /\ pc'[q] = pc[q] /\ answer'[q] = answer[q] /\ todo'[q] = todo[q]
        /\ marks'[q] = marks[q] /\ counted'[q] = counted[q] /\ found'[q] = found[q]
    BY <1>3, StepIsOwn
  <2> QED
    BY <1>2, <2>1, <2>2, QuietKeepsCount
<1>4. CASE Receive(r)
  <2>1. SeenInv(r)' /\ marks[r] = << >>
    BY <1>1, <1>4, ReceiveKeepsSeen
  <2>2. UNCHANGED <<marks, counted>>
    BY <1>4 DEF Receive
  <2>3. SumInv(r)'
    BY <1>1, <1>2, <2>1, <2>2, SumGoesOn
  <2> QED
    BY <1>3, <2>1, <2>3 DEF CountInv
<1>5. CASE ListTopics(r)
  <2>1. SeenInv(r)'
    BY <1>1, <1>5, ListKeepsSeen
  <2>2. UNCHANGED <<marks, counted, found>>
    BY <1>5 DEF ListTopics
  <2>3. SumInv(r)'
    BY <1>1, <1>2, <2>2, SumGoesOn
  <2> QED
    BY <1>3, <2>1, <2>3 DEF CountInv
<1>6. CASE ReadMark(r)
  <2>1. SeenInv(r)' /\ SumInv(r)'
    BY <1>1, <1>6, ReadKeepsCount
  <2> QED
    BY <1>3, <2>1 DEF CountInv
<1>7. CASE Describe(r) \/ Submit(r) \/ Result(r) \/ BrokerTrouble(r)
  <2>1. UNCHANGED <<todo, marks, counted, found>>
    BY <1>7 DEF Describe, Submit, Result, BrokerTrouble
  <2>2. pc[r] \notin {"form", "start"} /\ pc'[r] \in {"result", "answered"}
    BY <1>1, <1>7 DEF Describe, Submit, Result, BrokerTrouble, Bounded, Continue, Answer, Raise,
                      ThreadTypes
  <2>3. answer'[r] = "ok" /\ IsView(r) => pc[r] = "describe"
    BY <1>1, <1>7 DEF Describe, Submit, Result, BrokerTrouble, Continue, Answer, Raise,
                      ThreadTypes, SubmitInv
  <2>4. SeenInv(r)' /\ SumInv(r)'
    BY <1>1, <1>2, <2>1, <2>2, <2>3, QuietKeepsCount
  <2> QED
    BY <1>3, <2>4 DEF CountInv
<1>8. CASE OpenForm(r)
  <2>1. UNCHANGED <<todo, marks, counted, found>>
    BY <1>8 DEF OpenForm
  <2>2. pc[r] = "form" /\ pc'[r] = "start" /\ answer'[r] = answer[r] /\ answer[r] # "ok"
    BY <1>1, <1>8 DEF OpenForm, Continue, ThreadTypes, SubmitInv
  <2>3. SeenInv(r)'
    BY <1>1, <1>2, <2>1, <2>2 DEF SeenInv
  <2>4. SumInv(r)'
    BY <1>1, <1>2, <2>1, SumGoesOn
  <2> QED
    BY <1>3, <2>3, <2>4 DEF CountInv
<1> QED
  BY <1>4, <1>5, <1>6, <1>7, <1>8 DEF Step

\* Other clients' work.
LEMMA OthersKeepCount ==
    ASSUME AInv, AInv', TopicsGoOn, UNCHANGED <<brokerVars, threadVars, removed>>, CountInv
    PROVE  CountInv'
<1>1. UNCHANGED <<op, rendered, pc, todo, marks, counted, answer, found, done, removed>>
  BY DEF threadVars, brokerVars
<1>2. ASSUME NEW q \in Requests PROVE SeenInv(q)' /\ SumInv(q)'
  <2>1. SeenInv(q) /\ SumInv(q)
    BY DEF CountInv
  <2> QED
    BY <1>1, <2>1, QuietKeepsCount
<1> QED
  BY <1>2 DEF CountInv

LEMMA NextKeepsCount == AInv /\ CountInv /\ [Next]_vars => CountInv'
<1> SUFFICES ASSUME AInv, CountInv, [Next]_vars PROVE CountInv'
  OBVIOUS
<1>1. AInv'
  BY NextKeepsAInv
<1>2. CASE \E r \in Requests : Step(r)
  BY <1>1, <1>2, StepKeepsCount
<1>3. CASE \E r \in Requests : Broker(r)
  BY <1>1, <1>3, BrokerKeepsCount
<1>4. CASE \E n \in Names : OthersReplace(n)
  BY <1>1, <1>4, ReplaceGoesOn, OthersKeepCount
<1>5. CASE \E n \in Names : \E p \in PartsOf(n) : Append(n, p)
  BY <1>1, <1>5, AppendGoesOn, OthersKeepCount
<1>6. CASE UNCHANGED vars
  <2>1. UNCHANGED topicVars /\ UNCHANGED <<brokerVars, threadVars, removed>>
    BY <1>6 DEF vars
  <2> QED
    BY <1>1, <2>1, StillGoesOn, OthersKeepCount
<1> QED
  BY <1>2, <1>3, <1>4, <1>5, <1>6 DEF Next

LEMMA InitCount == Init => CountInv
<1> SUFFICES ASSUME Init, NEW r \in Requests PROVE SeenInv(r) /\ SumInv(r)
  BY DEF CountInv
<1>1. /\ pc[r] \in {"form", "start"} /\ marks[r] = << >> /\ todo[r] = {} /\ counted[r] = 0
      /\ removed[r] = 0 /\ done[r] = {} /\ answer[r] = "none"
      /\ found[r].starts = << >> /\ found[r].ends = << >> /\ found[r].gen = 0
  BY DEF Init
<1>2. DOMAIN marks[r] = {} /\ DOMAIN found[r].ends = {} /\ DOMAIN found[r].starts = {}
  BY <1>1
<1>3. SeenInv(r)
  BY <1>1, <1>2 DEF SeenInv
<1>4. PICK c : c = [p \in PartIds |-> 0]
  OBVIOUS
<1>5. Total({}, c) = 0
  BY TotalNext, FS_EmptySet
<1>6. Covers(r, c)
  BY <1>1, <1>2, <1>5 DEF Covers
<1>7. c \in [PartIds -> Nat]
  BY <1>4
<1> QED
  BY <1>3, <1>6, <1>7 DEF SumInv

LEMMA CountInvHolds == Spec => [](AInv /\ CountInv)
<1>1. Init => AInv /\ CountInv
  BY InitAInv, InitCount
<1>2. AInv /\ CountInv /\ [Next]_vars => AInv' /\ CountInv'
  BY NextKeepsAInv, NextKeepsCount
<1> QED
  BY <1>1, <1>2, PTL DEF Spec

\* What is reported to be removed, or there, is true of the topic that was found.
THEOREM CountsAreTruthful == Spec => []CountsTruthful
<1>1. ASSUME AInv, CountInv PROVE CountsTruthful
  <2> SUFFICES ASSUME NEW r \in Requests
               PROVE  LET n == op[r].name
                          stayed == [p \in DOMAIN found[r].ends |->
                              IF found[r].ends[p] > low[n][p] THEN found[r].ends[p] - low[n][p]
                              ELSE 0]
                          everThere == [p \in PartsOf(n) |-> high[n][p] -
                              (IF p \in DOMAIN found[r].starts THEN found[r].starts[p] ELSE 0)]
                      IN /\ removed[r] <= counted[r] \/ IsView(r)
                         /\ answer[r] = "ok" /\ IsView(r) /\ Exists(n) /\ gen[n] = found[r].gen =>
                              /\ Total(DOMAIN found[r].ends, stayed) <= counted[r]
                              /\ counted[r] <= Total(PartsOf(n), everThere)
    BY DEF CountsTruthful
  <2> DEFINE n == op[r].name
             ends == found[r].ends
             seen == DOMAIN marks[r]
             stayed == [p \in DOMAIN ends |->
                 IF ends[p] > low[n][p] THEN ends[p] - low[n][p] ELSE 0]
             everThere == [p \in PartsOf(n) |-> high[n][p] -
                 (IF p \in DOMAIN found[r].starts THEN found[r].starts[p] ELSE 0)]
  <2>1. /\ TopicTypes /\ ThreadTypes /\ TopicInv /\ ThreadInv /\ SubmitInv(r)
        /\ SeenInv(r) /\ SumInv(r)
    BY <1>1, TypesSplit DEF AInv, CountInv
  <2>2. PICK c \in [PartIds -> Nat] : Covers(r, c)
    BY <2>1 DEF SumInv
  <2>3. n \in Names /\ seen \subseteq PartIds
    BY <2>1, OpFacts DEF ThreadTypes
  <2>4. /\ PartsOf(n) \subseteq PartIds
        /\ \A p \in PartIds : low[n][p] \in Nat /\ high[n][p] \in Nat
        /\ \A p \in PartIds : low[n][p] <= high[n][p]
    BY <2>1, <2>3, TopicFacts DEF TopicInv
  <2>5. counted[r] = Total(seen, c) /\ counted[r] \in Nat
    BY <2>1, <2>2 DEF Covers, ThreadTypes
  <2>6. IsFiniteSet(seen) /\ IsFiniteSet(PartsOf(n)) /\ \A p \in PartIds : c[p] \in Nat
    BY <2>1, <2>3, <2>4, SumFacts
  <2>7. removed[r] <= counted[r]
    <3>1. removed[r] \in Nat /\ removed[r] <= IF op[r].kind = "purge" THEN Total(done[r], c) ELSE 0
      BY <2>1, <2>2 DEF Covers, ThreadTypes
    <3>2. CASE op[r].kind = "purge"
      <4>1. done[r] \subseteq seen
        BY <2>1, <3>2 DEF SubmitInv, Items
      <4>2. Total(done[r], c) <= Total(seen, c)
        <5>1. /\ \A p \in done[r] : c[p] \in Nat /\ c[p] <= c[p]
              /\ \A p \in seen : c[p] \in Nat
          BY <2>3, <2>6, <4>1
        <5> QED
          BY <2>6, <4>1, <5>1, TotalGrows
      <4>3. Total(done[r], c) \in Nat
        BY <2>1, <2>3, <4>1, SumFacts
      <4> QED
        BY <2>5, <3>1, <3>2, <4>2, <4>3
    <3>3. CASE op[r].kind # "purge"
      BY <2>5, <3>1, <3>3
    <3> QED
      BY <3>2, <3>3
  <2>8. ASSUME answer[r] = "ok", IsView(r), SameTopic(r)
        PROVE  /\ Total(DOMAIN ends, stayed) <= counted[r]
               /\ counted[r] <= Total(PartsOf(n), everThere)
    <3>1. pc[r] \notin {"form", "start"}
      BY <2>1, <2>8 DEF SubmitInv
    <3>2. /\ DOMAIN ends \subseteq seen /\ seen \subseteq PartsOf(n)
          /\ \A p \in DOMAIN ends : ends[p] <= marks[r][p]
          /\ \A p \in seen : marks[r][p] <= high[n][p]
          /\ \A p \in DOMAIN ends : found[r].starts[p] <= low[n][p]
          /\ DOMAIN found[r].starts = DOMAIN ends
          /\ \A p \in DOMAIN ends : found[r].starts[p] \in Nat
      BY <2>1, <2>8, <3>1 DEF SeenInv
    <3>3. \A p \in seen : /\ marks[r][p] - low[n][p] <= c[p]
                          /\ c[p] <= marks[r][p] - Was(r, p)
      BY <2>2, <2>8 DEF Covers
    <3>4. \A p \in seen : marks[r][p] \in Nat /\ p \in PartIds
      BY <2>1, <2>3, Bounds DEF ThreadTypes
    <3>5. \A p \in DOMAIN ends : ends[p] \in Nat
      BY <2>1 DEF ThreadInv
    <3>6. Total(DOMAIN ends, stayed) <= Total(seen, c)
      <4>1. ASSUME NEW p \in DOMAIN ends PROVE stayed[p] \in Nat /\ stayed[p] <= c[p]
        <5>1. stayed[p] = IF ends[p] > low[n][p] THEN ends[p] - low[n][p] ELSE 0
          OBVIOUS
        <5>2. p \in seen /\ p \in PartIds /\ ends[p] \in Nat /\ ends[p] <= marks[r][p]
          BY <3>2, <3>4, <3>5
        <5>3. /\ marks[r][p] - low[n][p] <= c[p] /\ marks[r][p] \in Nat
              /\ low[n][p] \in Nat /\ c[p] \in Nat
          BY <2>4, <2>6, <3>3, <3>4, <5>2
        <5> HIDE DEF stayed, n, ends, seen
        <5> QED
          BY <5>1, <5>2, <5>3
      <4> HIDE DEF stayed, n, ends, seen
      <4> QED
        BY <2>6, <3>2, <3>4, <4>1, TotalGrows
    <3>7. Total(seen, c) <= Total(PartsOf(n), everThere)
      <4>1. ASSUME NEW p \in PartsOf(n)
            PROVE  everThere[p] \in Nat /\ (p \in seen => c[p] <= everThere[p])
        <5>1. everThere[p] = high[n][p] - Was(r, p)
          BY DEF Was
        <5>2. Was(r, p) \in Nat /\ Was(r, p) <= low[n][p] /\ p \in PartIds
          BY <2>4, <3>2 DEF Was
        <5>3. low[n][p] \in Nat /\ high[n][p] \in Nat /\ low[n][p] <= high[n][p]
          BY <2>4, <5>2
        <5>4. p \in seen => /\ marks[r][p] <= high[n][p] /\ c[p] <= marks[r][p] - Was(r, p)
                            /\ marks[r][p] \in Nat /\ c[p] \in Nat
          BY <2>6, <3>2, <3>3, <3>4
        <5> HIDE DEF everThere, n, seen
        <5> QED
          BY <5>1, <5>2, <5>3, <5>4
      <4> HIDE DEF everThere, n, seen
      <4> QED
        BY <2>6, <3>2, <3>4, <4>1, TotalGrows
    <3> QED
      BY <2>5, <3>6, <3>7
  <2> QED
    BY <2>7, <2>8 DEF SameTopic
<1> QED
  BY <1>1, CountInvHolds, PTL
=============================================================================
