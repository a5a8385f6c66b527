------------------------------- MODULE Admin --------------------------------
(***************************************************************************)
(* Topic administration and the pages that show topics:                    *)
(* app/services/admin.py and app/services/cluster.py behind the endpoints  *)
(* of app/routers/admin.py and app/routers/topics.py.  Requests create,    *)
(* delete, grow, configure and purge topics, count their messages and show *)
(* them, each on a worker thread that looks at the cluster, judges and     *)
(* then submits; other clients do the same meanwhile.  A topic is          *)
(* configured in a form that was rendered with its page, some time before. *)
(*                                                                         *)
(* What a request submits the broker applies, or refuses, when it gets to  *)
(* it, a purge partition by partition; the thread waits a limited time and *)
(* then reports an error, whatever becomes of it.                          *)
(*                                                                         *)
(* Left out: which names and sizes are well formed (an operation is, or is *)
(* not), replication, brokers, and how the pages are laid out.             *)
(***************************************************************************)
EXTENDS Integers, FiniteSets, FiniteSetsExt

CONSTANTS
    Requests,     \* the HTTP requests
    Names,        \* topic names
    Internal,     \* those that begin with "__"
    Keys,         \* topic configuration keys
    Values,       \* what they may be set to
    Default,      \* a key without an override
    Keep,         \* nothing is typed for the key
    Ops,          \* what a request may ask for
    MaxParts,     \* bound: partitions of a topic
    MaxHigh,      \* bound: records of a partition
    MaxGens       \* bound: topics ever created

PartIds == 0 .. MaxParts - 1

AdminOp ==
    [kind       : {"create", "delete", "grow", "configure", "purge", "count", "page"},
     name       : Names,
     write      : BOOLEAN,      \* the caller passes require_write
     confirmed  : BOOLEAN,      \* the name was typed back
     wellFormed : BOOLEAN,      \* a name and sizes Kafka can have
     parts      : 1 .. MaxParts,
     changes    : [Keys -> Values \cup {Default, Keep}]]   \* what is typed into the form

ASSUME AdminAssumption ==
    /\ Internal \subseteq Names
    /\ {Default, Keep} \cap Values = {}
    /\ Default # Keep
    /\ MaxParts \in Nat \ {0}
    /\ MaxHigh \in Nat \ {0}
    /\ MaxGens \in Nat \ {0}
    /\ Ops \subseteq AdminOp

VARIABLES
    gen,          \* gen[n]: which creation topic n is of, 0 if it does not exist
    gens,         \* topics created so far
    parts,        \* parts[n]: its number of partitions
    conf,         \* conf[n]: its overrides
    low, high,    \* low[n][p], high[n][p]: its watermarks
    op,           \* op[r]: what r asks for
    rendered,     \* rendered[r]: the overrides in the form r is posted from
    pc,           \* where r's thread is
    todo,         \* todo[r]: partitions whose watermarks are still to be read
    marks,        \* marks[r]: the offsets r is going to delete up to
    counted,      \* counted[r]: the records r reports as removed, or as there
    shown,        \* shown[r]: the configuration on r's page
    inflight,     \* inflight[r]: what the broker has still to do for r
    done,         \* done[r]: what it has done
    refused,      \* refused[r]: what it has refused
    answer,       \* answer[r]: what the browser got
    audited,      \* audited[r]: the outcome of r's audit line
    found,        \* history: the topic as it was when r came in
    removed       \* history: the records r's purge removed from that topic

topicVars   == <<gen, gens, parts, conf, low, high>>
brokerVars  == <<inflight, done, refused>>
threadVars  == <<op, rendered, pc, todo, marks, counted, shown, answer, audited, found>>
vars == <<topicVars, brokerVars, threadVars, removed>>

-----------------------------------------------------------------------------
Exists(n) == gen[n] # 0

\* The partitions of a topic.
PartsOf(n) == 0 .. parts[n] - 1

\* What the broker is asked to do: a purge is one request per partition.
Items(r) == IF op[r].kind = "purge" THEN DOMAIN marks[r] ELSE {0}

Init ==
    /\ gen \in [Names -> {0, 1}]
    /\ gens = 1
    /\ parts \in [Names -> 1 .. MaxParts]
    /\ conf \in [Names -> [Keys -> Values \cup {Default}]]
    /\ low = [n \in Names |-> [p \in PartIds |-> 0]]
    /\ high \in [Names -> [PartIds -> {0, 1}]]
    /\ \A n \in Names :
         /\ gen[n] = 0 \/ n \in Internal =>
                parts[n] = 1 /\ conf[n] = [k \in Keys |-> Default]
         /\ \A p \in PartIds : gen[n] = 0 \/ n \in Internal \/ p >= parts[n] => high[n][p] = 0
    /\ op \in [Requests -> Ops]
    /\ rendered = [r \in Requests |-> << >>]
    /\ pc = [r \in Requests |-> IF op[r].kind = "configure" THEN "form" ELSE "start"]
    /\ todo = [r \in Requests |-> {}]
    /\ marks = [r \in Requests |-> << >>]
    /\ counted = [r \in Requests |-> 0]
    /\ shown = [r \in Requests |-> << >>]
    /\ inflight = [r \in Requests |-> {}]
    /\ done = [r \in Requests |-> {}]
    /\ refused = [r \in Requests |-> {}]
    /\ answer = [r \in Requests |-> "none"]
    /\ audited = [r \in Requests |-> "none"]
    /\ found = [r \in Requests |-> [gen |-> 0, starts |-> << >>, ends |-> << >>]]
    /\ removed = [r \in Requests |-> 0]

\* A view only reads, for anybody and without a trace.
IsView(r) == op[r].kind \in {"count", "page"}

Continue(r, label) ==
    /\ pc' = [pc EXCEPT ![r] = label]
    /\ UNCHANGED <<answer, audited>>

Answer(r, a, outcome) ==
    /\ pc' = [pc EXCEPT ![r] = "answered"]
    /\ answer' = [answer EXCEPT ![r] = a]
    /\ audited' = [audited EXCEPT ![r] = outcome]

ErrorOutcome == "error"

Raise(r) == Answer(r, "error", IF IsView(r) THEN "none" ELSE ErrorOutcome)

\* What a thread does without the broker's topics changing.
ThreadOnly(r) == UNCHANGED <<topicVars, op, rendered, removed>>

\* _topic_config: of what describe_configs answers, the overrides.
Overrides(n) == [k \in {x \in Keys : conf[n][x] # Default} |-> conf[n][k]]

\* The page with the form is made, and the form filled with the overrides there are.
OpenForm(r) ==
    /\ pc[r] = "form"
    /\ Exists(op[r].name)
    /\ rendered' = [rendered EXCEPT ![r] = Overrides(op[r].name)]
    /\ Continue(r, "start")
    /\ UNCHANGED <<topicVars, op, todo, marks, counted, shown, found, brokerVars, removed>>

-----------------------------------------------------------------------------
(* The endpoint, and the service before it asks the broker                 *)

NeedsConfirmation(r) == op[r].kind \in {"delete", "purge"}

\* Mutant: internal topics are like any other.
ProtectedNone(n) == FALSE

Protected(n) == n \in Internal

\* Mutant: a save sends the whole configuration, the keys its form does not have as
\* deletions.
EntriesOfAll(r) ==
    [k \in Keys |-> IF op[r].changes[k] # Keep THEN op[r].changes[k]
                    ELSE IF k \in DOMAIN rendered[r] THEN rendered[r][k] ELSE Default]

\* The form posts every override it was rendered with, with its value there unless
\* another was typed, and what was added; a blank value deletes the override.
Entries(r) ==
    [k \in DOMAIN rendered[r] \cup {x \in Keys : op[r].changes[x] # Keep} |->
        IF op[r].changes[k] # Keep THEN op[r].changes[k] ELSE rendered[r][k]]

Invalid(r) ==
    \/ op[r].kind = "create" /\ ~op[r].wellFormed
    \/ NeedsConfirmation(r) /\ Protected(op[r].name)
    \/ op[r].kind = "configure" /\ DOMAIN Entries(r) = {}

Receive(r) ==
    /\ pc[r] = "start"
    /\ found' = [found EXCEPT ![r] = LET n == op[r].name IN
                    [gen |-> gen[n], starts |-> [p \in PartsOf(n) |-> low[n][p]],
                                     ends |-> [p \in PartsOf(n) |-> high[n][p]]]]
    /\ IF ~IsView(r) /\ ~op[r].write THEN Answer(r, "forbidden", "none")
       ELSE IF NeedsConfirmation(r) /\ ~op[r].confirmed THEN Answer(r, "denied", "denied")
       ELSE IF Invalid(r) THEN Raise(r)
       ELSE Continue(r, "list")
    /\ ThreadOnly(r)
    /\ UNCHANGED <<todo, marks, counted, shown, brokerVars>>

\* list_topics, and the judgement on it: a new topic must not exist, others must,
\* and a topic can only grow.
Acceptable(r) ==
    LET n == op[r].name IN
    CASE op[r].kind = "create" -> ~Exists(n)
      [] op[r].kind = "grow"   -> Exists(n) /\ op[r].parts > parts[n]
      [] OTHER                 -> Exists(n)

ListTopics(r) ==
    /\ pc[r] = "list"
    /\ IF ~Acceptable(r)
         THEN /\ IF IsView(r) THEN Answer(r, "gone", "none") ELSE Raise(r)
              /\ UNCHANGED todo
         ELSE IF op[r].kind = "purge" \/ IsView(r)
           THEN Continue(r, "marks") /\ todo' = [todo EXCEPT ![r] = PartsOf(op[r].name)]
           ELSE Continue(r, "submit") /\ UNCHANGED todo
    /\ ThreadOnly(r)
    /\ UNCHANGED <<marks, counted, shown, found, brokerVars>>

-----------------------------------------------------------------------------
(* purge_topic and watermarks(): one partition after the other             *)

\* Mutant: the offset of the last record, which then survives.
LastOffset(n, p) == high[n][p] - 1

\* Everything before the current end.
PurgeTo(n, p) == high[n][p]

\* Mutant: every offset counts.
CountOffsets(n, p) == high[n][p]

Count(n, p) == high[n][p] - low[n][p]

MarksRead(r) ==
    CASE op[r].kind = "purge" -> Continue(r, "submit")
      [] op[r].kind = "page"  -> Continue(r, "describe")
      [] op[r].kind = "count" -> Answer(r, "ok", "none")

\* A partition that went away with its topic answers with an error.
ReadMark(r) ==
    /\ pc[r] = "marks"
    /\ \E p \in todo[r] :
         LET n == op[r].name IN
         IF Exists(n) /\ p \in PartsOf(n)
           THEN /\ marks' = [marks EXCEPT ![r] =
                     [q \in DOMAIN @ \cup {p} |-> IF q = p THEN PurgeTo(n, p) ELSE @[q]]]
                /\ counted' = [counted EXCEPT ![r] = @ + Count(n, p)]
                /\ todo' = [todo EXCEPT ![r] = @ \ {p}]
                /\ IF todo'[r] # {} THEN Continue(r, "marks") ELSE MarksRead(r)
           ELSE Raise(r) /\ UNCHANGED <<marks, counted, todo>>
    /\ ThreadOnly(r)
    /\ UNCHANGED <<shown, found, brokerVars>>

\* describe_configs, the last round trip of a page.
Describe(r) ==
    /\ pc[r] = "describe"
    /\ IF Exists(op[r].name)
         THEN /\ Answer(r, "ok", "none")
              /\ shown' = [shown EXCEPT ![r] = Overrides(op[r].name)]
         ELSE Raise(r) /\ UNCHANGED shown
    /\ ThreadOnly(r)
    /\ UNCHANGED <<todo, marks, counted, found, brokerVars>>

-----------------------------------------------------------------------------
(* The operation itself, asynchronous, and future.result()                 *)

Submit(r) ==
    /\ pc[r] = "submit"
    /\ inflight' = [inflight EXCEPT ![r] = Items(r)]
    /\ Continue(r, "result")
    /\ ThreadOnly(r)
    /\ UNCHANGED <<todo, marks, counted, shown, found, done, refused>>

\* Mutant: the futures are not waited for.
NotAwaited(r) == TRUE

AllDone(r) == done[r] = Items(r)

\* The futures in turn: the first refusal raises.
Result(r) ==
    /\ pc[r] = "result"
    /\ \/ AllDone(r) /\ Answer(r, "ok", "ok")
       \/ refused[r] # {} /\ Raise(r)
    /\ ThreadOnly(r)
    /\ UNCHANGED <<todo, marks, counted, shown, found, brokerVars>>

\* The round trips, which all carry request_timeout.
Bounded == {"list", "marks", "describe", "submit", "result"}

\* A round trip fails or takes too long; what is in flight stays in flight.
BrokerTrouble(r) ==
    /\ pc[r] \in Bounded
    /\ Raise(r)
    /\ ThreadOnly(r)
    /\ UNCHANGED <<todo, marks, counted, shown, found, brokerVars>>

-----------------------------------------------------------------------------
(* EXTERNAL: the broker gets to what was submitted                         *)

\* Whether the broker can do item x of request r.
Possible(r, x) ==
    LET n == op[r].name IN
    CASE op[r].kind = "create" -> ~Exists(n) /\ gens < MaxGens
      [] op[r].kind = "grow"   -> Exists(n) /\ op[r].parts > parts[n]
      [] op[r].kind = "purge"  -> Exists(n) /\ x \in PartsOf(n) /\ marks[r][x] <= high[n][x]
      [] OTHER                 -> Exists(n)

Empty(n, k, c) ==
    /\ parts' = [parts EXCEPT ![n] = k]
    /\ conf' = [conf EXCEPT ![n] = c]
    /\ low' = [low EXCEPT ![n] = [p \in PartIds |-> 0]]
    /\ high' = [high EXCEPT ![n] = [p \in PartIds |-> 0]]

Create(n, k, c) ==
    /\ gens' = gens + 1
    /\ gen' = [gen EXCEPT ![n] = gens + 1]
    /\ Empty(n, k, c)
    /\ UNCHANGED removed

BrokerCreates(r) ==
    /\ op[r].kind = "create"
    /\ Create(op[r].name, op[r].parts, [k \in Keys |->
                   IF op[r].changes[k] = Keep THEN Default ELSE op[r].changes[k]])

Delete(n) ==
    /\ gen' = [gen EXCEPT ![n] = 0]
    /\ Empty(n, 1, [k \in Keys |-> Default])
    /\ UNCHANGED <<gens, removed>>

BrokerDeletes(r) == op[r].kind = "delete" /\ Delete(op[r].name)

BrokerGrows(r) ==
    /\ op[r].kind = "grow"
    /\ parts' = [parts EXCEPT ![op[r].name] = op[r].parts]
    /\ UNCHANGED <<gen, gens, conf, low, high, removed>>

BrokerConfigures(r) ==
    /\ op[r].kind = "configure"
    /\ conf' = [conf EXCEPT ![op[r].name] =
                  [k \in Keys |-> IF k \in DOMAIN Entries(r) THEN Entries(r)[k] ELSE @[k]]]
    /\ UNCHANGED <<gen, gens, parts, low, high, removed>>

\* delete_records moves a low watermark up, never down.
BrokerPurges(r, p) ==
    LET n == op[r].name IN
    /\ op[r].kind = "purge"
    /\ low' = [low EXCEPT ![n][p] = IF marks[r][p] > @ THEN marks[r][p] ELSE @]
    /\ removed' = [removed EXCEPT ![r] =
                     IF gen[n] = found[r].gen THEN @ + low'[n][p] - low[n][p] ELSE @]
    /\ UNCHANGED <<gen, gens, parts, conf, high>>

BrokerApplies(r, x) ==
    /\ Possible(r, x)
    /\ done' = [done EXCEPT ![r] = @ \cup {x}]
    /\ UNCHANGED refused
    /\ \/ BrokerCreates(r) \/ BrokerDeletes(r) \/ BrokerGrows(r)
       \/ BrokerConfigures(r) \/ BrokerPurges(r, x)

\* The request is impossible by now, or against a policy.
BrokerRefuses(r, x) ==
    /\ refused' = [refused EXCEPT ![r] = @ \cup {x}]
    /\ UNCHANGED <<topicVars, done, removed>>

Broker(r) ==
    /\ \E x \in inflight[r] :
         /\ inflight' = [inflight EXCEPT ![r] = @ \ {x}]
         /\ BrokerApplies(r, x) \/ BrokerRefuses(r, x)
    /\ UNCHANGED threadVars

\* Bound: other clients act on ordinary topics, while a request that looks at
\* records is under way.
Watched(n) ==
    /\ n \notin Internal
    /\ \E r \in Requests : /\ op[r].kind = "purge" \/ IsView(r)
                           /\ pc[r] \notin {"start", "answered"} \/ inflight[r] # {}

\* Delete it, and create one of that name.
OthersReplace(n) ==
    /\ Watched(n)
    /\ Exists(n) /\ gens < MaxGens
    /\ Create(n, MaxParts, [k \in Keys |-> Default])
    /\ UNCHANGED <<brokerVars, threadVars>>

Append(n, p) ==
    /\ Watched(n)
    /\ Exists(n)
    /\ high[n][p] < MaxHigh
    /\ high' = [high EXCEPT ![n][p] = @ + 1]
    /\ UNCHANGED <<gen, gens, parts, conf, low, brokerVars, threadVars, removed>>

-----------------------------------------------------------------------------
Step(r) ==
    OpenForm(r) \/ Receive(r) \/ ListTopics(r) \/ ReadMark(r) \/ Describe(r) \/ Submit(r)
    \/ Result(r) \/ BrokerTrouble(r)

Next ==
    \/ \E r \in Requests : Step(r) \/ Broker(r)
    \/ \E n \in Names : OthersReplace(n)
    \/ \E n \in Names : \E p \in PartsOf(n) : Append(n, p)

Spec == Init /\ [][Next]_vars

-----------------------------------------------------------------------------
(* Properties                                                              *)

\* Every variable has its type.
TypeOK ==
    /\ gen \in [Names -> 0 .. MaxGens]
    /\ gens \in 1 .. MaxGens
    /\ parts \in [Names -> 1 .. MaxParts]
    /\ conf \in [Names -> [Keys -> Values \cup {Default}]]
    /\ low \in [Names -> [PartIds -> 0 .. MaxHigh]]
    /\ high \in [Names -> [PartIds -> 0 .. MaxHigh]]
    /\ op \in [Requests -> Ops]
    /\ \A r \in Requests : /\ DOMAIN rendered[r] \subseteq Keys
                           /\ \A k \in DOMAIN rendered[r] : rendered[r][k] \in Values
    /\ pc \in [Requests -> {"form", "start", "list", "marks", "describe", "submit", "result",
                            "answered"}]
    /\ todo \in [Requests -> SUBSET PartIds]
    /\ \A r \in Requests : /\ DOMAIN marks[r] \subseteq PartIds
                           /\ \A p \in DOMAIN marks[r] : marks[r][p] \in 0 .. MaxHigh
    /\ counted \in [Requests -> Nat]
    /\ {inflight, done, refused} \subseteq [Requests -> SUBSET PartIds]
    /\ \A r \in Requests : DOMAIN shown[r] \subseteq Keys
    /\ answer \in [Requests -> {"none", "forbidden", "denied", "gone", "error", "ok"}]
    /\ audited \in [Requests -> {"none", "denied", "error", "ok"}]
    /\ removed \in [Requests -> Nat]

\* An operation is reported as done only when the broker has done all of it, on
\* every partition, however it raced with others; and "delete all records" leaves
\* nothing of what the topic held when it was asked for, as long as it is the topic
\* that was found.
OkMeansDone ==
    \A r \in Requests : answer[r] = "ok" /\ ~IsView(r) =>
        LET n == op[r].name IN
        /\ done[r] = Items(r) /\ refused[r] = {}
        /\ op[r].kind = "purge" /\ Exists(n) /\ gen[n] = found[r].gen =>
              \A p \in DOMAIN found[r].ends : found[r].ends[p] <= low[n][p]

\* Whatever was done to a topic, the caller may write; what destroys was confirmed
\* and spares internal topics; and once the request is answered it has its audit
\* line, also if the broker acts only after the thread gave up.
ChangesAccounted ==
    \A r \in Requests : done[r] # {} =>
        /\ op[r].write
        /\ op[r].kind \in {"delete", "purge"} => /\ op[r].confirmed
                                                 /\ op[r].name \notin Internal
        /\ answer[r] # "none" => audited[r] \in {"ok", "error"}

Total(ps, size) == MapThenSumSet(LAMBDA p : size[p], ps)

\* Numbers are true of the topic that was found, although its partitions are looked
\* at one after the other: a purge removes no record it has not counted, and a view
\* counts at least what was there all the time and at most what was ever there.
CountsTruthful ==
    \A r \in Requests :
        LET n == op[r].name
            stayed == [p \in DOMAIN found[r].ends |->
                IF found[r].ends[p] > low[n][p] THEN found[r].ends[p] - low[n][p] ELSE 0]
            everThere == [p \in PartsOf(n) |-> high[n][p] -
                (IF p \in DOMAIN found[r].starts THEN found[r].starts[p] ELSE 0)]
        IN /\ removed[r] <= counted[r] \/ IsView(r)
           /\ answer[r] = "ok" /\ IsView(r) /\ Exists(n) /\ gen[n] = found[r].gen =>
                /\ Total(DOMAIN found[r].ends, stayed) <= counted[r]
                /\ counted[r] <= Total(PartsOf(n), everThere)

\* n's override of k changes in this step.
Reconfigured(n, k) == Exists(n) /\ gen'[n] = gen[n] /\ conf'[n][k] # conf[n][k]

Saves(r, n) == op[r].kind = "configure" /\ op[r].name = n /\ inflight[r] # {}

\* A save changes a topic's configuration only in what its form showed or its admin
\* typed, to the value in the form: an override that came after the form was
\* rendered survives it.  One that the form shows does not: all of them are posted,
\* so that a save puts back what another admin changed since, in other keys too.
SavesOnlyItsForm ==
    [][\A n \in Names, k \in Keys : Reconfigured(n, k) =>
          \E r \in Requests : /\ Saves(r, n)
                              /\ conf'[n][k] = IF op[r].changes[k] # Keep THEN op[r].changes[k]
                                               ELSE IF k \in DOMAIN rendered[r]
                                                 THEN rendered[r][k] ELSE conf[n][k]]_vars
=============================================================================
