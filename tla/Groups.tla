------------------------------- MODULE Groups -------------------------------
(***************************************************************************)
(* Consumer groups: app/services/groups.py behind the group pages, the lag *)
(* cell and the reset and delete forms of app/routers/groups.py.           *)
(*                                                                         *)
(* One group and one topic, several requests at once.  Every request runs  *)
(* on its own worker thread and makes a series of broker round trips, one  *)
(* action each; between two of them records are appended and purged,       *)
(* consumers join, commit and leave, and the other requests go on.  The    *)
(* code between two round trips reads nothing shared.                      *)
(*                                                                         *)
(* Left out: the texts of errors, member and coordinator details, and a    *)
(* topic deleted and created again under a group's committed offsets.      *)
(***************************************************************************)
EXTENDS KafkaLog

CONSTANTS
    Requests,     \* the HTTP requests
    Ops,          \* what a request may ask for
    Topic,        \* the topic KafkaLog describes; other names do not exist
    AnyPartition, \* no partition given
    NoOffset      \* no offset given

GroupOp ==
    [kind       : {"view", "reset", "delete"},
     write      : BOOLEAN,       \* the caller passes require_write
     confirmed  : BOOLEAN,       \* the group id was typed back
     wellFormed : BOOLEAN,       \* partition and offset parse as integers
     topic      : STRING,
     partition  : Int \cup {AnyPartition},
     target     : {"earliest", "latest", "timestamp", "offset", "unknown"},
     timestamp  : {"readable", "unreadable"},
     offset     : Int \cup {NoOffset}]

ASSUME GroupsAssumption ==
    /\ AnyPartition \notin Int
    /\ NoOffset \notin Int
    /\ Ops \subseteq GroupOp

NONE == -1        \* a partition without a committed offset (NO_OFFSET, -1001)

VARIABLES
    coord,        \* the group's state at its coordinator
    committed,    \* committed[p]: the group's committed offset, or NONE
    op,           \* op[r]: what request r asks for
    pc,           \* pc[r]: the round trip r is at
    seen,         \* seen[r]: the group state describe_consumer_groups reported
    snap,         \* snap[r]: the committed offsets r read
    marks,        \* marks[r][p]: the watermarks r read last
    todo,         \* todo[r]: partitions r's current loop has still to visit
    targets,      \* targets[r][p]: the offset r wants for p
    answer,       \* answer[r]: what the browser got
    audited,      \* audited[r]: the outcome of r's audit line
    moved,        \* moved[r]: the partitions the coordinator changed for r
    asked         \* history: the records at or after the requested time that
                  \* were in the log when r asked offsets_for_times

groupVars   == <<coord, committed>>
requestVars == <<op, pc, seen, snap, marks, todo, targets, answer, audited, moved, asked>>
vars == <<logVars, groupVars, requestVars>>

-----------------------------------------------------------------------------
(* EXTERNAL: the group and its consumers                                   *)

ConsumerJoins ==
    /\ coord # "STABLE"
    /\ coord' = "STABLE"
    /\ UNCHANGED committed

ConsumerLeaves ==
    /\ coord = "STABLE"
    /\ coord' = "EMPTY"
    /\ UNCHANGED committed

\* A member commits its position, which is never past the end of the log.
ConsumerCommits(p, o) ==
    /\ coord = "STABLE"
    /\ low[p] <= o /\ o <= high[p]
    /\ committed' = [committed EXCEPT ![p] = o]
    /\ UNCHANGED coord

\* The coordinator forgets a group nobody uses.
GroupExpires ==
    /\ coord = "EMPTY"
    /\ coord' = "DEAD"
    /\ committed' = [p \in Partitions |-> NONE]

GroupNext ==
    \/ ConsumerJoins
    \/ ConsumerLeaves
    \/ GroupExpires
    \/ \E p \in Partitions, o \in 0 .. MaxHigh : ConsumerCommits(p, o)

-----------------------------------------------------------------------------
Planned(r) == IF op[r].partition = AnyPartition THEN Partitions
                                                ELSE {op[r].partition}

\* PartitionOffset.lag
Lag(offset, end) == end - offset

\* What the group page shows of partition p.
ShownLag(r, p) == Lag(snap[r][p], marks[r][p].high)

Init ==
    /\ LogInit
    /\ coord \in {"DEAD", "EMPTY", "STABLE"}
    /\ committed \in [Partitions -> NONE .. MaxHigh]
    /\ \A p \in Partitions : /\ committed[p] <= high[p]
                             /\ coord = "DEAD" => committed[p] = NONE
    /\ op \in [Requests -> Ops]
    /\ pc = [r \in Requests |-> "start"]
    /\ seen = [r \in Requests |-> "DEAD"]
    /\ snap = [r \in Requests |-> [p \in Partitions |-> NONE]]
    /\ marks = [r \in Requests |-> [p \in Partitions |-> [low |-> 0, high |-> 0]]]
    /\ todo = [r \in Requests |-> {}]
    /\ targets = [r \in Requests |-> [p \in Partitions |-> NONE]]
    /\ answer = [r \in Requests |-> "none"]
    /\ audited = [r \in Requests |-> "none"]
    /\ moved = [r \in Requests |-> {}]
    /\ asked = [r \in Requests |-> {}]

Continue(r, label) ==
    /\ pc' = [pc EXCEPT ![r] = label]
    /\ UNCHANGED <<answer, audited>>

Answer(r, a, outcome) ==
    /\ pc' = [pc EXCEPT ![r] = "answered"]
    /\ answer' = [answer EXCEPT ![r] = a]
    /\ audited' = [audited EXCEPT ![r] = outcome]

\* The endpoints catch every exception of the two services and audit it; reading
\* a group is not audited.
ErrorOutcome(r) == IF op[r].kind = "view" THEN "none" ELSE "error"

Raise(r) == Answer(r, "error", ErrorOutcome(r))

-----------------------------------------------------------------------------
(* The endpoint, before it calls the service                               *)

Refused(r) ==
    /\ op[r].kind = "reset"
    /\ \/ op[r].target = "unknown"
       \/ op[r].target = "timestamp" /\ op[r].timestamp = "unreadable"

ConfirmationMissing(r) == ~op[r].confirmed

Receive(r) ==
    /\ pc[r] = "start"
    /\ CASE op[r].kind = "view" -> Continue(r, "describe")
         [] op[r].kind # "view" ->
              IF ~op[r].write THEN Answer(r, "forbidden", "none")
              ELSE IF ConfirmationMissing(r) THEN Answer(r, "denied", "denied")
              ELSE IF Refused(r) THEN Answer(r, "refused", "none")
              ELSE IF op[r].kind = "reset" /\ ~op[r].wellFormed THEN Raise(r)
              ELSE Continue(r, "describe")
    /\ UNCHANGED <<coord, committed, op, seen, snap, marks, todo, targets, moved, asked>>

-----------------------------------------------------------------------------
(* get_group: describe, committed offsets, then watermarks, in this order  *)

\* A failed describe counts as "no such group".
Describe(r) ==
    /\ pc[r] = "describe"
    /\ \/ /\ seen' = [seen EXCEPT ![r] = coord]
          /\ Continue(r, "committed")
       \/ /\ UNCHANGED seen
          /\ IF op[r].kind = "view" THEN Answer(r, "missing", "none") ELSE Raise(r)
    /\ UNCHANGED <<coord, committed, op, snap, marks, todo, targets, moved, asked>>

ReadCommitted(r) ==
    /\ pc[r] = "committed"
    /\ snap' = [snap EXCEPT ![r] = committed]
    /\ todo' = [todo EXCEPT ![r] = {p \in Partitions : committed[p] # NONE}]
    /\ Continue(r, "rows")
    /\ UNCHANGED <<coord, committed, op, seen, marks, targets, moved, asked>>

\* A loop over partitions in sorted order, one watermark round trip each.
Visit(r, p) ==
    /\ p \in todo[r]
    /\ \A q \in todo[r] : p <= q

Rest(r, p) == todo[r] \ {p}

ReadRow(r) ==
    /\ pc[r] = "rows"
    /\ \E p \in Partitions :
         /\ Visit(r, p)
         /\ marks' = [marks EXCEPT ![r][p] = Watermarks(p)]
         /\ todo' = [todo EXCEPT ![r] = Rest(r, p)]
    /\ Continue(r, "rows")
    /\ UNCHANGED <<coord, committed, op, seen, snap, targets, moved, asked>>

\* An unknown group id is described as a DEAD shell.
Shell(r) == seen[r] = "DEAD" /\ \A p \in Partitions : snap[r][p] = NONE

\* Mutant: any group that exists may be changed.
MayChangeAnyState(r) == ~Shell(r)

\* _require_empty
MayChange(r) == ~Shell(r) /\ seen[r] = "EMPTY"

\* get_group returns: to the page, or through _require_empty to the operation.
Judge(r) ==
    /\ pc[r] = "rows"
    /\ todo[r] = {}
    /\ CASE op[r].kind = "view" -> Answer(r, IF Shell(r) THEN "missing" ELSE "page", "none")
         [] op[r].kind = "reset" -> IF MayChange(r) THEN Continue(r, "topics") ELSE Raise(r)
         [] op[r].kind = "delete" -> IF MayChange(r) THEN Continue(r, "delete") ELSE Raise(r)
    /\ UNCHANGED <<coord, committed, op, seen, snap, marks, todo, targets, moved, asked>>

-----------------------------------------------------------------------------
(* reset_offsets and _resolve_targets                                      *)

\* What _resolve_targets rejects before it asks the broker anything.
BadOffsetRequest(r) ==
    /\ op[r].target = "offset"
    /\ \/ op[r].offset = NoOffset
       \/ Cardinality(Planned(r)) # 1

ListTopics(r) ==
    /\ pc[r] = "topics"
    /\ IF \/ op[r].topic # Topic
          \/ ~(Planned(r) \subseteq Partitions)
          \/ BadOffsetRequest(r)
         THEN Raise(r) /\ UNCHANGED todo
         ELSE /\ Continue(r, IF op[r].target = "timestamp" THEN "times" ELSE "resolve")
              /\ todo' = [todo EXCEPT ![r] = Planned(r)]
    /\ UNCHANGED <<coord, committed, op, seen, snap, marks, targets, moved, asked>>

\* Mutant: offset zero is taken for "none".
NothingAfterOrFirst(o) == o <= 0

\* offsets_for_times answered "nothing at or after that time".
NothingAfter(o) == o < 0

AskTimes(r) ==
    /\ pc[r] = "times"
    /\ targets' = [targets EXCEPT ![r] =
                     [p \in Partitions |-> IF p \in Planned(r) THEN OffsetForTime(p) ELSE NONE]]
    /\ todo' = [todo EXCEPT ![r] = {p \in Planned(r) : NothingAfter(OffsetForTime(p))}]
    /\ asked' = [asked EXCEPT ![r] = {c \in Late : c[1] \in Planned(r) /\ c[2] \in log[c[1]]}]
    /\ Continue(r, "resolve")
    /\ UNCHANGED <<coord, committed, op, seen, snap, marks, moved>>

\* Mutants: one end of the range check is missing.
InRangeFromLow(o, p) == low[p] <= o

InRangeToHigh(o, p) == o <= high[p]

InRange(o, p) == low[p] <= o /\ o <= high[p]

\* The watermarks decide the rest: the end for "latest" and for a time nothing
\* was written after, the beginning for "earliest", the range check for an offset.
ResolveTarget(r) ==
    /\ pc[r] = "resolve"
    /\ \E p \in Partitions :
         /\ Visit(r, p)
         /\ todo' = [todo EXCEPT ![r] = Rest(r, p)]
         /\ IF op[r].target = "offset" /\ ~InRange(op[r].offset, p)
              THEN Raise(r) /\ UNCHANGED targets
              ELSE /\ targets' = [targets EXCEPT ![r][p] =
                        CASE op[r].target = "earliest" -> low[p]
                          [] op[r].target = "offset" -> op[r].offset
                          [] op[r].target \in {"latest", "timestamp"} -> high[p]]
                   /\ Continue(r, "resolve")
    /\ UNCHANGED <<coord, committed, op, seen, snap, marks, moved, asked>>

\* alter_consumer_group_offsets.  The coordinator refuses a group with members;
\* otherwise it stores the partitions it accepts, and reports the others.
Alter(r) ==
    /\ pc[r] = "resolve"
    /\ todo[r] = {}
    /\ IF coord = "STABLE"
         THEN Raise(r) /\ UNCHANGED <<coord, committed, moved, todo>>
         ELSE \E accepted \in SUBSET Planned(r) :
                /\ committed' = [p \in Partitions |->
                                   IF p \in accepted THEN targets[r][p] ELSE committed[p]]
                /\ coord' = IF accepted # {} THEN "EMPTY" ELSE coord
                /\ moved' = [moved EXCEPT ![r] = accepted]
                /\ \/ todo' = [todo EXCEPT ![r] = Planned(r)] /\ Continue(r, "verify")
                   \/ UNCHANGED todo /\ Raise(r)    \* stored, but the answer timed out
    /\ UNCHANGED <<op, seen, snap, marks, targets, asked>>

\* Mutant: partition errors of the result are not looked at.
PartitionNeverFails(r, p) == FALSE

PartitionFailed(r, p) == p \notin moved[r]

\* The result list: a partition error raises, a stored one gets its new row.
VerifyPartition(r) ==
    /\ pc[r] = "verify"
    /\ \E p \in Partitions :
         /\ Visit(r, p)
         /\ IF PartitionFailed(r, p)
              THEN Raise(r) /\ UNCHANGED <<marks, todo>>
              ELSE /\ marks' = [marks EXCEPT ![r][p] = Watermarks(p)]
                   /\ todo' = [todo EXCEPT ![r] = Rest(r, p)]
                   /\ Continue(r, "verify")
    /\ UNCHANGED <<coord, committed, op, seen, snap, targets, moved, asked>>

ResetDone(r) ==
    /\ pc[r] = "verify"
    /\ todo[r] = {}
    /\ Answer(r, "ok", "ok")
    /\ UNCHANGED <<coord, committed, op, seen, snap, marks, todo, targets, moved, asked>>

-----------------------------------------------------------------------------
(* delete_group                                                            *)

\* delete_consumer_groups: refused for a group with members or one that is gone.
DeleteGroup(r) ==
    /\ pc[r] = "delete"
    /\ IF coord # "EMPTY"
         THEN Raise(r) /\ UNCHANGED <<coord, committed, moved>>
         ELSE /\ coord' = "DEAD"
              /\ committed' = [p \in Partitions |-> NONE]
              /\ moved' = [moved EXCEPT ![r] = Partitions]
              /\ Answer(r, "ok", "ok") \/ Raise(r)    \* done, but the answer timed out
    /\ UNCHANGED <<op, seen, snap, marks, todo, targets, asked>>

\* A round trip fails or times out without an effect; describe has its own way.
BrokerTrouble(r) ==
    /\ \/ pc[r] \in {"committed", "topics", "times", "resolve", "delete"}
       \/ pc[r] \in {"rows", "verify"} /\ todo[r] # {}
    /\ Raise(r)
    /\ UNCHANGED <<coord, committed, op, seen, snap, marks, todo, targets, moved, asked>>

-----------------------------------------------------------------------------
Step(r) ==
    \/ Receive(r) \/ Describe(r) \/ ReadCommitted(r) \/ ReadRow(r) \/ Judge(r)
    \/ ListTopics(r) \/ AskTimes(r) \/ ResolveTarget(r) \/ Alter(r)
    \/ VerifyPartition(r) \/ ResetDone(r) \/ DeleteGroup(r) \/ BrokerTrouble(r)

Next ==
    \/ \E r \in Requests : Step(r) /\ UNCHANGED logVars
    \/ GroupNext /\ UNCHANGED <<logVars, requestVars>>
    \/ LogNext /\ UNCHANGED <<groupVars, requestVars>>

Spec == Init /\ [][Next]_vars

-----------------------------------------------------------------------------
(* Properties                                                              *)

Row == [low : 0 .. MaxHigh, high : 0 .. MaxHigh]

\* Every variable has its type; in particular a target is an offset of the log.
TypeOK ==
    /\ LogTypeOK
    /\ coord \in {"DEAD", "EMPTY", "STABLE"}
    /\ committed \in [Partitions -> NONE .. MaxHigh]
    /\ op \in [Requests -> Ops]
    /\ pc \in [Requests -> {"start", "describe", "committed", "rows", "topics", "times",
                            "resolve", "verify", "delete", "answered"}]
    /\ seen \in [Requests -> {"DEAD", "EMPTY", "STABLE"}]
    /\ snap \in [Requests -> [Partitions -> NONE .. MaxHigh]]
    /\ marks \in [Requests -> [Partitions -> Row]]
    /\ todo \in [Requests -> SUBSET Partitions]
    /\ targets \in [Requests -> [Partitions -> NONE .. MaxHigh]]
    /\ answer \in [Requests -> {"none", "page", "missing", "forbidden", "denied",
                                "refused", "error", "ok"}]
    /\ audited \in [Requests -> {"none", "denied", "error", "ok"}]
    /\ moved \in [Requests -> SUBSET Partitions]
    /\ asked \in [Requests -> SUBSET Late]

\* No reset leaves a group beyond the end of a partition, where it would wait for
\* offsets that do not exist yet, even when its target was computed long before
\* it is stored.
CommittedInLog == \A p \in Partitions : committed[p] <= high[p]

\* No page, lag cell or reset result shows a negative lag: committed offsets are
\* read before the high watermarks, and a group can only fall behind in between.
LagNeverNegative ==
    \A r \in Requests, p \in Partitions :
        /\ (answer[r] = "page" /\ snap[r][p] # NONE) => ShownLag(r, p) >= 0
        /\ (answer[r] = "ok" /\ op[r].kind = "reset" /\ p \in Planned(r)) =>
              Lag(targets[r][p], marks[r][p].high) >= 0

\* What a group's page and its resets make of offsets is sound, whatever races
\* with them: no group ends up beyond a partition's end, no lag is negative.
OffsetsSound == CommittedInLog /\ LagNeverNegative

\* A reset that answers ok moved every partition it was asked to move: no
\* partition error is lost on the way to the page.
OkMeansMoved ==
    \A r \in Requests :
        answer[r] = "ok" /\ op[r].kind = "reset" => moved[r] = Planned(r)

\* Whatever a request changed in a group, the caller may write, typed the id back
\* and the group had been seen empty; and when the request is over there is an
\* audit line for it, also when the answer got lost after the change.
ChangesAccounted ==
    \A r \in Requests : moved[r] # {} =>
        /\ op[r].write /\ op[r].confirmed
        /\ seen[r] = "EMPTY"
        /\ answer[r] # "none" => audited[r] \in {"ok", "error"}

\* A reset to a time skips no record at or after that time that was in the log
\* when the broker was asked for the offset.
TimestampKeepsKnown ==
    \A r \in Requests :
        pc[r] = "verify" => \A c \in asked[r] : targets[r][c[1]] <= c[2]

\* The stronger reading: it skips none that is in the log when the reset is
\* stored.
TimestampKeepsAll ==
    \A r \in Requests :
        pc[r] = "resolve" /\ todo[r] = {} /\ op[r].target = "timestamp" =>
            \A c \in Late : c[1] \in Planned(r) /\ c[2] \in log[c[1]] =>
                targets[r][c[1]] <= c[2]
=============================================================================
