------------------------------ MODULE HitStream ------------------------------
(***************************************************************************)
(* What the messages page is promised by /scan and /tail, whatever happens *)
(* to the broker meanwhile: a stream of matching records, each shown once  *)
(* and in offset order within its partition, never more than the limit,    *)
(* closed by exactly one final event after which nothing is shown.         *)
(***************************************************************************)
EXTENDS Integers, Sequences

CONSTANTS Records     \* coordinates <<partition, offset>>

VARIABLES matching,   \* the records that pass the filters of the request
          limit,      \* the most hits the page may get
          shown,      \* the hits on the page, in order of arrival
          final       \* "none", then "done" or "failed"

streamVars == <<matching, limit, shown, final>>

StreamInit ==
    /\ matching \subseteq Records
    /\ shown = << >>
    /\ limit \in Nat \ {0}
    /\ final = "none"

\* Record c is news for the page: later than all it has of that partition.
IsNews(c) == \A i \in 1 .. Len(shown) : shown[i][1] = c[1] => shown[i][2] < c[2]

Show(c) ==
    /\ final = "none"
    /\ Len(shown) < limit
    /\ c \in matching
    /\ IsNews(c)
    /\ shown' = Append(shown, c)
    /\ final' \in {"none", "done"}
    /\ UNCHANGED <<matching, limit>>

Finish(f) ==
    /\ final = "none"
    /\ final' = f
    /\ UNCHANGED <<matching, limit, shown>>

StreamNext ==
    \/ \E c \in Records : Show(c)
    \/ \E f \in {"done", "failed"} : Finish(f)

Stream == StreamInit /\ [][StreamNext]_streamVars
=============================================================================
