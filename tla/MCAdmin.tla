------------------------------ MODULE MCAdmin -------------------------------
(* Small instances of Admin for TLC.                                       *)
EXTENDS Admin, TLC

CONSTANTS t, sys, v

Ask(kind, name) ==
    [kind |-> kind, name |-> name, write |-> TRUE, confirmed |-> TRUE,
     wellFormed |-> TRUE, parts |-> MaxParts, changes |-> [k \in Keys |-> Keep]]

\* One key is typed: Default stands for a blank value.
Edit(key, value) ==
    [Ask("configure", t) EXCEPT !.changes = [k \in Keys |-> IF k = key THEN value ELSE Keep]]

Clears == {Edit(k, Default) : k \in Keys}

\* Everything that gets through to the broker, on one ordinary topic.
MCTopicOps ==
    { Ask("create", t), Ask("delete", t), Ask("grow", t), Ask("purge", t),
      Ask("count", t), [Ask("page", t) EXCEPT !.write = FALSE],
      Ask("configure", t) } \cup {Edit(k, v) : k \in Keys} \cup Clears

\* Everything that is turned away before.
MCRefusedOps ==
    { Ask("delete", sys),
      [Ask("purge", t) EXCEPT !.confirmed = FALSE],
      [Ask("create", t) EXCEPT !.wellFormed = FALSE],
      [Ask("grow", t) EXCEPT !.write = FALSE] }

MCOps == MCTopicOps \cup MCRefusedOps

\* Pairs of requests that cannot disturb each other, or not otherwise than some
\* other pair does: a count is the first half of a page, and a purge and an edit
\* change different things.
Apart == { {"page"}, {"count"}, {"page", "count"}, {"count", "purge"},
           {"count", "configure"}, {"purge", "configure"} }

\* A request that is turned away meets nobody that matters, as does one that clears a
\* key or types nothing unless it meets another edit, for which at most one key is
\* overridden at the start.  Of two partitions one is empty at the start.
MCInit ==
    /\ Init
    /\ parts[t] = 2 => high[t][0] = 0 /\ high[t][1] = 1
    /\ Cardinality({k \in Keys : conf[t][k] # Default}) <=
           IF \A r \in Requests : op[r].kind = "configure" THEN 1 ELSE 0
    /\ \A q, r \in Requests : q # r =>
         /\ {op[q].kind, op[r].kind} \notin Apart
         /\ op[q] \in MCRefusedOps => op[r] = Ask("create", t)
         /\ op[q] \in Clears \cup {Ask("configure", t)} =>
                op[r].kind \in {"configure", "create"}

MCSpec == MCInit /\ [][Next]_vars

\* Requests and keys differ in nothing: Init and Next treat them alike.
AdminSymmetry == Permutations(Requests) \cup Permutations(Keys)
=============================================================================
