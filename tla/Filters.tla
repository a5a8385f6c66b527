------------------------------ MODULE Filters -------------------------------
(***************************************************************************)
(* The filters of a search: matches() and _json_lookup() of                *)
(* app/services/messages.py.                                               *)
(*                                                                         *)
(* A text is the set of the lower-cased strings it contains; every filter  *)
(* is lower-cased before it is looked for.  A missing key or value is the  *)
(* empty text, which holds no string either.                               *)
(*                                                                         *)
(* A JSON payload is a function from positions to nodes.  The position of  *)
(* a node is the sequence of the names that lead to it from the root << >>: *)
(* a key in a dict, a decimal numeral in a list.  A payload that is not    *)
(* JSON has no position at all.                                            *)
(***************************************************************************)
EXTENDS Integers, Sequences

CONSTANTS
    Index,   \* Index[s]: the numeral int(s), for the segments s that are digits
    Nowhere  \* no position

ASSUME FiltersAssumption == DOMAIN Index \subseteq STRING

\* A filter left empty is off.  The path is split at its dots.
FilterSpec ==
    [key_contains   : STRING,
     value_contains : STRING,
     header_key     : STRING,
     header_value   : STRING,
     json_path      : Seq(STRING),
     json_value     : STRING]

Contains(text, wanted) == wanted = "" \/ wanted \in text

-----------------------------------------------------------------------------
\* What json.loads returns is a tree: below a dict are its keys, below a list numerals.
IsJson(json) ==
    /\ DOMAIN json \subseteq Seq(STRING) \ {Nowhere}
    /\ \A p \in DOMAIN json : \A i \in 1 .. Len(p) :
         LET above == SubSeq(p, 1, i - 1) IN
         /\ above \in DOMAIN json
         /\ \/ json[above].kind = "dict"
            \/ json[above].kind = "list" /\ p[i] \in DOMAIN Index

\* A JSON null is Python's None, which the code takes for "nothing there".
Present(json, position) ==
    position \in DOMAIN json /\ json[position].kind # "null"

\* One segment of the path, from a node that is there.
Child(json, position, segment) ==
    CASE json[position].kind = "dict" -> Append(position, segment)
      [] json[position].kind = "list" /\ segment \in DOMAIN Index ->
           Append(position, Index[segment])
      [] OTHER -> Nowhere

\* The position _json_lookup ends at; its answer is the node there, if present.
json_lookup(json, path) ==
    LET walk[i \in 0 .. Len(path)] ==
          IF i = 0 THEN << >>
          ELSE IF Present(json, walk[i - 1])
            THEN Child(json, walk[i - 1], path[i])
            ELSE Nowhere
    IN walk[Len(path)]

\* Mutant: the header value may be any header's.
MatchesAnyHeader(message, filter) ==
    /\ Contains(message.key, filter.key_contains)
    /\ Contains(message.value, filter.value_contains)
    /\ filter.header_key # "" =>
         /\ \E h \in message.headers : h.name = filter.header_key
         /\ \E h \in message.headers : Contains(h.value, filter.header_value)
    /\ filter.json_path # << >> =>
         LET node == json_lookup(message.json, filter.json_path) IN
           /\ Present(message.json, node)
           /\ Contains(message.json[node].text, filter.json_value)

matches(message, filter) ==
    /\ Contains(message.key, filter.key_contains)
    /\ Contains(message.value, filter.value_contains)
    /\ filter.header_key # "" =>
         \E h \in message.headers : /\ h.name = filter.header_key
                                    /\ Contains(h.value, filter.header_value)
    /\ filter.json_path # << >> =>
         LET node == json_lookup(message.json, filter.json_path) IN
           /\ Present(message.json, node)
           /\ Contains(message.json[node].text, filter.json_value)

-----------------------------------------------------------------------------
(* What a path means, without walking it                                   *)

\* The name a path's segment has below a node: digits count in lists only.
NameBelow(node, segment) ==
    IF node.kind = "list" /\ segment \in DOMAIN Index THEN Index[segment] ELSE segment

\* The path names a position: they are as long, and agree at every node on the way.
Names(json, path, position) ==
    /\ Len(path) = Len(position)
    /\ \A i \in 1 .. Len(path) :
         position[i] = NameBelow(json[SubSeq(position, 1, i - 1)], path[i])

\* What a user asks of a message by filling in filters.
Wanted(message, filter) ==
    /\ filter.key_contains \in message.key \cup {""}
    /\ filter.value_contains \in message.value \cup {""}
    /\ filter.header_key = "" \/
         {h.name : h \in {g \in message.headers :
                            filter.header_value \in g.value \cup {""}}}
           \cap {filter.header_key} # {}
    /\ filter.json_path = << >> \/
         \E p \in DOMAIN message.json :
           /\ Names(message.json, filter.json_path, p)
           /\ message.json[p].kind # "null"
           /\ filter.json_value \in message.json[p].text \cup {""}
=============================================================================
