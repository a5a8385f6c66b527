-------------------------------- MODULE Page --------------------------------
(***************************************************************************)
(* The script of the messages page, app/templates/messages.html, at the    *)
(* other end of /scan and /tail.                                           *)
(*                                                                         *)
(* The server's side of a connection is what HitStream promises, which     *)
(* Scan and LiveTail implement.  The browser's side is an EventSource: it  *)
(* connects again by itself whenever the connection ends and the script    *)
(* has not closed it, gives up only when an answer is not a stream, and    *)
(* says nothing more once it is closed.  A search that is connected again  *)
(* runs again.                                                             *)
(*                                                                         *)
(* Left out: progress lines, the wording of the status, scrolling.         *)
(***************************************************************************)
EXTENDS Integers, Sequences, FiniteSets

CONSTANTS
    Partitions,   \* of the topic
    MaxHigh,      \* bound: records of a partition
    Matching,     \* the records that pass the filters of the form
    Limit,        \* "stop after" of the form
    MaxResults,   \* the most results a live tail keeps, 500 in the script
    MaxSearches,  \* bound: searches and tails the user starts
    MaxDrops      \* bound: connections that break

Records == Partitions \X (0 .. MaxHigh - 1)

ASSUME PageAssumption ==
    /\ MaxHigh \in Nat
    /\ Matching \subseteq Records
    /\ {Limit, MaxResults, MaxSearches} \subseteq Nat \ {0}
    /\ MaxDrops \in Nat
    /\ IsFiniteSet(Partitions)

VARIABLES
    end,          \* end[p]: the end of partition p
    source,       \* the script's source: "none", "scan" or "tail"
    ready,        \* its readyState
    running,      \* setRunning: Stop is shown, Search and Live tail are disabled
    results,      \* the records on the page, each with the connection it came by
    status,       \* the kind of the last status line
    conn,         \* connections opened so far
    first,        \* the first of them that belongs to the source
    wire,         \* events sent on the connection and not dispatched
    sent,         \* hits the server has sent on it
    limit,        \* the most it will send; of a tail more than there is
    final,        \* its final event
    from,         \* from[p]: where p ended when the connection was made
    drops         \* connections that broke

serverVars == <<sent, limit, final>>
scriptVars == <<source, ready, running, results, status>>
pageVars == <<end, scriptVars, conn, first, wire, serverVars, from, drops>>

Server == INSTANCE HitStream WITH matching <- Matching, shown <- sent

-----------------------------------------------------------------------------
(* The script                                                              *)

\* new EventSource, with an empty list of results.  stopScan comes first and closes
\* the source there was, if any, so that there is never a second one whose events
\* would still be dispatched.
NewSource(kind) ==
    /\ source' = kind
    /\ ready' = "connecting"
    /\ running' = TRUE
    /\ results' = << >>
    /\ status' = kind
    /\ first' = conn + 1
    /\ wire' = << >>

\* The page is rendered and lands on a search.
PageInit ==
    /\ end \in [Partitions -> 0 .. MaxHigh]
    /\ source = "scan"
    /\ ready = "connecting"
    /\ running = TRUE
    /\ results = << >>
    /\ status = "scan"
    /\ conn = 0
    /\ first = 1
    /\ wire = << >>
    /\ sent = << >>
    /\ limit = Limit
    /\ final = "none"
    /\ from = [p \in Partitions |-> 0]
    /\ drops = 0

\* The buttons are disabled while a source runs.
StartSource(kind) ==
    /\ ~running
    /\ conn < MaxSearches
    /\ NewSource(kind)
    /\ UNCHANGED <<end, conn, serverVars, from, drops>>

\* Mutant: the source is not closed.
StopButtons ==
    /\ running' = FALSE
    /\ UNCHANGED <<source, ready>>

\* stopScan; a closed source dispatches nothing any more.
StopScan ==
    /\ source' = "none"
    /\ ready' = "closed"
    /\ running' = FALSE

Stop ==
    /\ running
    /\ StopScan
    /\ wire' = << >>
    /\ UNCHANGED <<end, results, status, conn, first, serverVars, from, drops>>

\* Mutant: results pile up.
KeepAll(s) == s

\* The oldest results of a tail make room.
KeepNewest(s) == IF Len(s) > MaxResults THEN Tail(s) ELSE s

OnHit ==
    /\ Head(wire).event = "hit"
    /\ results' = LET s == Append(results, [record |-> Head(wire).record, conn |-> conn])
                  IN IF source = "tail" THEN KeepNewest(s) ELSE s
    /\ wire' = Tail(wire)
    /\ UNCHANGED <<source, ready, running, status>>

\* The listeners of a final event; a tail has none for "done".
OnFinal ==
    /\ Head(wire).event \in {"done", "failed"}
    /\ IF source = "tail" /\ Head(wire).event = "done"
         THEN UNCHANGED <<source, ready, running, status>>
         ELSE StopScan /\ status' = Head(wire).event
    /\ wire' = IF ready' = "closed" THEN << >> ELSE Tail(wire)
    /\ UNCHANGED results

\* Mutant: a lost connection is not cleared up.
LostOnly == status' = "lost" /\ UNCHANGED <<source, running>>

\* onerror, with the readyState closed.
Lost ==
    /\ status' = "lost"
    /\ source' = "none"
    /\ running' = FALSE

-----------------------------------------------------------------------------
(* EXTERNAL: the EventSource, the network and the topic                    *)

\* The stream ends and nobody closed the source: onerror finds it connecting.
OnEnd ==
    /\ Head(wire).event = "end"
    /\ ready' = "connecting"
    /\ wire' = << >>
    /\ UNCHANGED <<source, running, results, status>>

Dispatch ==
    /\ ready = "open"
    /\ wire # << >>
    /\ OnHit \/ OnFinal \/ OnEnd
    /\ UNCHANGED <<end, conn, first, serverVars, from, drops>>

\* A new connection is a new stream from the server.
Connect ==
    /\ ready = "connecting"
    /\ ready' = "open"
    /\ conn' = conn + 1
    /\ sent' = << >>
    /\ final' = "none"
    /\ limit' = IF source = "scan" THEN Limit ELSE Cardinality(Records) + 1
    /\ from' = end
    /\ UNCHANGED <<end, source, running, results, status, first, wire, drops>>

\* The answer is an error page: nobody connects again.
Refused ==
    /\ ready = "connecting"
    /\ ready' = "closed"
    /\ Lost
    /\ UNCHANGED <<end, results, conn, first, wire, serverVars, from, drops>>

Drop ==
    /\ ready = "open"
    /\ drops < MaxDrops
    /\ drops' = drops + 1
    /\ ready' = "connecting"
    /\ wire' = << >>
    /\ UNCHANGED <<end, source, running, results, status, conn, first, serverVars, from>>

\* A step of the server goes out on the wire, with the end of the stream after the
\* final event.
Transmit(events) ==
    /\ wire' = wire \o events \o IF final' = "none" THEN << >> ELSE
                    <<[event |-> final'], [event |-> "end"]>>
    /\ UNCHANGED <<end, scriptVars, conn, first, from, drops>>

\* A search shows what is there, a tail what is new and without end.
ServerShows ==
    /\ ready = "open"
    /\ \E c \in Records :
         /\ c[2] < end[c[1]]
         /\ source = "tail" => c[2] >= from[c[1]]
         /\ Server!Show(c)
         /\ source = "tail" => final' = "none"
         /\ Transmit(<<[event |-> "hit", record |-> c]>>)

ServerFinishes ==
    /\ ready = "open"
    /\ \E f \in {"done", "failed"} :
         /\ source = "tail" => f = "failed"
         /\ Server!Finish(f)
         /\ Transmit(<< >>)

Produced(p) ==
    /\ end[p] < MaxHigh
    /\ end' = [end EXCEPT ![p] = @ + 1]
    /\ UNCHANGED <<scriptVars, conn, first, wire, serverVars, from, drops>>

PageNext ==
    \/ \E kind \in {"scan", "tail"} : StartSource(kind)
    \/ Stop \/ Dispatch \/ Connect \/ Refused \/ Drop
    \/ ServerShows \/ ServerFinishes
    \/ \E p \in Partitions : Produced(p)

PageSpec == PageInit /\ [][PageNext]_pageVars

\* Events are dispatched, a source keeps trying to connect, and a search ends, as
\* Scan shows.
PageFairSpec ==
    /\ PageSpec
    /\ WF_pageVars(Dispatch)
    /\ WF_pageVars(Connect \/ Refused)
    /\ WF_pageVars(source = "scan" /\ ServerFinishes)

-----------------------------------------------------------------------------
(* Properties                                                              *)

\* Every variable has its type, and a tail never shows more than its cap.
PageTypeOK ==
    /\ end \in [Partitions -> 0 .. MaxHigh]
    /\ source \in {"none", "scan", "tail"}
    /\ ready \in {"connecting", "open", "closed"}
    /\ running \in BOOLEAN
    /\ results \in Seq([record : Matching, conn : 1 .. conn])
    /\ source = "tail" => Len(results) <= MaxResults
    /\ status \in {"scan", "tail", "done", "failed", "lost"}
    /\ conn \in 0 .. MaxSearches + MaxDrops
    /\ first \in 1 .. MaxSearches + MaxDrops + 1
    /\ wire \in Seq([event : {"hit"}, record : Matching]
                  \cup [event : {"done", "failed", "end"}])
    /\ sent \in Seq(Matching)
    /\ limit \in Nat
    /\ final \in {"none", "done", "failed"}
    /\ from \in [Partitions -> 0 .. MaxHigh]
    /\ drops \in 0 .. MaxDrops

\* What is on the page belongs to the search the page is at.  The hits of its last
\* connection come last; they are the server's, in its order, from the first one on
\* unless a tail made room, and all of them once the page says "done"; hits are there
\* twice only if a search was connected again.
ShowsOneStream ==
    /\ \A i \in DOMAIN results : results[i].conn >= first
    /\ \A i, j \in DOMAIN results :
         i < j /\ results[i].record[1] = results[j].record[1] =>
             \/ results[i].record[2] < results[j].record[2]
             \/ results[i].conn < results[j].conn /\ status # "tail"
    /\ conn >= first => \E old \in 0 .. Len(results), m \in 0 .. Len(sent) :
         LET n == m + Len(results) - old IN
         /\ n <= Len(sent)
         /\ \A i \in DOMAIN results : results[i].conn = conn <=> i > old
         /\ \A i \in old + 1 .. Len(results) : results[i].record = sent[m + i - old]
         /\ m > 0 => Len(results) = MaxResults
         /\ status = "done" => m = 0 /\ n = Len(sent)
         /\ ready = "open" => \A i \in n + 1 .. Len(sent) :
              \E j \in DOMAIN wire : wire[j].event = "hit" /\ wire[j].record = sent[i]

\* A search comes to an end on the page, unless the user stops it first: the Stop
\* button never stays behind.
ScanSettles == source = "scan" ~> ~running
=============================================================================
