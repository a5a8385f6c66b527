----------------------------- MODULE MCReaders ------------------------------
(***************************************************************************)
(* Small instances of LiveTail and Resend for TLC, on one topic: a browser *)
(* that watches it, and one that looks at a message of it.  Neither writes *)
(* to the topic, so what either sees is what it would see alone, and it is *)
(* enough that one of them is still at its start.                          *)
(***************************************************************************)
EXTENDS LiveTail, Resend

All == [topic |-> Topic, partition |-> AnyPartition]

MCRequests ==
    { All,
      [All EXCEPT !.partition = 1],
      [All EXCEPT !.partition = 7],
      [All EXCEPT !.topic = "gone"] }

MCMatching == {<<0, 0>>, <<0, 1>>, <<1, 1>>, <<1, 2>>}

\* The first record, the one after it, one that is not written yet, and a partition
\* that does not exist.
MCAsked == {<<0, 0>>, <<0, 1>>, <<1, 2>>, <<7, 0>>}

TailAtStart == pc = "list_topics" /\ ~disconnected
FormAtStart == formPc = "topic"

\* A change of the log, of which the form remembers whether its record was there.
LogChanges ==
    /\ LogNext
    /\ UNCHANGED <<tailVars, coordinate, formPc, formPosition, prefill, answer, beyond>>
    /\ lost' = (lost \/ ~There')

MCNext ==
    \/ FormAtStart /\ TailStep /\ UNCHANGED <<logVars, formVars>>
    \/ FormAtStart /\ (\E p \in Partitions : Reset(p)) /\ UNCHANGED <<logVars, formVars>>
    \/ FormAtStart /\ Disconnect /\ UNCHANGED <<logVars, formVars>>
    \/ TailAtStart /\ FormStep /\ UNCHANGED <<logVars, tailVars>>
    \/ TailAtStart /\ FormReset /\ UNCHANGED <<logVars, tailVars>>
    \/ LogChanges

\* While the form asks for a message that may be there, the tail has nothing to read.
MCInit ==
    /\ Init
    /\ FormInit
    /\ coordinate = <<7, 0>> \/ spec.topic = "gone"

MCSpec == MCInit /\ [][MCNext]_<<vars, formVars>> /\ Fairness
=============================================================================
