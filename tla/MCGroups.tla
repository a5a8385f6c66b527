------------------------------ MODULE MCGroups ------------------------------
(* Small instances of Groups for TLC.                                      *)
EXTENDS Groups

View == [kind |-> "view", write |-> FALSE, confirmed |-> FALSE, wellFormed |-> TRUE,
         topic |-> Topic, partition |-> AnyPartition, target |-> "earliest",
         timestamp |-> "readable", offset |-> NoOffset]

Reset  == [View EXCEPT !.kind = "reset", !.write = TRUE, !.confirmed = TRUE]
Delete == [Reset EXCEPT !.kind = "delete"]

\* Each way to reset or delete a group and each way to be turned away.
MCOps ==
    { View, Reset, Delete,
      [Reset EXCEPT !.target = "latest"],
      [Reset EXCEPT !.target = "timestamp"],
      [Reset EXCEPT !.target = "offset", !.partition = 0, !.offset = 1],
      [Reset EXCEPT !.target = "offset", !.partition = 1, !.offset = -2],
      [Reset EXCEPT !.target = "offset", !.offset = 1],
      [Reset EXCEPT !.target = "offset", !.partition = 0],
      [Reset EXCEPT !.target = "unknown"],
      [Reset EXCEPT !.target = "timestamp", !.timestamp = "unreadable"],
      [Reset EXCEPT !.wellFormed = FALSE],
      [Reset EXCEPT !.partition = 7],
      [Reset EXCEPT !.topic = "gone"],
      [Reset EXCEPT !.write = FALSE],
      [Reset EXCEPT !.confirmed = FALSE],
      [Delete EXCEPT !.confirmed = FALSE] }

MCLate == {<<0, 0>>, <<0, 1>>, <<1, 1>>}
=============================================================================
