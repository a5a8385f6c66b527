------------------------------- MODULE MCScan -------------------------------
(* Small instances of Scan for TLC.                                        *)
EXTENDS Scan, TLC

-----------------------------------------------------------------------------
(* The records                                                             *)

Node(kind, text) == [kind |-> kind, text |-> text]

\* {"id": 7, "tags": ["x", null]}
Order ==
    << >>            :> Node("dict", {"7", "x", "tags"}) @@
    <<"id">>         :> Node("scalar", {"7"}) @@
    <<"tags">>       :> Node("list", {"x"}) @@
    <<"tags", "0">>  :> Node("scalar", {"x"}) @@
    <<"tags", "1">>  :> Node("null", {})

\* ["7", {"0": "x"}]
Listing ==
    << >>       :> Node("list", {"7", "x"}) @@
    <<"0">>     :> Node("scalar", {"7"}) @@
    <<"1">>     :> Node("dict", {"x"}) @@
    <<"1", "0">> :> Node("scalar", {"x"})

NoJson == [position \in {} |-> Node("null", {})]

Header(name, text) == [name |-> name, value |-> text]

Empty == [key |-> {}, value |-> {}, headers |-> {}, json |-> NoJson]

\* What partition 0 and partition 1 hold, by offset.
MCContent ==
    <<0, 0>> :> Empty @@
    <<0, 1>> :> [Empty EXCEPT !.key = {"k"}, !.headers = {Header("h", {"x"})}] @@
    <<0, 2>> :> [Empty EXCEPT !.value = {"x"}] @@
    <<1, 0>> :> [key |-> {"k"}, value |-> {"7", "x", "tags"}, json |-> Order,
                 headers |-> {Header("h", {}), Header("g", {"x"})}] @@
    <<1, 1>> :> [key |-> {"k"}, value |-> {"7", "x"}, json |-> Listing,
                 headers |-> {Header("h", {}), Header("h", {"x"})}] @@
    <<1, 2>> :> [Empty EXCEPT !.key = {"k"}]

MCIndex == "0" :> "0" @@ "00" :> "0" @@ "1" :> "1"

-----------------------------------------------------------------------------
(* The requests                                                            *)

NoFilter == [key_contains |-> "", value_contains |-> "", header_key |-> "",
             header_value |-> "", json_path |-> << >>, json_value |-> ""]

ByKey == [NoFilter EXCEPT !.key_contains = "k"]

Path(path, wanted) == [NoFilter EXCEPT !.json_path = path, !.json_value = wanted]

\* Filters that tell a plain walk from a wrong one: off, alone and combined; a
\* null, a digit that names a key, a path that goes on below a leaf.
MCFilters ==
    { [NoFilter EXCEPT !.value_contains = "tags", !.json_value = "7"],
      [NoFilter EXCEPT !.header_key = "h", !.header_value = "x"],
      Path(<<"tags", "00">>, ""), Path(<<"tags", "1">>, ""), Path(<<"id", "0">>, ""),
      Path(<<"1", "0">>, "x"), Path(<<"1", "00">>, ""), Path(<<"0">>, "x") }

\* A plain request: every partition, from the earliest record.
Plain == [topic |-> Topic, partition |-> AnyPartition, start |-> "earliest",
          hasTimestamp |-> FALSE, lookback |-> 3, limit |-> 2, filter |-> ByKey]

\* Each way to plan a scan and each way to refuse one; a limit of zero, a
\* lookback that splits unevenly and a negative one; scans that read to the end,
\* as the limit is out of reach; and each filter.
MCSpecs ==
    { Plain,
      [Plain EXCEPT !.limit = 0],
      [Plain EXCEPT !.start = "latest"],
      [Plain EXCEPT !.start = "latest", !.lookback = -1, !.partition = 0],
      [Plain EXCEPT !.limit = 9, !.filter = NoFilter],
      [Plain EXCEPT !.limit = 9, !.start = "timestamp", !.hasTimestamp = TRUE],
      [Plain EXCEPT !.start = "timestamp"],
      [Plain EXCEPT !.partition = 7],
      [Plain EXCEPT !.topic = "gone"] } \cup
    { [Plain EXCEPT !.partition = 1, !.limit = 9, !.filter = f] : f \in MCFilters }

MCLate == {<<0, 1>>, <<0, 2>>, <<1, 2>>}
=============================================================================
