----------------------------- MODULE MCProduce ------------------------------
(* Small instances of Produce for TLC.                                     *)
EXTENDS Produce

TwoTexts == {"s1", "s2"}

As(format, register) == [format |-> format, register |-> register, schema |-> "s1"]

Plain == [write |-> TRUE, wellFormed |-> TRUE, headers |-> TRUE,
          key |-> As("raw", FALSE), value |-> As("raw", FALSE)]

TurnedAway == [Plain EXCEPT !.write = FALSE]

\* Each way to send and each way to be turned away.
MCSends ==
    { Plain,
      [Plain EXCEPT !.value = As("json", FALSE)],
      TurnedAway,
      [Plain EXCEPT !.wellFormed = FALSE],
      [Plain EXCEPT !.headers = FALSE] }

\* Each way to encode a key or a value, with the latest schema or one to register,
\* and fields that are encoded in different ways.
Encodings == {As(f, g) : f \in {"avro", "json"}, g \in BOOLEAN}
MCEncodings ==
    {[Plain EXCEPT !.key = e] : e \in Encodings} \cup
    {[Plain EXCEPT !.value = e] : e \in Encodings} \cup
    {[Plain EXCEPT !.key = As("avro", g), !.value = As("json", ~g)] : g \in BOOLEAN}

MCForms == MCSends \cup MCEncodings

\* Others disturb an encoding only through the registry, so one request with schemas
\* meets nobody that sends, and any two that send share the Producers and a registry
\* of one schema.
Sharing == \A r \in Requests : form[r] \in MCSends

Encoder == CHOOSE r \in Requests : TRUE

MCInit ==
    /\ Init
    /\ Sharing \/ \A q \in Requests \ {Encoder} : form[q] = TurnedAway

MCNext ==
    \/ \E r \in Requests : Step(r)
    \/ \E n \in Producers : BrokerWrites(n) \/ Delivered(n) \/ Refuses(n)
    \/ \E f \in Fields : OthersRegister(f) /\ (Sharing => Len(registry') = 1)

MCSpec == MCInit /\ [][MCNext]_vars /\ Fairness
=============================================================================
