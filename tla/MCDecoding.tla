----------------------------- MODULE MCDecoding -----------------------------
(* Small instances of Decoding for TLC.                                    *)
EXTENDS Decoding

\* One byte for the characters below Base, 30 and 31 in none, and two bytes for the
\* others.
Short == {<<b>> : b \in 0 .. Base - 1}
Long == {<<24, 16>>, <<24, 17>>, <<25, 16>>, <<25, 17>>}
MCCharacters == Short \cup Long
MCBlanks == {<<9>>, <<10>>}
MCPrintable == {<<b>> : b \in 11 .. Base - 1} \cup Long

NumberField(no, wire, n) == [no |-> no, wire |-> wire, is |-> "number", of |-> n]
BytesField(no, is, bytes) == [no |-> no, wire |-> 2, is |-> is, of |-> bytes]

\* A number of each wire type, one of them of two groups; texts that are empty, of
\* characters of both lengths, unprintable with a blank, and under a number whose
\* tag takes two bytes; a message, and one that reads as text; bytes that start with
\* a tag of an unknown wire type.
MCFields ==
    { NumberField(1, 0, 17), NumberField(2, 1, 40), NumberField(1, 5, 0),
      BytesField(1, "text", << >>), BytesField(3, "text", <<12, 24, 17>>),
      BytesField(2, "text", <<10, 1>>), BytesField(1, "text", <<12>>),
      BytesField(1, "message", <<8, 17, 1>>), BytesField(1, "message", <<10, 1, 12>>),
      BytesField(2, "bytes", <<11, 30>>) }

\* The first message of a schema, and another.
MCPaths == {<<0>>, <<1>>}

\* One of the ids is registered already.
MCInit ==
    /\ DInit
    /\ \A r \in Registries : content[r][MaxId] # None

MCSpec == MCInit /\ [][DNext]_decodingVars
=============================================================================
