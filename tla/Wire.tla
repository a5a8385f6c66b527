-------------------------------- MODULE Wire --------------------------------
(***************************************************************************)
(* Bytes of encoded payloads: the registry header that app/services/       *)
(* encode.py writes and app/services/decode.py reads, and the walk of the  *)
(* protobuf wire format in decode.py.                                      *)
(*                                                                         *)
(* What may fail is a set: empty when the code raises, and otherwise the   *)
(* set of its one result.  The code's position in the bytes is the suffix  *)
(* still to be read; Python's slices end where the bytes end, and so do    *)
(* these.  Sizes of the format are constants, small enough for TLC; the    *)
(* code's are in brackets.                                                 *)
(*                                                                         *)
(* Left out: fastavro and json, which read and write the other bodies.     *)
(***************************************************************************)
EXTENDS Integers, Sequences, SequencesExt

CONSTANTS
    Base,         \* values of a varint group; the next bit says "more" [128]
    MaxGroups,    \* groups of the longest varint [10]
    Wires,        \* wire types a tag tells apart [8]
    Wide, Narrow, \* bytes of a fixed number of wire type 1 and 5 [8, 4]
    IdBytes,      \* bytes of a schema id [4]
    Characters,   \* the bytes of each character of UTF-8
    Printable,    \* the characters isprintable() accepts
    Blanks,       \* newline, tab and space
    MaxId,        \* bound: schema ids tried
    Fields,       \* bound: the fields messages are made of
    MaxFields     \* bound: fields of a message

Bytes == 0 .. 2 * Base - 1

First(s, n) == SubSeq(s, 1, IF n < Len(s) THEN n ELSE Len(s))
Rest(s, n)  == SubSeq(s, n + 1, Len(s))

\* Digits in the given base, the lowest first.
Number(digits, base) ==
    LET from[i \in 0 .. Len(digits)] ==
          IF i = 0 THEN 0 ELSE digits[Len(digits) + 1 - i] + base * from[i - 1]
    IN  from[Len(digits)]

\* What is left of n without its lowest digits.
Shift(n, base, digits) ==
    LET above[i \in Nat] == IF i = 0 THEN n ELSE above[i - 1] \div base
    IN  above[digits]

Digits(n, base, size) == [i \in 1 .. size |-> Shift(n, base, i - 1) % base]

Fits(n, base, size) == Shift(n, base, size) = 0

\* Bytes that somebody wrote as text, one character after the other.
Written(bytes) ==
    \E chars \in SeqOf(Characters, Len(bytes)) :
        /\ FlattenSeq(chars) = bytes
        /\ ToSet(chars) \subseteq Printable \/ ToSet(chars) \cap Blanks # {}

\* Bytes that nobody takes for text or for a message: one of them is part of no
\* character, and no tag ends in them or the first one has an unknown wire type.
Opaque(bytes) ==
    /\ \E i \in DOMAIN bytes : \A char \in Characters : bytes[i] \notin ToSet(char)
    /\ \/ \A i \in DOMAIN bytes : bytes[i] >= Base
       \/ bytes[1] < Base /\ bytes[1] % Wires \notin {0, 1, 2, 5}

\* What a message is made of: a number that its wire type can hold, or bytes.
WireField(f) ==
    /\ f.no \in Nat
    /\ Fits(f.no * Wires + f.wire, Base, MaxGroups)
    /\ \/ f.wire = 0 /\ f.is = "number" /\ f.of \in Nat /\ Fits(f.of, Base, MaxGroups)
       \/ f.wire = 1 /\ f.is = "number" /\ f.of \in Nat /\ Fits(f.of, 2 * Base, Wide)
       \/ f.wire = 5 /\ f.is = "number" /\ f.of \in Nat /\ Fits(f.of, 2 * Base, Narrow)
       \/ /\ f.wire = 2 /\ f.of \in Seq(Bytes) /\ Fits(Len(f.of), Base, MaxGroups)
          /\ f.is \in {"text", "bytes", "message"}
          /\ f.is = "text" => Written(f.of)
          /\ f.is = "bytes" => Opaque(f.of)

-----------------------------------------------------------------------------
(* The header                                                              *)

_header(id) == <<0>> \o Reverse(Digits(id, 2 * Base, IdBytes))

\* decode() takes bytes for encoded ones if they are long enough and start with
\* the magic byte; _decode_registry splits them.
SplitHeader(raw) ==
    IF Len(raw) >= 1 + IdBytes /\ raw[1] = 0
      THEN {[id   |-> Number(Reverse(First(Rest(raw, 1), IdBytes)), 2 * Base),
             body |-> Rest(raw, 1 + IdBytes)]}
      ELSE {}

-----------------------------------------------------------------------------
(* The protobuf walk                                                       *)

\* Mutant: a number that the bytes end in the middle of is taken as it is.
VarintCutShort(data) ==
    LET n == SelectInSeq(data \o <<0>>, LAMBDA b : b < Base)
    IN  {[value |-> Number([i \in 1 .. Len(First(data, n)) |-> data[i] % Base], Base),
          rest  |-> Rest(data, n)]}

\* The first byte without the "more" bit ends the number.
_read_varint(data) ==
    LET n == SelectInSeq(data, LAMBDA b : b < Base)
    IN  IF n \in 1 .. MaxGroups
          THEN {[value |-> Number([i \in 1 .. n |-> data[i] % Base], Base),
                 rest  |-> Rest(data, n)]}
          ELSE {}

\* The message index: a count, then that many varints.
_strip_protobuf_index(body) ==
    LET after(count, data) ==
          LET skip[i \in 0 .. count] ==
                IF i = 0 THEN {data}
                ELSE UNION {{v.rest : v \in _read_varint(d)} : d \in skip[i - 1]}
          IN  skip[count]
    IN  UNION {after(c.value, c.rest) : c \in _read_varint(body)}

\* The dict: all values of a field, in order; one value stands for itself.
Collect(fields) ==
    [n \in {f[1] : f \in ToSet(fields)} |->
       [i \in 1 .. Len(SelectSeq(fields, LAMBDA f : f[1] = n)) |->
          SelectSeq(fields, LAMBDA f : f[1] = n)[i][2]]]

\* What the bytes mean, if the walk finds fields in them.
decode_protobuf(walk, data) == {Collect(fields) : fields \in walk[data]}

\* The parts that bytes fall into at these positions.
Parts(chunk, ends) ==
    {SubSeq(chunk, p[1] + 1, p[2]) :
       p \in {q \in ends \X ends : q[1] < q[2] /\ \A e \in ends : e <= q[1] \/ q[2] <= e}}

\* The bytes are UTF-8, and printable or with a blank.
IsText(chunk) ==
    \E ends \in SUBSET (0 .. Len(chunk)) :
        /\ {0, Len(chunk)} \subseteq ends
        /\ Parts(chunk, ends) \subseteq Characters
        /\ Parts(chunk, ends) \subseteq Printable \/ Parts(chunk, ends) \cap Blanks # {}

_decode_length_delimited(walk, chunk) ==
    IF IsText(chunk) THEN <<"text", chunk>>
    ELSE IF decode_protobuf(walk, chunk) # {}
      THEN <<"nested", CHOOSE m \in decode_protobuf(walk, chunk) : TRUE>>
      ELSE <<"bytes", chunk>>

Fixed(data, size) == {[value |-> <<"number", Number(First(data, size), 2 * Base)>>,
                       rest  |-> Rest(data, size)]}

\* The value of a field, by its wire type.
ReadValue(walk, wire, data) ==
    CASE wire = 0 -> {[v EXCEPT !.value = <<"number", @>>] : v \in _read_varint(data)}
      [] wire = 1 -> Fixed(data, Wide)
      [] wire = 2 -> {[value |-> _decode_length_delimited(walk, First(v.rest, v.value)),
                       rest  |-> Rest(v.rest, v.value)] : v \in _read_varint(data)}
      [] wire = 5 -> Fixed(data, Narrow)
      [] OTHER -> {}

\* The fields in order, as <<number, value>> pairs; a nested message is walked too.
Walk[data \in Seq(Bytes)] ==
    IF data = << >> THEN {<< >>}
    ELSE UNION {UNION {{<<<<tag.value \div Wires, v.value>>>> \o fields : fields \in Walk[v.rest]} :
                         v \in ReadValue(Walk, tag.value % Wires, tag.rest)} :
                  tag \in _read_varint(data)}

-----------------------------------------------------------------------------
(* What an encoder that knows its schema puts into the bytes               *)

\* As few groups as hold the number, all but the last marked.
Groups(n) == Min({k \in 1 .. MaxGroups : Fits(n, Base, k)})

PutVarint(n) ==
    [i \in 1 .. Groups(n) |->
       Digits(n, Base, Groups(n))[i] + (IF i < Groups(n) THEN Base ELSE 0)]

PutField(f) ==
    PutVarint(f.no * Wires + f.wire) \o
      CASE f.wire = 0 -> PutVarint(f.of)
        [] f.wire = 1 -> Digits(f.of, 2 * Base, Wide)
        [] f.wire = 2 -> PutVarint(Len(f.of)) \o f.of
        [] f.wire = 5 -> Digits(f.of, 2 * Base, Narrow)

Put(message) == FlattenSeq([i \in DOMAIN message |-> PutField(message[i])])

\* Which message of the schema this is: the numbers that lead to it, with a zigzag
\* that makes room for a sign; the first message is a lone zero.
PutIndex(path) ==
    IF path = <<0>> THEN <<0>>
    ELSE PutVarint(2 * Len(path)) \o
           FlattenSeq([i \in DOMAIN path |-> PutVarint(2 * path[i])])

Messages == UNION {[1 .. n -> Fields] : n \in 0 .. MaxFields}

\* A field as the page should show it.  Of bytes that may be a message or text
\* "prefer a clean text reading".
Meant[f \in Fields] ==
    <<f.no,
      IF f.is # "message" THEN <<f.is, f.of>>
      ELSE IF IsText(f.of) THEN <<"text", f.of>>
      ELSE LET m == CHOOSE m \in Messages : Put(m) = f.of
           IN  <<"nested", Collect([i \in DOMAIN m |-> Meant[m[i]]])>> >>

ASSUME WireAssumption ==
    /\ {Base, MaxGroups, Wires, Wide, Narrow, IdBytes} \subseteq Nat
    /\ Base > 1 /\ MaxGroups > 0 /\ Wires > 5 /\ Wide > 0 /\ Narrow > 0
    /\ MaxId \in Nat /\ \A id \in 0 .. MaxId : Fits(id, 2 * Base, IdBytes)
    /\ << >> \notin Characters /\ Printable \cup Blanks \subseteq Characters
    /\ Characters \subseteq Seq(Bytes)
    /\ MaxFields \in Nat
    /\ \A f \in Fields : WireField(f)
    /\ \A f \in Fields : f.is = "message" => \E m \in Messages : Put(m) = f.of
=============================================================================
