------------------------------ MODULE Decoding ------------------------------
(***************************************************************************)
(* decode() of app/services/decode.py as a whole: payloads arrive as bytes *)
(* that an encoder with the registry's schema wrote, Schemas finds the     *)
(* schema for the id in their header, and Wire reads them.                 *)
(*                                                                         *)
(* A payload may have been cut off behind its header.  What the walk finds *)
(* is kept as the fields in order; decode_protobuf puts them into a dict.  *)
(*                                                                         *)
(* Left out: the bytes of Avro and JSON bodies, as in Schemas.             *)
(***************************************************************************)
EXTENDS Schemas, Wire

CONSTANTS
    Protobuf,     \* schemas of type PROTOBUF
    Paths         \* bound: the messages of a schema that payloads are of

ASSUME DecodingAssumption ==
    /\ Protobuf \subseteq Others
    /\ Ids \subseteq 0 .. MaxId
    /\ \A path \in Paths :
         /\ path \in Seq(Nat)
         /\ \A n \in {Len(path)} \cup ToSet(path) : Fits(2 * n, Base, MaxGroups)

VARIABLES
    body,         \* body[w]: the bytes after the header
    shown,        \* shown[w]: the fields that were found in them, {} if they were refused
    sent          \* history: what worker w's payload is of

decodingVars == <<vars, body, shown, sent>>

DInit ==
    /\ Init
    /\ body = [w \in Workers |-> << >>]
    /\ shown = [w \in Workers |-> {}]
    /\ sent = [w \in Workers |-> << >>]

\* A message was encoded, and its first bytes at least were kept.
Arrive(w, r, id, path, message) ==
    LET bytes == PutIndex(path) \o Put(message) IN
    \E kept \in 0 .. Len(bytes) :
        \E h \in SplitHeader(First(_header(id) \o bytes, 1 + IdBytes + kept)) :
            /\ Receive(w, r, h.id)
            /\ body' = [body EXCEPT ![w] = h.body]
            /\ sent' = [sent EXCEPT ![w] = [id |-> id, path |-> path, message |-> message,
                                            whole |-> kept = Len(bytes)]]
            /\ UNCHANGED shown

\* decode_protobuf(_strip_protobuf_index(body)), or the exception it raises.
ShowProtobuf(w) ==
    /\ schema[w] \in Protobuf
    /\ ReadOther(w)
    /\ shown' = [shown EXCEPT ![w] = UNION {Walk[d] : d \in _strip_protobuf_index(body[w])}]
    /\ reader'[w] = None <=> shown'[w] = {}
    /\ UNCHANGED <<body, sent>>

\* The other steps of a thread know nothing of protobuf.
OtherStep(w) ==
    /\ ~(pc[w] = "found" /\ schema[w] \in Protobuf)
    /\ Step(w)
    /\ UNCHANGED <<body, shown, sent>>

DNext ==
    \/ \E w \in Workers, r \in Registries, id \in Ids, path \in Paths, message \in Messages :
         Arrive(w, r, id, path, message)
    \/ \E w \in Workers : ShowProtobuf(w) \/ OtherStep(w)
    \/ \E r \in Registries, i \in Ids, s \in Registered :
         Register(r, i, s) /\ UNCHANGED <<body, shown, sent>>

DSpec == DInit /\ [][DNext]_decodingVars

-----------------------------------------------------------------------------
(* Properties                                                              *)

\* The thread has read its payload with a protobuf schema.
HasShown(w) == pc[w] = "idle" /\ schema[w] \in Protobuf

\* The fields as the page should show them.
Meaning(message) == [i \in DOMAIN message |-> Meant[message[i]]]

\* Fields that the message has, in its order; the value of the last one may be short.
Honest(fields, message) ==
    /\ Len(fields) <= Len(message)
    /\ \A i \in DOMAIN fields :
         /\ fields[i][1] = message[i].no
         /\ i < Len(fields) => fields[i] = Meant[message[i]]

\* "The values are real": a payload is looked up under the id it was encoded with,
\* and the walk shows the fields that were put into it, nested messages included and
\* no others; one that was cut off is refused or shows some of its fields, with only
\* the last value in doubt.  The fields are those of the first message of a schema,
\* whose index is "encoded as a lone 0x00": the index of another one has zigzag
\* numbers, read here as plain ones, so that its walk starts at the wrong byte.
ShownIsSent ==
    \A w \in Workers : HasShown(w) =>
        /\ Id(w) = sent[w].id
        /\ sent[w].path = <<0>> =>
             /\ sent[w].whole => shown[w] = {Meaning(sent[w].message)}
             /\ \A fields \in shown[w] : Honest(fields, sent[w].message)
=============================================================================
