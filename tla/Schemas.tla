------------------------------ MODULE Schemas -------------------------------
(***************************************************************************)
(* The schema caches behind every decoded key and value: the client of     *)
(* app/services/schema_registry.py and decode() of app/services/decode.py. *)
(*                                                                         *)
(* Scans, tails and forms decode on worker threads.  A client, one for     *)
(* each registry, caches what the registry said of an id, under a lock it  *)
(* does not hold while it asks.  The parsed Avro schemas are cached once   *)
(* more, for all registries together and without a lock.                   *)
(*                                                                         *)
(* A registry never changes an id, it only adds some; but a client may ask *)
(* for an id the registry does not have yet, because any payload that      *)
(* starts with a zero byte looks like an encoded one.                      *)
(*                                                                         *)
(* Left out: the bytes of the payloads.  What counts is the schema they    *)
(* are read with, and that a body may not fit even its own schema.         *)
(***************************************************************************)
EXTENDS Naturals, FiniteSets

CONSTANTS
    Workers,      \* the threads that decode
    Registries,   \* the registries of the clusters, a (url, auth) pair each
    Ids,          \* schema ids
    Avro,         \* schemas of type AVRO
    Others,       \* schemas of type JSON and PROTOBUF
    None,         \* schema_by_id returned None
    Unasked,      \* the id is not in the cache
    MaxDecodes    \* bound: payloads decoded by all threads together

Registered == Avro \cup Others

ASSUME SchemasAssumption ==
    /\ IsFiniteSet(Workers)
    /\ Avro \cap Others = {}
    /\ {None, Unasked} \cap Registered = {}
    /\ None # Unasked
    /\ MaxDecodes \in Nat

VARIABLES
    content,      \* content[r][i]: what registry r has under id i, or None
    cache,        \* client._cache of the client of r
    parsed,       \* _avro_cache
    pc,           \* the point its thread is at, for each worker
    payload,      \* payload[w]: the registry and the id in the header
    schema,       \* schema[w]: what schema_by_id returned
    reader,       \* reader[w]: the schema the body was read with, or None
    left,         \* payloads still to be decoded
    fetches       \* history: how often an id's answer was stored

workerVars == <<pc, payload, schema, reader, left>>
vars == <<content, cache, parsed, workerVars, fetches>>

Reg(w) == payload[w][1]
Id(w)  == payload[w][2]

-----------------------------------------------------------------------------
Init ==
    /\ content \in [Registries -> [Ids -> Registered \cup {None}]]
    /\ cache = [r \in Registries |-> [i \in Ids |-> Unasked]]
    /\ parsed = [i \in Ids |-> Unasked]
    /\ pc = [w \in Workers |-> "idle"]
    /\ payload \in [Workers -> Registries \X Ids]
    /\ schema = [w \in Workers |-> None]
    /\ reader = [w \in Workers |-> None]
    /\ left = MaxDecodes
    /\ fetches = [r \in Registries |-> [i \in Ids |-> 0]]

Goto(w, label) == pc' = [pc EXCEPT ![w] = label]

\* decode() was handed a payload with the magic byte; others need no schema.
Receive(w, r, i) ==
    /\ pc[w] = "idle"
    /\ left > 0
    /\ left' = left - 1
    /\ payload' = [payload EXCEPT ![w] = <<r, i>>]
    /\ schema' = [schema EXCEPT ![w] = None]
    /\ reader' = [reader EXCEPT ![w] = None]
    /\ Goto(w, "lookup")
    /\ UNCHANGED <<content, cache, parsed, fetches>>

-----------------------------------------------------------------------------
(* schema_by_id                                                            *)

\* Mutant: only schemas count as cached, failures do not.
CachedSchemas(r, i) == cache[r][i] \in Registered

Cached(r, i) == cache[r][i] # Unasked

\* The first locked section.
Lookup(w) ==
    /\ pc[w] = "lookup"
    /\ IF Cached(Reg(w), Id(w))
         THEN /\ schema' = [schema EXCEPT ![w] = cache[Reg(w)][Id(w)]]
              /\ Goto(w, "found")
         ELSE Goto(w, "fetch") /\ UNCHANGED schema
    /\ UNCHANGED <<content, cache, parsed, payload, reader, left, fetches>>

\* GET /schemas/ids/<id>, without the lock.
Fetch(w) ==
    /\ pc[w] = "fetch"
    /\ schema' = [schema EXCEPT ![w] = content[Reg(w)][Id(w)]]
    /\ Goto(w, "store")
    /\ UNCHANGED <<content, cache, parsed, payload, reader, left, fetches>>

\* Mutant: a failed request leaves the id as it was.
ForgetFailure(w) == Goto(w, "store") /\ schema' = [schema EXCEPT ![w] = Unasked]

\* A failure counts as "the registry does not have it".
TakeForNone(w) == Goto(w, "store") /\ schema' = [schema EXCEPT ![w] = None]

\* The registry is slow, down, or answers an error status or no JSON.
FetchFails(w) ==
    /\ pc[w] = "fetch"
    /\ TakeForNone(w)
    /\ UNCHANGED <<content, cache, parsed, payload, reader, left, fetches>>

\* An exception schema_by_id does not expect ends the request that decodes.
FetchRaises(w) ==
    /\ pc[w] = "fetch"
    /\ Goto(w, "idle")
    /\ UNCHANGED <<content, cache, parsed, payload, schema, reader, left, fetches>>

\* Mutant: an id is stored whichever registry it was asked from.
StoreForAll(w) == [r \in Registries |-> [cache[r] EXCEPT ![Id(w)] = schema[w]]]

StoreForOwn(w) == [cache EXCEPT ![Reg(w)][Id(w)] = schema[w]]

\* The second locked section.
Store(w) ==
    /\ pc[w] = "store"
    /\ cache' = StoreForOwn(w)
    /\ fetches' = [fetches EXCEPT ![Reg(w)][Id(w)] = @ + 1]
    /\ Goto(w, "found")
    /\ UNCHANGED <<content, parsed, payload, schema, reader, left>>

-----------------------------------------------------------------------------
(* _decode_registry and _decode_avro                                       *)

\* A body is read with schema s, or does not fit it.
Read(w, s) ==
    /\ reader' = [reader EXCEPT ![w] = s] \/ UNCHANGED reader
    /\ Goto(w, "idle")

\* Without a schema the payload is shown as text or base64.
ShowRaw(w) ==
    /\ pc[w] = "found"
    /\ schema[w] = None
    /\ Goto(w, "idle")
    /\ UNCHANGED <<content, cache, parsed, payload, schema, reader, left, fetches>>

ReadOther(w) ==
    /\ pc[w] = "found"
    /\ schema[w] \in Others
    /\ Read(w, schema[w])
    /\ UNCHANGED <<content, cache, parsed, payload, schema, left, fetches>>

\* _avro_cache.get(schema_id)
ReadAvro(w) ==
    /\ pc[w] = "found"
    /\ schema[w] \in Avro
    /\ IF parsed[Id(w)] = Unasked
         THEN Goto(w, "parse") /\ UNCHANGED reader
         ELSE Read(w, parsed[Id(w)])
    /\ UNCHANGED <<content, cache, parsed, payload, schema, left, fetches>>

\* Mutant: the schema lands under every id.
KeepEverywhere(w) == [i \in Ids |-> schema[w]]

Keep(w) == [parsed EXCEPT ![Id(w)] = schema[w]]

\* parse_schema, and the assignment to _avro_cache; a schema that does not parse
\* is kept nowhere.
ParseAvro(w) ==
    /\ pc[w] = "parse"
    /\ \/ parsed' = Keep(w) /\ Read(w, schema[w])
       \/ Goto(w, "idle") /\ UNCHANGED <<parsed, reader>>
    /\ UNCHANGED <<content, cache, payload, schema, left, fetches>>

-----------------------------------------------------------------------------
\* EXTERNAL: a schema is registered under a new id.
Register(r, i, s) ==
    /\ content[r][i] = None
    /\ content' = [content EXCEPT ![r][i] = s]
    /\ UNCHANGED <<cache, parsed, workerVars, fetches>>

Step(w) ==
    \/ Lookup(w) \/ Fetch(w) \/ FetchFails(w) \/ FetchRaises(w) \/ Store(w)
    \/ ShowRaw(w) \/ ReadOther(w) \/ ReadAvro(w) \/ ParseAvro(w)

Next ==
    \/ \E w \in Workers, r \in Registries, i \in Ids : Receive(w, r, i)
    \/ \E w \in Workers : Step(w)
    \/ \E r \in Registries, i \in Ids, s \in Registered : Register(r, i, s)

Spec == Init /\ [][Next]_vars

-----------------------------------------------------------------------------
(* Properties                                                              *)

\* Every variable has its type.
TypeOK ==
    /\ content \in [Registries -> [Ids -> Registered \cup {None}]]
    /\ cache \in [Registries -> [Ids -> Registered \cup {None, Unasked}]]
    /\ parsed \in [Ids -> Avro \cup {Unasked}]
    /\ pc \in [Workers -> {"idle", "lookup", "fetch", "store", "found", "parse"}]
    /\ payload \in [Workers -> Registries \X Ids]
    /\ schema \in [Workers -> Registered \cup {None}]
    /\ reader \in [Workers -> Registered \cup {None}]
    /\ left \in 0 .. MaxDecodes
    /\ fetches \in [Registries -> [Ids -> Nat]]

\* "Schemas are immutable by id, so results are cached": a cached schema is the
\* one the registry has, however the threads that asked for it raced.
CacheTruthful ==
    \A r \in Registries, i \in Ids :
        cache[r][i] \in Registered => cache[r][i] = content[r][i]

\* "A failed lookup is cached too, to stop a topic full of non-registry binary
\* from hammering the registry": an id costs a registry at most one answered
\* request per thread, those that raced for the first one, however many payloads
\* carry it.
RegistryNotHammered ==
    \A r \in Registries, i \in Ids : fetches[r][i] <= Cardinality(Workers)

\* A body is read with the schema its registry has under its id -- or, the parsed
\* schemas being shared, with what another registry has under that id.
ReadWithItsId ==
    \A w \in Workers : reader[w] # None =>
        \/ reader[w] = content[Reg(w)][Id(w)]
        \/ /\ content[Reg(w)][Id(w)] \in Avro
           /\ \E r \in Registries \ {Reg(w)} : reader[w] = content[r][Id(w)]

\* Encoded payloads "are decoded against the registry" of their own cluster.
ReadWithOwnSchema ==
    \A w \in Workers : reader[w] # None => reader[w] = content[Reg(w)][Id(w)]
=============================================================================
