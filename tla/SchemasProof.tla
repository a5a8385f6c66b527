---------------------------- MODULE SchemasProof ----------------------------
(***************************************************************************)
(* What Schemas and Decoding promise, for every number of threads,         *)
(* registries and ids, and for every message within the sizes of the       *)
(* format.                                                                 *)
(*                                                                         *)
(* The caches are truthful because an answer travels from the registry     *)
(* into the cache untouched (InFlight) and a registry never changes an id. *)
(* The registry is not hammered because every thread that may still store  *)
(* an id began to ask before the first answer was stored (Racing).         *)
(*                                                                         *)
(* The bytes are read back in five steps.  Number undoes Digits, so a      *)
(* varint is read as what was put and none is read from a part of it.  The *)
(* recursive functions Walk and Meant satisfy their equations (WalkIs,     *)
(* MeantIs): bytes shrink under the walk, fields nest less deeply under    *)
(* their meaning.  By induction on the fields the walk of a message finds  *)
(* them all (MessageWalk), and by induction on the depth it shows what     *)
(* they mean (SeenIsMeant).  Where the bytes end inside a field, all that  *)
(* the walk can find in it is its number (FieldCut).  And bytes that were  *)
(* written as text are taken for text (TextIsText), bytes that nobody can  *)
(* take for anything are taken for bytes (OpaqueIsNoText,                  *)
(* OpaqueIsNoMessage).                                                     *)
(*                                                                         *)
(* A thread that is about to read a payload still has the id and the       *)
(* bytes it came with (DInv), so it shows what was sent.                   *)
(***************************************************************************)
EXTENDS Decoding, FiniteSetTheorems, SequenceTheorems, TLAPS

\* What a thread carries is what its registry has, or nothing.
InFlight ==
    \A w \in Workers :
        /\ schema[w] \in Registered => schema[w] = content[Reg(w)][Id(w)]
        /\ pc[w] = "parse" => schema[w] \in Avro

\* A parsed schema is that of some registry under its id.
ParsedTruthful ==
    \A i \in Ids : parsed[i] \in Avro => \E r \in Registries : content[r][i] = parsed[i]

DataInv == InFlight /\ CacheTruthful /\ ParsedTruthful /\ ReadWithItsId

\* The threads that are going to store an answer for id i of registry r.
Asking(r, i) ==
    {w \in Workers : pc[w] \in {"fetch", "store"} /\ payload[w] = <<r, i>>}

\* Before the first answer nothing is counted; from then on only the threads that
\* are asking already may add to the count.
Racing ==
    \A r \in Registries, i \in Ids :
        /\ cache[r][i] = Unasked => fetches[r][i] = 0
        /\ fetches[r][i] + Cardinality(Asking(r, i)) <= Cardinality(Workers)

-----------------------------------------------------------------------------
LEMMA SchemasDistinct ==
    /\ None \notin Registered /\ Unasked \notin Registered /\ None # Unasked
    /\ Avro \subseteq Registered /\ Others \subseteq Registered
    /\ \A s \in Others : s \notin Avro
BY SchemasAssumption DEF Registered

\* Every variable keeps its type.
LEMMA TypeInit == Init => TypeOK
BY SchemasDistinct, SchemasAssumption DEF Init, TypeOK

LEMMA TypeNext == TypeOK /\ InFlight /\ [Next]_vars => TypeOK'
<1> SUFFICES ASSUME TypeOK, InFlight, [Next]_vars PROVE TypeOK'
  OBVIOUS
<1> USE SchemasDistinct, SchemasAssumption DEF TypeOK
<1>1. ASSUME NEW w \in Workers, NEW r \in Registries, NEW i \in Ids, Receive(w, r, i)
      PROVE TypeOK'
  BY <1>1 DEF Receive, Goto
<1>2. ASSUME NEW w \in Workers, Step(w) PROVE TypeOK'
  <2>0. Reg(w) \in Registries /\ Id(w) \in Ids
    BY DEF Reg, Id
  <2>1. CASE Lookup(w)
    <3>1. cache[Reg(w)][Id(w)] \in Registered \cup {None, Unasked}
      BY <2>0
    <3>2. schema' \in [Workers -> Registered \cup {None}]
      BY <2>1, <3>1 DEF Lookup, Cached
    <3> QED
      BY <2>1, <3>2 DEF Lookup, Goto
  <2>2. CASE Fetch(w)
    BY <2>0, <2>2 DEF Fetch, Goto
  <2>3. CASE FetchFails(w)
    BY <2>3 DEF FetchFails, TakeForNone, Goto
  <2>4. CASE FetchRaises(w)
    BY <2>4 DEF FetchRaises, Goto
  <2>5. CASE Store(w)
    BY <2>0, <2>5 DEF Store, StoreForOwn, Goto
  <2>6. CASE ShowRaw(w)
    BY <2>6 DEF ShowRaw, Goto
  <2>7. CASE ReadOther(w)
    BY <2>7 DEF ReadOther, Read, Goto
  <2>8. CASE ReadAvro(w)
    BY <2>0, <2>8 DEF ReadAvro, Read, Goto
  <2>9. CASE ParseAvro(w)
    <3>1. schema[w] \in Avro
      BY <2>9 DEF ParseAvro, InFlight
    <3>2. parsed' \in [Ids -> Avro \cup {Unasked}]
      BY <2>0, <2>9, <3>1 DEF ParseAvro, Keep
    <3> QED
      BY <2>9, <3>2 DEF ParseAvro, Read, Goto
  <2> QED
    BY <1>2, <2>1, <2>2, <2>3, <2>4, <2>5, <2>6, <2>7, <2>8, <2>9 DEF Step
<1>3. ASSUME NEW r \in Registries, NEW i \in Ids, NEW s \in Registered, Register(r, i, s)
      PROVE TypeOK'
  BY <1>3 DEF Register, workerVars
<1>4. CASE UNCHANGED vars
  BY <1>4 DEF vars, workerVars
<1> QED
  BY <1>1, <1>2, <1>3, <1>4 DEF Next

-----------------------------------------------------------------------------
LEMMA DataInit == Init => DataInv
BY SchemasDistinct DEF Init, DataInv, InFlight, ParsedTruthful, CacheTruthful, ReadWithItsId

LEMMA DataNext == TypeOK /\ DataInv /\ [Next]_vars => DataInv'
<1> SUFFICES ASSUME TypeOK, DataInv, [Next]_vars PROVE DataInv'
  OBVIOUS
<1> USE SchemasDistinct DEF DataInv
<1>1. ASSUME NEW w \in Workers, NEW r \in Registries, NEW i \in Ids, Receive(w, r, i)
      PROVE DataInv'
  BY <1>1 DEF Receive, Goto, TypeOK, InFlight, ParsedTruthful, CacheTruthful,
              ReadWithItsId, Reg, Id
<1>2. ASSUME NEW w \in Workers, Step(w) PROVE DataInv'
  <2> DEFINE r == Reg(w)
             i == Id(w)
  <2>0. r \in Registries /\ i \in Ids
    BY DEF Reg, Id, TypeOK
  <2>1. CASE Lookup(w)
    <3> USE <2>0, <2>1 DEF Lookup, Goto, TypeOK
    <3>1. InFlight'
      <4>1. cache[Reg(w)][Id(w)] \in Registered =>
              cache[Reg(w)][Id(w)] = content[Reg(w)][Id(w)]
        BY DEF CacheTruthful
      <4>2. UNCHANGED schema \/ schema' = [schema EXCEPT ![w] = cache[Reg(w)][Id(w)]]
        OBVIOUS
      <4>3. CASE UNCHANGED schema
        BY <4>3 DEF InFlight, Reg, Id
      <4>4. CASE schema' = [schema EXCEPT ![w] = cache[Reg(w)][Id(w)]]
        BY <4>1, <4>4 DEF InFlight, Reg, Id
      <4> QED
        BY <4>2, <4>3, <4>4
    <3>2. CacheTruthful'
      BY DEF CacheTruthful
    <3>3. ParsedTruthful'
      BY DEF ParsedTruthful, InFlight, Reg, Id
    <3>4. ReadWithItsId'
      BY DEF ReadWithItsId, InFlight, ParsedTruthful, Reg, Id
    <3> QED
      BY <3>1, <3>2, <3>3, <3>4
  <2>2. CASE Fetch(w)
    BY <2>0, <2>2 DEF Fetch, Goto, TypeOK, InFlight, ParsedTruthful, CacheTruthful,
                      ReadWithItsId, Reg, Id
  <2>3. CASE FetchFails(w)
    BY <2>3 DEF FetchFails, TakeForNone, Goto, TypeOK, InFlight, ParsedTruthful,
                CacheTruthful, ReadWithItsId, Reg, Id
  <2>4. CASE FetchRaises(w)
    BY <2>4 DEF FetchRaises, Goto, TypeOK, InFlight, ParsedTruthful, CacheTruthful,
                ReadWithItsId, Reg, Id
  <2>5. CASE Store(w)
    BY <2>0, <2>5 DEF Store, StoreForOwn, Goto, TypeOK, InFlight, ParsedTruthful,
                      CacheTruthful, ReadWithItsId, Reg, Id
  <2>6. CASE ShowRaw(w)
    BY <2>6 DEF ShowRaw, Goto, TypeOK, InFlight, ParsedTruthful, CacheTruthful,
                ReadWithItsId, Reg, Id
  <2>7. CASE ReadOther(w)
    BY <2>7 DEF ReadOther, Read, Goto, TypeOK, InFlight, ParsedTruthful, CacheTruthful,
                ReadWithItsId, Reg, Id
  <2>8. CASE ReadAvro(w)
    <3> USE <2>0, <2>8 DEF ReadAvro, Read, Goto, TypeOK
    <3>1. InFlight'
      BY DEF InFlight, Reg, Id
    <3>2. CacheTruthful'
      BY DEF CacheTruthful
    <3>3. ParsedTruthful'
      BY DEF ParsedTruthful, InFlight, Reg, Id
    <3>4. ReadWithItsId'
      <4>1. content[Reg(w)][Id(w)] \in Avro
        BY DEF InFlight
      <4>2. UNCHANGED reader \/ reader' = [reader EXCEPT ![w] = parsed[Id(w)]]
        OBVIOUS
      <4>3. CASE UNCHANGED reader
        BY <4>3 DEF ReadWithItsId, Reg, Id
      <4>4. CASE reader' = [reader EXCEPT ![w] = parsed[Id(w)]] /\ parsed[Id(w)] # Unasked
        <5>1. PICK q \in Registries : content[q][Id(w)] = parsed[Id(w)]
          BY <4>4 DEF ParsedTruthful
        <5>2. reader'[w] = content[q][Id(w)]
          BY <4>4, <5>1
        <5> QED
          BY <4>1, <4>4, <5>2 DEF ReadWithItsId, Reg, Id
      <4> QED
        BY <4>2, <4>3, <4>4
    <3> QED
      BY <3>1, <3>2, <3>3, <3>4
  <2>9. CASE ParseAvro(w)
    <3> USE <2>0, <2>9 DEF ParseAvro, Keep, Read, Goto, TypeOK
    <3>1. InFlight'
      BY DEF InFlight, Reg, Id
    <3>2. CacheTruthful'
      BY DEF CacheTruthful
    <3>0. schema[w] = content[Reg(w)][Id(w)]
      BY DEF InFlight
    <3>3. ParsedTruthful'
      BY <3>0 DEF ParsedTruthful
    <3>4. ReadWithItsId'
      BY <3>0 DEF ReadWithItsId, Reg, Id
    <3> QED
      BY <3>1, <3>2, <3>3, <3>4
  <2> QED
    BY <1>2, <2>1, <2>2, <2>3, <2>4, <2>5, <2>6, <2>7, <2>8, <2>9 DEF Step
<1>3. ASSUME NEW r \in Registries, NEW i \in Ids, NEW s \in Registered, Register(r, i, s)
      PROVE DataInv'
  BY <1>3 DEF Register, workerVars, TypeOK, InFlight, ParsedTruthful, CacheTruthful,
              ReadWithItsId, Reg, Id
<1>4. CASE UNCHANGED vars
  BY <1>4 DEF vars, workerVars, InFlight, ParsedTruthful, CacheTruthful, ReadWithItsId,
              Reg, Id
<1> QED
  BY <1>1, <1>2, <1>3, <1>4 DEF Next

-----------------------------------------------------------------------------
\* Counting the threads that are asking.
LEMMA AskingFinite ==
    ASSUME NEW r, NEW i
    PROVE  /\ IsFiniteSet(Asking(r, i)) /\ Cardinality(Asking(r, i)) \in Nat
           /\ Cardinality(Workers) \in Nat
           /\ Cardinality(Asking(r, i)) <= Cardinality(Workers)
<1>1. Asking(r, i) \subseteq Workers /\ IsFiniteSet(Workers)
  BY SchemasAssumption DEF Asking
<1> QED
  BY <1>1, FS_Subset, FS_CardinalityType

LEMMA RacingInit == Init => Racing
<1> SUFFICES ASSUME Init PROVE Racing
  OBVIOUS
<1>1. \A r \in Registries, i \in Ids : fetches[r][i] = 0
  BY DEF Init
<1> QED
  BY <1>1, AskingFinite DEF Racing

\* A step of a thread that is not asking for what it did not ask for leaves the
\* count alone if it stores nothing.
LEMMA RacingKept ==
    ASSUME Racing, UNCHANGED <<cache, fetches>>, TypeOK,
           \A r \in Registries, i \in Ids : Asking(r, i)' \subseteq Asking(r, i)
    PROVE  Racing'
<1> SUFFICES ASSUME NEW r \in Registries, NEW i \in Ids
             PROVE  fetches[r][i] + Cardinality(Asking(r, i)') <= Cardinality(Workers)
  BY DEF Racing
<1>1. fetches[r][i] + Cardinality(Asking(r, i)) <= Cardinality(Workers)
  BY DEF Racing
<1>2. /\ Cardinality(Asking(r, i)') <= Cardinality(Asking(r, i))
      /\ Cardinality(Asking(r, i)') \in Nat
  BY AskingFinite, FS_Subset, FS_CardinalityType
<1>3. fetches[r][i] \in Nat /\ Cardinality(Workers) \in Nat
  BY AskingFinite DEF TypeOK
<1> QED
  BY <1>1, <1>2, <1>3, AskingFinite

LEMMA RacingNext == TypeOK /\ Racing /\ [Next]_vars => Racing'
<1> SUFFICES ASSUME TypeOK, Racing, [Next]_vars PROVE Racing'
  OBVIOUS
<1>1. ASSUME NEW w \in Workers, NEW r \in Registries, NEW i \in Ids, Receive(w, r, i)
      PROVE Racing'
  BY <1>1, RacingKept DEF Receive, Goto, Asking, TypeOK
<1>2. ASSUME NEW w \in Workers, Step(w) PROVE Racing'
  <2>0. payload[w] = <<Reg(w), Id(w)>> /\ Reg(w) \in Registries /\ Id(w) \in Ids
    BY DEF Reg, Id, TypeOK
  <2>1. CASE Lookup(w) /\ Cached(Reg(w), Id(w))
    BY <2>1, RacingKept DEF Lookup, Goto, Asking, TypeOK
  <2>2. CASE Lookup(w) /\ ~Cached(Reg(w), Id(w))
    <3> SUFFICES ASSUME NEW r \in Registries, NEW i \in Ids
                 PROVE  /\ cache'[r][i] = Unasked => fetches'[r][i] = 0
                        /\ fetches'[r][i] + Cardinality(Asking(r, i)') <= Cardinality(Workers)
      BY DEF Racing
    <3>1. UNCHANGED <<cache, fetches, payload>>
      BY <2>2 DEF Lookup
    <3>2. CASE r = Reg(w) /\ i = Id(w)
      <4>1. fetches[r][i] = 0
        BY <2>2, <3>2 DEF Cached, Racing
      <4>2. Asking(r, i)' \subseteq Workers
        BY DEF Asking
      <4>3. /\ Cardinality(Asking(r, i)') <= Cardinality(Workers)
            /\ Cardinality(Asking(r, i)') \in Nat
        BY <4>2, SchemasAssumption, FS_Subset, FS_CardinalityType
      <4> QED
        BY <3>1, <4>1, <4>3
    <3>3. CASE ~(r = Reg(w) /\ i = Id(w))
      <4>1. Asking(r, i)' = Asking(r, i)
        BY <2>0, <2>2, <3>3 DEF Lookup, Goto, Asking, TypeOK
      <4> QED
        BY <3>1, <4>1 DEF Racing
    <3> QED
      BY <3>2, <3>3
  <2>3. CASE Fetch(w)
    BY <2>3, RacingKept DEF Fetch, Goto, Asking, TypeOK
  <2>4. CASE FetchFails(w)
    BY <2>4, RacingKept DEF FetchFails, TakeForNone, Goto, Asking, TypeOK
  <2>5. CASE FetchRaises(w)
    BY <2>5, RacingKept DEF FetchRaises, Goto, Asking, TypeOK
  <2>6. CASE Store(w)
    <3> SUFFICES ASSUME NEW r \in Registries, NEW i \in Ids
                 PROVE  /\ cache'[r][i] = Unasked => fetches'[r][i] = 0
                        /\ fetches'[r][i] + Cardinality(Asking(r, i)') <= Cardinality(Workers)
      BY DEF Racing
    <3>1. fetches[r][i] + Cardinality(Asking(r, i)) <= Cardinality(Workers)
      BY DEF Racing
    <3>2. CASE r = Reg(w) /\ i = Id(w)
      <4>1. cache'[r][i] = schema[w] /\ schema[w] # Unasked
        BY <2>6, <3>2, SchemasDistinct DEF Store, StoreForOwn, TypeOK
      <4>2. fetches'[r][i] = fetches[r][i] + 1
        BY <2>6, <3>2 DEF Store, TypeOK
      <4>3. w \in Asking(r, i)
        BY <2>0, <2>6, <3>2 DEF Store, Asking
      <4>4. Asking(r, i)' = Asking(r, i) \ {w}
        BY <2>6, <3>2 DEF Store, Goto, Asking, TypeOK
      <4>5. Cardinality(Asking(r, i)') = Cardinality(Asking(r, i)) - 1
        BY <4>3, <4>4, AskingFinite, FS_RemoveElement
      <4>6. fetches[r][i] \in Nat
        BY DEF TypeOK
      <4> QED
        BY <3>1, <4>1, <4>2, <4>5, <4>6, AskingFinite
    <3>3. CASE ~(r = Reg(w) /\ i = Id(w))
      <4>1. cache'[r][i] = cache[r][i] /\ fetches'[r][i] = fetches[r][i]
        BY <2>6, <3>3 DEF Store, StoreForOwn, TypeOK
      <4>2. Asking(r, i)' = Asking(r, i)
        BY <2>0, <2>6, <3>3 DEF Store, Goto, Asking, TypeOK
      <4> QED
        BY <4>1, <4>2 DEF Racing
    <3> QED
      BY <3>2, <3>3
  <2>7. CASE ShowRaw(w)
    BY <2>7, RacingKept DEF ShowRaw, Goto, Asking, TypeOK
  <2>8. CASE ReadOther(w)
    BY <2>8, RacingKept DEF ReadOther, Read, Goto, Asking, TypeOK
  <2>9. CASE ReadAvro(w)
    BY <2>9, RacingKept DEF ReadAvro, Read, Goto, Asking, TypeOK
  <2>10. CASE ParseAvro(w)
    BY <2>10, RacingKept DEF ParseAvro, Read, Goto, Asking, TypeOK
  <2> QED
    BY <1>2, <2>1, <2>2, <2>3, <2>4, <2>5, <2>6, <2>7, <2>8, <2>9, <2>10 DEF Step
<1>3. ASSUME NEW r \in Registries, NEW i \in Ids, NEW s \in Registered, Register(r, i, s)
      PROVE Racing'
  BY <1>3, RacingKept DEF Register, workerVars, Asking
<1>4. CASE UNCHANGED vars
  BY <1>4, RacingKept DEF vars, workerVars, Asking
<1> QED
  BY <1>1, <1>2, <1>3, <1>4 DEF Next

-----------------------------------------------------------------------------
\* The inductive invariant holds throughout.
THEOREM Inductive == Spec => [](TypeOK /\ DataInv /\ Racing)
<1>1. Init => TypeOK /\ DataInv /\ Racing
  BY TypeInit, DataInit, RacingInit
<1>2. TypeOK /\ DataInv /\ Racing /\ [Next]_vars => (TypeOK /\ DataInv /\ Racing)'
  BY TypeNext, DataNext, RacingNext DEF DataInv
<1> QED
  BY <1>1, <1>2, PTL DEF Spec

\* Every variable of the schema caches keeps its type.
THEOREM TypeCorrect == Spec => []TypeOK
BY Inductive, PTL

\* A cached schema is the one its registry has under the id, whichever threads of
\* schema_by_id raced for it.
THEOREM CacheIsTruthful == Spec => []CacheTruthful
<1>1. DataInv => CacheTruthful
  BY DEF DataInv
<1> QED
  BY Inductive, <1>1, PTL

\* No number of payloads makes schema_by_id store more answers for an id than
\* there are threads.
THEOREM NotHammered == Spec => []RegistryNotHammered
<1>1. TypeOK /\ Racing => RegistryNotHammered
  <2> SUFFICES ASSUME TypeOK, Racing, NEW r \in Registries, NEW i \in Ids
               PROVE  fetches[r][i] <= Cardinality(Workers)
    BY DEF RegistryNotHammered
  <2> QED
    BY AskingFinite DEF Racing, TypeOK
<1> QED
  BY Inductive, <1>1, PTL

\* A body is never read with a schema of another id, and with that of another
\* registry only if both ids are Avro.
THEOREM ReadsWithItsId == Spec => []ReadWithItsId
<1>1. DataInv => ReadWithItsId
  BY DEF DataInv
<1> QED
  BY Inductive, <1>1, PTL

-----------------------------------------------------------------------------
(* Induction and recursion                                                 *)

\* A set that has 0 and the successors of its numbers has every number.
LEMMA Induction ==
    ASSUME NEW T, 0 \in T, \A n \in Nat : n \in T => n + 1 \in T
    PROVE  Nat \subseteq T
<1> DEFINE R == OpToRel(<, Nat)
           U == Nat \ T
<1>1. \A x, y \in Nat : <<x, y>> \in R <=> x < y
  BY DEF OpToRel
<1>2. IsWellFoundedOn(R, Nat)
  BY NatLessThanWellFounded
<1> HIDE DEF R
<1> SUFFICES ASSUME U # {} PROVE FALSE
  OBVIOUS
<1>3. PICK x \in U : \A y \in U : ~(<<y, x>> \in R)
  BY <1>2, WFMin
<1>4. x \in Nat /\ x # 0 /\ x \notin T
  OBVIOUS
<1>5. x - 1 \in Nat /\ x - 1 < x /\ x - 1 + 1 = x
  BY <1>4
<1>6. x - 1 \in T
  BY <1>1, <1>3, <1>4, <1>5
<1> QED
  BY <1>4, <1>5, <1>6

\* A set of numbers that is not empty has a smallest one.
LEMMA Smallest ==
    ASSUME NEW N \in SUBSET Nat, N # {}
    PROVE  Min(N) \in N /\ \A y \in N : Min(N) <= y
<1> DEFINE R == OpToRel(<, Nat)
<1>1. \A x, y \in Nat : <<x, y>> \in R <=> x < y
  BY DEF OpToRel
<1>2. IsWellFoundedOn(R, Nat)
  BY NatLessThanWellFounded
<1> HIDE DEF R
<1>3. PICK x \in N : \A y \in N : ~(<<y, x>> \in R)
  BY <1>2, WFMin
<1>4. ASSUME NEW y \in N PROVE x <= y
  <2>1. x \in Nat /\ y \in Nat
    BY <1>3
  <2>2. ~(y < x)
    BY <1>1, <1>3, <2>1
  <2> QED
    BY <2>1, <2>2
<1> QED
  BY <1>4 DEF Min

\* u starts with a and goes on in steps.
IsStep(step, S) == step \in [S \X Nat -> S]

IsRun(u, a, step, S) ==
    u \in [Nat -> S] /\ u[0] = a /\ \A i \in Nat : u[i + 1] = step[<<u[i], i>>]

\* A step can be repeated any number of times.
LEMMA Repeated ==
    ASSUME NEW S, NEW a \in S, NEW step, IsStep(step, S)
    PROVE  \E u : IsRun(u, a, step, S)
<1> USE DEF IsStep
<1> DEFINE Run(u, n) == /\ u \in [0 .. n -> S]
                        /\ u[0] = a
                        /\ \A i \in Nat : i < n => u[i + 1] = step[<<u[i], i>>]
           T == {n \in Nat : \E u : Run(u, n)}
           E == {i \in Nat : \A n, m \in Nat : \A u, v :
                   Run(u, n) /\ Run(v, m) /\ i <= n /\ i <= m => u[i] = v[i]}
<1>1. 0 \in T
  <2>1. Run([i \in 0 .. 0 |-> a], 0)
    OBVIOUS
  <2> QED
    BY <2>1
<1>2. ASSUME NEW n \in Nat, n \in T PROVE n + 1 \in T
  <2>1. PICK u : Run(u, n)
    BY <1>2
  <2> DEFINE v == [i \in 0 .. n + 1 |-> IF i = n + 1 THEN step[<<u[n], n>>] ELSE u[i]]
  <2>2. u[n] \in S
    BY <2>1
  <2>3. step[<<u[n], n>>] \in S
    BY <2>2
  <2>4. v \in [0 .. n + 1 -> S]
    BY <2>1, <2>3
  <2>5. v[0] = a
    BY <2>1
  <2>6. ASSUME NEW i \in Nat, i < n + 1 PROVE v[i + 1] = step[<<v[i], i>>]
    <3>1. CASE i = n
      <4>1. n \in 0 .. n + 1 /\ n + 1 \in 0 .. n + 1 /\ n # n + 1
        OBVIOUS
      <4>2. v[n + 1] = step[<<u[n], n>>] /\ v[n] = u[n]
        BY <4>1
      <4> QED
        BY <3>1, <4>2
    <3>2. CASE i # n
      <4>1. i < n /\ i + 1 # n + 1 /\ i # n + 1 /\ i + 1 \in 0 .. n + 1 /\ i \in 0 .. n + 1
        BY <2>6, <3>2
      <4> QED
        BY <2>1, <4>1
    <3> QED
      BY <3>1, <3>2
  <2>7. Run(v, n + 1)
    BY <2>4, <2>5, <2>6
  <2> HIDE DEF v, Run
  <2> QED
    BY <2>7
<1>3. Nat \subseteq T
  <2> HIDE DEF T
  <2> QED
    BY <1>1, <1>2, Induction
<1>4. 0 \in E
  OBVIOUS
<1>5. ASSUME NEW i \in Nat, i \in E PROVE i + 1 \in E
  <2> SUFFICES ASSUME NEW n \in Nat, NEW m \in Nat, NEW u, NEW v,
                      Run(u, n), Run(v, m), i + 1 <= n, i + 1 <= m
               PROVE  u[i + 1] = v[i + 1]
    BY SMTT(30)
  <2>1. i < n /\ i < m /\ i <= n /\ i <= m
    OBVIOUS
  <2>2. u[i] = v[i]
    <3> HIDE DEF Run
    <3> QED
      BY <1>5, <2>1
  <2> QED
    BY <2>1, <2>2
<1>6. Nat \subseteq E
  <2> HIDE DEF E
  <2> QED
    BY <1>4, <1>5, Induction
<1> DEFINE run(n) == CHOOSE u : Run(u, n)
           w == [n \in Nat |-> run(n)[n]]
<1>7. \A n \in Nat : Run(run(n), n)
  BY <1>3
<1> HIDE DEF run
<1>8. w \in [Nat -> S]
  BY <1>7
<1>9. w[0] = a
  BY <1>7
<1>10. ASSUME NEW i \in Nat PROVE w[i + 1] = step[<<w[i], i>>]
  <2>1. i + 1 \in Nat /\ i < i + 1 /\ i <= i /\ i <= i + 1
    OBVIOUS
  <2>2. run(i + 1)[i + 1] = step[<<run(i + 1)[i], i>>]
    BY <1>7, <2>1
  <2>3. run(i + 1)[i] = run(i)[i]
    <3>1. i \in E
      BY <1>6
    <3> QED
      BY <1>7, <2>1, <3>1, ZenonT(30)
  <2> QED
    BY <2>1, <2>2, <2>3
<1> QED
  BY <1>8, <1>9, <1>10 DEF IsRun

-----------------------------------------------------------------------------
(* Numbers                                                                 *)

\* Division with remainder, ...
LEMMA DivMod ==
    ASSUME NEW n \in Nat, NEW b \in Nat, b > 0
    PROVE  n \div b \in Nat /\ n % b \in 0 .. b - 1 /\ n = (n % b) + b * (n \div b)
  OBVIOUS

\* ... which is the only one.
LEMMA DivModUnique ==
    ASSUME NEW q \in Nat, NEW r \in Nat, NEW b \in Nat, r < b
    PROVE  (q * b + r) \div b = q /\ (q * b + r) % b = r
  OBVIOUS

\* The "more" bit is not part of a digit.
LEMMA MoreBit ==
    ASSUME NEW r \in Nat, NEW b \in Nat, r < b
    PROVE  (r + b) % b = r /\ r % b = r
  OBVIOUS

\* Digits are shifted out one by one.
LEMMA ShiftStep ==
    ASSUME NEW n \in Nat, NEW b \in Nat, b > 0
    PROVE  /\ Shift(n, b, 0) = n
           /\ \A d \in Nat : /\ Shift(n, b, d) \in Nat
                             /\ Shift(n, b, d + 1) = Shift(n, b, d) \div b
<1> DEFINE step == [p \in Nat \X Nat |-> p[1] \div b]
           above == CHOOSE g : g = [i \in Nat |-> IF i = 0 THEN n ELSE g[i - 1] \div b]
<1>1. IsStep(step, Nat)
  BY DivMod DEF IsStep
<1>2. \A x, y \in Nat : step[<<x, y>>] = x \div b
  OBVIOUS
<1> HIDE DEF step
<1>3. PICK u : IsRun(u, n, step, Nat)
  BY <1>1, Repeated
<1>4. u = [i \in Nat |-> IF i = 0 THEN n ELSE u[i - 1] \div b]
  <2>1. ASSUME NEW i \in Nat, i # 0 PROVE u[i] = u[i - 1] \div b
    <3>1. i - 1 \in Nat /\ i - 1 + 1 = i
      BY <2>1
    <3>2. u[i - 1] \in Nat
      BY <1>3, <3>1 DEF IsRun
    <3> QED
      BY <1>2, <1>3, <3>1, <3>2 DEF IsRun
  <2> QED
    BY <1>3, <2>1 DEF IsRun
<1>5. above = [i \in Nat |-> IF i = 0 THEN n ELSE above[i - 1] \div b]
  BY <1>4
<1>6. \A d : Shift(n, b, d) = above[d]
  BY DEF Shift
<1> HIDE DEF above
<1>7. above[0] = n
  BY <1>5
<1>8. ASSUME NEW d \in Nat PROVE above[d + 1] = above[d] \div b
  <2>1. d + 1 \in Nat /\ d + 1 # 0 /\ d + 1 - 1 = d
    OBVIOUS
  <2> QED
    BY <1>5, <2>1
<1> DEFINE T == {d \in Nat : above[d] \in Nat}
<1>9. 0 \in T
  BY <1>7
<1>10. \A d \in Nat : d \in T => d + 1 \in T
  BY <1>8, DivMod
<1>11. Nat \subseteq T
  <2> HIDE DEF T
  <2> QED
    BY <1>9, <1>10, Induction
<1> QED
  BY <1>6, <1>7, <1>8, <1>11

\* A number is put together from its highest digit down, ...
LEMMA NumberSteps ==
    ASSUME NEW digits \in Seq(Nat), NEW b \in Nat
    PROVE  \E u \in [0 .. Len(digits) -> Nat] :
               /\ u[0] = 0
               /\ \A i \in 1 .. Len(digits) : u[i] = digits[Len(digits) + 1 - i] + b * u[i - 1]
               /\ Number(digits, b) = u[Len(digits)]
<1> DEFINE N == Len(digits)
           step == [p \in Nat \X Nat |-> IF p[2] < N THEN digits[N - p[2]] + b * p[1] ELSE 0]
           from == CHOOSE g : g = [i \in 0 .. N |->
                     IF i = 0 THEN 0 ELSE digits[N + 1 - i] + b * g[i - 1]]
<1>1. N \in Nat /\ \A i \in 1 .. N : digits[i] \in Nat
  OBVIOUS
<1>2. Number(digits, b) = from[N]
  BY DEF Number
<1> HIDE DEF N
<1>3. ASSUME NEW x \in Nat, NEW i \in Nat
      PROVE  /\ step[<<x, i>>] \in Nat
             /\ i < N => step[<<x, i>>] = digits[N - i] + b * x
  <2>1. step[<<x, i>>] = IF i < N THEN digits[N - i] + b * x ELSE 0
    OBVIOUS
  <2>2. b * x \in Nat
    OBVIOUS
  <2>3. CASE i < N
    <3>1. N - i \in 1 .. N
      BY <1>1, <2>3
    <3>2. digits[N - i] \in Nat
      BY <1>1, <3>1
    <3> DEFINE d == digits[N - i]
               y == b * x
    <3>3. step[<<x, i>>] = d + y /\ d \in Nat /\ y \in Nat
      BY <2>1, <2>2, <2>3, <3>2
    <3> HIDE DEF d, y, step
    <3>4. step[<<x, i>>] \in Nat
      BY <3>3
    <3> QED
      BY <2>3, <3>3, <3>4 DEF d, y
  <2> QED
    BY <1>1, <2>1, <2>3
<1>4. IsStep(step, Nat)
  BY <1>3, ZenonT(30) DEF IsStep
<1> HIDE DEF step
<1>5. PICK u : IsRun(u, 0, step, Nat)
  BY <1>4, Repeated
<1> DEFINE v == [i \in 0 .. N |-> u[i]]
<1>6. v \in [0 .. N -> Nat] /\ v[0] = 0
  BY <1>1, <1>5 DEF IsRun
<1>7. ASSUME NEW i \in 1 .. N PROVE v[i] = digits[N + 1 - i] + b * v[i - 1]
  <2>1. i - 1 \in Nat /\ i - 1 < N /\ i - 1 + 1 = i /\ N - (i - 1) = N + 1 - i /\ i - 1 \in 0 .. N
        /\ i \in 0 .. N
    BY <1>1
  <2>2. u[i - 1] \in Nat /\ u[i] = step[<<u[i - 1], i - 1>>]
    BY <1>5, <2>1 DEF IsRun
  <2>3. u[i] = digits[N + 1 - i] + b * u[i - 1]
    BY <1>3, <2>1, <2>2
  <2> QED
    BY <2>1, <2>3
<1> HIDE DEF v
<1>8. v = [i \in 0 .. N |-> IF i = 0 THEN 0 ELSE digits[N + 1 - i] + b * v[i - 1]]
  <2>1. \A i \in 0 .. N : i # 0 => i \in 1 .. N
    BY <1>1
  <2> QED
    BY <1>6, <1>7, <2>1
<1>9. from = [i \in 0 .. N |-> IF i = 0 THEN 0 ELSE digits[N + 1 - i] + b * from[i - 1]]
  BY <1>8
<1> HIDE DEF from
<1> DEFINE T == {i \in Nat : i <= N => from[i] = v[i]}
<1>10. 0 \in T
  BY <1>1, <1>6, <1>9
<1>11. ASSUME NEW i \in Nat, i \in T PROVE i + 1 \in T
  <2> SUFFICES ASSUME i + 1 <= N PROVE from[i + 1] = v[i + 1]
    OBVIOUS
  <2>1. i <= N /\ i + 1 \in 1 .. N /\ i + 1 - 1 = i /\ i + 1 \in 0 .. N /\ i + 1 # 0
    BY <1>1
  <2>2. from[i] = v[i]
    BY <1>11, <2>1
  <2>3. from[i + 1] = digits[N + 1 - (i + 1)] + b * from[i]
    BY <1>9, <2>1
  <2> QED
    BY <1>7, <2>1, <2>2, <2>3
<1>12. from[N] = v[N]
  <2>1. Nat \subseteq T
    <3> HIDE DEF T
    <3> QED
      BY <1>10, <1>11, Induction
  <2> QED
    BY <1>1, <2>1
<1> QED
  BY <1>2, <1>6, <1>7, <1>12 DEF N

\* A number read from digits is one.
LEMMA NumberType ==
    ASSUME NEW digits \in Seq(Nat), NEW b \in Nat
    PROVE  Number(digits, b) \in Nat
<1>1. Len(digits) \in 0 .. Len(digits)
  OBVIOUS
<1> QED
  BY <1>1, NumberSteps, SMTT(30)

\* ... so the digits of a number give it back if there are enough of them.
LEMMA DigitsType ==
    ASSUME NEW n \in Nat, NEW b \in Nat, b > 0, NEW size \in Nat
    PROVE  /\ Digits(n, b, size) \in Seq(0 .. b - 1)
           /\ Digits(n, b, size) \in Seq(Nat)
           /\ Len(Digits(n, b, size)) = size
           /\ DOMAIN Digits(n, b, size) = 1 .. size
           /\ \A i \in 1 .. size : /\ Digits(n, b, size)[i] = Shift(n, b, i - 1) % b
                                   /\ Digits(n, b, size)[i] \in 0 .. b - 1
<1>1. ASSUME NEW i \in 1 .. size PROVE Shift(n, b, i - 1) % b \in 0 .. b - 1
  <2>1. i - 1 \in Nat
    OBVIOUS
  <2> QED
    BY <2>1, ShiftStep, DivMod
<1>2. Digits(n, b, size) \in [1 .. size -> 0 .. b - 1]
  BY <1>1 DEF Digits
<1>3. \A i \in 0 .. b - 1 : i \in Nat
  OBVIOUS
<1> QED
  BY <1>1, <1>2, <1>3 DEF Digits

\* The digits of a number that fits are read back as the number.
LEMMA NumberOfDigits ==
    ASSUME NEW n \in Nat, NEW b \in Nat, b > 0, NEW size \in Nat, Fits(n, b, size)
    PROVE  Number(Digits(n, b, size), b) = n
<1> DEFINE digits == Digits(n, b, size)
<1>1. /\ digits \in Seq(Nat) /\ Len(digits) = size
      /\ \A i \in 1 .. size : digits[i] = Shift(n, b, i - 1) % b
  BY DigitsType
<1> HIDE DEF digits
<1>2. PICK u \in [0 .. size -> Nat] :
        /\ u[0] = 0
        /\ \A i \in 1 .. size : u[i] = digits[size + 1 - i] + b * u[i - 1]
        /\ Number(digits, b) = u[size]
  BY <1>1, NumberSteps
<1> DEFINE T == {i \in Nat : i <= size => u[i] = Shift(n, b, size - i)}
<1>3. 0 \in T
  <2>1. size - 0 = size
    OBVIOUS
  <2> QED
    BY <1>2, <2>1 DEF Fits
<1>4. ASSUME NEW i \in Nat, i \in T PROVE i + 1 \in T
  <2> SUFFICES ASSUME i + 1 <= size PROVE u[i + 1] = Shift(n, b, size - (i + 1))
    OBVIOUS
  <2> DEFINE d == size - (i + 1)
  <2>1. /\ d \in Nat /\ size - i = d + 1 /\ i <= size /\ i + 1 \in 1 .. size
        /\ size + 1 - (i + 1) = d + 1 /\ i + 1 - 1 = i /\ d + 1 \in 1 .. size /\ d + 1 - 1 = d
    OBVIOUS
  <2> HIDE DEF d
  <2>2. u[i] = Shift(n, b, d) \div b
    BY <1>4, <2>1, ShiftStep
  <2>3. digits[size + 1 - (i + 1)] = Shift(n, b, d) % b
    BY <1>1, <2>1
  <2>4. u[i + 1] = (Shift(n, b, d) % b) + b * (Shift(n, b, d) \div b)
    BY <1>2, <2>1, <2>2, <2>3
  <2>5. Shift(n, b, d) \in Nat
    BY <2>1, ShiftStep
  <2> QED
    BY <2>4, <2>5, DivMod DEF d
<1>5. u[size] = Shift(n, b, 0)
  <2>1. Nat \subseteq T
    <3> HIDE DEF T
    <3> QED
      BY <1>3, <1>4, Induction
  <2>2. size - size = 0
    OBVIOUS
  <2> QED
    BY <2>1, <2>2
<1> QED
  BY <1>2, <1>5, ShiftStep DEF digits

-----------------------------------------------------------------------------
(* Slices of the bytes                                                     *)

\* The slices First and Rest, as Python takes them: they end where the bytes end.
LEMMA SliceType ==
    ASSUME NEW S, NEW s \in Seq(S), NEW n \in Nat
    PROVE  /\ First(s, n) \in Seq(S)
           /\ Len(First(s, n)) = IF n < Len(s) THEN n ELSE Len(s)
           /\ \A i \in 1 .. Len(First(s, n)) : First(s, n)[i] = s[i]
           /\ Rest(s, n) \in Seq(S)
           /\ Len(Rest(s, n)) = IF n < Len(s) THEN Len(s) - n ELSE 0
           /\ \A i \in 1 .. Len(Rest(s, n)) : Rest(s, n)[i] = s[n + i]
<1>1. Len(s) \in Nat /\ \A i \in 1 .. Len(s) : s[i] \in S
  OBVIOUS
<1> DEFINE k == IF n < Len(s) THEN n ELSE Len(s)
           L == Len(s)
<1>2. k \in Nat /\ k <= L /\ L \in Nat
  BY <1>1
<1>3. /\ SubSeq(s, 1, k) \in Seq(S) /\ Len(SubSeq(s, 1, k)) = k
      /\ \A i \in 1 .. k : SubSeq(s, 1, k)[i] = s[i]
  <2>1. 1 \in Int /\ k \in Int /\ (\A i \in 1 .. k : s[i] \in S) /\ k - 1 + 1 = k
        /\ (1 <= k \/ k = 0)
    BY <1>1, <1>2
  <2> HIDE DEF k
  <2>2. /\ SubSeq(s, 1, k) \in Seq(S)
        /\ Len(SubSeq(s, 1, k)) = IF 1 <= k THEN k - 1 + 1 ELSE 0
        /\ \A i \in 1 .. k - 1 + 1 : SubSeq(s, 1, k)[i] = s[1 + i - 1]
    BY <2>1, SubSeqProperties
  <2>3. \A i \in 1 .. k : 1 + i - 1 = i
    BY <1>2
  <2> QED
    BY <2>1, <2>2, <2>3
<1>4. /\ SubSeq(s, n + 1, L) \in Seq(S)
      /\ Len(SubSeq(s, n + 1, L)) = IF n < L THEN L - n ELSE 0
      /\ \A i \in 1 .. L - n : SubSeq(s, n + 1, L)[i] = s[n + i]
  <2>1. n + 1 \in Int /\ L \in Int /\ \A i \in n + 1 .. L : s[i] \in S
    BY <1>1
  <2>2. L - (n + 1) + 1 = L - n /\ (n + 1 <= L <=> n < L)
    BY <1>2
  <2> HIDE DEF L
  <2>3. /\ SubSeq(s, n + 1, L) \in Seq(S)
        /\ Len(SubSeq(s, n + 1, L)) = IF n + 1 <= L THEN L - (n + 1) + 1 ELSE 0
        /\ \A i \in 1 .. L - (n + 1) + 1 : SubSeq(s, n + 1, L)[i] = s[n + 1 + i - 1]
    BY <2>1, SubSeqProperties
  <2>4. \A i \in 1 .. L - n : n + 1 + i - 1 = n + i
    BY <1>2
  <2> QED
    BY <2>2, <2>3, <2>4
<1> QED
  BY <1>2, <1>3, <1>4 DEF First, Rest

\* A slice that is as long as the bytes takes them all.
LEMMA SliceAll ==
    ASSUME NEW S, NEW s \in Seq(S), NEW n \in Nat, n >= Len(s)
    PROVE  First(s, n) = s /\ Rest(s, n) = << >>
<1>1. Len(s) \in Nat /\ ~(n < Len(s))
  OBVIOUS
<1>2. First(s, n) = s
  <2>1. Len(First(s, n)) = Len(s) /\ \A i \in 1 .. Len(s) : First(s, n)[i] = s[i]
    BY <1>1, SliceType
  <2> QED
    BY <2>1, SliceType, SeqEqual
<1>3. Rest(s, n) = << >>
  BY <1>1, SliceType, EmptySeq
<1> QED
  BY <1>2, <1>3

\* Slices of two runs of bytes, one behind the other.
LEMMA SliceConcat ==
    ASSUME NEW S, NEW s \in Seq(S), NEW t \in Seq(S), NEW k \in Nat
    PROVE  /\ First(s \o t, Len(s)) = s
           /\ Rest(s \o t, Len(s)) = t
           /\ k <= Len(s) => First(s \o t, k) = First(s, k)
           /\ First(s \o t, Len(s) + k) = s \o First(t, k)
<1> DEFINE u == s \o t
           a == Len(s)
           b == Len(t)
<1>1. /\ u \in Seq(S) /\ Len(u) = a + b /\ a \in Nat /\ b \in Nat
      /\ \A i \in 1 .. a : u[i] = s[i]
      /\ \A i \in 1 .. b : u[a + i] = t[i]
  <2>1. a \in Nat /\ b \in Nat
    OBVIOUS
  <2>2. /\ u \in Seq(S) /\ Len(u) = a + b
        /\ \A i \in 1 .. a + b : u[i] = IF i <= a THEN s[i] ELSE t[i - a]
    BY ConcatProperties
  <2> HIDE DEF u, a, b
  <2>3. \A i \in 1 .. a : i \in 1 .. a + b /\ i <= a
    BY <2>1
  <2>4. \A i \in 1 .. b : a + i \in 1 .. a + b /\ ~(a + i <= a) /\ a + i - a = i
    BY <2>1
  <2> QED
    BY <2>1, <2>2, <2>3, <2>4
<1>2. ASSUME k <= a PROVE First(u, k) = First(s, k)
  <2>0. k < a + b \/ (k = a + b /\ a = k)
    <3> HIDE DEF u, a, b
    <3> QED
      BY <1>1, <1>2
  <2>1. Len(First(u, k)) = k /\ Len(First(s, k)) = k
    <3> HIDE DEF u, a, b
    <3>1. First(u, k) \in Seq(S) /\ Len(First(u, k)) = k
      BY <1>1, <2>0, SliceType
    <3>2. Len(First(s, k)) = k
      BY <1>1, <1>2, SliceType DEF a
    <3> QED
      BY <3>1, <3>2
  <2>2. \A i \in 1 .. k : First(u, k)[i] = u[i] /\ First(s, k)[i] = s[i]
    <3>1. \A i \in 1 .. Len(First(u, k)) : First(u, k)[i] = u[i]
      <4> HIDE DEF u, a, b
      <4> QED
        BY <1>1, SliceType
    <3>2. \A i \in 1 .. Len(First(s, k)) : First(s, k)[i] = s[i]
      BY SliceType
    <3> QED
      BY <2>1, <3>1, <3>2
  <2>3. \A i \in 1 .. k : i \in 1 .. a
    BY <1>1, <1>2
  <2>4. First(u, k) \in Seq(S) /\ First(s, k) \in Seq(S)
    BY <1>1, SliceType
  <2> HIDE DEF u, a, b
  <2> QED
    BY <1>1, <2>1, <2>2, <2>3, <2>4, SeqEqual
<1>3. First(u, a) = s
  <2>1. Len(First(u, a)) = a /\ First(u, a) \in Seq(S)
    <3> HIDE DEF u, a, b
    <3> QED
      BY <1>1, SliceType
  <2>2. \A i \in 1 .. a : First(u, a)[i] = u[i]
    <3>1. \A i \in 1 .. Len(First(u, a)) : First(u, a)[i] = u[i]
      <4> HIDE DEF u, a, b
      <4> QED
        BY <1>1, SliceType
    <3> QED
      BY <2>1, <3>1
  <2> QED
    BY <1>1, <2>1, <2>2, SeqEqual
<1>4. Rest(u, a) = t
  <2>1. Len(Rest(u, a)) = b /\ Rest(u, a) \in Seq(S)
    <3>1. (a < a + b => a + b - a = b) /\ (~(a < a + b) => b = 0)
      BY <1>1
    <3> HIDE DEF u, a, b
    <3> QED
      BY <1>1, <3>1, SliceType
  <2>2. \A i \in 1 .. b : Rest(u, a)[i] = u[a + i]
    <3>1. \A i \in 1 .. Len(Rest(u, a)) : Rest(u, a)[i] = u[a + i]
      <4> HIDE DEF u, a, b
      <4> QED
        BY <1>1, SliceType
    <3> QED
      BY <2>1, <3>1
  <2> QED
    BY <1>1, <2>1, <2>2, SeqEqual
<1>5. First(u, a + k) = s \o First(t, k)
  <2> DEFINE l == IF k < b THEN k ELSE b
             p == First(t, k)
             q == First(u, a + k)
  <2>1. /\ l \in Nat /\ l <= b /\ a + k \in Nat
        /\ (IF a + k < a + b THEN a + k ELSE a + b) = a + l
    BY <1>1
  <2>2. p \in Seq(S) /\ Len(p) = l /\ \A i \in 1 .. l : p[i] = t[i]
    BY SliceType
  <2>3. q \in Seq(S) /\ Len(q) = a + l /\ \A i \in 1 .. a + l : q[i] = u[i]
    <3> HIDE DEF u, a, b, l
    <3>1. q \in Seq(S) /\ Len(q) = (IF a + k < a + b THEN a + k ELSE a + b)
          /\ \A i \in 1 .. Len(q) : q[i] = u[i]
      BY <1>1, <2>1, SliceType
    <3> QED
      BY <2>1, <3>1
  <2> HIDE DEF p, q, l
  <2>4. /\ s \o p \in Seq(S) /\ Len(s \o p) = a + l
        /\ \A i \in 1 .. a + l : (s \o p)[i] = IF i <= a THEN s[i] ELSE p[i - a]
    BY <2>2, ConcatProperties
  <2>5. ASSUME NEW i \in 1 .. a + l PROVE q[i] = (s \o p)[i]
    <3>1. CASE i <= a
      <4>1. i \in 1 .. a
        BY <1>1, <2>1, <3>1
      <4> QED
        BY <1>1, <2>3, <2>4, <3>1, <4>1
    <3>2. CASE ~(i <= a)
      <4>1. i - a \in 1 .. l /\ i - a \in 1 .. b /\ a + (i - a) = i
        <5> HIDE DEF a, b
        <5> QED
          BY <1>1, <2>1, <3>2
      <4>2. u[a + (i - a)] = t[i - a]
        BY <1>1, <4>1
      <4> QED
        BY <2>2, <2>3, <2>4, <3>2, <4>1, <4>2
    <3> QED
      BY <3>1, <3>2
  <2>6. q = s \o p
    BY <2>3, <2>4, <2>5, SeqEqual
  <2> QED
    BY <2>6 DEF p, q
<1> QED
  BY <1>2, <1>3, <1>4, <1>5

\* It does not matter in which order sequences are joined.
LEMMA JoinedInAnyOrder ==
    ASSUME NEW S, NEW c \in Seq(S), NEW d \in Seq(S), NEW W, W \subseteq Seq(S)
    PROVE  \A h \in W : d \o h \in Seq(S) /\ (c \o d) \o h = c \o (d \o h)
<1> SUFFICES ASSUME NEW h \in Seq(S)
             PROVE  d \o h \in Seq(S) /\ (c \o d) \o h = c \o (d \o h)
  OBVIOUS
<1>1. d \o h \in Seq(S)
  BY ConcatProperties
<1>2. (c \o d) \o h = c \o (d \o h)
  BY ConcatAssociative
<1> QED
  BY <1>1, <1>2

\* Parts of bytes are bytes, joined in any order.
LEMMA BytesConcat ==
    \A c, d, e \in Seq(Bytes) :
        d \o e \in Seq(Bytes) /\ (c \o d) \o e = c \o (d \o e)
<1> SUFFICES ASSUME NEW c \in Seq(Bytes), NEW d \in Seq(Bytes), NEW e \in Seq(Bytes)
             PROVE  d \o e \in Seq(Bytes) /\ (c \o d) \o e = c \o (d \o e)
  OBVIOUS
<1>1. d \o e \in Seq(Bytes)
  BY ConcatProperties
<1>2. (c \o d) \o e = c \o (d \o e)
  BY ConcatAssociative
<1> QED
  BY <1>1, <1>2

\* Bytes are cut where they were joined, or further on.
LEMMA BytesSlice ==
    \A c, d \in Seq(Bytes) :
        /\ First(c \o d, Len(c)) = c /\ Rest(c \o d, Len(c)) = d
        /\ \A k \in Nat : First(c \o d, Len(c) + k) = c \o First(d, k)
<1> SUFFICES ASSUME NEW c \in Seq(Bytes), NEW d \in Seq(Bytes)
             PROVE  /\ First(c \o d, Len(c)) = c /\ Rest(c \o d, Len(c)) = d
                    /\ \A k \in Nat : First(c \o d, Len(c) + k) = c \o First(d, k)
  OBVIOUS
<1>1. 0 \in Nat
  OBVIOUS
<1>2. First(c \o d, Len(c)) = c /\ Rest(c \o d, Len(c)) = d
  BY <1>1, SliceConcat
<1>3. ASSUME NEW k \in Nat PROVE First(c \o d, Len(c) + k) = c \o First(d, k)
  BY SliceConcat
<1> QED
  BY <1>2, <1>3

-----------------------------------------------------------------------------
(* Varints                                                                 *)

\* What is assumed of the sizes of the format, in the form the proofs use.
LEMMA Sizes ==
    /\ Base \in Nat /\ Base > 1 /\ Base > 0 /\ 2 * Base \in Nat /\ 2 * Base > 0
    /\ MaxGroups \in Nat /\ MaxGroups > 0 /\ Wires \in Nat /\ Wires > 5
    /\ Wide \in Nat /\ Wide > 0 /\ Narrow \in Nat /\ Narrow > 0 /\ IdBytes \in Nat
    /\ MaxId \in Nat /\ MaxFields \in Nat
    /\ \A b \in Bytes : b \in Nat
    /\ \A b \in 0 .. 2 * Base - 1 : b \in Bytes
<1>1. Base \in Nat /\ Base > 1
  BY WireAssumption
<1>2. 2 * Base \in Nat /\ 2 * Base > 0
  BY <1>1
<1>3. (\A b \in Bytes : b \in Nat) /\ \A b \in 0 .. 2 * Base - 1 : b \in Bytes
  BY <1>1 DEF Bytes
<1> QED
  BY <1>1, <1>2, <1>3, WireAssumption

\* The bytes of a varint.
LEMMA VarintType ==
    ASSUME NEW x \in Nat, Fits(x, Base, MaxGroups)
    PROVE  /\ Groups(x) \in 1 .. MaxGroups /\ Fits(x, Base, Groups(x))
           /\ PutVarint(x) \in Seq(Bytes)
           /\ Len(PutVarint(x)) = Groups(x)
           /\ \A i \in 1 .. Groups(x) :
                /\ PutVarint(x)[i] < Base <=> i = Groups(x)
                /\ PutVarint(x)[i] % Base = Digits(x, Base, Groups(x))[i]
<1> DEFINE N == {k \in 1 .. MaxGroups : Fits(x, Base, k)}
           G == Groups(x)
           D == Digits(x, Base, G)
<1>1. N \subseteq Nat /\ MaxGroups \in N
  BY Sizes
<1>2. Min(N) \in N
  <2> HIDE DEF N
  <2> QED
    BY <1>1, Smallest
<1>3. G \in 1 .. MaxGroups /\ Fits(x, Base, G)
  BY <1>2 DEF Groups
<1>4. PutVarint(x) = [i \in 1 .. G |-> D[i] + (IF i < G THEN Base ELSE 0)]
  BY DEF PutVarint
<1> HIDE DEF N, G
<1>5. G \in Nat /\ G > 0
  BY <1>3, Sizes
<1>6. \A i \in 1 .. G : D[i] \in 0 .. Base - 1
  BY <1>5, Sizes, DigitsType
<1> HIDE DEF D
<1>7. ASSUME NEW i \in 1 .. G
      PROVE  /\ PutVarint(x)[i] \in Bytes
             /\ PutVarint(x)[i] < Base <=> i = G
             /\ PutVarint(x)[i] % Base = D[i]
  <2> DEFINE d == D[i]
  <2>1. d \in Nat /\ d < Base /\ PutVarint(x)[i] = d + (IF i < G THEN Base ELSE 0)
    BY <1>4, <1>6, Sizes
  <2> HIDE DEF d
  <2>2. CASE i < G
    <3>1. PutVarint(x)[i] = d + Base /\ i # G
      BY <2>1, <2>2
    <3>2. ~(d + Base < Base) /\ d + Base \in 0 .. 2 * Base - 1
      BY <2>1, Sizes
    <3>3. (d + Base) % Base = d
      BY <2>1, Sizes, MoreBit
    <3> QED
      BY <3>1, <3>2, <3>3, Sizes DEF d
  <2>3. CASE ~(i < G)
    <3>1. PutVarint(x)[i] = d /\ i = G
      BY <2>1, <2>3, <1>5
    <3>2. d \in 0 .. 2 * Base - 1
      BY <2>1, Sizes
    <3>3. d % Base = d
      BY <2>1, Sizes, MoreBit
    <3> QED
      BY <2>1, <3>1, <3>2, <3>3, Sizes DEF d
  <2> QED
    BY <2>2, <2>3
<1>8. PutVarint(x) \in [1 .. G -> Bytes]
  BY <1>4, <1>7
<1>9. PutVarint(x) \in Seq(Bytes) /\ Len(PutVarint(x)) = G
  BY <1>5, <1>8
<1> QED
  BY <1>3, <1>7, <1>9 DEF G, D

\* What _read_varint does, with its position spelled out.
Ends(data) == {i \in 1 .. Len(data) : data[i] < Base}

\* _read_varint by the first byte that ends the number.
LEMMA ReadVarint ==
    ASSUME NEW data
    PROVE  /\ Ends(data) = {} => _read_varint(data) = {}
           /\ \A n \in 1 .. MaxGroups : Ends(data) # {} /\ n = Min(Ends(data)) =>
                _read_varint(data) = {[value |-> Number([i \in 1 .. n |-> data[i] % Base], Base),
                                       rest  |-> Rest(data, n)]}
           /\ Ends(data) # {} /\ Min(Ends(data)) \notin 1 .. MaxGroups => _read_varint(data) = {}
<1> DEFINE n == SelectInSeq(data, LAMBDA b : b < Base)
<1>1. n = IF Ends(data) # {} THEN Min(Ends(data)) ELSE 0
  BY DEF SelectInSeq, Ends
<1>2. 0 \notin 1 .. MaxGroups
  BY Sizes
<1> HIDE DEF n
<1>3. _read_varint(data) =
        IF n \in 1 .. MaxGroups
          THEN {[value |-> Number([i \in 1 .. n |-> data[i] % Base], Base), rest |-> Rest(data, n)]}
          ELSE {}
  BY DEF _read_varint, n
<1> QED
  BY <1>1, <1>2, <1>3

\* A number that was read takes at least one byte.
LEMMA ReadVarintType ==
    ASSUME NEW data \in Seq(Bytes), NEW v \in _read_varint(data)
    PROVE  /\ v = [value |-> v.value, rest |-> v.rest]
           /\ v.value \in Nat /\ v.rest \in Seq(Bytes) /\ Len(v.rest) < Len(data)
<1> DEFINE n == Min(Ends(data))
<1>1. Ends(data) \subseteq Nat /\ \A i \in Ends(data) : i \in 1 .. Len(data)
  BY DEF Ends
<1>2. Ends(data) # {} /\ n \in 1 .. MaxGroups
  BY ReadVarint
<1>3. n \in Ends(data)
  BY <1>1, <1>2, Smallest
<1> HIDE DEF n
<1>4. n \in 1 .. Len(data) /\ n \in Nat /\ Len(data) \in Nat /\ n > 0
  BY <1>1, <1>3
<1>5. v = [value |-> Number([i \in 1 .. n |-> data[i] % Base], Base), rest |-> Rest(data, n)]
  BY <1>2, ReadVarint DEF n
<1>6. [i \in 1 .. n |-> data[i] % Base] \in Seq(Nat)
  <2>1. ASSUME NEW i \in 1 .. n PROVE data[i] % Base \in Nat
    <3>1. i \in 1 .. Len(data)
      BY <1>4
    <3>2. data[i] \in Nat
      BY <3>1, Sizes
    <3> QED
      BY <3>2, Sizes, DivMod
  <2>2. [i \in 1 .. n |-> data[i] % Base] \in [1 .. n -> Nat]
    BY <2>1
  <2> QED
    BY <1>4, <2>2
<1>7. Number([i \in 1 .. n |-> data[i] % Base], Base) \in Nat
  BY <1>6, Sizes, NumberType
<1>8. Rest(data, n) \in Seq(Bytes) /\ Len(Rest(data, n)) = IF n < Len(data) THEN Len(data) - n ELSE 0
  BY <1>4, SliceType
<1>9. Len(Rest(data, n)) < Len(data)
  BY <1>4, <1>8
<1> QED
  BY <1>5, <1>7, <1>8, <1>9

\* A varint is read back, ...
LEMMA VarintExact ==
    ASSUME NEW x \in Nat, Fits(x, Base, MaxGroups), NEW rest \in Seq(Bytes)
    PROVE  _read_varint(PutVarint(x) \o rest) = {[value |-> x, rest |-> rest]}
<1> DEFINE p == PutVarint(x)
           data == p \o rest
           G == Groups(x)
           D == Digits(x, Base, G)
<1>1. /\ G \in 1 .. MaxGroups /\ Fits(x, Base, G) /\ p \in Seq(Bytes) /\ Len(p) = G
      /\ \A i \in 1 .. G : (p[i] < Base <=> i = G) /\ p[i] % Base = D[i]
  BY VarintType
<1>2. G \in Nat /\ G > 0 /\ Len(rest) \in Nat
  BY <1>1
<1>3. /\ data \in Seq(Bytes) /\ Len(data) = G + Len(rest)
      /\ \A i \in 1 .. G + Len(rest) : i <= G => data[i] = p[i]
  <2> HIDE DEF p, G
  <2> QED
    BY <1>1, ConcatProperties
<1>4. Rest(data, G) = rest
  <2> HIDE DEF p, G
  <2> QED
    BY <1>1, SliceConcat
<1> HIDE DEF p, data, G
<1>5. \A i \in 1 .. G : i \in 1 .. G + Len(rest) /\ data[i] = p[i]
  BY <1>2, <1>3
<1>6. Ends(data) # {} /\ Min(Ends(data)) = G
  <2>1. G \in Ends(data)
    BY <1>1, <1>2, <1>3, <1>5 DEF Ends
  <2>2. ASSUME NEW i \in Ends(data) PROVE G <= i
    <3> SUFFICES ASSUME i < G PROVE FALSE
      BY <1>2 DEF Ends
    <3>1. i \in 1 .. G /\ i # G
      BY <1>2 DEF Ends
    <3> QED
      BY <1>1, <1>5, <3>1 DEF Ends
  <2>3. Ends(data) \subseteq Nat
    BY DEF Ends
  <2>4. Min(Ends(data)) \in Ends(data) /\ Min(Ends(data)) <= G
    BY <2>1, <2>3, Smallest
  <2>5. G <= Min(Ends(data)) /\ Min(Ends(data)) \in Nat
    BY <2>2, <2>3, <2>4
  <2> QED
    BY <1>2, <2>1, <2>4, <2>5
<1>7. [i \in 1 .. G |-> data[i] % Base] = D
  <2>1. DOMAIN D = 1 .. G /\ D = [i \in 1 .. G |-> D[i]]
    BY DEF Digits
  <2>2. \A i \in 1 .. G : data[i] % Base = D[i]
    BY <1>1, <1>5
  <2> HIDE DEF D
  <2> QED
    BY <2>1, <2>2
<1>8. Number(D, Base) = x
  BY <1>1, <1>2, Sizes, NumberOfDigits
<1> QED
  BY <1>1, <1>4, <1>6, <1>7, <1>8, ReadVarint DEF data, p

\* ... and refused if the bytes end before it does.
LEMMA VarintCut ==
    ASSUME NEW x \in Nat, Fits(x, Base, MaxGroups), NEW k \in Nat, k < Len(PutVarint(x))
    PROVE  _read_varint(First(PutVarint(x), k)) = {}
<1> DEFINE p == PutVarint(x)
           data == First(p, k)
           G == Groups(x)
<1>1. /\ G \in 1 .. MaxGroups /\ p \in Seq(Bytes) /\ Len(p) = G
      /\ \A i \in 1 .. G : p[i] < Base <=> i = G
  BY VarintType
<1> HIDE DEF p, G
<1>2. Len(data) = k /\ \A i \in 1 .. Len(data) : data[i] = p[i]
  BY <1>1, SliceType DEF p
<1>3. \A i \in 1 .. k : i \in 1 .. G /\ i # G
  BY <1>1 DEF p
<1>4. Ends(data) = {}
  BY <1>1, <1>2, <1>3 DEF Ends
<1> QED
  BY <1>4, ReadVarint DEF p

-----------------------------------------------------------------------------
(* The bytes of messages                                                   *)

Upto(s, k) == [i \in 1 .. k |-> s[i]]

\* Flattening goes from left to right.
LEMMA Flattened ==
    ASSUME NEW S, NEW n \in Nat, NEW s, \A i \in 1 .. n : s[i] \in Seq(S)
    PROVE  /\ FlattenSeq(Upto(s, 0)) = << >>
           /\ \A k \in 0 .. n : FlattenSeq(Upto(s, k)) \in Seq(S)
           /\ \A k \in 0 .. n - 1 :
                FlattenSeq(Upto(s, k + 1)) = FlattenSeq(Upto(s, k)) \o s[k + 1]
<1> DEFINE step == [p \in Seq(S) \X Nat |-> IF p[2] < n THEN p[1] \o s[p[2] + 1] ELSE p[1]]
<1>1. ASSUME NEW x \in Seq(S), NEW i \in Nat
      PROVE  step[<<x, i>>] \in Seq(S) /\ (i < n => step[<<x, i>>] = x \o s[i + 1])
  <2>1. step[<<x, i>>] = IF i < n THEN x \o s[i + 1] ELSE x
    OBVIOUS
  <2>2. CASE i < n
    <3>1. i + 1 \in 1 .. n
      BY <2>2
    <3>2. x \o s[i + 1] \in Seq(S)
      BY <3>1, ConcatProperties
    <3> QED
      BY <2>1, <2>2, <3>2
  <2> QED
    BY <2>1, <2>2
<1>2. IsStep(step, Seq(S))
  BY <1>1 DEF IsStep
<1>3. << >> \in Seq(S)
  OBVIOUS
<1> HIDE DEF step
<1>4. PICK u : IsRun(u, << >>, step, Seq(S))
  BY <1>2, <1>3, Repeated
<1>5. /\ \A i \in Nat : u[i] \in Seq(S)
      /\ u[0] = << >>
      /\ \A i \in Nat : i < n => u[i + 1] = u[i] \o s[i + 1]
  BY <1>1, <1>4 DEF IsRun
<1>6. ASSUME NEW k \in 0 .. n PROVE FlattenSeq(Upto(s, k)) = u[k]
  <2> DEFINE t == Upto(s, k)
             flatten == CHOOSE g : g = [i \in 1 .. Len(t) |-> IF i = 1 THEN t[i] ELSE g[i - 1] \o t[i]]
  <2>1. k \in Nat /\ t \in [1 .. k -> Seq(S)]
    BY DEF Upto
  <2>2. t \in Seq(Seq(S)) /\ Len(t) = k
    <3> HIDE DEF t
    <3> QED
      BY <2>1
  <2>3. \A i \in 1 .. k : t[i] = s[i]
    BY DEF Upto
  <2>4. FlattenSeq(t) = IF Len(t) = 0 THEN t ELSE flatten[Len(t)]
    BY DEF FlattenSeq
  <2> HIDE DEF t
  <2>5. CASE k = 0
    <3>1. t = << >>
      BY <2>2, <2>5, EmptySeq
    <3> QED
      BY <1>5, <2>2, <2>4, <2>5, <3>1 DEF t
  <2>6. CASE k # 0
    <3> DEFINE v == [i \in 1 .. k |-> u[i]]
    <3>1. ASSUME NEW i \in 1 .. k
          PROVE  v[i] = IF i = 1 THEN t[i] ELSE v[i - 1] \o t[i]
      <4>1. i - 1 \in Nat /\ i - 1 < n /\ i - 1 + 1 = i
        OBVIOUS
      <4>2. u[i] = u[i - 1] \o s[i]
        BY <1>5, <4>1
      <4>3. CASE i = 1
        <5>1. i - 1 = 0 /\ s[i] \in Seq(S)
          BY <4>3
        <5>2. << >> \o s[i] = s[i]
          BY <5>1, ConcatEmptySeq
        <5> QED
          BY <1>5, <2>3, <4>2, <4>3, <5>1, <5>2
      <4>4. CASE i # 1
        <5>1. i - 1 \in 1 .. k
          BY <4>4
        <5> QED
          BY <2>3, <4>2, <4>4, <5>1
      <4> QED
        BY <4>3, <4>4
    <3> HIDE DEF v
    <3>2. v = [i \in 1 .. k |-> IF i = 1 THEN t[i] ELSE v[i - 1] \o t[i]]
      BY <3>1 DEF v
    <3>3. flatten = [i \in 1 .. k |-> IF i = 1 THEN t[i] ELSE flatten[i - 1] \o t[i]]
      BY <2>2, <3>2
    <3> HIDE DEF flatten
    <3> DEFINE T == {i \in Nat : i < k => flatten[i + 1] = u[i + 1]}
    <3>4. 0 \in T
      <4>1. 1 \in 1 .. k
        BY <2>1, <2>6
      <4>2. flatten[1] = t[1] /\ u[1] = t[1]
        BY <3>1, <3>3, <4>1 DEF v
      <4> QED
        BY <4>2
    <3>5. ASSUME NEW i \in Nat, i \in T PROVE i + 1 \in T
      <4> SUFFICES ASSUME i + 1 < k PROVE flatten[i + 2] = u[i + 2]
        OBVIOUS
      <4> DEFINE j == i + 2
      <4>1. /\ i < k /\ j \in 1 .. k /\ j # 1 /\ j - 1 = i + 1 /\ i + 1 \in 1 .. k /\ j = i + 2
            /\ i + 1 + 1 = j
        BY <2>1
      <4>2. flatten[i + 1] = u[i + 1]
        BY <3>5, <4>1
      <4> HIDE DEF j
      <4>3. v[j] = v[j - 1] \o t[j]
        BY <3>1, <4>1
      <4>4. u[j] = u[i + 1] \o t[j]
        BY <4>1, <4>3 DEF v
      <4>5. flatten[j] = flatten[j - 1] \o t[j]
        BY <3>3, <4>1
      <4> QED
        BY <4>1, <4>2, <4>4, <4>5
    <3>6. Nat \subseteq T
      <4> HIDE DEF T
      <4> QED
        BY <3>4, <3>5, Induction
    <3>7. k - 1 \in Nat /\ k - 1 < k /\ k - 1 + 1 = k
      BY <2>1, <2>6
    <3>8. flatten[k] = u[k]
      BY <3>6, <3>7
    <3> QED
      BY <2>2, <2>4, <2>6, <3>8 DEF t
  <2> QED
    BY <2>5, <2>6
<1>7. ASSUME NEW k \in 0 .. n - 1
      PROVE  FlattenSeq(Upto(s, k + 1)) = FlattenSeq(Upto(s, k)) \o s[k + 1]
  <2>1. k \in 0 .. n /\ k + 1 \in 0 .. n /\ k \in Nat /\ k < n
    OBVIOUS
  <2> QED
    BY <1>5, <1>6, <2>1
<1>8. 0 \in 0 .. n /\ \A k \in 0 .. n : k \in Nat
  OBVIOUS
<1> QED
  BY <1>5, <1>6, <1>7, <1>8

Tag(f) == f.no * Wires + f.wire

Body(f) == CASE f.wire = 0 -> PutVarint(f.of)
             [] f.wire = 1 -> Digits(f.of, 2 * Base, Wide)
             [] f.wire = 2 -> PutVarint(Len(f.of)) \o f.of
             [] f.wire = 5 -> Digits(f.of, 2 * Base, Narrow)

\* A field's tag tells its number and its wire type.
LEMMA TagExact ==
    ASSUME NEW f \in Fields
    PROVE  /\ Tag(f) \in Nat /\ Fits(Tag(f), Base, MaxGroups)
           /\ f.no \in Nat /\ f.wire \in {0, 1, 2, 5}
           /\ Tag(f) \div Wires = f.no /\ Tag(f) % Wires = f.wire
<1>1. /\ f.no \in Nat /\ Fits(Tag(f), Base, MaxGroups)
      /\ f.wire = 0 \/ f.wire = 1 \/ f.wire = 2 \/ f.wire = 5
  BY WireAssumption DEF WireField, Tag
<1>2. f.wire \in Nat /\ f.wire < Wires /\ f.wire \in {0, 1, 2, 5}
  BY <1>1, Sizes
<1>3. f.no * Wires + f.wire \in Nat
  BY <1>1, <1>2, Sizes
<1>4. /\ (f.no * Wires + f.wire) \div Wires = f.no
      /\ (f.no * Wires + f.wire) % Wires = f.wire
  <2> DEFINE q == f.no
             t == f.wire
  <2>1. q \in Nat /\ t \in Nat /\ t < Wires
    BY <1>1, <1>2
  <2> HIDE DEF q, t
  <2>2. (q * Wires + t) \div Wires = q /\ (q * Wires + t) % Wires = t
    BY <2>1, Sizes, DivModUnique
  <2> QED
    BY <2>2 DEF q, t
<1> QED
  BY <1>1, <1>2, <1>3, <1>4 DEF Tag

\* What follows the tag, by wire type.
LEMMA BodyType ==
    ASSUME NEW f \in Fields
    PROVE  /\ PutField(f) = PutVarint(Tag(f)) \o Body(f)
           /\ Body(f) \in Seq(Bytes)
           /\ f.wire = 0 => f.of \in Nat /\ Fits(f.of, Base, MaxGroups) /\ Body(f) = PutVarint(f.of)
           /\ f.wire = 1 => /\ f.of \in Nat /\ Fits(f.of, 2 * Base, Wide)
                            /\ Body(f) = Digits(f.of, 2 * Base, Wide) /\ Len(Body(f)) = Wide
           /\ f.wire = 2 => /\ f.of \in Seq(Bytes) /\ Fits(Len(f.of), Base, MaxGroups)
                            /\ Body(f) = PutVarint(Len(f.of)) \o f.of
           /\ f.wire = 5 => /\ f.of \in Nat /\ Fits(f.of, 2 * Base, Narrow)
                            /\ Body(f) = Digits(f.of, 2 * Base, Narrow) /\ Len(Body(f)) = Narrow
<1>1. WireField(f)
  BY WireAssumption
<1>2. PutField(f) = PutVarint(Tag(f)) \o Body(f)
  BY DEF PutField, Tag, Body
<1>3. ASSUME NEW n \in Nat, NEW size \in Nat
      PROVE  Digits(n, 2 * Base, size) \in Seq(Bytes) /\ Len(Digits(n, 2 * Base, size)) = size
  BY Sizes, DigitsType DEF Bytes
<1>4. CASE f.wire = 0
  <2>1. f.of \in Nat /\ Fits(f.of, Base, MaxGroups) /\ Body(f) = PutVarint(f.of)
    BY <1>1, <1>4 DEF WireField, Body
  <2> QED
    BY <1>2, <1>4, <2>1, VarintType
<1>5. CASE f.wire = 1
  <2>1. f.of \in Nat /\ Fits(f.of, 2 * Base, Wide) /\ Body(f) = Digits(f.of, 2 * Base, Wide)
    BY <1>1, <1>5 DEF WireField, Body
  <2>2. /\ Digits(f.of, 2 * Base, Wide) \in Seq(Bytes)
        /\ Len(Digits(f.of, 2 * Base, Wide)) = Wide
    BY <1>3, <2>1, Sizes
  <2> QED
    BY <1>2, <1>5, <2>1, <2>2
<1>6. CASE f.wire = 2
  <2>1. f.of \in Seq(Bytes) /\ Fits(Len(f.of), Base, MaxGroups) /\ Body(f) = PutVarint(Len(f.of)) \o f.of
    <3>1. f.of \in Seq(Bytes) /\ Fits(Len(f.of), Base, MaxGroups)
      BY <1>1, <1>6 DEF WireField
    <3>2. Body(f) = PutVarint(Len(f.of)) \o f.of
      <4> DEFINE a == PutVarint(f.of)
                 b == Digits(f.of, 2 * Base, Wide)
                 c == PutVarint(Len(f.of)) \o f.of
                 d == Digits(f.of, 2 * Base, Narrow)
      <4>1. Body(f) = CASE f.wire = 0 -> a [] f.wire = 1 -> b [] f.wire = 2 -> c [] f.wire = 5 -> d
        BY Zenon DEF Body
      <4> HIDE DEF a, b, c, d
      <4>2. Body(f) = c
        BY <1>6, <4>1
      <4> QED
        BY <4>2 DEF c
    <3> QED
      BY <3>1, <3>2
  <2>2. Len(f.of) \in Nat
    BY <2>1
  <2>3. PutVarint(Len(f.of)) \in Seq(Bytes)
    BY <2>1, <2>2, VarintType
  <2>4. Body(f) \in Seq(Bytes)
    BY <2>1, <2>3, ConcatProperties
  <2> QED
    BY <1>2, <1>6, <2>1, <2>4
<1>7. CASE f.wire = 5
  <2>1. f.of \in Nat /\ Fits(f.of, 2 * Base, Narrow) /\ Body(f) = Digits(f.of, 2 * Base, Narrow)
    BY <1>1, <1>7 DEF WireField, Body
  <2>2. /\ Digits(f.of, 2 * Base, Narrow) \in Seq(Bytes)
        /\ Len(Digits(f.of, 2 * Base, Narrow)) = Narrow
    BY <1>3, <2>1, Sizes
  <2> QED
    BY <1>2, <1>7, <2>1, <2>2
<1> QED
  BY <1>4, <1>5, <1>6, <1>7, TagExact

\* A field is bytes: a tag, never empty, and the value behind it.
LEMMA FieldType ==
    ASSUME NEW f \in Fields
    PROVE  /\ PutField(f) \in Seq(Bytes)
           /\ Len(PutField(f)) = Len(PutVarint(Tag(f))) + Len(Body(f))
           /\ Len(PutVarint(Tag(f))) \in Nat /\ Len(PutVarint(Tag(f))) > 0
           /\ Len(PutField(f)) > 0
           /\ f.wire = 2 => Len(f.of) < Len(PutField(f))
<1> DEFINE t == PutVarint(Tag(f))
<1>1. t \in Seq(Bytes) /\ Len(t) \in Nat /\ Len(t) > 0
  <2>1. t \in Seq(Bytes) /\ Len(t) \in 1 .. MaxGroups
    BY TagExact, VarintType
  <2> QED
    BY <2>1
<1>2. PutField(f) \in Seq(Bytes) /\ Len(PutField(f)) = Len(t) + Len(Body(f))
  BY <1>1, BodyType, ConcatProperties
<1>3. Len(Body(f)) \in Nat
  BY BodyType
<1>4. ASSUME f.wire = 2 PROVE Len(f.of) \in Nat /\ Len(f.of) <= Len(Body(f))
  <2>1. f.of \in Seq(Bytes) /\ Fits(Len(f.of), Base, MaxGroups) /\ Body(f) = PutVarint(Len(f.of)) \o f.of
    BY <1>4, BodyType
  <2>2. Len(f.of) \in Nat
    BY <2>1
  <2>3. PutVarint(Len(f.of)) \in Seq(Bytes)
    BY <2>1, <2>2, VarintType
  <2>4. Len(Body(f)) = Len(PutVarint(Len(f.of))) + Len(f.of) /\ Len(PutVarint(Len(f.of))) \in Nat
    BY <2>1, <2>3, ConcatProperties
  <2> DEFINE a == Len(PutVarint(Len(f.of)))
             b == Len(f.of)
  <2>5. Len(Body(f)) = a + b /\ a \in Nat /\ b \in Nat
    BY <2>2, <2>4
  <2> HIDE DEF a, b
  <2>6. b <= Len(Body(f))
    BY <2>5
  <2> QED
    BY <2>2, <2>6 DEF b
<1> QED
  BY <1>1, <1>2, <1>3, <1>4

\* A message is put field by field.
LEMMA PutSteps ==
    ASSUME NEW n \in Nat, NEW m \in [1 .. n -> Fields]
    PROVE  /\ Put(Upto(m, 0)) = << >>
           /\ \A k \in 0 .. n : Put(Upto(m, k)) \in Seq(Bytes)
           /\ \A k \in 0 .. n - 1 : Put(Upto(m, k + 1)) = Put(Upto(m, k)) \o PutField(m[k + 1])
<1> DEFINE s == [i \in 1 .. n |-> PutField(m[i])]
<1>1. \A i \in 1 .. n : s[i] \in Seq(Bytes)
  BY FieldType
<1>2. ASSUME NEW k \in 0 .. n PROVE Put(Upto(m, k)) = FlattenSeq(Upto(s, k))
  <2>1. [i \in DOMAIN Upto(m, k) |-> PutField(Upto(m, k)[i])] = Upto(s, k)
    <3>1. DOMAIN Upto(m, k) = 1 .. k
      BY DEF Upto
    <3>2. \A i \in 1 .. k : Upto(m, k)[i] = m[i] /\ s[i] = PutField(m[i])
      BY DEF Upto
    <3> HIDE DEF s
    <3> QED
      BY <3>1, <3>2 DEF Upto
  <2> QED
    BY <2>1 DEF Put
<1>3. \A k \in 0 .. n - 1 : /\ k \in 0 .. n /\ k + 1 \in 0 .. n
                            /\ k + 1 \in 1 .. n /\ s[k + 1] = PutField(m[k + 1])
  OBVIOUS
<1>4. 0 \in 0 .. n
  OBVIOUS
<1> HIDE DEF s
<1>5. /\ FlattenSeq(Upto(s, 0)) = << >>
      /\ \A k \in 0 .. n : FlattenSeq(Upto(s, k)) \in Seq(Bytes)
      /\ \A k \in 0 .. n - 1 :
           FlattenSeq(Upto(s, k + 1)) = FlattenSeq(Upto(s, k)) \o s[k + 1]
  BY <1>1, Flattened
<1> QED
  BY <1>2, <1>3, <1>4, <1>5

\* All fields of a message are the message.
LEMMA UptoAll ==
    ASSUME NEW n \in Nat, NEW m \in [1 .. n -> Fields]
    PROVE  Upto(m, n) = m /\ m \in Seq(Fields) /\ Len(m) = n /\ DOMAIN m = 1 .. n
BY DEF Upto

\* Every field of a message is somewhere in its bytes.
LEMMA PutLength ==
    ASSUME NEW n \in Nat, NEW m \in [1 .. n -> Fields]
    PROVE  /\ Put(m) \in Seq(Bytes)
           /\ \A i \in 1 .. n : Len(PutField(m[i])) <= Len(Put(m))
<1> DEFINE T == {k \in Nat : k <= n =>
                   \A i \in 1 .. k : Len(PutField(m[i])) <= Len(Put(Upto(m, k)))}
<1>1. 0 \in T
  OBVIOUS
<1>2. ASSUME NEW k \in Nat, k \in T PROVE k + 1 \in T
  <2> SUFFICES ASSUME k + 1 <= n, NEW i \in 1 .. k + 1
               PROVE  Len(PutField(m[i])) <= Len(Put(Upto(m, k + 1)))
    OBVIOUS
  <2> DEFINE p == Put(Upto(m, k))
             q == PutField(m[k + 1])
  <2>1. k \in 0 .. n /\ k \in 0 .. n - 1 /\ k + 1 \in 1 .. n /\ i \in 1 .. n /\ k <= n
    OBVIOUS
  <2>2. p \in Seq(Bytes) /\ q \in Seq(Bytes) /\ Put(Upto(m, k + 1)) = p \o q
    BY <2>1, PutSteps, FieldType
  <2>3. \A j \in 1 .. k : Len(PutField(m[j])) <= Len(p)
    BY <1>2, <2>1
  <2> HIDE DEF p, T
  <2>4. Len(p \o q) = Len(p) + Len(q) /\ Len(p) \in Nat /\ Len(q) \in Nat
    <3> HIDE DEF q
    <3> QED
      BY <2>2, ConcatProperties
  <2>5. CASE i = k + 1
    BY <2>2, <2>4, <2>5
  <2>6. CASE i # k + 1
    <3>1. i \in 1 .. k /\ m[i] \in Fields
      BY <2>1, <2>6
    <3>2. Len(PutField(m[i])) <= Len(p) /\ Len(PutField(m[i])) \in Nat
      BY <2>3, <3>1, FieldType
    <3> QED
      BY <2>2, <2>4, <3>2
  <2> QED
    BY <2>5, <2>6
<1>3. Nat \subseteq T
  <2> HIDE DEF T
  <2> QED
    BY <1>1, <1>2, Induction
<1>4. \A i \in 1 .. n : Len(PutField(m[i])) <= Len(Put(Upto(m, n)))
  BY <1>3
<1>5. n \in 0 .. n
  OBVIOUS
<1>6. Put(Upto(m, n)) \in Seq(Bytes)
  BY <1>5, PutSteps
<1> QED
  BY <1>4, <1>6, UptoAll

-----------------------------------------------------------------------------
(* The recursion of the walk                                               *)

\* ReadValue, one wire type at a time.
LEMMA ReadCases ==
    ASSUME NEW g, NEW w, NEW data
    PROVE  /\ w = 0 => ReadValue(g, w, data) =
                         {[v EXCEPT !.value = <<"number", @>>] : v \in _read_varint(data)}
           /\ w = 1 => ReadValue(g, w, data) = Fixed(data, Wide)
           /\ w = 2 => ReadValue(g, w, data) =
                         {[value |-> _decode_length_delimited(g, First(v.rest, v.value)),
                           rest  |-> Rest(v.rest, v.value)] : v \in _read_varint(data)}
           /\ w = 5 => ReadValue(g, w, data) = Fixed(data, Narrow)
           /\ w \notin {0, 1, 2, 5} => ReadValue(g, w, data) = {}
<1> DEFINE a == {[v EXCEPT !.value = <<"number", @>>] : v \in _read_varint(data)}
           b == Fixed(data, Wide)
           c == {[value |-> _decode_length_delimited(g, First(v.rest, v.value)),
                  rest  |-> Rest(v.rest, v.value)] : v \in _read_varint(data)}
           d == Fixed(data, Narrow)
<1>1. ReadValue(g, w, data) = CASE w = 0 -> a [] w = 1 -> b [] w = 2 -> c [] w = 5 -> d [] OTHER -> {}
  BY Zenon DEF ReadValue
<1> HIDE DEF a, b, c, d
<1>2. /\ w = 0 => ReadValue(g, w, data) = a
      /\ w = 1 => ReadValue(g, w, data) = b
      /\ w = 2 => ReadValue(g, w, data) = c
      /\ w = 5 => ReadValue(g, w, data) = d
      /\ w \notin {0, 1, 2, 5} => ReadValue(g, w, data) = {}
  BY <1>1
<1> QED
  BY Zenon, <1>2 DEF a, b, c, d

\* Reading a value never goes back in the bytes.
LEMMA ReadValueType ==
    ASSUME NEW g, NEW w, NEW data \in Seq(Bytes), NEW v \in ReadValue(g, w, data)
    PROVE  v.rest \in Seq(Bytes) /\ Len(v.rest) <= Len(data)
<1>1. Len(data) \in Nat
  OBVIOUS
<1>2. ASSUME NEW size \in Nat, v \in Fixed(data, size)
      PROVE  v.rest \in Seq(Bytes) /\ Len(v.rest) <= Len(data)
  <2>1. v.rest = Rest(data, size)
    BY <1>2 DEF Fixed
  <2>2. Rest(data, size) \in Seq(Bytes)
        /\ Len(Rest(data, size)) = IF size < Len(data) THEN Len(data) - size ELSE 0
    BY SliceType
  <2> QED
    BY <1>1, <2>1, <2>2
<1>3. CASE w = 0
  <2>1. PICK u \in _read_varint(data) : v = [u EXCEPT !.value = <<"number", @>>]
    BY <1>3, ReadCases
  <2>2. v.rest = u.rest
    BY <2>1, ReadVarintType
  <2> QED
    BY <1>1, <2>2, ReadVarintType
<1>4. CASE w = 1
  BY <1>2, <1>4, ReadCases, Sizes
<1>5. CASE w = 2
  <2>1. PICK u \in _read_varint(data) :
          v = [value |-> _decode_length_delimited(g, First(u.rest, u.value)),
               rest  |-> Rest(u.rest, u.value)]
    BY <1>5, ReadCases
  <2>2. u.value \in Nat /\ u.rest \in Seq(Bytes) /\ Len(u.rest) < Len(data)
    BY ReadVarintType
  <2>3. v.rest = Rest(u.rest, u.value)
    BY <2>1
  <2>4. /\ Rest(u.rest, u.value) \in Seq(Bytes)
        /\ Len(Rest(u.rest, u.value)) =
             IF u.value < Len(u.rest) THEN Len(u.rest) - u.value ELSE 0
    BY <2>2, SliceType
  <2>5. Len(u.rest) \in Nat
    BY <2>2
  <2> QED
    BY <1>1, <2>2, <2>3, <2>4, <2>5
<1>6. CASE w = 5
  BY <1>2, <1>6, ReadCases, Sizes
<1> QED
  BY <1>3, <1>4, <1>5, <1>6, ReadCases

\* g and h agree on all bytes that are shorter than these.
Agree(g, h, n) == \A d \in Seq(Bytes) : Len(d) < n => g[d] = h[d]

\* What a value is depends only on how shorter bytes are walked.
LEMMA ReadLocal ==
    ASSUME NEW g, NEW h, NEW w, NEW data \in Seq(Bytes), Agree(g, h, Len(data))
    PROVE  ReadValue(g, w, data) = ReadValue(h, w, data)
<1>1. CASE w = 2
  <2>1. ASSUME NEW v \in _read_varint(data)
        PROVE  _decode_length_delimited(g, First(v.rest, v.value)) =
               _decode_length_delimited(h, First(v.rest, v.value))
    <3> DEFINE chunk == First(v.rest, v.value)
    <3>1. v.value \in Nat /\ v.rest \in Seq(Bytes) /\ Len(v.rest) < Len(data)
      BY ReadVarintType
    <3>2. /\ chunk \in Seq(Bytes)
          /\ Len(chunk) = IF v.value < Len(v.rest) THEN v.value ELSE Len(v.rest)
      BY <3>1, SliceType
    <3>3. Len(v.rest) \in Nat /\ Len(data) \in Nat
      BY <3>1
    <3>4. Len(chunk) < Len(data)
      BY <3>1, <3>2, <3>3
    <3> HIDE DEF chunk
    <3>5. g[chunk] = h[chunk]
      BY <3>2, <3>4 DEF Agree
    <3>6. decode_protobuf(g, chunk) = decode_protobuf(h, chunk)
      BY <3>5 DEF decode_protobuf
    <3>7. _decode_length_delimited(g, chunk) = _decode_length_delimited(h, chunk)
      BY <3>6 DEF _decode_length_delimited
    <3> QED
      BY <3>7 DEF chunk
  <2> DEFINE Cut(k) == {[value |-> _decode_length_delimited(k, First(v.rest, v.value)),
                         rest  |-> Rest(v.rest, v.value)] : v \in _read_varint(data)}
  <2>2. Cut(g) = Cut(h)
    BY <2>1
  <2>3. ReadValue(g, w, data) = Cut(g) /\ ReadValue(h, w, data) = Cut(h)
    BY <1>1, ReadCases
  <2> HIDE DEF Cut
  <2> QED
    BY <2>2, <2>3
<1>2. CASE w = 0
  BY <1>2, ReadCases
<1>3. CASE w = 1
  BY <1>3, ReadCases
<1>4. CASE w = 5
  BY <1>4, ReadCases
<1>5. CASE w \notin {0, 1, 2, 5}
  BY <1>5, ReadCases
<1> QED
  BY <1>1, <1>2, <1>3, <1>4, <1>5

WalkBody(g, data) ==
    IF data = << >> THEN {<< >>}
    ELSE UNION {UNION {{<<<<tag.value \div Wires, v.value>>>> \o fields : fields \in g[v.rest]} :
                         v \in ReadValue(g, tag.value % Wires, tag.rest)} :
                  tag \in _read_varint(data)}

\* So does what the walk finds.
LEMMA WalkLocal ==
    ASSUME NEW g, NEW h, NEW data \in Seq(Bytes), Agree(g, h, Len(data))
    PROVE  WalkBody(g, data) = WalkBody(h, data)
<1> DEFINE After(k, tag) ==
             UNION {{<<<<tag.value \div Wires, v.value>>>> \o fields : fields \in k[v.rest]} :
                         v \in ReadValue(k, tag.value % Wires, tag.rest)}
<1>1. ASSUME NEW tag \in _read_varint(data) PROVE After(g, tag) = After(h, tag)
  <2>1. tag.rest \in Seq(Bytes) /\ Len(tag.rest) < Len(data) /\ Len(data) \in Nat
        /\ Len(tag.rest) \in Nat
    BY ReadVarintType, LenProperties
  <2>2. Agree(g, h, Len(tag.rest))
    <3>1. \A d \in Seq(Bytes) : Len(d) \in Nat
      OBVIOUS
    <3>2. ASSUME NEW d \in Seq(Bytes), Len(d) < Len(tag.rest) PROVE Len(d) < Len(data)
      BY <2>1, <3>1, <3>2
    <3> QED
      BY <3>2 DEF Agree
  <2>3. ReadValue(g, tag.value % Wires, tag.rest) = ReadValue(h, tag.value % Wires, tag.rest)
    BY <2>1, <2>2, ReadLocal
  <2>4. ASSUME NEW v \in ReadValue(g, tag.value % Wires, tag.rest) PROVE g[v.rest] = h[v.rest]
    <3>1. v.rest \in Seq(Bytes) /\ Len(v.rest) <= Len(tag.rest)
      BY <2>1, ReadValueType
    <3>2. Len(v.rest) \in Nat
      BY <3>1
    <3>3. Len(v.rest) < Len(data)
      BY <2>1, <3>1, <3>2
    <3> QED
      BY <3>1, <3>3 DEF Agree
  <2> QED
    BY <2>3, <2>4, ZenonT(30)
<1>2. \A k : WalkBody(k, data) =
               IF data = << >> THEN {<< >>} ELSE UNION {After(k, tag) : tag \in _read_varint(data)}
  BY Zenon DEF WalkBody
<1> HIDE DEF After
<1> QED
  BY <1>1, <1>2, ZenonT(30)

\* g is the walk as far as bytes shorter than n go.
WalksTo(g, n) == \A d \in Seq(Bytes) : Len(d) < n => g[d] = WalkBody(g, d)

\* There is a walk of bytes of any bounded length ...
LEMMA WalksToAny ==
    ASSUME NEW n \in Nat
    PROVE  \E g : WalksTo(g, n)
<1> DEFINE T == {k \in Nat : \E g : WalksTo(g, k)}
<1>0. \A d \in Seq(Bytes) : Len(d) \in Nat
  OBVIOUS
<1>1. 0 \in T
  <2>1. \A g : WalksTo(g, 0)
    BY <1>0 DEF WalksTo
  <2> QED
    BY <2>1
<1>2. ASSUME NEW k \in Nat, k \in T PROVE k + 1 \in T
  <2>1. PICK g : WalksTo(g, k)
    BY <1>2
  <2> DEFINE h == [d \in Seq(Bytes) |-> WalkBody(g, d)]
  <2>2. \A d \in Seq(Bytes) : h[d] = WalkBody(g, d)
    OBVIOUS
  <2> HIDE DEF h
  <2>3. ASSUME NEW d \in Seq(Bytes), Len(d) < k + 1 PROVE h[d] = WalkBody(h, d)
    <3>1. ASSUME NEW e \in Seq(Bytes), Len(e) < Len(d) PROVE g[e] = h[e]
      <4>1. Len(e) < k
        BY <1>0, <2>3, <3>1
      <4> QED
        BY <2>1, <2>2, <4>1 DEF WalksTo
    <3>2. Agree(g, h, Len(d))
      BY <3>1 DEF Agree
    <3> QED
      BY <2>2, <3>2, WalkLocal
  <2>4. WalksTo(h, k + 1)
    BY <2>3 DEF WalksTo
  <2> QED
    BY <2>4
<1>3. Nat \subseteq T
  <2> HIDE DEF T
  <2> QED
    BY <1>1, <1>2, Induction
<1> QED
  BY <1>3

\* ... and two of them agree where both walk.
LEMMA WalksToOne ==
    ASSUME NEW n \in Nat, NEW m \in Nat, NEW g, NEW h, WalksTo(g, n), WalksTo(h, m), n <= m
    PROVE  Agree(g, h, n)
<1> DEFINE T == {k \in Nat : k <= n => Agree(g, h, k)}
<1>0. \A d \in Seq(Bytes) : Len(d) \in Nat
  OBVIOUS
<1>1. 0 \in T
  BY <1>0 DEF Agree
<1>2. ASSUME NEW k \in Nat, k \in T PROVE k + 1 \in T
  <2> SUFFICES ASSUME k + 1 <= n, NEW d \in Seq(Bytes), Len(d) < k + 1 PROVE g[d] = h[d]
    BY DEF Agree
  <2>1. Agree(g, h, k)
    BY <1>2
  <2>2. Len(d) \in Nat /\ Len(d) <= k /\ Len(d) < n /\ Len(d) < m
    BY <1>0
  <2>3. ASSUME NEW e \in Seq(Bytes), Len(e) < Len(d) PROVE Len(e) < k
    BY <1>0, <2>2, <2>3
  <2>4. Agree(g, h, Len(d))
    BY <2>1, <2>3 DEF Agree
  <2>5. WalkBody(g, d) = WalkBody(h, d)
    BY <2>4, WalkLocal
  <2> QED
    BY <2>2, <2>5 DEF WalksTo
<1>3. Nat \subseteq T
  <2> HIDE DEF T
  <2> QED
    BY <1>1, <1>2, Induction
<1> QED
  BY <1>3

\* The walk is what its definition says.
LEMMA WalkIs ==
    ASSUME NEW data \in Seq(Bytes)
    PROVE  Walk[data] = WalkBody(Walk, data)
<1> DEFINE to(n) == CHOOSE g : WalksTo(g, n)
           W == [d \in Seq(Bytes) |-> to(Len(d) + 1)[d]]
<1>0. \A d \in Seq(Bytes) : Len(d) \in Nat
  OBVIOUS
<1>1. \A n \in Nat : WalksTo(to(n), n)
  BY WalksToAny
<1> HIDE DEF to
<1>2. \A d \in Seq(Bytes) : W[d] = to(Len(d) + 1)[d]
  OBVIOUS
<1>3. W = [d \in Seq(Bytes) |-> W[d]]
  OBVIOUS
<1> HIDE DEF W
<1>4. ASSUME NEW d \in Seq(Bytes) PROVE W[d] = WalkBody(W, d)
  <2> DEFINE n == Len(d) + 1
             g == to(n)
  <2>1. n \in Nat /\ Len(d) < n /\ Len(d) \in Nat
    BY <1>0
  <2>2. WalksTo(g, n)
    BY <1>1, <2>1
  <2>3. ASSUME NEW e \in Seq(Bytes), Len(e) < Len(d) PROVE g[e] = W[e]
    <3> DEFINE k == Len(e) + 1
    <3>1. k \in Nat /\ k <= n /\ Len(e) < k
      BY <1>0, <2>1, <2>3
    <3>2. WalksTo(to(k), k)
      BY <1>1, <3>1
    <3>3. W[e] = to(k)[e]
      BY <1>2
    <3> HIDE DEF k, n, g
    <3>4. Agree(to(k), g, k)
      BY <2>1, <2>2, <3>1, <3>2, WalksToOne
    <3> QED
      BY <3>1, <3>3, <3>4 DEF Agree
  <2>4. Agree(g, W, Len(d))
    BY <2>3 DEF Agree
  <2>5. W[d] = g[d]
    BY <1>2
  <2> HIDE DEF g, n
  <2>6. g[d] = WalkBody(g, d)
    BY <2>1, <2>2 DEF WalksTo
  <2> QED
    BY <2>4, <2>5, <2>6, WalkLocal
<1>5. W = [d \in Seq(Bytes) |-> WalkBody(W, d)]
  BY <1>3, <1>4
<1>6. Walk = CHOOSE g : g = [d \in Seq(Bytes) |-> WalkBody(g, d)]
  BY Zenon DEF Walk, WalkBody
<1>7. Walk = [d \in Seq(Bytes) |-> WalkBody(Walk, d)]
  BY <1>5, <1>6
<1>8. \A d \in Seq(Bytes) : Walk[d] = WalkBody(Walk, d)
  BY <1>7
<1> QED
  BY <1>8

-----------------------------------------------------------------------------
(* The recursion of what fields mean                                       *)

\* How deep the bytes of a field may nest.
Depth(f) == IF f.wire = 2 THEN Len(f.of) + 1 ELSE 0

\* The depth of a field is a number.
LEMMA DepthType ==
    ASSUME NEW f \in Fields
    PROVE  Depth(f) \in Nat
<1>1. CASE f.wire = 2
  <2>1. f.of \in Seq(Bytes)
    BY <1>1, BodyType
  <2>2. Len(f.of) \in Nat
    BY <2>1
  <2> QED
    BY <1>1, <2>2 DEF Depth
<1>2. CASE f.wire # 2
  BY <1>2 DEF Depth
<1> QED
  BY <1>1, <1>2

\* A message is a sequence of fields, ...
LEMMA MessageType ==
    ASSUME NEW m \in Messages
    PROVE  \E n \in 0 .. MaxFields : /\ n \in Nat /\ m \in [1 .. n -> Fields]
                                     /\ m \in Seq(Fields) /\ Len(m) = n /\ DOMAIN m = 1 .. n
<1>1. PICK n \in 0 .. MaxFields : m \in [1 .. n -> Fields]
  BY DEF Messages
<1>2. n \in Nat
  OBVIOUS
<1> QED
  BY <1>1, <1>2, UptoAll

\* ... and nests less deep than a field that it is put into.
LEMMA DepthLess ==
    ASSUME NEW f \in Fields, f.wire = 2, NEW m \in Messages, Put(m) = f.of
    PROVE  \A i \in DOMAIN m : m[i] \in Fields /\ Depth(m[i]) < Depth(f)
<1>1. PICK n \in Nat : m \in [1 .. n -> Fields] /\ DOMAIN m = 1 .. n
  BY MessageType
<1>2. Len(Put(m)) \in Nat /\ Depth(f) = Len(Put(m)) + 1
  BY <1>1, PutLength DEF Depth
<1> SUFFICES ASSUME NEW i \in 1 .. n PROVE m[i] \in Fields /\ Depth(m[i]) < Depth(f)
  BY <1>1
<1>3. m[i] \in Fields
  BY <1>1
<1>4. Len(PutField(m[i])) <= Len(Put(m))
  BY <1>1, PutLength
<1> DEFINE e == m[i]
<1> HIDE DEF e
<1>5. e \in Fields /\ Len(PutField(e)) <= Len(Put(m)) /\ Len(PutField(e)) \in Nat
  BY <1>3, <1>4, FieldType DEF e
<1>6. CASE e.wire = 2
  <2>1. Len(e.of) < Len(PutField(e)) /\ e.of \in Seq(Bytes)
    BY <1>5, <1>6, FieldType, BodyType
  <2>2. Len(e.of) \in Nat
    BY <2>1
  <2>3. Depth(e) = Len(e.of) + 1
    BY <1>6 DEF Depth
  <2>4. Depth(e) < Depth(f)
    BY <1>2, <1>5, <2>1, <2>2, <2>3
  <2> QED
    BY <1>3, <2>4 DEF e
<1>7. CASE e.wire # 2
  <2>1. Depth(e) = 0
    BY <1>7 DEF Depth
  <2>2. Depth(e) < Depth(f)
    BY <1>2, <2>1
  <2> QED
    BY <1>3, <2>2 DEF e
<1> QED
  BY <1>6, <1>7

\* The message that the encoder put into a field.
Inner(f) == CHOOSE m \in Messages : Put(m) = f.of

MeantBody(g, f) ==
    <<f.no,
      IF f.is # "message" THEN <<f.is, f.of>>
      ELSE IF IsText(f.of) THEN <<"text", f.of>>
      ELSE <<"nested", Collect([i \in DOMAIN Inner(f) |-> g[Inner(f)[i]]])>> >>

\* There is one, and nothing else has a wire type of its own.
LEMMA InnerType ==
    ASSUME NEW f \in Fields
    PROVE  /\ f.is = "message" => f.wire = 2 /\ Inner(f) \in Messages /\ Put(Inner(f)) = f.of
           /\ f.is = "text" => f.wire = 2 /\ Written(f.of)
           /\ f.is = "bytes" => f.wire = 2 /\ Opaque(f.of)
           /\ f.is \in {"number", "text", "bytes", "message"}
           /\ f.wire # 2 => f.is = "number"
           /\ f.wire = 2 => f.is # "number"
<1>1. WireField(f) /\ (f.is = "message" => \E m \in Messages : Put(m) = f.of)
  BY WireAssumption
<1>2. f.is = "message" => Inner(f) \in Messages /\ Put(Inner(f)) = f.of
  BY <1>1 DEF Inner
<1>3. \/ f.wire = 0 /\ f.is = "number"
      \/ f.wire = 1 /\ f.is = "number"
      \/ f.wire = 5 /\ f.is = "number"
      \/ /\ f.wire = 2 /\ f.is \in {"text", "bytes", "message"}
         /\ f.is = "text" => Written(f.of)
         /\ f.is = "bytes" => Opaque(f.of)
  BY <1>1 DEF WireField
<1> QED
  BY <1>2, <1>3

AgreeOn(g, h, n) == \A e \in Fields : Depth(e) < n => g[e] = h[e]

\* What a field means depends only on what fields inside it mean.
LEMMA MeantLocal ==
    ASSUME NEW g, NEW h, NEW f \in Fields, AgreeOn(g, h, Depth(f))
    PROVE  MeantBody(g, f) = MeantBody(h, f)
<1>1. CASE f.is = "message"
  <2> DEFINE m == Inner(f)
  <2>1. m \in Messages /\ Put(m) = f.of /\ f.wire = 2
    BY <1>1, InnerType
  <2> HIDE DEF m
  <2>2. \A i \in DOMAIN m : g[m[i]] = h[m[i]]
    BY <2>1, DepthLess DEF AgreeOn
  <2>3. [i \in DOMAIN m |-> g[m[i]]] = [i \in DOMAIN m |-> h[m[i]]]
    BY <2>2
  <2> QED
    BY <1>1, <2>3 DEF MeantBody, m
<1>2. CASE f.is # "message"
  BY <1>2 DEF MeantBody
<1> QED
  BY <1>1, <1>2

\* g tells what fields mean that nest less deep than n.
MeansTo(g, n) == \A f \in Fields : Depth(f) < n => g[f] = MeantBody(g, f)

\* There is a meaning of fields of any bounded depth ...
LEMMA MeansToAny ==
    ASSUME NEW n \in Nat
    PROVE  \E g : MeansTo(g, n)
<1> DEFINE T == {k \in Nat : \E g : MeansTo(g, k)}
<1>1. 0 \in T
  <2>1. \A g : MeansTo(g, 0)
    BY DepthType DEF MeansTo
  <2> QED
    BY <2>1
<1>2. ASSUME NEW k \in Nat, k \in T PROVE k + 1 \in T
  <2>1. PICK g : MeansTo(g, k)
    BY <1>2
  <2> DEFINE h == [f \in Fields |-> MeantBody(g, f)]
  <2>2. \A f \in Fields : h[f] = MeantBody(g, f)
    OBVIOUS
  <2> HIDE DEF h
  <2>3. ASSUME NEW f \in Fields, Depth(f) < k + 1 PROVE h[f] = MeantBody(h, f)
    <3>1. ASSUME NEW e \in Fields, Depth(e) < Depth(f) PROVE g[e] = h[e]
      <4>1. Depth(e) < k
        BY <2>3, <3>1, DepthType
      <4> QED
        BY <2>1, <2>2, <4>1 DEF MeansTo
    <3>2. AgreeOn(g, h, Depth(f))
      BY <3>1 DEF AgreeOn
    <3> QED
      BY <2>2, <3>2, MeantLocal
  <2>4. MeansTo(h, k + 1)
    BY <2>3 DEF MeansTo
  <2> QED
    BY <2>4
<1>3. Nat \subseteq T
  <2> HIDE DEF T
  <2> QED
    BY <1>1, <1>2, Induction
<1> QED
  BY <1>3

\* ... and two of them agree where both have one.
LEMMA MeansToOne ==
    ASSUME NEW n \in Nat, NEW m \in Nat, NEW g, NEW h, MeansTo(g, n), MeansTo(h, m), n <= m
    PROVE  AgreeOn(g, h, n)
<1> DEFINE T == {k \in Nat : k <= n => AgreeOn(g, h, k)}
<1>1. 0 \in T
  BY DepthType DEF AgreeOn
<1>2. ASSUME NEW k \in Nat, k \in T PROVE k + 1 \in T
  <2> SUFFICES ASSUME k + 1 <= n, NEW f \in Fields, Depth(f) < k + 1 PROVE g[f] = h[f]
    BY DEF AgreeOn
  <2>1. AgreeOn(g, h, k)
    BY <1>2
  <2>2. Depth(f) \in Nat /\ Depth(f) <= k /\ Depth(f) < n /\ Depth(f) < m
    BY DepthType
  <2>3. ASSUME NEW e \in Fields, Depth(e) < Depth(f) PROVE Depth(e) < k
    BY DepthType, <2>2, <2>3
  <2>4. AgreeOn(g, h, Depth(f))
    BY <2>1, <2>3 DEF AgreeOn
  <2>5. MeantBody(g, f) = MeantBody(h, f)
    BY <2>4, MeantLocal
  <2> QED
    BY <2>2, <2>5 DEF MeansTo
<1>3. Nat \subseteq T
  <2> HIDE DEF T
  <2> QED
    BY <1>1, <1>2, Induction
<1> QED
  BY <1>3

\* What a field means is what its definition says.
LEMMA MeantIs ==
    ASSUME NEW field \in Fields
    PROVE  Meant[field] = MeantBody(Meant, field)
<1> DEFINE to(n) == CHOOSE g : MeansTo(g, n)
           M == [f \in Fields |-> to(Depth(f) + 1)[f]]
<1>1. \A n \in Nat : MeansTo(to(n), n)
  BY MeansToAny
<1> HIDE DEF to
<1>2. \A f \in Fields : M[f] = to(Depth(f) + 1)[f]
  OBVIOUS
<1>3. M = [f \in Fields |-> M[f]]
  OBVIOUS
<1> HIDE DEF M
<1>4. ASSUME NEW f \in Fields PROVE M[f] = MeantBody(M, f)
  <2> DEFINE n == Depth(f) + 1
             g == to(n)
  <2>1. n \in Nat /\ Depth(f) < n /\ Depth(f) \in Nat
    BY DepthType
  <2>2. MeansTo(g, n)
    BY <1>1, <2>1
  <2>3. ASSUME NEW e \in Fields, Depth(e) < Depth(f) PROVE g[e] = M[e]
    <3> DEFINE k == Depth(e) + 1
    <3>1. k \in Nat /\ k <= n /\ Depth(e) < k
      BY DepthType, <2>1, <2>3
    <3>2. MeansTo(to(k), k)
      BY <1>1, <3>1
    <3>3. M[e] = to(k)[e]
      BY <1>2
    <3> HIDE DEF k, n, g
    <3>4. AgreeOn(to(k), g, k)
      BY <2>1, <2>2, <3>1, <3>2, MeansToOne
    <3> QED
      BY <3>1, <3>3, <3>4 DEF AgreeOn
  <2>4. AgreeOn(g, M, Depth(f))
    BY <2>3 DEF AgreeOn
  <2>5. M[f] = g[f]
    BY <1>2
  <2> HIDE DEF g, n
  <2>6. g[f] = MeantBody(g, f)
    BY <2>1, <2>2 DEF MeansTo
  <2> QED
    BY <2>4, <2>5, <2>6, MeantLocal
<1>5. M = [f \in Fields |-> MeantBody(M, f)]
  BY <1>3, <1>4
<1>6. Meant = CHOOSE g : g = [f \in Fields |-> MeantBody(g, f)]
  BY Zenon DEF Meant, MeantBody, Inner
<1>7. Meant = [f \in Fields |-> MeantBody(Meant, f)]
  BY <1>5, <1>6
<1>8. \A f \in Fields : Meant[f] = MeantBody(Meant, f)
  BY <1>7
<1> QED
  BY <1>8

-----------------------------------------------------------------------------
(* What the walk finds                                                     *)

\* There is nothing in no bytes.
LEMMA WalkEmpty == Walk[<< >>] = {<< >>}
<1>1. << >> \in Seq(Bytes)
  OBVIOUS
<1> QED
  BY <1>1, WalkIs DEF WalkBody

\* A tag is read, and then the value that it announces.
LEMMA TagWalk ==
    ASSUME NEW f \in Fields, NEW rest \in Seq(Bytes)
    PROVE  Walk[PutVarint(Tag(f)) \o rest] =
             UNION {{<<<<f.no, v.value>>>> \o fields : fields \in Walk[v.rest]} :
                      v \in ReadValue(Walk, f.wire, rest)}
<1> DEFINE t == PutVarint(Tag(f))
           data == t \o rest
           Found(no, wire, bytes) ==
             UNION {{<<<<no, v.value>>>> \o fields : fields \in Walk[v.rest]} :
                         v \in ReadValue(Walk, wire, bytes)}
           After(tag) == Found(tag.value \div Wires, tag.value % Wires, tag.rest)
           tag0 == [value |-> Tag(f), rest |-> rest]
<1>1. t \in Seq(Bytes) /\ Len(t) \in Nat /\ Len(t) > 0
  BY TagExact, FieldType, VarintType
<1>2. _read_varint(data) = {tag0}
  BY TagExact, VarintExact
<1> HIDE DEF t
<1>3. data \in Seq(Bytes) /\ Len(data) = Len(t) + Len(rest) /\ Len(rest) \in Nat
  BY <1>1, ConcatProperties
<1>4. data # << >>
  BY <1>1, <1>3
<1> HIDE DEF data
<1>5. Walk[data] = UNION {After(tag) : tag \in _read_varint(data)}
  <2>1. Walk[data] = WalkBody(Walk, data)
    BY <1>3, WalkIs
  <2>2. WalkBody(Walk, data) =
          IF data = << >> THEN {<< >>} ELSE UNION {After(tag) : tag \in _read_varint(data)}
    BY Zenon DEF WalkBody
  <2> HIDE DEF After
  <2> QED
    BY <1>4, <2>1, <2>2
<1>6. Walk[data] = After(tag0)
  <2> HIDE DEF After, tag0
  <2> QED
    BY <1>2, <1>5
<1>7. tag0.value \div Wires = f.no /\ tag0.value % Wires = f.wire /\ tag0.rest = rest
  BY TagExact
<1> HIDE DEF tag0, Found
<1>8. Walk[data] = Found(f.no, f.wire, rest)
  BY <1>6, <1>7
<1> QED
  BY <1>8 DEF data, t, Found

\* A field as the walk shows it.
Shown(f) == IF f.wire = 2 THEN _decode_length_delimited(Walk, f.of) ELSE <<"number", f.of>>

Seen(f) == <<f.no, Shown(f)>>

\* A fixed number is read back as what was put, whatever follows it.
LEMMA FixedExact ==
    ASSUME NEW x \in Nat, NEW size \in Nat, Fits(x, 2 * Base, size), NEW rest \in Seq(Bytes)
    PROVE  Fixed(Digits(x, 2 * Base, size) \o rest, size) =
             {[value |-> <<"number", x>>, rest |-> rest]}
<1> DEFINE d == Digits(x, 2 * Base, size)
<1>1. d \in Seq(Bytes) /\ Len(d) = size
  BY Sizes, DigitsType DEF Bytes
<1>2. Number(d, 2 * Base) = x
  BY Sizes, NumberOfDigits
<1> HIDE DEF d
<1>3. First(d \o rest, size) = d /\ Rest(d \o rest, size) = rest
  BY <1>1, BytesSlice
<1>4. Fixed(d \o rest, size) = {[value |-> <<"number", x>>, rest |-> rest]}
  BY <1>2, <1>3 DEF Fixed
<1> QED
  BY <1>4 DEF d

\* The value of a field is read back.
LEMMA ValueExact ==
    ASSUME NEW f \in Fields, NEW rest \in Seq(Bytes)
    PROVE  ReadValue(Walk, f.wire, Body(f) \o rest) = {[value |-> Shown(f), rest |-> rest]}
<1>1. CASE f.wire = 0
  <2>1. f.of \in Nat /\ Fits(f.of, Base, MaxGroups) /\ Body(f) = PutVarint(f.of)
    BY <1>1, BodyType
  <2>2. _read_varint(Body(f) \o rest) = {[value |-> f.of, rest |-> rest]}
    BY <2>1, VarintExact
  <2> DEFINE Numbers(S) == {[v EXCEPT !.value = <<"number", @>>] : v \in S}
             bytes == Body(f) \o rest
  <2>3. ReadValue(Walk, f.wire, bytes) = Numbers(_read_varint(bytes))
    <3> HIDE DEF bytes
    <3> QED
      BY <1>1, ReadCases, Zenon
  <2>4. Shown(f) = <<"number", f.of>>
    BY <1>1 DEF Shown
  <2> DEFINE u == [value |-> f.of, rest |-> rest]
  <2>5. [u EXCEPT !.value = <<"number", @>>] = [value |-> <<"number", f.of>>, rest |-> rest]
    OBVIOUS
  <2> HIDE DEF u
  <2>6. ReadValue(Walk, f.wire, Body(f) \o rest) = {[u EXCEPT !.value = <<"number", @>>]}
    <3> HIDE DEF bytes, Numbers
    <3>1. ReadValue(Walk, f.wire, bytes) = Numbers({u})
      BY <2>2, <2>3 DEF bytes, u
    <3> QED
      BY <3>1, Zenon DEF bytes, Numbers
  <2> QED
    BY <2>4, <2>5, <2>6, Zenon
<1>2. CASE f.wire = 1
  <2>1. /\ f.of \in Nat /\ Fits(f.of, 2 * Base, Wide)
        /\ Body(f) = Digits(f.of, 2 * Base, Wide) /\ Wide \in Nat
    BY <1>2, BodyType, Sizes
  <2>2. Fixed(Body(f) \o rest, Wide) = {[value |-> <<"number", f.of>>, rest |-> rest]}
    BY <2>1, FixedExact
  <2> QED
    BY <1>2, <2>2, ReadCases DEF Shown
<1>3. CASE f.wire = 2
  <2> DEFINE c == f.of
             L == Len(c)
  <2>1. /\ c \in Seq(Bytes) /\ Fits(L, Base, MaxGroups) /\ L \in Nat
        /\ Body(f) = PutVarint(L) \o c
    BY <1>3, BodyType, LenProperties
  <2> HIDE DEF c
  <2>2. PutVarint(L) \in Seq(Bytes) /\ c \o rest \in Seq(Bytes)
    BY <2>1, VarintType, ConcatProperties
  <2>3. Body(f) \o rest = PutVarint(L) \o (c \o rest)
    BY <2>1, <2>2, ConcatAssociative
  <2>4. _read_varint(Body(f) \o rest) = {[value |-> L, rest |-> c \o rest]}
    BY <2>1, <2>2, <2>3, VarintExact
  <2>5. First(c \o rest, L) = c /\ Rest(c \o rest, L) = rest
    BY <2>1, BytesSlice
  <2> HIDE DEF L
  <2>6. ReadValue(Walk, f.wire, Body(f) \o rest) =
          {[value |-> _decode_length_delimited(Walk, First(v.rest, v.value)),
            rest  |-> Rest(v.rest, v.value)] : v \in {[value |-> L, rest |-> c \o rest]}}
    BY <1>3, <2>4, ReadCases
  <2>7. ReadValue(Walk, f.wire, Body(f) \o rest) =
          {[value |-> _decode_length_delimited(Walk, c), rest |-> rest]}
    BY <2>5, <2>6
  <2> QED
    BY <1>3, <2>7 DEF Shown, c
<1>4. CASE f.wire = 5
  <2>1. /\ f.of \in Nat /\ Fits(f.of, 2 * Base, Narrow)
        /\ Body(f) = Digits(f.of, 2 * Base, Narrow) /\ Narrow \in Nat
    BY <1>4, BodyType, Sizes
  <2>2. Fixed(Body(f) \o rest, Narrow) = {[value |-> <<"number", f.of>>, rest |-> rest]}
    BY <2>1, FixedExact
  <2> QED
    BY <1>4, <2>2, ReadCases DEF Shown
<1> QED
  BY <1>1, <1>2, <1>3, <1>4, TagExact

\* The walk finds a field, and goes on behind it.
LEMMA FieldWalk ==
    ASSUME NEW f \in Fields, NEW rest \in Seq(Bytes)
    PROVE  Walk[PutField(f) \o rest] = {<<Seen(f)>> \o fields : fields \in Walk[rest]}
<1> DEFINE t == PutVarint(Tag(f))
           b == Body(f)
           v0 == [value |-> Shown(f), rest |-> rest]
           After(v) == {<<<<f.no, v.value>>>> \o fields : fields \in Walk[v.rest]}
<1>1. t \in Seq(Bytes) /\ b \in Seq(Bytes) /\ PutField(f) = t \o b
  BY TagExact, VarintType, BodyType
<1>2. b \o rest \in Seq(Bytes) /\ PutField(f) \o rest = t \o (b \o rest)
  <2> HIDE DEF t, b
  <2> QED
    BY <1>1, BytesConcat
<1>3. Walk[t \o (b \o rest)] = UNION {After(v) : v \in ReadValue(Walk, f.wire, b \o rest)}
  BY <1>2, TagWalk
<1>4. ReadValue(Walk, f.wire, b \o rest) = {v0}
  BY ValueExact
<1> HIDE DEF t, b
<1>5. After(v0) = {<<Seen(f)>> \o fields : fields \in Walk[rest]}
  BY DEF Seen
<1> HIDE DEF After, v0
<1>6. Walk[t \o (b \o rest)] = After(v0)
  BY <1>3, <1>4
<1> QED
  BY <1>2, <1>5, <1>6

SeenAll(m) == [i \in DOMAIN m |-> Seen(m[i])]

\* The walk finds the fields of a message in order, and goes on behind it.
LEMMA MessageWalk ==
    ASSUME NEW n \in Nat, NEW m \in [1 .. n -> Fields],
           NEW S, \A f \in Fields : Seen(f) \in S,
           NEW tail \in Seq(Bytes), Walk[tail] \subseteq Seq(S)
    PROVE  Walk[Put(m) \o tail] = {SeenAll(m) \o fields : fields \in Walk[tail]}
<1> DEFINE F == SeenAll(m)
           P(k) == Put(Upto(m, k))
           Found(k) == \A rest \in Seq(Bytes) : Walk[rest] \subseteq Seq(S) =>
                         Walk[P(k) \o rest] = {Upto(F, k) \o fields : fields \in Walk[rest]}
           T == {k \in Nat : k <= n => Found(k)}
<1>1. /\ DOMAIN m = 1 .. n /\ DOMAIN F = 1 .. n /\ F \in [1 .. n -> S]
      /\ \A i \in 1 .. n : F[i] = Seen(m[i]) /\ m[i] \in Fields
  BY DEF SeenAll
<1>2. ASSUME NEW k \in 0 .. n PROVE Upto(F, k) \in Seq(S) /\ Len(Upto(F, k)) = k
  <2>1. Upto(F, k) \in [1 .. k -> S] /\ k \in Nat
    BY <1>1 DEF Upto
  <2> QED
    BY <2>1
<1>3. Upto(F, n) = F /\ Upto(m, n) = m
  BY <1>1, UptoAll DEF Upto
<1> HIDE DEF F
<1>4. ASSUME NEW k \in 0 .. n - 1 PROVE Upto(F, k + 1) = Upto(F, k) \o <<F[k + 1]>>
  <2> DEFINE a == Upto(F, k)
             b == Upto(F, k + 1)
             x == F[k + 1]
  <2>1. k \in 0 .. n /\ k + 1 \in 0 .. n /\ k + 1 \in 1 .. n /\ k \in Nat
    OBVIOUS
  <2>2. /\ a \in Seq(S) /\ Len(a) = k /\ b \in Seq(S) /\ Len(b) = k + 1
        /\ x \in S
    BY <1>1, <1>2, <2>1
  <2>3. (\A i \in 1 .. k : a[i] = F[i]) /\ \A i \in 1 .. k + 1 : b[i] = F[i]
    BY DEF Upto
  <2> HIDE DEF a, b
  <2>4. <<x>> \in Seq(S) /\ Len(<<x>>) = 1 /\ <<x>>[1] = x
    BY <2>2
  <2> DEFINE y == <<x>>
  <2> HIDE DEF x, y
  <2>5. /\ a \o y \in Seq(S) /\ Len(a \o y) = k + 1
        /\ \A i \in 1 .. k + 1 : (a \o y)[i] = IF i <= k THEN a[i] ELSE y[i - k]
    BY <2>2, <2>4, ConcatProperties DEF y
  <2>6. ASSUME NEW i \in 1 .. k + 1 PROVE b[i] = (a \o y)[i]
    <3>1. CASE i <= k
      <4>1. i \in 1 .. k
        BY <2>1, <3>1
      <4> QED
        BY <2>3, <2>5, <3>1, <4>1
    <3>2. CASE ~(i <= k)
      <4>1. i = k + 1 /\ i - k = 1
        BY <2>1, <3>2
      <4> QED
        BY <2>3, <2>4, <2>5, <3>2, <4>1 DEF x, y
    <3> QED
      BY <3>1, <3>2
  <2>7. b = a \o y
    BY <2>2, <2>5, <2>6, SeqEqual
  <2> QED
    BY <2>7 DEF a, b, x, y
<1>5. 0 \in T
  <2> SUFFICES ASSUME NEW rest \in Seq(Bytes), Walk[rest] \subseteq Seq(S)
               PROVE  Walk[P(0) \o rest] = {Upto(F, 0) \o fields : fields \in Walk[rest]}
    OBVIOUS
  <2>1. P(0) = << >> /\ << >> \o rest = rest
    BY PutSteps, ConcatEmptySeq
  <2>2. Upto(F, 0) = << >>
    <3>1. 0 \in 0 .. n
      OBVIOUS
    <3> QED
      BY <1>2, <3>1, EmptySeq
  <2>3. \A h \in Walk[rest] : << >> \o h = h
    BY ConcatEmptySeq
  <2> QED
    BY <2>1, <2>2, <2>3
<1>6. ASSUME NEW k \in Nat, k \in T PROVE k + 1 \in T
  <2> SUFFICES ASSUME k + 1 <= n PROVE Found(k + 1)
    <3> HIDE DEF Found
    <3> QED
      OBVIOUS
  <2> SUFFICES ASSUME NEW rest \in Seq(Bytes), Walk[rest] \subseteq Seq(S)
               PROVE  Walk[P(k + 1) \o rest] = {Upto(F, k + 1) \o fields : fields \in Walk[rest]}
    OBVIOUS
  <2> DEFINE f == m[k + 1]
             q == PutField(f)
             p == P(k)
             a == Upto(F, k)
             y == <<Seen(f)>>
  <2>1. k \in 0 .. n /\ k \in 0 .. n - 1 /\ k + 1 \in 1 .. n /\ k <= n
    OBVIOUS
  <2>2. f \in Fields /\ Seen(f) \in S /\ F[k + 1] = Seen(f)
    BY <1>1, <2>1
  <2>3. p \in Seq(Bytes) /\ q \in Seq(Bytes) /\ P(k + 1) = p \o q
    BY <2>1, <2>2, PutSteps, FieldType
  <2>4. a \in Seq(S) /\ y \in Seq(S) /\ Upto(F, k + 1) = a \o y
    BY <1>2, <1>4, <2>1, <2>2
  <2>5. \A bytes \in Seq(Bytes) : Walk[bytes] \subseteq Seq(S) =>
          Walk[p \o bytes] = {a \o fields : fields \in Walk[bytes]}
    BY <1>6, <2>1
  <2> HIDE DEF T, P, p, f
  <2>6. Walk[q \o rest] = {y \o fields : fields \in Walk[rest]}
    BY <2>2, FieldWalk
  <2> HIDE DEF q, a, y
  <2>7. q \o rest \in Seq(Bytes) /\ (p \o q) \o rest = p \o (q \o rest)
    <3>1. p \in Seq(Bytes) /\ q \in Seq(Bytes) /\ rest \in Seq(Bytes)
      BY <2>3
    <3> QED
      BY <3>1, BytesConcat, ZenonT(30)
  <2>8. \A h \in Walk[rest] : y \o h \in Seq(S) /\ (a \o y) \o h = a \o (y \o h)
    <3>1. a \in Seq(S) /\ y \in Seq(S)
      BY <2>4
    <3> QED
      BY <3>1, JoinedInAnyOrder
  <2>9. Walk[q \o rest] \subseteq Seq(S)
    BY <2>6, <2>8
  <2>10. Walk[p \o (q \o rest)] = {a \o fields : fields \in Walk[q \o rest]}
    BY <2>5, <2>7, <2>9
  <2>11. {a \o fields : fields \in Walk[q \o rest]} = {(a \o y) \o fields : fields \in Walk[rest]}
    <3> DEFINE W == Walk[rest]
    <3>1. \A h \in W : (a \o y) \o h = a \o (y \o h)
      BY <2>8
    <3>2. Walk[q \o rest] = {y \o fields : fields \in W}
      BY <2>6
    <3> HIDE DEF W
    <3>3. {a \o fields : fields \in {y \o fields : fields \in W}} = {a \o (y \o fields) : fields \in W}
      OBVIOUS
    <3>4. {a \o (y \o fields) : fields \in W} = {(a \o y) \o fields : fields \in W}
      BY <3>1, ZenonT(30)
    <3>5. {a \o fields : fields \in Walk[q \o rest]} = {a \o (y \o fields) : fields \in W}
      BY <3>2, <3>3
    <3> QED
      BY <3>4, <3>5 DEF W
  <2> QED
    BY <2>3, <2>4, <2>7, <2>10, <2>11
<1>7. n \in T
  <2> HIDE DEF T
  <2> QED
    BY <1>5, <1>6, Induction
<1>8. Walk[P(n) \o tail] = {Upto(F, n) \o fields : fields \in Walk[tail]}
  <2>1. Found(n)
    <3> HIDE DEF Found
    <3> QED
      BY <1>7
  <2> QED
    BY <2>1
<1> QED
  BY <1>3, <1>8 DEF F

\* Nothing behind the message: the walk finds its fields and no others.
LEMMA MessageSeen ==
    ASSUME NEW m \in Messages
    PROVE  Put(m) \in Seq(Bytes) /\ Walk[Put(m)] = {SeenAll(m)}
<1> DEFINE S == {Seen(f) : f \in Fields}
<1>1. PICK n \in Nat : m \in [1 .. n -> Fields] /\ DOMAIN m = 1 .. n
  BY MessageType
<1>2. Put(m) \in Seq(Bytes) /\ Put(m) \o << >> = Put(m)
  BY <1>1, PutLength, ConcatEmptySeq
<1>3. << >> \in Seq(Bytes) /\ Walk[<< >>] = {<< >>} /\ << >> \in Seq(S)
  BY WalkEmpty
<1>4. \A f \in Fields : Seen(f) \in S
  OBVIOUS
<1>5. SeenAll(m) \in [1 .. n -> S]
  BY <1>1 DEF SeenAll
<1> HIDE DEF S
<1>6. SeenAll(m) \o << >> = SeenAll(m)
  <2>1. SeenAll(m) \in Seq(S)
    BY <1>5
  <2> QED
    BY <2>1, ConcatEmptySeq
<1>7. Walk[Put(m) \o << >>] = {SeenAll(m) \o fields : fields \in Walk[<< >>]}
  <2> DEFINE e == << >>
  <2>1. e \in Seq(Bytes) /\ Walk[e] \subseteq Seq(S)
    BY <1>3
  <2> HIDE DEF e
  <2>2. Walk[Put(m) \o e] = {SeenAll(m) \o fields : fields \in Walk[e]}
    BY <1>1, <1>4, <2>1, MessageWalk
  <2> QED
    BY <2>2 DEF e
<1> QED
  BY <1>2, <1>3, <1>6, <1>7

\* A byte without the "more" bit is a number of its own.
LEMMA OneByte ==
    ASSUME NEW data \in Seq(Bytes), data # << >>, data[1] < Base
    PROVE  _read_varint(data) = {[value |-> data[1], rest |-> Rest(data, 1)]}
<1>1. Len(data) \in Nat /\ Len(data) >= 1 /\ 1 \in 1 .. Len(data)
  BY EmptySeq
<1>2. data[1] \in Nat
  BY <1>1, Sizes
<1> DEFINE b == data[1]
<1>3. Ends(data) # {} /\ Min(Ends(data)) = 1
  <2>1. 1 \in Ends(data) /\ Ends(data) \subseteq Nat /\ \A i \in Ends(data) : i >= 1
    BY <1>1 DEF Ends
  <2>2. Min(Ends(data)) \in Ends(data) /\ Min(Ends(data)) <= 1
    BY <2>1, Smallest
  <2>3. Min(Ends(data)) >= 1 /\ Min(Ends(data)) \in Nat
    BY <2>1, <2>2
  <2> QED
    BY <2>1, <2>2, <2>3
<1>4. 1 \in 1 .. MaxGroups
  BY Sizes
<1>5. _read_varint(data) = {[value |-> Number([i \in 1 .. 1 |-> data[i] % Base], Base),
                             rest  |-> Rest(data, 1)]}
  BY <1>3, <1>4, ReadVarint
<1>6. [i \in 1 .. 1 |-> data[i] % Base] = Digits(b, Base, 1)
  <2>1. \A i \in 1 .. 1 : i = 1
    OBVIOUS
  <2>2. Shift(b, Base, 0) = b
    BY <1>2, Sizes, ShiftStep
  <2>3. Digits(b, Base, 1) = [i \in 1 .. 1 |-> Shift(b, Base, i - 1) % Base]
    BY DEF Digits
  <2>4. \A i \in 1 .. 1 : i - 1 = 0
    BY <2>1
  <2>5. \A i \in 1 .. 1 : Shift(b, Base, i - 1) % Base = data[i] % Base
    BY <2>1, <2>2, <2>4
  <2> QED
    BY <2>3, <2>5
<1> HIDE DEF b
<1>7. Fits(b, Base, 1)
  <2>1. b \in Nat /\ b < Base /\ Base \in Nat /\ Base > 0
    BY <1>2, Sizes DEF b
  <2>2. Shift(b, Base, 0) = b /\ \A d \in Nat : Shift(b, Base, d + 1) = Shift(b, Base, d) \div Base
    BY <2>1, ShiftStep
  <2>3. 0 \in Nat /\ 0 + 1 = 1
    OBVIOUS
  <2>4. Shift(b, Base, 1) = b \div Base
    BY <2>2, <2>3
  <2>5. b \div Base = 0
    BY <2>1
  <2> QED
    BY <2>4, <2>5 DEF Fits
<1>8. Number(Digits(b, Base, 1), Base) = b
  <2>1. b \in Nat /\ 1 \in Nat
    BY <1>2 DEF b
  <2> QED
    BY <1>7, <2>1, Sizes, NumberOfDigits
<1> QED
  BY <1>5, <1>6, <1>8 DEF b

\* Characters one after the other: where the first k of them end, and what they are.
LEMMA CharactersInARow ==
    ASSUME NEW n \in Nat, NEW chars \in [1 .. n -> Characters]
    PROVE  \E L \in [0 .. n -> Nat] :
             /\ L[0] = 0 /\ L[n] = Len(FlattenSeq(chars)) /\ FlattenSeq(chars) \in Seq(Bytes)
             /\ \A i, j \in 0 .. n : i < j => L[i] < L[j]
             /\ \A k \in 0 .. n - 1 :
                  SubSeq(FlattenSeq(chars), L[k] + 1, L[k + 1]) = chars[k + 1]
<1> DEFINE F(k) == FlattenSeq(Upto(chars, k))
           L == [k \in 0 .. n |-> Len(F(k))]
<1>1. \A c \in Characters : c \in Seq(Bytes) /\ Len(c) \in Nat /\ Len(c) > 0
  <2>1. \A c \in Characters : c \in Seq(Bytes) /\ c # << >>
    BY WireAssumption
  <2>2. \A c \in Seq(Bytes) : c # << >> => Len(c) \in Nat /\ Len(c) > 0
    BY EmptySeq
  <2> QED
    BY <2>1, <2>2
<1>2. \A i \in 1 .. n : chars[i] \in Seq(Bytes)
  BY <1>1
<1>3. /\ F(0) = << >>
      /\ \A k \in 0 .. n : F(k) \in Seq(Bytes)
      /\ \A k \in 0 .. n - 1 : F(k + 1) = F(k) \o chars[k + 1]
  BY <1>2, Flattened
<1>4. F(n) = FlattenSeq(chars)
  <2>1. Upto(chars, n) = chars
    BY DEF Upto
  <2> QED
    BY <2>1
<1> HIDE DEF F
<1>5. L \in [0 .. n -> Nat] /\ \A k \in 0 .. n : L[k] = Len(F(k))
  BY <1>3
<1>6. L[0] = 0
  BY <1>3, <1>5
<1> HIDE DEF L
<1>7. ASSUME NEW k \in 0 .. n - 1
      PROVE  /\ k \in 0 .. n /\ k + 1 \in 0 .. n /\ k + 1 \in 1 .. n
             /\ L[k] \in Nat /\ Len(chars[k + 1]) \in Nat /\ Len(chars[k + 1]) > 0
             /\ L[k + 1] = L[k] + Len(chars[k + 1])
             /\ \A p \in 1 .. L[k] : F(k + 1)[p] = F(k)[p]
             /\ \A q \in 1 .. Len(chars[k + 1]) : F(k + 1)[L[k] + q] = chars[k + 1][q]
  <2> DEFINE f == F(k)
             c == chars[k + 1]
  <2>1. k \in 0 .. n /\ k + 1 \in 0 .. n /\ k + 1 \in 1 .. n
    OBVIOUS
  <2>2. c \in Seq(Bytes) /\ Len(c) \in Nat /\ Len(c) > 0
    BY <1>1, <2>1
  <2>3. f \in Seq(Bytes) /\ F(k + 1) = f \o c /\ L[k] = Len(f) /\ L[k + 1] = Len(F(k + 1))
    BY <1>3, <1>5, <2>1
  <2> HIDE DEF f, c
  <2>4. /\ Len(f \o c) = Len(f) + Len(c)
        /\ \A i \in 1 .. Len(f) + Len(c) : (f \o c)[i] = IF i <= Len(f) THEN f[i] ELSE c[i - Len(f)]
    BY <2>2, <2>3, ConcatProperties
  <2>5. Len(f) \in Nat
    BY <2>3
  <2>6. \A p \in 1 .. Len(f) : p \in 1 .. Len(f) + Len(c) /\ p <= Len(f)
    BY <2>2, <2>5
  <2>7. \A q \in 1 .. Len(c) : /\ Len(f) + q \in 1 .. Len(f) + Len(c)
                               /\ ~(Len(f) + q <= Len(f)) /\ Len(f) + q - Len(f) = q
    BY <2>2, <2>5
  <2>8. \A p \in 1 .. Len(f) : (f \o c)[p] = f[p]
    BY <2>4, <2>6
  <2>9. \A q \in 1 .. Len(c) : (f \o c)[Len(f) + q] = c[q]
    BY <2>4, <2>7
  <2> QED
    BY <2>1, <2>2, <2>3, <2>4, <2>5, <2>8, <2>9 DEF f, c
<1> DEFINE Grows(j) == \A i \in 0 .. j : /\ i < j => L[i] < L[j]
                                         /\ \A p \in 1 .. L[i] : F(j)[p] = F(i)[p]
           T == {j \in Nat : j <= n => Grows(j)}
<1>8. 0 \in T
  OBVIOUS
<1>9. ASSUME NEW j \in Nat, j \in T PROVE j + 1 \in T
  <2> SUFFICES ASSUME j + 1 <= n, NEW i \in 0 .. j + 1
               PROVE  /\ i < j + 1 => L[i] < L[j + 1]
                      /\ \A p \in 1 .. L[i] : F(j + 1)[p] = F(i)[p]
    OBVIOUS
  <2>1. j \in 0 .. n - 1 /\ j <= n /\ i \in 0 .. n
    OBVIOUS
  <2>2. /\ L[j] \in Nat /\ L[j] < L[j + 1] /\ L[j + 1] \in Nat
        /\ \A p \in 1 .. L[j] : F(j + 1)[p] = F(j)[p]
    <3>1. /\ L[j] \in Nat /\ L[j + 1] = L[j] + Len(chars[j + 1])
          /\ Len(chars[j + 1]) \in Nat /\ Len(chars[j + 1]) > 0
          /\ \A p \in 1 .. L[j] : F(j + 1)[p] = F(j)[p]
      BY <1>7, <2>1
    <3> QED
      BY <3>1
  <2>3. Grows(j)
    BY <1>9, <2>1
  <2> HIDE DEF T
  <2>4. L[i] \in Nat
    BY <1>5, <2>1
  <2>5. CASE i = j + 1
    BY <2>5
  <2>6. CASE i = j
    BY <2>2, <2>6
  <2>7. CASE i < j
    <3>1. i \in 0 .. j /\ L[i] < L[j] /\ \A p \in 1 .. L[i] : F(j)[p] = F(i)[p]
      BY <2>3, <2>7
    <3>2. L[i] < L[j + 1] /\ \A p \in 1 .. L[i] : p \in 1 .. L[j]
      BY <2>2, <2>4, <3>1
    <3> QED
      BY <2>2, <3>1, <3>2
  <2> QED
    BY <2>5, <2>6, <2>7
<1>10. Nat \subseteq T
  <2> HIDE DEF T
  <2> QED
    BY <1>8, <1>9, Induction
<1>11. \A i, j \in 0 .. n : i < j => L[i] < L[j]
  BY <1>10
<1>12. Grows(n)
  BY <1>10
<1> HIDE DEF T, Grows
<1>13. ASSUME NEW k \in 0 .. n - 1
       PROVE  SubSeq(F(n), L[k] + 1, L[k + 1]) = chars[k + 1]
  <2> DEFINE a == L[k]
             c == chars[k + 1]
             f == F(n)
             b == a + Len(c)
  <2>1. /\ a \in Nat /\ Len(c) \in Nat /\ Len(c) > 0 /\ L[k + 1] = b
        /\ k + 1 \in 0 .. n /\ k + 1 \in 1 .. n
        /\ \A q \in 1 .. Len(c) : F(k + 1)[a + q] = c[q]
    BY <1>7
  <2>2. \A p \in 1 .. b : f[p] = F(k + 1)[p]
    BY <1>12, <2>1 DEF Grows
  <2>3. f \in Seq(Bytes) /\ c \in Seq(Bytes) /\ n \in 0 .. n
    BY <1>2, <1>3, <2>1
  <2>4. b <= Len(f)
    <3>1. L[k + 1] <= L[n]
      <4>1. CASE k + 1 = n
        BY <1>5, <2>1, <2>3, <4>1
      <4>2. CASE k + 1 < n
        BY <1>5, <1>11, <2>1, <2>3, <4>2
      <4> QED
        BY <2>1, <4>1, <4>2
    <3> QED
      BY <1>5, <2>1, <2>3, <3>1
  <2> HIDE DEF a, c, f
  <2>5. Len(f) \in Nat /\ b \in Nat /\ a + 1 <= b
    BY <2>1, <2>3
  <2>6. \A q \in 1 .. Len(c) : a + q \in 1 .. b /\ a + q = a + 1 + q - 1
    BY <2>1
  <2>7. \A q \in 1 .. Len(c) : f[a + q] = c[q]
    BY <2>1, <2>2, <2>6
  <2> DEFINE s == SubSeq(f, a + 1, b)
  <2>8. /\ s \in Seq(Bytes) /\ Len(s) = b - (a + 1) + 1
        /\ \A i \in 1 .. b - (a + 1) + 1 : s[i] = f[a + 1 + i - 1]
    <3>1. a + 1 \in Int /\ b \in Int /\ \A i \in a + 1 .. b : i \in 1 .. Len(f)
      BY <2>1, <2>4, <2>5
    <3>2. \A i \in 1 .. Len(f) : f[i] \in Bytes
      BY <2>3
    <3>3. \A i \in a + 1 .. b : f[i] \in Bytes
      BY <3>1, <3>2
    <3>4. a + 1 <= b
      BY <2>5
    <3> HIDE DEF b
    <3> QED
      BY <3>1, <3>3, <3>4, SubSeqProperties
  <2>9. b - (a + 1) + 1 = Len(c)
    BY <2>1
  <2> HIDE DEF s, b
  <2>10. Len(s) = Len(c) /\ \A i \in 1 .. Len(c) : s[i] = c[i]
    BY <2>6, <2>7, <2>8, <2>9
  <2>11. s = c
    BY <2>3, <2>8, <2>10, SeqEqual
  <2> QED
    BY <2>1, <2>11 DEF s, a, c, f
<1>14. n \in 0 .. n
  OBVIOUS
<1>15. L[n] = Len(F(n)) /\ F(n) \in Seq(Bytes)
  BY <1>3, <1>5, <1>14
<1> QED
  BY <1>4, <1>5, <1>6, <1>11, <1>13, <1>15

\* What was written as text is taken for text.
LEMMA TextIsText ==
    ASSUME NEW bytes \in Seq(Bytes), Written(bytes)
    PROVE  IsText(bytes)
<1>1. PICK chars \in SeqOf(Characters, Len(bytes)) :
        /\ FlattenSeq(chars) = bytes
        /\ ToSet(chars) \subseteq Printable \/ ToSet(chars) \cap Blanks # {}
  BY DEF Written
<1>2. PICK n \in Nat : chars \in [1 .. n -> Characters]
  BY <1>1 DEF SeqOf
<1>3. PICK L \in [0 .. n -> Nat] :
        /\ L[0] = 0 /\ L[n] = Len(bytes)
        /\ \A i, j \in 0 .. n : i < j => L[i] < L[j]
        /\ \A k \in 0 .. n - 1 : SubSeq(bytes, L[k] + 1, L[k + 1]) = chars[k + 1]
  BY <1>1, <1>2, CharactersInARow
<1> DEFINE ends == {L[k] : k \in 0 .. n}
           Next2(q) == q[1] < q[2] /\ \A e \in ends : e <= q[1] \/ q[2] <= e
<1>4. Parts(bytes, ends) = {SubSeq(bytes, p[1] + 1, p[2]) : p \in {q \in ends \X ends : Next2(q)}}
  BY DEF Parts
<1>5. /\ 0 \in 0 .. n /\ n \in 0 .. n
      /\ \A k \in 0 .. n : L[k] \in Nat
      /\ \A k \in 0 .. n - 1 : k \in 0 .. n /\ k + 1 \in 0 .. n /\ k + 1 \in 1 .. n
  BY <1>3
<1>6. \A i, j \in 0 .. n : i <= j => L[i] <= L[j]
  <2>1. \A i, j \in 0 .. n : i < j => L[i] < L[j]
    BY <1>3
  <2>2. \A i, j \in 0 .. n : i <= j => i < j \/ i = j
    OBVIOUS
  <2> QED
    BY <1>5, <2>1, <2>2
<1>7. ends \in SUBSET (0 .. Len(bytes)) /\ {0, Len(bytes)} \subseteq ends
  <2>1. \A k \in 0 .. n : 0 <= L[k] /\ L[k] <= L[n]
    BY <1>5, <1>6
  <2>2. 0 \in ends /\ Len(bytes) \in ends
    BY <1>3, <1>5
  <2>3. Len(bytes) \in Nat
    OBVIOUS
  <2> QED
    BY <1>3, <1>5, <2>1, <2>2, <2>3
<1>8. ASSUME NEW part \in Parts(bytes, ends) PROVE part \in ToSet(chars)
  <2>1. PICK i \in 0 .. n, j \in 0 .. n :
          /\ part = SubSeq(bytes, L[i] + 1, L[j])
          /\ L[i] < L[j] /\ \A e \in ends : e <= L[i] \/ L[j] <= e
    <3>1. PICK p \in ends \X ends : part = SubSeq(bytes, p[1] + 1, p[2]) /\ Next2(p)
      BY <1>4
    <3>2. PICK i \in 0 .. n : p[1] = L[i]
      BY <3>1
    <3>3. PICK j \in 0 .. n : p[2] = L[j]
      BY <3>1
    <3> QED
      BY <3>1, <3>2, <3>3
  <2>2. i < j
    BY <1>5, <1>6, <2>1
  <2>3. i + 1 \in 0 .. n /\ i \in 0 .. n - 1 /\ i < i + 1 /\ i + 1 \in 1 .. n
    BY <2>2
  <2>4. L[i] < L[i + 1] /\ L[i + 1] \in ends /\ L[i + 1] \in Nat /\ L[i] \in Nat /\ L[j] \in Nat
    BY <1>3, <1>5, <2>3
  <2>5. L[j] <= L[i + 1]
    <3>1. L[i + 1] <= L[i] \/ L[j] <= L[i + 1]
      BY <2>1, <2>4, Zenon
    <3> QED
      BY <2>4, <3>1
  <2>6. j = i + 1
    <3> SUFFICES ASSUME i + 1 < j PROVE FALSE
      BY <2>2
    <3>1. L[i + 1] < L[j]
      BY <1>3, <2>3
    <3> QED
      BY <2>4, <2>5, <3>1
  <2>7. part = chars[i + 1]
    BY <1>3, <2>1, <2>3, <2>6
  <2> QED
    BY <1>2, <2>3, <2>7 DEF ToSet
<1>9. ASSUME NEW char \in ToSet(chars) PROVE char \in Parts(bytes, ends)
  <2>1. PICK i \in 1 .. n : char = chars[i]
    BY <1>2 DEF ToSet
  <2>2. i - 1 \in 0 .. n - 1 /\ i - 1 \in 0 .. n /\ i \in 0 .. n /\ i - 1 + 1 = i /\ i - 1 < i
    OBVIOUS
  <2>3. char = SubSeq(bytes, L[i - 1] + 1, L[i]) /\ L[i - 1] < L[i]
    BY <1>3, <2>1, <2>2
  <2>4. ASSUME NEW k \in 0 .. n PROVE L[k] <= L[i - 1] \/ L[i] <= L[k]
    <3>1. k <= i - 1 \/ i <= k
      OBVIOUS
    <3> QED
      BY <1>6, <2>2, <3>1
  <2> DEFINE q == <<L[i - 1], L[i]>>
  <2>5. q \in ends \X ends /\ q[1] = L[i - 1] /\ q[2] = L[i]
    BY <2>2
  <2>6. \A e \in ends : e <= L[i - 1] \/ L[i] <= e
    BY <2>4
  <2>7. Next2(q)
    BY <2>3, <2>5, <2>6
  <2>8. char = SubSeq(bytes, q[1] + 1, q[2])
    BY <2>3, <2>5
  <2> HIDE DEF q, ends, Next2
  <2> QED
    BY <1>4, <2>5, <2>7, <2>8
<1> HIDE DEF ends
<1>10. Parts(bytes, ends) = ToSet(chars)
  BY <1>8, <1>9
<1>11. ToSet(chars) \subseteq Characters
  BY <1>2 DEF ToSet
<1> QED
  BY <1>1, <1>7, <1>10, <1>11 DEF IsText

\* Nobody takes opaque bytes for text, ...
LEMMA OpaqueIsNoText ==
    ASSUME NEW bytes \in Seq(Bytes), Opaque(bytes)
    PROVE  ~IsText(bytes)
<1> SUFFICES ASSUME NEW ends \in SUBSET (0 .. Len(bytes)), {0, Len(bytes)} \subseteq ends,
                    Parts(bytes, ends) \subseteq Characters
             PROVE  FALSE
  BY DEF IsText
<1>1. PICK i \in 1 .. Len(bytes) : \A char \in Characters : bytes[i] \notin ToSet(char)
  BY DEF Opaque
<1>2. /\ Len(bytes) \in Nat /\ Len(bytes) \in ends /\ 0 \in ends /\ i \in Nat /\ i <= Len(bytes)
      /\ \A e \in ends : e \in 0 .. Len(bytes) /\ e \in Nat
  OBVIOUS
<1> DEFINE N == {e \in ends : i <= e}
           M == {d \in 0 .. i - 1 : i - 1 - d \in ends}
           b == Min(N)
           a == i - 1 - Min(M)
<1>3. b \in ends /\ i <= b /\ \A e \in ends : i <= e => b <= e
  <2>1. N \in SUBSET Nat /\ Len(bytes) \in N
    BY <1>2
  <2>2. Min(N) \in N /\ \A y \in N : Min(N) <= y
    <3> HIDE DEF N
    <3> QED
      BY <2>1, Smallest
  <2> QED
    BY <2>2
<1>4. a \in ends /\ a < i /\ a \in 0 .. i - 1 /\ \A e \in ends : e < i => e <= a
  <2>1. M \in SUBSET Nat /\ i - 1 \in M
    BY <1>2
  <2>2. Min(M) \in M /\ \A y \in M : Min(M) <= y
    <3> HIDE DEF M
    <3> QED
      BY <2>1, Smallest
  <2>3. Min(M) \in 0 .. i - 1 /\ a \in ends
    BY <2>2
  <2>4. ASSUME NEW e \in ends, e < i PROVE e <= a
    <3>1. e \in Nat /\ i - 1 - e \in 0 .. i - 1 /\ i - 1 - (i - 1 - e) = e
      BY <1>2, <2>4
    <3>2. i - 1 - e \in M
      BY <3>1
    <3>3. Min(M) <= i - 1 - e
      BY <2>2, <3>2
    <3> HIDE DEF M
    <3> QED
      BY <2>3, <3>1, <3>3
  <2> HIDE DEF M
  <2> QED
    BY <2>3, <2>4
<1> HIDE DEF a, b, N, M
<1>5. b \in 0 .. Len(bytes) /\ a < b
  BY <1>2, <1>3, <1>4
<1> DEFINE q == <<a, b>>
           part == SubSeq(bytes, a + 1, b)
<1>6. part \in Parts(bytes, ends)
  <2>1. \A e \in ends : e <= a \/ b <= e
    BY <1>2, <1>3, <1>4
  <2>2. q \in ends \X ends /\ q[1] = a /\ q[2] = b
    BY <1>3, <1>4
  <2>3. part = SubSeq(bytes, q[1] + 1, q[2])
    BY <2>2
  <2>4. q[1] < q[2] /\ \A e \in ends : e <= q[1] \/ q[2] <= e
    BY <1>5, <2>1, <2>2
  <2> HIDE DEF q, part
  <2> QED
    BY <2>2, <2>3, <2>4 DEF Parts
<1>7. part[i - a] = bytes[i] /\ i - a \in DOMAIN part
  <2>1. /\ a + 1 \in Int /\ b \in Int /\ a + 1 <= b
        /\ \A k \in a + 1 .. b : k \in 1 .. Len(bytes)
    BY <1>2, <1>4, <1>5
  <2>2. \A k \in 1 .. Len(bytes) : bytes[k] \in Bytes
    OBVIOUS
  <2>3. \A k \in a + 1 .. b : bytes[k] \in Bytes
    BY <2>1, <2>2
  <2>4. /\ part \in Seq(Bytes) /\ Len(part) = b - (a + 1) + 1
        /\ \A k \in 1 .. b - (a + 1) + 1 : part[k] = bytes[a + 1 + k - 1]
    BY <2>1, <2>3, SubSeqProperties
  <2>5. i - a \in 1 .. b - (a + 1) + 1 /\ a + 1 + (i - a) - 1 = i
    BY <1>3, <1>4, <1>5
  <2>6. DOMAIN part = 1 .. Len(part)
    BY <2>4
  <2> HIDE DEF part
  <2> QED
    BY <2>4, <2>5, <2>6
<1>8. part \in Characters
  BY <1>6
<1> HIDE DEF part
<1> QED
  BY <1>1, <1>7, <1>8 DEF ToSet

\* ... or for a message.
LEMMA OpaqueIsNoMessage ==
    ASSUME NEW bytes \in Seq(Bytes), Opaque(bytes)
    PROVE  Walk[bytes] = {}
<1>1. bytes # << >> /\ DOMAIN bytes = 1 .. Len(bytes)
  BY DEF Opaque
<1> DEFINE After(tag) ==
             UNION {{<<<<tag.value \div Wires, v.value>>>> \o fields : fields \in Walk[v.rest]} :
                      v \in ReadValue(Walk, tag.value % Wires, tag.rest)}
<1>2. Walk[bytes] = UNION {After(tag) : tag \in _read_varint(bytes)}
  <2>1. Walk[bytes] = WalkBody(Walk, bytes)
    BY WalkIs
  <2>2. WalkBody(Walk, bytes) =
          IF bytes = << >> THEN {<< >>} ELSE UNION {After(tag) : tag \in _read_varint(bytes)}
    BY Zenon DEF WalkBody
  <2> QED
    BY <1>1, <2>1, <2>2
<1>3. CASE \A i \in DOMAIN bytes : bytes[i] >= Base
  <2>1. ASSUME NEW i \in 1 .. Len(bytes) PROVE ~(bytes[i] < Base)
    <3>1. bytes[i] >= Base /\ bytes[i] \in Nat /\ Base \in Nat
      BY <1>1, <1>3, Sizes
    <3> QED
      BY <3>1
  <2>2. Ends(bytes) = {}
    BY <2>1 DEF Ends
  <2>3. _read_varint(bytes) = {}
    BY <2>2, ReadVarint
  <2> QED
    BY <1>2, <2>3
<1>4. CASE bytes[1] < Base /\ bytes[1] % Wires \notin {0, 1, 2, 5}
  <2> DEFINE t == [value |-> bytes[1], rest |-> Rest(bytes, 1)]
  <2>1. _read_varint(bytes) = {t}
    BY <1>1, <1>4, OneByte
  <2>2. ReadValue(Walk, t.value % Wires, t.rest) = {}
    <3>1. t.value % Wires \notin {0, 1, 2, 5}
      BY <1>4
    <3> HIDE DEF t
    <3> QED
      BY <3>1, ReadCases
  <2>3. After(t) = {}
    <3> HIDE DEF t
    <3> QED
      BY <2>2
  <2> HIDE DEF t, After
  <2> QED
    BY <1>2, <2>1, <2>3
<1> QED
  BY <1>3, <1>4 DEF Opaque

\* What the walk shows of a field is what the field means.
LEMMA SeenIsMeant ==
    ASSUME NEW field \in Fields
    PROVE  Meant[field] = Seen(field)
<1> DEFINE T == {k \in Nat : \A f \in Fields : Depth(f) < k => Meant[f] = Seen(f)}
<1>1. 0 \in T
  BY DepthType
<1>2. ASSUME NEW k \in Nat, k \in T PROVE k + 1 \in T
  <2> SUFFICES ASSUME NEW f \in Fields, Depth(f) < k + 1 PROVE Meant[f] = Seen(f)
    OBVIOUS
  <2>1. \A e \in Fields : Depth(e) < k => Meant[e] = Seen(e)
    BY <1>2
  <2>2. Meant[f] = MeantBody(Meant, f)
    BY MeantIs
  <2> HIDE DEF T
  <2>3. CASE f.is = "number"
    <3>1. f.wire # 2
      BY <2>3, InnerType
    <3> QED
      BY <2>2, <2>3, <3>1 DEF MeantBody, Seen, Shown
  <2>4. CASE f.is = "text"
    <3>1. f.wire = 2 /\ Written(f.of) /\ f.of \in Seq(Bytes)
      BY <2>4, InnerType, BodyType
    <3>2. IsText(f.of)
      BY <3>1, TextIsText
    <3> QED
      BY <2>2, <2>4, <3>1, <3>2 DEF MeantBody, Seen, Shown, _decode_length_delimited
  <2>5. CASE f.is = "message"
    <3> DEFINE m == Inner(f)
    <3>1. m \in Messages /\ Put(m) = f.of /\ f.wire = 2
      BY <2>5, InnerType
    <3>2. CASE IsText(f.of)
      BY <2>2, <2>5, <3>1, <3>2 DEF MeantBody, Seen, Shown, _decode_length_delimited
    <3>3. CASE ~IsText(f.of)
      <4>1. Meant[f] = <<f.no, <<"nested", Collect([i \in DOMAIN m |-> Meant[m[i]]])>>>>
        BY <2>2, <2>5, <3>3 DEF MeantBody
      <4> HIDE DEF m
      <4>2. ASSUME NEW i \in DOMAIN m PROVE Meant[m[i]] = Seen(m[i])
        <5>1. m[i] \in Fields /\ Depth(m[i]) < Depth(f)
          BY <3>1, DepthLess
        <5>2. Depth(m[i]) < k
          BY <5>1, DepthType
        <5> QED
          BY <2>1, <5>1, <5>2
      <4>3. [i \in DOMAIN m |-> Meant[m[i]]] = SeenAll(m)
        BY <4>2 DEF SeenAll
      <4>4. Walk[f.of] = {SeenAll(m)}
        BY <3>1, MessageSeen
      <4>5. decode_protobuf(Walk, f.of) = {Collect(SeenAll(m))}
        BY <4>4 DEF decode_protobuf
      <4>6. Shown(f) = <<"nested", Collect(SeenAll(m))>>
        BY <3>1, <3>3, <4>5 DEF Shown, _decode_length_delimited
      <4> QED
        BY <4>1, <4>3, <4>6 DEF Seen
    <3> QED
      BY <3>2, <3>3
  <2>6. CASE f.is = "bytes"
    <3>1. f.wire = 2 /\ Opaque(f.of) /\ f.of \in Seq(Bytes)
      BY <2>6, InnerType, BodyType
    <3>2. ~IsText(f.of) /\ Walk[f.of] = {}
      BY <3>1, OpaqueIsNoText, OpaqueIsNoMessage
    <3>3. decode_protobuf(Walk, f.of) = {}
      BY <3>2 DEF decode_protobuf
    <3> QED
      BY <2>2, <2>6, <3>1, <3>2, <3>3 DEF MeantBody, Seen, Shown, _decode_length_delimited
  <2> QED
    BY <2>3, <2>4, <2>5, <2>6, InnerType
<1>3. Nat \subseteq T
  <2> HIDE DEF T
  <2> QED
    BY <1>1, <1>2, Induction
<1>4. Depth(field) + 1 \in Nat /\ Depth(field) < Depth(field) + 1
  BY DepthType
<1> QED
  BY <1>3, <1>4

-----------------------------------------------------------------------------
(* The message index                                                       *)

\* The first message of a schema has one zero as its index, which is dropped.
LEMMA IndexExact ==
    ASSUME NEW rest \in Seq(Bytes)
    PROVE  _strip_protobuf_index(<< 0 >> \o rest) = {rest}
<1> DEFINE h == << 0 >>
           data == h \o rest
           skip(count, d) == CHOOSE g : g = [i \in 0 .. count |->
                   IF i = 0 THEN {d} ELSE UNION {{v.rest : v \in _read_varint(e)} : e \in g[i - 1]}]
<1>1. h \in Seq(Bytes) /\ Len(h) = 1 /\ h[1] = 0 /\ 0 < Base
  BY Sizes
<1> HIDE DEF h
<1>2. data \in Seq(Bytes) /\ data # << >> /\ data[1] = 0 /\ Rest(data, 1) = rest
  <2>1. /\ h \o rest \in Seq(Bytes) /\ Len(h \o rest) = Len(h) + Len(rest)
        /\ \A i \in 1 .. Len(h) + Len(rest) :
             (h \o rest)[i] = IF i <= Len(h) THEN h[i] ELSE rest[i - Len(h)]
    BY <1>1, ConcatProperties
  <2>2. Len(rest) \in Nat
    OBVIOUS
  <2>3. 1 \in 1 .. Len(h) + Len(rest) /\ 1 <= Len(h)
    BY <1>1, <2>2
  <2>4. Rest(h \o rest, Len(h)) = rest
    BY <1>1, BytesSlice
  <2>5. h \o rest # << >>
    BY <1>1, <2>1, <2>2
  <2> QED
    BY <1>1, <2>1, <2>3, <2>4, <2>5
<1> HIDE DEF data
<1>3. _read_varint(data) = {[value |-> 0, rest |-> rest]}
  BY <1>1, <1>2, OneByte
<1>4. _strip_protobuf_index(data) =
        UNION {skip(c.value, c.rest)[c.value] : c \in _read_varint(data)}
  BY Zenon DEF _strip_protobuf_index
<1> DEFINE g == skip(0, rest)
           w == [i \in 0 .. 0 |-> {rest}]
<1>5. _strip_protobuf_index(data) = g[0]
  <2> HIDE DEF skip
  <2> QED
    BY <1>3, <1>4
<1>6. w = [i \in 0 .. 0 |->
             IF i = 0 THEN {rest} ELSE UNION {{v.rest : v \in _read_varint(e)} : e \in w[i - 1]}]
  <2>1. \A i \in 0 .. 0 : i = 0
    OBVIOUS
  <2> QED
    BY <2>1
<1> HIDE DEF w
<1>7. g = [i \in 0 .. 0 |->
             IF i = 0 THEN {rest} ELSE UNION {{v.rest : v \in _read_varint(e)} : e \in g[i - 1]}]
  BY <1>6, Zenon
<1> HIDE DEF g
<1>8. 0 \in 0 .. 0
  OBVIOUS
<1>9. g[0] = {rest}
  BY <1>7, <1>8, Zenon
<1> QED
  BY <1>5, <1>9 DEF data, h

\* Any index is bytes.
LEMMA IndexType ==
    ASSUME NEW path \in Paths
    PROVE  PutIndex(path) \in Seq(Bytes)
<1>1. /\ path \in Seq(Nat)
      /\ \A n \in {Len(path)} \cup ToSet(path) : Fits(2 * n, Base, MaxGroups)
  BY DecodingAssumption
<1> DEFINE n == Len(path)
           s == [i \in 1 .. n |-> PutVarint(2 * path[i])]
<1>2. n \in Nat /\ DOMAIN path = 1 .. n /\ \A i \in 1 .. n : path[i] \in Nat /\ path[i] \in ToSet(path)
  BY <1>1 DEF ToSet
<1> HIDE DEF n
<1>3. PutVarint(2 * n) \in Seq(Bytes)
  <2>1. 2 * n \in Nat /\ Fits(2 * n, Base, MaxGroups)
    BY <1>1, <1>2 DEF n
  <2> QED
    BY <2>1, VarintType
<1>4. \A i \in 1 .. n : s[i] \in Seq(Bytes)
  <2> SUFFICES ASSUME NEW i \in 1 .. n PROVE PutVarint(2 * path[i]) \in Seq(Bytes)
    OBVIOUS
  <2> DEFINE x == 2 * path[i]
  <2>1. x \in Nat /\ Fits(x, Base, MaxGroups)
    BY <1>1, <1>2
  <2> HIDE DEF x
  <2>2. PutVarint(x) \in Seq(Bytes)
    BY <2>1, VarintType
  <2> QED
    BY <2>2 DEF x
<1>5. Upto(s, n) = s /\ n \in 0 .. n
  BY <1>2 DEF Upto
<1>6. PutIndex(path) = IF path = << 0 >> THEN << 0 >> ELSE PutVarint(2 * n) \o FlattenSeq(s)
  BY <1>2 DEF PutIndex, n
<1> HIDE DEF s
<1>7. FlattenSeq(s) \in Seq(Bytes)
  <2>1. \A k \in 0 .. n : FlattenSeq(Upto(s, k)) \in Seq(Bytes)
    BY <1>2, <1>4, Flattened
  <2> QED
    BY <1>5, <2>1
<1> DEFINE v == PutVarint(2 * n)
           t == FlattenSeq(s)
<1>8. v \o t \in Seq(Bytes)
  <2>1. v \in Seq(Bytes) /\ t \in Seq(Bytes)
    BY <1>3, <1>7
  <2> HIDE DEF v, t
  <2> QED
    BY <2>1, ConcatProperties
<1>9. << 0 >> \in Seq(Bytes)
  BY Sizes
<1> HIDE DEF v, t
<1> QED
  BY <1>6, <1>8, <1>9 DEF v, t

\* The walk gives back what was put.
LEMMA WalkIsExact ==
    ASSUME NEW m \in Messages
    PROVE  Put(m) \in Seq(Bytes) /\ Walk[Put(m)] = {Meaning(m)}
<1>1. Put(m) \in Seq(Bytes) /\ Walk[Put(m)] = {SeenAll(m)}
  BY MessageSeen
<1>2. \A i \in DOMAIN m : m[i] \in Fields
  BY MessageType
<1>3. SeenAll(m) = Meaning(m)
  BY <1>2, SeenIsMeant DEF SeenAll, Meaning
<1> QED
  BY <1>1, <1>3

-----------------------------------------------------------------------------
(* Bytes that end too early                                                *)

\* A value that is cut off is refused, or takes all the bytes there are.
LEMMA ValueCut ==
    ASSUME NEW f \in Fields, NEW j \in Nat, j <= Len(Body(f))
    PROVE  \/ ReadValue(Walk, f.wire, First(Body(f), j)) = {}
           \/ \E x : ReadValue(Walk, f.wire, First(Body(f), j)) = {[value |-> x, rest |-> << >>]}
<1> DEFINE b == Body(f)
           data == First(b, j)
<1>1. b \in Seq(Bytes) /\ Len(b) \in Nat
  BY BodyType, LenProperties
<1>2. /\ data \in Seq(Bytes) /\ Len(data) = j
      /\ j = Len(b) => data = b
  <2>1. data \in Seq(Bytes) /\ Len(data) = IF j < Len(b) THEN j ELSE Len(b)
    BY <1>1, SliceType
  <2>2. j = Len(b) => data = b
    BY <1>1, SliceAll
  <2> QED
    BY <1>1, <2>1, <2>2
<1>3. CASE j = Len(b)
  <2>1. b \o << >> = b /\ << >> \in Seq(Bytes)
    BY <1>1, ConcatEmptySeq
  <2>2. ReadValue(Walk, f.wire, b) = {[value |-> Shown(f), rest |-> << >>]}
    BY <2>1, ValueExact
  <2> QED
    BY <1>2, <1>3, <2>2
<1>4. ASSUME NEW size \in Nat, Len(b) = size
      PROVE  \E x : Fixed(data, size) = {[value |-> x, rest |-> << >>]}
  <2>1. Rest(data, size) = << >>
    BY <1>2, <1>4, SliceAll
  <2> QED
    BY <2>1 DEF Fixed
<1>5. CASE f.wire = 1
  <2>1. Len(b) = Wide /\ Wide \in Nat
    BY <1>5, BodyType, Sizes
  <2>2. ReadValue(Walk, f.wire, data) = Fixed(data, Wide)
    BY <1>5, ReadCases
  <2> QED
    BY <1>4, <2>1, <2>2
<1>6. CASE f.wire = 5
  <2>1. Len(b) = Narrow /\ Narrow \in Nat
    BY <1>6, BodyType, Sizes
  <2>2. ReadValue(Walk, f.wire, data) = Fixed(data, Narrow)
    BY <1>6, ReadCases
  <2> QED
    BY <1>4, <2>1, <2>2
<1>7. CASE f.wire = 0 /\ j < Len(b)
  <2>1. f.of \in Nat /\ Fits(f.of, Base, MaxGroups) /\ b = PutVarint(f.of)
    BY <1>7, BodyType
  <2>2. _read_varint(data) = {}
    BY <1>7, <2>1, VarintCut
  <2> HIDE DEF data
  <2>3. ReadValue(Walk, f.wire, data) = {[v EXCEPT !.value = <<"number", @>>] : v \in _read_varint(data)}
    BY <1>7, ReadCases, Zenon
  <2>4. ReadValue(Walk, f.wire, data) = {}
    BY <2>2, <2>3, Zenon
  <2> QED
    BY <2>4 DEF data
<1>8. CASE f.wire = 2
  <2> DEFINE c == f.of
             L == Len(c)
             p == PutVarint(L)
             Val(v) == _decode_length_delimited(Walk, First(v.rest, v.value))
  <2>1. /\ c \in Seq(Bytes) /\ Fits(L, Base, MaxGroups) /\ L \in Nat /\ b = p \o c
    BY <1>8, BodyType, LenProperties
  <2>2. p \in Seq(Bytes) /\ Len(p) \in Nat
    BY <2>1, VarintType, LenProperties
  <2>3. ReadValue(Walk, f.wire, data) =
          {[value |-> Val(v), rest |-> Rest(v.rest, v.value)] : v \in _read_varint(data)}
    BY <1>8, ReadCases
  <2> HIDE DEF c, b, Val
  <2>4. CASE j < Len(p)
    <3>1. data = First(p, j)
      BY <2>1, <2>2, <2>4, SliceConcat
    <3>2. _read_varint(data) = {}
      BY <2>1, <2>4, <3>1, VarintCut
    <3> HIDE DEF data
    <3>3. ReadValue(Walk, f.wire, data) = {}
      BY <2>3, <3>2
    <3> QED
      BY <3>3 DEF data, b
  <2>5. CASE ~(j < Len(p))
    <3> DEFINE l == j - Len(p)
               e == First(c, l)
               v0 == [value |-> L, rest |-> e]
    <3>1. l \in Nat /\ j = Len(p) + l
      BY <2>2, <2>5
    <3> HIDE DEF l, p
    <3>2. data = p \o e
      <4>1. First(p \o c, Len(p) + l) = p \o First(c, l)
        <5>1. c \in Seq(Bytes) /\ p \in Seq(Bytes) /\ l \in Nat
          BY <2>1, <2>2, <3>1
        <5> QED
          BY <5>1, SliceConcat
      <4> QED
        BY <2>1, <3>1, <4>1
    <3>3. e \in Seq(Bytes) /\ Len(e) = IF l < L THEN l ELSE L
      BY <2>1, <3>1, SliceType
    <3>4. L >= Len(e)
      BY <2>1, <3>1, <3>3
    <3> HIDE DEF e, data
    <3>5. Rest(e, L) = << >>
      BY <2>1, <3>3, <3>4, SliceAll
    <3>6. _read_varint(data) = {v0}
      BY <2>1, <3>2, <3>3, VarintExact DEF p
    <3>7. v0.rest = e /\ v0.value = L
      OBVIOUS
    <3> HIDE DEF v0, L
    <3>8. ReadValue(Walk, f.wire, data) = {[value |-> Val(v0), rest |-> << >>]}
      BY <2>3, <3>5, <3>6, <3>7
    <3> QED
      BY <3>8 DEF data, b
  <2> QED
    BY <2>4, <2>5
<1>9. j < Len(b) \/ j = Len(b)
  BY <1>1
<1>10. f.wire = 0 \/ f.wire = 1 \/ f.wire = 2 \/ f.wire = 5
  BY TagExact
<1> HIDE DEF b, data
<1> QED
  BY <1>3, <1>5, <1>6, <1>7, <1>8, <1>9, <1>10 DEF b, data

\* A field that is cut off is refused, or shown under its number.
LEMMA FieldCut ==
    ASSUME NEW f \in Fields, NEW k \in Nat, k > 0, k <= Len(PutField(f))
    PROVE  \/ Walk[First(PutField(f), k)] = {}
           \/ \E x : Walk[First(PutField(f), k)] = {<<<<f.no, x>>>>}
<1> DEFINE t == PutVarint(Tag(f))
           b == Body(f)
           data == First(PutField(f), k)
<1>1. /\ t \in Seq(Bytes) /\ b \in Seq(Bytes) /\ PutField(f) = t \o b
      /\ Len(t) \in Nat /\ Len(b) \in Nat /\ Len(PutField(f)) = Len(t) + Len(b)
  BY TagExact, VarintType, BodyType, FieldType, LenProperties
<1>2. data \in Seq(Bytes) /\ Len(data) = k
  <2>1. PutField(f) \in Seq(Bytes) /\ Len(PutField(f)) \in Nat
    BY FieldType, LenProperties
  <2>2. data \in Seq(Bytes) /\ Len(data) = IF k < Len(PutField(f)) THEN k ELSE Len(PutField(f))
    BY <2>1, SliceType
  <2> QED
    BY <2>1, <2>2
<1>3. CASE k < Len(t)
  <2>1. data = First(t, k)
    <3> HIDE DEF t, b
    <3> QED
      BY <1>1, <1>3, SliceConcat
  <2>2. _read_varint(data) = {}
    BY <1>3, <2>1, TagExact, VarintCut
  <2>3. data # << >>
    BY <1>2
  <2> HIDE DEF data
  <2>4. WalkBody(Walk, data) = {}
    BY <2>2, <2>3 DEF WalkBody
  <2>5. Walk[data] = {}
    BY <1>2, <2>4, WalkIs
  <2> QED
    BY <2>5 DEF data
<1>4. CASE ~(k < Len(t))
  <2> DEFINE j == k - Len(t)
             e == First(b, j)
             Found(v) == {<<<<f.no, v.value>>>> \o fields : fields \in Walk[v.rest]}
  <2>1. j \in Nat /\ k = Len(t) + j /\ j <= Len(b)
    BY <1>1, <1>4
  <2> HIDE DEF j
  <2>2. data = t \o e
    <3> HIDE DEF t, b
    <3>1. \A c \in Seq(Bytes), d \in Seq(Bytes), u \in Nat :
            First(c \o d, Len(c) + u) = c \o First(d, u)
      BY SliceConcat
    <3>2. First(t \o b, Len(t) + j) = t \o First(b, j)
      BY <1>1, <2>1, <3>1
    <3> QED
      BY <1>1, <2>1, <3>2
  <2>3. e \in Seq(Bytes)
    BY <1>1, <2>1, SliceType
  <2>4. Walk[t \o e] = UNION {Found(v) : v \in ReadValue(Walk, f.wire, e)}
    BY <2>3, TagWalk
  <2>5. ReadValue(Walk, f.wire, e) = {} \/ \E x : ReadValue(Walk, f.wire, e) = {[value |-> x, rest |-> << >>]}
    BY <2>1, ValueCut
  <2> HIDE DEF e, t, b, data
  <2>6. CASE ReadValue(Walk, f.wire, e) = {}
    <3>1. Walk[data] = {}
      BY <2>2, <2>4, <2>6
    <3> QED
      BY <3>1 DEF data
  <2>7. ASSUME NEW x, ReadValue(Walk, f.wire, e) = {[value |-> x, rest |-> << >>]}
        PROVE  Walk[data] = {<<<<f.no, x>>>>}
    <3> DEFINE v0 == [value |-> x, rest |-> << >>]
               y == <<<<f.no, x>>>>
    <3>1. y \in Seq({<<f.no, x>>})
      OBVIOUS
    <3>2. y \o << >> = y
      <4> HIDE DEF y
      <4> QED
        BY <3>1, ConcatEmptySeq
    <3>3. v0.value = x /\ v0.rest = << >>
      OBVIOUS
    <3> HIDE DEF v0
    <3>4. Found(v0) = {y \o << >>}
      BY <3>3, WalkEmpty
    <3> HIDE DEF Found
    <3>5. Walk[t \o e] = Found(v0)
      BY <2>4, <2>7 DEF v0
    <3> QED
      BY <2>2, <3>2, <3>4, <3>5
  <2> QED
    BY <2>5, <2>6, <2>7 DEF data
<1> QED
  BY <1>3, <1>4

\* The same for messages, field by field.
LEMMA PrefixIsHonest ==
    ASSUME NEW m \in Messages
    PROVE  \A k \in 0 .. Len(Put(m)) : \A fields \in Walk[First(Put(m), k)] : Honest(fields, m)
<1> SUFFICES \A k \in 0 .. Len(Put(m)) : \A fields \in Walk[First(Put(m), k)] :
               /\ Len(fields) <= Len(m)
               /\ \A i \in DOMAIN fields :
                    /\ fields[i][1] = m[i].no
                    /\ i < Len(fields) => fields[i] = Meant[m[i]]
  BY DEF Honest
<1>1. PICK n \in Nat : m \in [1 .. n -> Fields] /\ Len(m) = n /\ DOMAIN m = 1 .. n
  BY MessageType
<1> DEFINE P(j) == Put(Upto(m, j))
           Sound(fields, j) ==
             /\ Len(fields) \in 0 .. j
             /\ \A i \in DOMAIN fields :
                  /\ i \in 1 .. n
                  /\ fields[i][1] = m[i].no
                  /\ i < Len(fields) => fields[i] = Seen(m[i])
           Good(j) == \A k \in Nat : \A fields \in Walk[First(P(j), k)] :
                        k <= Len(P(j)) => Sound(fields, j)
           T == {j \in Nat : j <= n => Good(j)}
<1>2. /\ P(0) = << >>
      /\ \A j \in 0 .. n : P(j) \in Seq(Bytes)
      /\ \A j \in 0 .. n - 1 : P(j + 1) = P(j) \o PutField(m[j + 1])
      /\ P(n) = Put(m)
  BY <1>1, PutSteps, UptoAll
<1>3. 0 \in T
  <2> SUFFICES ASSUME NEW k \in Nat, NEW fields \in Walk[First(P(0), k)], k <= Len(P(0))
               PROVE  Sound(fields, 0)
    OBVIOUS
  <2> HIDE DEF P
  <2>1. First(P(0), k) = << >>
    BY <1>2, SliceAll, EmptySeq
  <2>2. fields = << >>
    BY <2>1, WalkEmpty
  <2> QED
    BY <2>2
<1>4. ASSUME NEW j \in Nat, j \in T PROVE j + 1 \in T
  <2> SUFFICES ASSUME j + 1 <= n PROVE Good(j + 1)
    <3> HIDE DEF Good
    <3> QED
      OBVIOUS
  <2>1. j \in 0 .. n /\ j \in 0 .. n - 1 /\ j + 1 \in 1 .. n /\ j <= n
    OBVIOUS
  <2>2. Good(j)
    BY <1>4, <2>1
  <2> SUFFICES ASSUME NEW k \in Nat, NEW fields \in Walk[First(P(j + 1), k)], k <= Len(P(j + 1))
               PROVE  Sound(fields, j + 1)
    OBVIOUS
  <2> DEFINE f == m[j + 1]
             p == P(j)
             q == PutField(f)
  <2>3. f \in Fields /\ p \in Seq(Bytes) /\ P(j + 1) = p \o q
    BY <1>1, <1>2, <2>1
  <2>4. q \in Seq(Bytes) /\ Len(q) \in Nat /\ Len(p) \in Nat /\ Len(p \o q) = Len(p) + Len(q)
    BY <2>3, FieldType, ConcatProperties, LenProperties
  <2> HIDE DEF T, P, f
  <2>5. CASE k <= Len(p)
    <3>1. First(p \o q, k) = First(p, k)
      BY <2>3, <2>4, <2>5, SliceConcat
    <3>2. fields \in Walk[First(P(j), k)] /\ k <= Len(P(j))
      <4> HIDE DEF q
      <4> QED
        BY <2>3, <2>5, <3>1
    <3> HIDE DEF p, q
    <3>3. Sound(fields, j)
      <4> HIDE DEF Sound
      <4> QED
        BY <2>2, <3>2
    <3>4. \A l \in 0 .. j : l \in 0 .. j + 1
      OBVIOUS
    <3> QED
      BY <3>3, <3>4
  <2>6. CASE ~(k <= Len(p))
    <3> DEFINE l == k - Len(p)
               e == First(q, l)
               a == SeenAll(Upto(m, j))
    <3>1. l \in Nat /\ l > 0 /\ k = Len(p) + l /\ l <= Len(q)
      <4>1. \A c \in Nat, d \in Nat : k <= c + d /\ ~(k <= c) =>
              k - c \in Nat /\ k - c > 0 /\ k = c + (k - c) /\ k - c <= d
        OBVIOUS
      <4>2. k <= Len(p) + Len(q)
        <5> HIDE DEF p, q
        <5> QED
          BY <2>3, <2>4
      <4> HIDE DEF p, q
      <4> QED
        BY <2>4, <2>6, <4>1, <4>2
    <3> HIDE DEF l, p
    <3>2. First(P(j + 1), k) = p \o e
      <4>1. First(p \o q, Len(p) + l) = p \o First(q, l)
        <5> HIDE DEF q
        <5>1. p \in Seq(Bytes) /\ q \in Seq(Bytes) /\ l \in Nat
          BY <2>3, <2>4, <3>1
        <5>2. \A c \in Seq(Bytes), d \in Seq(Bytes), u \in Nat :
                First(c \o d, Len(c) + u) = c \o First(d, u)
          BY SliceConcat
        <5> QED
          BY <5>1, <5>2
      <4> QED
        BY <2>3, <3>1, <4>1
    <3>3. e \in Seq(Bytes)
      BY <2>4, <3>1, SliceType
    <3>4. Walk[e] = {} \/ \E x : Walk[e] = {<<<<f.no, x>>>>}
      BY <2>3, <3>1, FieldCut
    <3> HIDE DEF e, q
    <3>5. Upto(m, j) \in [1 .. j -> Fields]
      BY <1>1, <2>1 DEF Upto
    <3>6. ASSUME NEW S, \A g \in Fields : Seen(g) \in S, Walk[e] \subseteq Seq(S)
          PROVE  fields \in {a \o h : h \in Walk[e]}
      <4>1. Walk[Put(Upto(m, j)) \o e] = {SeenAll(Upto(m, j)) \o h : h \in Walk[e]}
        BY <3>3, <3>5, <3>6, MessageWalk
      <4> QED
        BY <3>2, <4>1 DEF p, P
    <3>7. CASE Walk[e] = {}
      <4> DEFINE S == {Seen(g) : g \in Fields}
      <4>1. (\A g \in Fields : Seen(g) \in S) /\ Walk[e] \subseteq Seq(S)
        BY <3>7
      <4> HIDE DEF S
      <4> QED
        BY <3>6, <3>7, <4>1
    <3>8. ASSUME NEW x, Walk[e] = {<<<<f.no, x>>>>} PROVE Sound(fields, j + 1)
      <4> DEFINE z == <<f.no, x>>
                 y == <<z>>
                 S == {Seen(g) : g \in Fields} \cup {z}
      <4>1. y \in Seq(S) /\ Len(y) = 1 /\ y[1] = z
        OBVIOUS
      <4>2. (\A g \in Fields : Seen(g) \in S) /\ Walk[e] \subseteq Seq(S)
        BY <3>8, <4>1
      <4>3. a \in [1 .. j -> S] /\ \A i \in 1 .. j : a[i] = Seen(m[i])
        BY <1>1, <2>1 DEF SeenAll, Upto
      <4> HIDE DEF S, a, z
      <4>4. a \in Seq(S) /\ Len(a) = j
        BY <4>3
      <4>5. fields = a \o y
        BY <3>6, <3>8, <4>2 DEF z
      <4> HIDE DEF y
      <4>6. /\ a \o y \in Seq(S) /\ Len(a \o y) = j + 1
            /\ \A i \in 1 .. j + 1 : (a \o y)[i] = IF i <= j THEN a[i] ELSE y[i - j]
        <5>1. a \in Seq(S) /\ y \in Seq(S)
          BY <4>1, <4>4
        <5>2. /\ a \o y \in Seq(S) /\ Len(a \o y) = Len(a) + Len(y)
              /\ \A i \in 1 .. Len(a) + Len(y) :
                   (a \o y)[i] = IF i <= Len(a) THEN a[i] ELSE y[i - Len(a)]
          BY <5>1, ConcatProperties
        <5> QED
          BY <4>1, <4>4, <5>2
      <4>7. DOMAIN fields = 1 .. j + 1 /\ Len(fields) = j + 1
        BY <4>5, <4>6, LenProperties
      <4>8. ASSUME NEW i \in 1 .. j + 1
            PROVE  /\ i \in 1 .. n
                   /\ fields[i][1] = m[i].no
                   /\ i < j + 1 => fields[i] = Seen(m[i])
        <5>1. CASE i <= j
          <6>1. i \in 1 .. j /\ i \in 1 .. n
            BY <2>1, <5>1
          <6>2. fields[i] = Seen(m[i])
            BY <4>3, <4>5, <4>6, <5>1, <6>1
          <6> QED
            BY <6>1, <6>2 DEF Seen
        <5>2. CASE ~(i <= j)
          <6>1. i = j + 1 /\ i - j = 1 /\ ~(i < j + 1)
            BY <5>2
          <6>2. fields[i] = z
            BY <4>1, <4>5, <4>6, <5>2, <6>1
          <6>3. z[1] = m[i].no
            BY <6>1 DEF z, f
          <6> QED
            BY <2>1, <6>1, <6>2, <6>3
        <5> QED
          BY <5>1, <5>2
      <4> QED
        BY <4>7, <4>8
    <3> QED
      BY <3>4, <3>7, <3>8
  <2> QED
    BY <2>5, <2>6
<1>5. Good(n)
  <2> HIDE DEF Good
  <2>1. Nat \subseteq T
    <3> HIDE DEF T
    <3> QED
      BY <1>3, <1>4, Induction
  <2> QED
    BY <2>1
<1>6. \A i \in 1 .. n : Seen(m[i]) = Meant[m[i]]
  BY <1>1, SeenIsMeant
<1> HIDE DEF P
<1>7. ASSUME NEW k \in 0 .. Len(Put(m)), NEW fields \in Walk[First(Put(m), k)]
      PROVE  Sound(fields, n)
  <2>1. k \in Nat /\ k <= Len(P(n)) /\ fields \in Walk[First(P(n), k)]
    <3>1. Len(Put(m)) \in Nat
      BY <1>1, <1>2, LenProperties
    <3> QED
      BY <1>2, <3>1
  <2> HIDE DEF Sound
  <2> QED
    BY <1>5, <2>1
<1> QED
  <2> SUFFICES ASSUME NEW k \in 0 .. Len(Put(m)), NEW fields \in Walk[First(Put(m), k)]
               PROVE  /\ Len(fields) <= Len(m)
                      /\ \A i \in DOMAIN fields :
                           /\ fields[i][1] = m[i].no
                           /\ i < Len(fields) => fields[i] = Meant[m[i]]
    OBVIOUS
  <2>1. Sound(fields, n)
    BY <1>7
  <2>2. Len(fields) <= Len(m)
    BY <1>1, <2>1
  <2> QED
    BY <1>6, <2>1, <2>2

-----------------------------------------------------------------------------
(* The header                                                              *)

\* SplitHeader undoes _header: the digits of the id are reversed twice and
\* read as the number they are of, and the slices cut where the parts were joined.
LEMMA HeaderIsExact ==
    ASSUME NEW id \in 0 .. MaxId, NEW p \in Seq(Bytes)
    PROVE  /\ _header(id) \in Seq(Bytes) /\ Len(_header(id)) = 1 + IdBytes
           /\ SplitHeader(_header(id) \o p) = {[id |-> id, body |-> p]}
<1> DEFINE D == Digits(id, 2 * Base, IdBytes)
           R == Reverse(D)
           h == << 0 >>
<1>1. id \in Nat /\ Fits(id, 2 * Base, IdBytes)
  BY WireAssumption
<1>2. D \in Seq(Bytes) /\ Len(D) = IdBytes /\ IdBytes \in Nat /\ DOMAIN D = 1 .. IdBytes
  BY <1>1, Sizes, DigitsType DEF Bytes
<1>3. Number(D, 2 * Base) = id
  BY <1>1, Sizes, NumberOfDigits
<1> HIDE DEF D
<1>4. R = [i \in 1 .. IdBytes |-> D[IdBytes - i + 1]]
  BY <1>2 DEF Reverse
<1>5. \A i \in 1 .. IdBytes : IdBytes - i + 1 \in 1 .. IdBytes /\ IdBytes - (IdBytes - i + 1) + 1 = i
  BY <1>2
<1>6. R \in [1 .. IdBytes -> Bytes]
  BY <1>2, <1>4, <1>5
<1> HIDE DEF R
<1>7. R \in Seq(Bytes) /\ Len(R) = IdBytes
  BY <1>2, <1>6
<1>8. Reverse(R) = D
  <2>1. Reverse(R) = [i \in 1 .. IdBytes |-> R[IdBytes - i + 1]]
    BY <1>7 DEF Reverse
  <2>2. \A i \in 1 .. IdBytes : R[IdBytes - i + 1] = D[i]
    BY <1>4, <1>5
  <2>3. D = [i \in 1 .. IdBytes |-> D[i]]
    BY <1>2
  <2> QED
    BY <2>1, <2>2, <2>3
<1>10. h \in Seq(Bytes) /\ Len(h) = 1 /\ h[1] = 0
  BY Sizes
<1> HIDE DEF h
<1> DEFINE raw == (h \o R) \o p
<1>11. /\ h \o R \in Seq(Bytes) /\ Len(h \o R) = 1 + IdBytes /\ R \o p \in Seq(Bytes)
       /\ raw = h \o (R \o p) /\ Len(R \o p) = IdBytes + Len(p) /\ Len(p) \in Nat
  <2>1. h \in Seq(Bytes) /\ R \in Seq(Bytes) /\ p \in Seq(Bytes)
    BY <1>7, <1>10
  <2> HIDE DEF raw
  <2>2. h \o R \in Seq(Bytes) /\ Len(h \o R) = Len(h) + Len(R)
    BY <2>1, ConcatProperties
  <2>3. R \o p \in Seq(Bytes) /\ Len(R \o p) = Len(R) + Len(p)
    BY <2>1, ConcatProperties
  <2>4. (h \o R) \o p = h \o (R \o p)
    BY SMTT(20), <2>1, ConcatAssociative
  <2>5. Len(p) \in Nat
    BY <2>1, LenProperties
  <2> QED
    BY <1>7, <1>10, <2>2, <2>3, <2>4, <2>5 DEF raw
<1> DEFINE x == R \o p
<1>12. Rest(raw, 1) = x /\ Len(raw) = 1 + Len(x) /\ raw[1] = 0
  <2> HIDE DEF x
  <2>1. x \in Seq(Bytes) /\ raw = h \o x /\ Len(x) \in Nat
    BY <1>11, LenProperties DEF x
  <2>2. /\ Len(h \o x) = Len(h) + Len(x)
        /\ \A i \in 1 .. Len(h) + Len(x) : (h \o x)[i] = IF i <= Len(h) THEN h[i] ELSE x[i - Len(h)]
    BY <1>10, <2>1, ConcatProperties
  <2>3. Rest(h \o x, Len(h)) = x
    BY <1>10, <2>1, BytesSlice
  <2>4. 1 \in 1 .. Len(h) + Len(x) /\ 1 <= Len(h)
    BY <1>10, <2>1
  <2> QED
    BY <1>10, <2>1, <2>2, <2>3, <2>4
<1>13. First(x, IdBytes) = R
  BY <1>7, SliceConcat
<1>14. Rest(raw, 1 + IdBytes) = p
  <2> DEFINE hr == h \o R
  <2>1. hr \in Seq(Bytes) /\ Len(hr) = 1 + IdBytes
    BY <1>11
  <2> HIDE DEF hr
  <2>2. Rest(hr \o p, Len(hr)) = p
    BY <2>1, BytesSlice
  <2> QED
    BY <2>1, <2>2 DEF hr
<1>15. Len(raw) >= 1 + IdBytes
  BY <1>2, <1>11, <1>12
<1> HIDE DEF raw, x
<1>16. SplitHeader(raw) = {[id |-> id, body |-> p]}
  BY <1>3, <1>8, <1>12, <1>13, <1>14, <1>15 DEF SplitHeader
<1>17. _header(id) = h \o R /\ raw = _header(id) \o p
  BY DEF _header, raw, h, R, D
<1> QED
  BY <1>11, <1>16, <1>17

-----------------------------------------------------------------------------
(* What is shown                                                           *)

Encoded(path, message) == PutIndex(path) \o Put(message)

\* What a thread has at hand, once a payload arrived, is the beginning of what was
\* sent, under its id.
LEMMA ArrivesAsSent ==
    ASSUME NEW id \in 0 .. MaxId, NEW path \in Paths, NEW message \in Messages,
           NEW kept \in 0 .. Len(Encoded(path, message))
    PROVE  SplitHeader(First(_header(id) \o Encoded(path, message), 1 + IdBytes + kept)) =
             {[id |-> id, body |-> First(Encoded(path, message), kept)]}
<1> DEFINE p == Encoded(path, message)
           h == _header(id)
<1>1. p \in Seq(Bytes)
  <2> DEFINE a == PutIndex(path)
             b == Put(message)
  <2>1. a \in Seq(Bytes) /\ b \in Seq(Bytes)
    BY IndexType, WalkIsExact
  <2> HIDE DEF a, b
  <2>2. a \o b \in Seq(Bytes)
    BY <2>1, ConcatProperties
  <2> QED
    BY <2>2 DEF Encoded, a, b
<1>2. h \in Seq(Bytes) /\ Len(h) = 1 + IdBytes
  BY <1>1, HeaderIsExact
<1> HIDE DEF p
<1>3. kept \in Nat
  OBVIOUS
<1> DEFINE q == First(p, kept)
<1>4. q \in Seq(Bytes)
  BY <1>1, <1>3, SliceType
<1> HIDE DEF q
<1>5. SplitHeader(h \o q) = {[id |-> id, body |-> q]}
  BY <1>4, HeaderIsExact
<1> HIDE DEF h
<1>6. First(h \o p, 1 + IdBytes + kept) = h \o First(p, kept)
  <2>1. First(h \o p, Len(h) + kept) = h \o First(p, kept)
    BY <1>1, <1>2, <1>3, BytesSlice
  <2>2. Len(h) + kept = 1 + IdBytes + kept
    BY <1>2
  <2> QED
    BY <2>1, <2>2
<1> QED
  BY <1>5, <1>6 DEF q, p, h

\* What the walk shows of the beginning of a message, if the index is a lone zero.
LEMMA ShowsAsSent ==
    ASSUME NEW message \in Messages, NEW kept \in 0 .. Len(Encoded(<< 0 >>, message)),
           NEW found,
           found = UNION {Walk[d] : d \in _strip_protobuf_index(First(Encoded(<< 0 >>, message), kept))}
    PROVE  /\ kept = Len(Encoded(<< 0 >>, message)) => found = {Meaning(message)}
           /\ \A fields \in found : Honest(fields, message)
<1> DEFINE h == << 0 >>
           p == Put(message)
           data == First(Encoded(<< 0 >>, message), kept)
<1>1. p \in Seq(Bytes) /\ Walk[p] = {Meaning(message)}
  BY WalkIsExact
<1>2. h \in Seq(Bytes) /\ Len(h) = 1
  BY Sizes
<1>3. Encoded(<< 0 >>, message) = h \o p
  BY DEF Encoded, PutIndex
<1>4. \A k \in 0 .. Len(p) : \A fields \in Walk[First(p, k)] : Honest(fields, message)
  BY PrefixIsHonest
<1> HIDE DEF h, p
<1>5. Len(h \o p) = 1 + Len(p) /\ Len(p) \in Nat /\ h \o p \in Seq(Bytes)
  <2>1. h \in Seq(Bytes) /\ p \in Seq(Bytes)
    BY <1>1, <1>2
  <2>2. h \o p \in Seq(Bytes) /\ Len(h \o p) = Len(h) + Len(p)
    BY <2>1, ConcatProperties
  <2>3. Len(p) \in Nat
    BY <2>1, LenProperties
  <2> QED
    BY <1>2, <2>2, <2>3
<1>6. CASE kept = 0
  <2>1. data = << >>
    <3>1. data = First(h \o p, 0)
      BY <1>3, <1>6
    <3>2. First(h \o p, 0) \in Seq(Bytes) /\ Len(First(h \o p, 0)) = 0
      <4>1. 0 \in Nat /\ 0 < Len(h \o p)
        BY <1>5
      <4> QED
        BY <1>5, <4>1, SliceType
    <3> QED
      BY <3>1, <3>2, EmptySeq
  <2>2. Ends(<< >>) = {}
    BY DEF Ends
  <2>3. _read_varint(<< >>) = {}
    BY <2>2, ReadVarint
  <2>4. _strip_protobuf_index(<< >>) = {}
    BY <2>3 DEF _strip_protobuf_index
  <2>5. found = {}
    BY <2>1, <2>4
  <2>6. kept # Len(Encoded(<< 0 >>, message))
    BY <1>3, <1>5, <1>6
  <2> QED
    BY <2>5, <2>6
<1>7. CASE kept # 0
  <2> DEFINE k == kept - 1
             q == First(p, k)
  <2>1. k \in Nat /\ k \in 0 .. Len(p) /\ kept = 1 + k
    BY <1>3, <1>5, <1>7
  <2> HIDE DEF k
  <2>2. q \in Seq(Bytes)
    BY <1>1, <2>1, SliceType
  <2>3. data = h \o q
    <3>1. First(h \o p, Len(h) + k) = h \o First(p, k)
      BY <1>1, <1>2, <2>1, BytesSlice
    <3>2. Len(h) + k = kept
      BY <1>2, <2>1
    <3> QED
      BY <1>3, <3>1, <3>2
  <2>4. \A fields \in Walk[q] : Honest(fields, message)
    BY <1>4, <2>1
  <2>5. kept = Len(Encoded(<< 0 >>, message)) => q = p
    <3>1. kept = Len(Encoded(<< 0 >>, message)) => k >= Len(p)
      BY <1>3, <1>5, <2>1
    <3> QED
      BY <1>1, <2>1, <3>1, SliceAll
  <2> HIDE DEF q, data
  <2>6. _strip_protobuf_index(data) = {q}
    BY <2>2, <2>3, IndexExact DEF h
  <2>7. found = Walk[q]
    BY <2>6 DEF data
  <2> QED
    BY <1>1, <2>4, <2>5, <2>7
<1> QED
  BY <1>6, <1>7

\* The payload that worker w is at, or was at last.
Arrived(w) ==
    \E id \in Ids, path \in Paths, message \in Messages :
        \E kept \in 0 .. Len(Encoded(path, message)) :
            /\ sent[w] = [id |-> id, path |-> path, message |-> message,
                          whole |-> kept = Len(Encoded(path, message))]
            /\ Id(w) = id
            /\ body[w] = First(Encoded(path, message), kept)

Decoded(w) ==
    /\ pc[w] # "idle" \/ schema[w] \in Protobuf => Arrived(w)
    /\ pc[w] \in {"lookup", "fetch", "parse"} => schema[w] \notin Protobuf
    /\ HasShown(w) => shown[w] = UNION {Walk[d] : d \in _strip_protobuf_index(body[w])}

DInv ==
    /\ DOMAIN pc = Workers /\ DOMAIN payload = Workers /\ DOMAIN schema = Workers
    /\ DOMAIN body = Workers /\ DOMAIN shown = Workers /\ DOMAIN sent = Workers
    /\ \A w \in Workers : Decoded(w)

\* Protobuf is one of the types that are not Avro.
LEMMA ProtobufOnly ==
    /\ None \notin Protobuf
    /\ \A s \in Avro : s \notin Protobuf
BY SchemasAssumption, DecodingAssumption DEF Registered

\* What thread w does leaves the other ones alone.
LEMMA OthersStay ==
    ASSUME NEW w \in Workers, DInv, NEW v \in Workers, v # w,
           pc'[v] = pc[v], schema'[v] = schema[v], payload'[v] = payload[v],
           body'[v] = body[v], shown'[v] = shown[v], sent'[v] = sent[v]
    PROVE  Decoded(v)'
<1>1. Decoded(v)
  BY DEF DInv
<1>2. Arrived(v) => Arrived(v)'
  BY DEF Arrived, Id
<1> QED
  BY <1>1, <1>2 DEF Decoded, HasShown

LEMMA DecodedInit == DInit => DInv
<1> SUFFICES ASSUME DInit PROVE DInv
  OBVIOUS
<1>1. /\ pc = [w \in Workers |-> "idle"] /\ schema = [w \in Workers |-> None]
      /\ payload \in [Workers -> Registries \X Ids]
      /\ body = [w \in Workers |-> << >>] /\ shown = [w \in Workers |-> {}]
      /\ sent = [w \in Workers |-> << >>]
  BY DEF DInit, Init
<1>2. ASSUME NEW w \in Workers PROVE Decoded(w)
  <2>1. pc[w] = "idle" /\ schema[w] \notin Protobuf
    BY <1>1, ProtobufOnly
  <2> QED
    BY <2>1 DEF Decoded, HasShown
<1> QED
  BY <1>1, <1>2 DEF DInv

LEMMA ArriveKeeps ==
    ASSUME DInv, NEW w \in Workers, NEW r \in Registries, NEW id \in Ids, NEW path \in Paths,
           NEW message \in Messages, Arrive(w, r, id, path, message)
    PROVE  DInv'
<1> DEFINE bytes == Encoded(path, message)
<1>1. PICK kept \in 0 .. Len(bytes) :
        \E h \in SplitHeader(First(_header(id) \o bytes, 1 + IdBytes + kept)) :
            /\ Receive(w, r, h.id)
            /\ body' = [body EXCEPT ![w] = h.body]
            /\ sent' = [sent EXCEPT ![w] = [id |-> id, path |-> path, message |-> message,
                                            whole |-> kept = Len(bytes)]]
            /\ UNCHANGED shown
  BY Zenon DEF Arrive, Encoded
<1>2. id \in 0 .. MaxId
  BY DecodingAssumption
<1>3. SplitHeader(First(_header(id) \o bytes, 1 + IdBytes + kept)) =
        {[id |-> id, body |-> First(bytes, kept)]}
  BY <1>2, ArrivesAsSent
<1> DEFINE b == First(bytes, kept)
           s == [id |-> id, path |-> path, message |-> message, whole |-> kept = Len(bytes)]
<1>4. /\ Receive(w, r, id)
      /\ body' = [body EXCEPT ![w] = b]
      /\ sent' = [sent EXCEPT ![w] = s]
      /\ shown' = shown
  <2> HIDE DEF b
  <2>1. PICK h \in {[id |-> id, body |-> b]} :
            /\ Receive(w, r, h.id)
            /\ body' = [body EXCEPT ![w] = h.body]
            /\ sent' = [sent EXCEPT ![w] = s]
            /\ UNCHANGED shown
    BY <1>1, <1>3, Zenon DEF b
  <2>2. h.id = id /\ h.body = b
    BY <2>1
  <2> QED
    BY <2>1, <2>2
<1> HIDE DEF b, s
<1>5. /\ payload' = [payload EXCEPT ![w] = <<r, id>>]
      /\ schema' = [schema EXCEPT ![w] = None]
      /\ pc' = [pc EXCEPT ![w] = "lookup"]
  BY <1>4 DEF Receive, Goto
<1>6. /\ DOMAIN pc = Workers /\ DOMAIN payload = Workers /\ DOMAIN schema = Workers
      /\ DOMAIN body = Workers /\ DOMAIN shown = Workers /\ DOMAIN sent = Workers
  BY DEF DInv
<1>7. Decoded(w)'
  <2>1. /\ pc'[w] = "lookup" /\ schema'[w] = None /\ payload'[w] = <<r, id>>
        /\ body'[w] = b /\ sent'[w] = s
    BY <1>4, <1>5, <1>6
  <2>2. Id(w)' = id
    BY <2>1 DEF Id
  <2>3. Arrived(w)'
    BY <2>1, <2>2 DEF Arrived, b, s
  <2> QED
    BY <2>1, <2>3, ProtobufOnly DEF Decoded, HasShown
<1>8. ASSUME NEW v \in Workers, v # w PROVE Decoded(v)'
  <2>1. /\ pc'[v] = pc[v] /\ schema'[v] = schema[v] /\ payload'[v] = payload[v]
        /\ body'[v] = body[v] /\ shown'[v] = shown[v] /\ sent'[v] = sent[v]
    BY <1>4, <1>5, <1>6, <1>8
  <2> QED
    BY <1>8, <2>1, OthersStay
<1>9. /\ DOMAIN pc' = Workers /\ DOMAIN payload' = Workers /\ DOMAIN schema' = Workers
      /\ DOMAIN body' = Workers /\ DOMAIN shown' = Workers /\ DOMAIN sent' = Workers
  BY <1>4, <1>5, <1>6
<1> QED
  BY <1>7, <1>8, <1>9 DEF DInv

LEMMA ShowKeeps ==
    ASSUME DInv, NEW w \in Workers, ShowProtobuf(w)
    PROVE  DInv'
<1> DEFINE found == UNION {Walk[d] : d \in _strip_protobuf_index(body[w])}
<1>1. /\ pc[w] = "found" /\ pc' = [pc EXCEPT ![w] = "idle"]
      /\ shown' = [shown EXCEPT ![w] = found]
      /\ UNCHANGED <<payload, schema, body, sent>>
  BY DEF ShowProtobuf, ReadOther, Read, Goto
<1> HIDE DEF found
<1>2. /\ DOMAIN pc = Workers /\ DOMAIN payload = Workers /\ DOMAIN schema = Workers
      /\ DOMAIN body = Workers /\ DOMAIN shown = Workers /\ DOMAIN sent = Workers
  BY DEF DInv
<1>3. Decoded(w)'
  <2>1. Arrived(w)
    BY <1>1 DEF DInv, Decoded
  <2>2. Arrived(w)'
    BY <1>1, <2>1 DEF Arrived, Id
  <2>3. pc'[w] = "idle" /\ shown'[w] = found /\ body' = body
    BY <1>1, <1>2
  <2>4. shown'[w] = UNION {Walk[d] : d \in _strip_protobuf_index(body'[w])}
    BY <2>3 DEF found
  <2> QED
    BY <2>2, <2>3, <2>4 DEF Decoded, HasShown
<1>4. ASSUME NEW v \in Workers, v # w PROVE Decoded(v)'
  <2>1. /\ pc'[v] = pc[v] /\ schema'[v] = schema[v] /\ payload'[v] = payload[v]
        /\ body'[v] = body[v] /\ shown'[v] = shown[v] /\ sent'[v] = sent[v]
    BY <1>1, <1>2, <1>4
  <2> QED
    BY <1>4, <2>1, OthersStay
<1>5. /\ DOMAIN pc' = Workers /\ DOMAIN payload' = Workers /\ DOMAIN schema' = Workers
      /\ DOMAIN body' = Workers /\ DOMAIN shown' = Workers /\ DOMAIN sent' = Workers
  BY <1>1, <1>2
<1> QED
  BY <1>3, <1>4, <1>5 DEF DInv

\* The other steps of a thread end without a protobuf schema or go on with it.
LEMMA OtherStepIs ==
    ASSUME DInv, NEW w \in Workers, OtherStep(w)
    PROVE  /\ UNCHANGED <<payload, body, shown, sent>>
           /\ pc[w] # "idle"
           /\ pc'[w] \in {"idle", "lookup", "fetch", "parse"} => schema'[w] \notin Protobuf
           /\ DOMAIN pc' = Workers /\ DOMAIN schema' = Workers
           /\ \A v \in Workers : v # w => pc'[v] = pc[v] /\ schema'[v] = schema[v]
<1>1. /\ DOMAIN pc = Workers /\ DOMAIN schema = Workers
      /\ pc[w] \in {"lookup", "fetch", "parse"} => schema[w] \notin Protobuf
  BY DEF DInv, Decoded
<1>2. Step(w) /\ UNCHANGED <<body, shown, sent>>
  BY DEF OtherStep
<1>3. pc[w] = "found" => schema[w] \notin Protobuf
  BY DEF OtherStep
<1>4. CASE Lookup(w)
  BY <1>1, <1>2, <1>4 DEF Lookup, Goto
<1>5. CASE Fetch(w)
  BY <1>1, <1>2, <1>5 DEF Fetch, Goto
<1>6. CASE FetchFails(w)
  BY <1>1, <1>2, <1>6 DEF FetchFails, TakeForNone, Goto
<1>7. CASE FetchRaises(w)
  BY <1>1, <1>2, <1>7 DEF FetchRaises, Goto
<1>8. CASE Store(w)
  BY <1>1, <1>2, <1>8 DEF Store, Goto
<1>9. CASE ShowRaw(w)
  BY <1>1, <1>2, <1>3, <1>9 DEF ShowRaw, Goto
<1>10. CASE ReadOther(w)
  BY <1>1, <1>2, <1>3, <1>10 DEF ReadOther, Read, Goto
<1>11. CASE ReadAvro(w)
  BY <1>1, <1>2, <1>3, <1>11 DEF ReadAvro, Read, Goto
<1>12. CASE ParseAvro(w)
  BY <1>1, <1>2, <1>12 DEF ParseAvro, Read, Goto
<1> QED
  BY <1>2, <1>4, <1>5, <1>6, <1>7, <1>8, <1>9, <1>10, <1>11, <1>12 DEF Step

LEMMA OtherStepKeeps ==
    ASSUME DInv, NEW w \in Workers, OtherStep(w)
    PROVE  DInv'
<1>1. /\ UNCHANGED <<payload, body, shown, sent>>
      /\ pc[w] # "idle"
      /\ pc'[w] \in {"idle", "lookup", "fetch", "parse"} => schema'[w] \notin Protobuf
      /\ DOMAIN pc' = Workers /\ DOMAIN schema' = Workers
      /\ \A v \in Workers : v # w => pc'[v] = pc[v] /\ schema'[v] = schema[v]
  BY OtherStepIs
<1>2. Decoded(w)'
  <2>1. Arrived(w)
    BY <1>1 DEF DInv, Decoded
  <2>2. Arrived(w)'
    BY <1>1, <2>1 DEF Arrived, Id
  <2> QED
    BY <1>1, <2>2 DEF Decoded, HasShown
<1>3. ASSUME NEW v \in Workers, v # w PROVE Decoded(v)'
  <2>1. /\ pc'[v] = pc[v] /\ schema'[v] = schema[v] /\ payload'[v] = payload[v]
        /\ body'[v] = body[v] /\ shown'[v] = shown[v] /\ sent'[v] = sent[v]
    BY <1>1, <1>3
  <2> QED
    BY <1>3, <2>1, OthersStay
<1> QED
  BY <1>1, <1>2, <1>3 DEF DInv

LEMMA DecodedNext == DInv /\ [DNext]_decodingVars => DInv'
<1> SUFFICES ASSUME DInv, [DNext]_decodingVars PROVE DInv'
  OBVIOUS
<1>1. ASSUME UNCHANGED <<pc, payload, schema, body, shown, sent>> PROVE DInv'
  BY <1>1 DEF DInv, Decoded, Arrived, HasShown, Id
<1>2. ASSUME NEW r \in Registries, NEW i \in Ids, NEW s \in Registered,
             Register(r, i, s), UNCHANGED <<body, shown, sent>>
      PROVE  DInv'
  BY <1>1, <1>2 DEF Register, workerVars
<1>3. CASE UNCHANGED decodingVars
  BY <1>1, <1>3 DEF decodingVars, vars, workerVars
<1>4. CASE DNext
  BY <1>2, <1>4, ArriveKeeps, ShowKeeps, OtherStepKeeps DEF DNext
<1> QED
  BY <1>3, <1>4

\* A protobuf payload is looked up under the id it was encoded with and shown as what
\* was encoded, field by field and nested messages too; of one that was cut off, only
\* fields that were put there: for any schemas, threads and registries, and for every
\* message of fields that fit the sizes of the format, if it is its schema's first.
THEOREM ShowsWhatWasSent == DSpec => []ShownIsSent
<1>1. DInv => ShownIsSent
  <2> SUFFICES ASSUME DInv, NEW w \in Workers, HasShown(w)
               PROVE  /\ Id(w) = sent[w].id
                      /\ sent[w].path = << 0 >> =>
                           /\ sent[w].whole => shown[w] = {Meaning(sent[w].message)}
                           /\ \A fields \in shown[w] : Honest(fields, sent[w].message)
    BY DEF ShownIsSent
  <2>1. Arrived(w) /\ shown[w] = UNION {Walk[d] : d \in _strip_protobuf_index(body[w])}
    BY DEF DInv, Decoded, HasShown
  <2>2. PICK id \in Ids, path \in Paths, message \in Messages :
          \E kept \in 0 .. Len(Encoded(path, message)) :
            /\ sent[w] = [id |-> id, path |-> path, message |-> message,
                          whole |-> kept = Len(Encoded(path, message))]
            /\ Id(w) = id
            /\ body[w] = First(Encoded(path, message), kept)
    BY <2>1 DEF Arrived
  <2>3. PICK kept \in 0 .. Len(Encoded(path, message)) :
            /\ sent[w] = [id |-> id, path |-> path, message |-> message,
                          whole |-> kept = Len(Encoded(path, message))]
            /\ Id(w) = id
            /\ body[w] = First(Encoded(path, message), kept)
    BY <2>2
  <2> DEFINE all == kept = Len(Encoded(path, message))
  <2>4. /\ sent[w].id = id /\ sent[w].path = path /\ sent[w].message = message
        /\ sent[w].whole = all
    <3>1. sent[w] = [id |-> id, path |-> path, message |-> message, whole |-> all]
      BY <2>3
    <3> HIDE DEF all
    <3> QED
      BY <3>1
  <2>5. CASE path = << 0 >>
    <3> DEFINE found == shown[w]
    <3>1. found = UNION {Walk[d] : d \in _strip_protobuf_index(First(Encoded(<< 0 >>, message), kept))}
      BY <2>1, <2>3, <2>5
    <3>2. kept \in 0 .. Len(Encoded(<< 0 >>, message))
      BY <2>5
    <3> HIDE DEF found
    <3>3. /\ kept = Len(Encoded(<< 0 >>, message)) => found = {Meaning(message)}
          /\ \A fields \in found : Honest(fields, message)
      BY <3>1, <3>2, ShowsAsSent
    <3> QED
      BY <2>3, <2>4, <2>5, <3>3 DEF found
  <2> QED
    BY <2>3, <2>4, <2>5
<1> QED
  BY <1>1, DecodedInit, DecodedNext, PTL DEF DSpec
=============================================================================
