---------------------------- MODULE ProduceProof ----------------------------
(***************************************************************************)
(* Proofs about Produce, for any number of requests and schemas.           *)
(***************************************************************************)
EXTENDS Produce, FiniteSetTheorems, TLAPS

-----------------------------------------------------------------------------
(* The inductive invariant                                                 *)

\* A thread past producer() holds a Producer; there are no more of them than
\* threads that looked for one.
PastLookup == {r \in Requests :
                 pc[r] \in {"remember", "enqueue", "flush", "result", "answered"}}

MadeInv ==
    /\ made <= Cardinality(PastLookup)
    /\ cached <= made
    /\ \A r \in Requests :
         /\ mine[r] <= made
         /\ pc[r] \in {"remember", "enqueue", "flush", "result"} => mine[r] # NoProducer

QueuedAt(r, n) == \E i \in 1 .. Len(queue[n]) : queue[n][i] = r

\* r's message was handed to a Producer, and may be written at any time.
Sent(r) == Written(r) \/ \E n \in Producers : QueuedAt(r, n)

\* What _encode_field keeps of the registry's answer is a schema with its own id.
FoundInv(r) ==
    found[r] # NoAnswer =>
        /\ found[r].id \in DOMAIN registry
        /\ registry[found[r].id].type = found[r].type
        /\ registry[found[r].id].text = found[r].text

RegistryInv ==
    \A f \in Fields : \A i \in 1 .. Len(subjects[f]) : subjects[f][i] \in DOMAIN registry

\* Everything that has to be judged before a message is sent has been.
SendInv(r) ==
    /\ pc[r] \notin {"start", "answered"} => form[r].write
    /\ pc[r] \in {"start", "key"} => \A f \in Fields : encoded[r][f] = Raw
    /\ pc[r] = "value" => encoded[r]["value"] = Raw /\ Readable(r, "key")
    /\ pc[r] \in {"lookup", "remember", "enqueue", "flush", "result"} =>
         \A f \in Fields : Readable(r, f)
    /\ Sent(r) => /\ pc[r] \in {"flush", "result", "answered"}
                  /\ form[r].write
                  /\ \A f \in Fields : Readable(r, f)
                  /\ pc[r] = "answered" => audited[r] # "none"
    /\ FoundInv(r)
    /\ found[r] # NoAnswer =>
         /\ pc[r] \in {"key", "value", "answered"}
         /\ pc[r] # "answered" => form[r][pc[r]].format # "raw"
    /\ answer[r] = "none" <=> pc[r] # "answered"

\* A thread in flush() has its report or is still in the queue of the Producer it
\* holds; only written messages are reported as delivered.
ReportInv(r) ==
    /\ report[r] = "delivered" => Written(r)
    /\ pc[r] = "flush" => report[r] # "none" \/ QueuedAt(r, mine[r])

\* No message is written twice.
LogInv == \A i, j \in 1 .. Len(log) : log[i] = log[j] => i = j

PInv ==
    /\ TypeOK
    /\ MadeInv
    /\ RegistryInv
    /\ LogInv
    /\ \A r \in Requests : SendInv(r) /\ ReportInv(r)
    /\ OkMeansWritten

-----------------------------------------------------------------------------
(* Lemmas                                                                  *)

\* What is known of schemas and encoded fields does not depend on anything else.
LEMMA EncodedStays ==
    ASSUME NEW q \in Requests, UNCHANGED <<form, found, encoded, registry>>
    PROVE  /\ FoundInv(q)' <=> FoundInv(q)
           /\ \A f \in Fields : Readable(q, f)' <=> Readable(q, f)
  BY DEF FoundInv, Readable

\* Nothing happens to a request.
LEMMA SendStays ==
    ASSUME NEW q \in Requests, SendInv(q), pc'[q] = pc[q], Sent(q)' => Sent(q),
           UNCHANGED <<form, found, encoded, answer, audited, registry>>
    PROVE  SendInv(q)'
<1>1. (FoundInv(q)' <=> FoundInv(q)) /\ \A f \in Fields : Readable(q, f)' <=> Readable(q, f)
  BY EncodedStays
<1>2. "key" \in Fields
  BY DEF Fields
<1> QED
  BY <1>1, <1>2 DEF SendInv

\* The sizes the types are made of.
LEMMA RequestsCounted ==
    /\ Cardinality(Requests) \in Nat
    /\ Producers = 1 .. Cardinality(Requests)
    /\ IsFiniteSet(PastLookup) /\ Cardinality(PastLookup) \in Nat
    /\ Cardinality(PastLookup) <= Cardinality(Requests)
<1>1. PastLookup \subseteq Requests
  BY DEF PastLookup
<1>2. /\ IsFiniteSet(PastLookup)
      /\ Cardinality(PastLookup) <= Cardinality(Requests)
  BY <1>1, ProduceAssumption, FS_Subset
<1> QED
  BY <1>2, ProduceAssumption, FS_CardinalityType DEF Producers

\* What the type invariant says of the numbers and the sequences.
LEMMA LogType ==
    ASSUME TypeOK
    PROVE  /\ log \in Seq(Requests) /\ Len(log) \in Nat
           /\ DOMAIN log = 1 .. Len(log)
           /\ \A i \in 1 .. Len(log) : log[i] \in Requests
<1>1. log \in Seq(Requests)
  BY DEF TypeOK
<1> QED
  BY <1>1

LEMMA QueueTypes ==
    ASSUME TypeOK, NEW n \in Producers
    PROVE  queue[n] \in Seq(Requests) /\ Len(queue[n]) \in Nat
<1>1. queue \in [Producers -> Seq(Requests)]
  BY DEF TypeOK
<1>2. queue[n] \in Seq(Requests)
  BY <1>1
<1> QED
  BY <1>2

LEMMA NumberTypes ==
    ASSUME TypeOK
    PROVE  /\ made \in Nat /\ cached \in Nat
           /\ \A r \in Requests : mine[r] \in Nat
BY RequestsCounted DEF TypeOK, NoProducer

\* What a step does to the registry at most: it adds a schema and versions.
SchemasGrow ==
    /\ registry' \in Seq(Schema) /\ Len(registry') <= MaxSchemas
    /\ subjects' \in [Fields -> Seq(1 .. MaxSchemas)]
    /\ \A i \in DOMAIN registry : i \in DOMAIN registry' /\ registry'[i] = registry[i]
    /\ RegistryInv'

LEMMA SameSchemas ==
    ASSUME TypeOK, RegistryInv, UNCHANGED schemaVars
    PROVE  SchemasGrow
BY DEF TypeOK, RegistryInv, schemaVars, SchemasGrow

\* Registering a schema adds it, or finds it, under an id of its own.
LEMMA RegistersSchema ==
    ASSUME TypeOK, RegistryInv, NEW f \in Fields, NEW s \in Schema, Registers(f, s)
    PROVE  /\ SchemasGrow
           /\ IdOf(s) \in 1 .. MaxSchemas /\ IdOf(s) \in DOMAIN registry'
           /\ registry'[IdOf(s)] = s
<1>1. /\ registry \in Seq(Schema) /\ Len(registry) \in Nat /\ Len(registry) <= MaxSchemas
      /\ DOMAIN registry = 1 .. Len(registry)
      /\ MaxSchemas \in Nat
  BY ProduceAssumption DEF TypeOK
<1>2. /\ IdOf(s) <= MaxSchemas
      /\ registry' = IF Contains(registry, s) THEN registry ELSE Append(registry, s)
      /\ subjects' = [subjects EXCEPT ![f] = IF Contains(@, IdOf(s)) THEN @ ELSE Append(@, IdOf(s))]
  BY DEF Registers
<1>3. /\ IdOf(s) \in 1 .. MaxSchemas /\ IdOf(s) \in DOMAIN registry'
      /\ registry'[IdOf(s)] = s
      /\ registry' \in Seq(Schema) /\ Len(registry') <= MaxSchemas
      /\ \A i \in DOMAIN registry : i \in DOMAIN registry' /\ registry'[i] = registry[i]
  <2>1. CASE Contains(registry, s)
    <3>1. \E i \in DOMAIN registry : registry[i] = s
      BY <1>1, <2>1 DEF Contains
    <3>2. IdOf(s) \in DOMAIN registry /\ registry[IdOf(s)] = s
      BY <2>1, <3>1 DEF IdOf
    <3>3. registry' = registry
      BY <1>2, <2>1
    <3> QED
      BY <1>1, <3>2, <3>3
  <2>2. CASE ~Contains(registry, s)
    <3>1. IdOf(s) = Len(registry) + 1
      BY <2>2 DEF IdOf
    <3>2. registry' = Append(registry, s)
      BY <1>2, <2>2
    <3>3. /\ registry' \in Seq(Schema) /\ Len(registry') = Len(registry) + 1
          /\ registry'[Len(registry) + 1] = s
          /\ \A i \in 1 .. Len(registry) : registry'[i] = registry[i]
          /\ DOMAIN registry' = 1 .. Len(registry')
      BY <1>1, <3>2
    <3> QED
      BY <1>1, <1>2, <3>1, <3>3
  <2> QED
    BY <2>1, <2>2
<1> DEFINE id == IdOf(s)
<1> HIDE DEF id
<1>4. id \in 1 .. MaxSchemas /\ id \in DOMAIN registry'
  BY <1>3 DEF id
<1>5. /\ subjects \in [Fields -> Seq(1 .. MaxSchemas)]
      /\ subjects' = [subjects EXCEPT ![f] = IF Contains(@, id) THEN @ ELSE Append(@, id)]
  BY <1>2 DEF TypeOK, id
<1>6. ASSUME NEW g \in Fields
      PROVE  /\ subjects'[g] \in Seq(1 .. MaxSchemas)
             /\ \A i \in 1 .. Len(subjects'[g]) : subjects'[g][i] \in DOMAIN registry'
  <2> DEFINE v == subjects[g]
  <2>1. v \in Seq(1 .. MaxSchemas) /\ subjects'[g] \in {v, Append(v, id)}
    BY <1>5
  <2>2. \A i \in 1 .. Len(v) : v[i] \in DOMAIN registry'
    BY <1>3 DEF RegistryInv
  <2> HIDE DEF v
  <2>3. /\ Append(v, id) \in Seq(1 .. MaxSchemas)
        /\ \A i \in 1 .. Len(Append(v, id)) : Append(v, id)[i] \in DOMAIN registry'
    <3>1. Append(v, id) \in Seq(1 .. MaxSchemas) /\ Len(Append(v, id)) = Len(v) + 1
          /\ Len(v) \in Nat
      BY <1>4, <2>1
    <3>2. ASSUME NEW i \in 1 .. Len(v) + 1 PROVE Append(v, id)[i] \in DOMAIN registry'
      <4>1. CASE i \in 1 .. Len(v)
        <5>1. Append(v, id)[i] = v[i]
          BY <2>1, <4>1
        <5> QED
          BY <2>2, <4>1, <5>1
      <4>2. CASE i = Len(v) + 1
        <5>1. Append(v, id)[i] = id
          BY <2>1, <4>2
        <5> QED
          BY <1>4, <5>1
      <4> QED
        BY <3>1, <4>1, <4>2
    <3> QED
      BY <3>1, <3>2
  <2> QED
    BY <2>1, <2>2, <2>3
<1>7. subjects' \in [Fields -> Seq(1 .. MaxSchemas)]
  <2>1. DOMAIN subjects' = Fields /\ subjects' = [g \in Fields |-> subjects'[g]]
    BY <1>5
  <2> QED
    BY <1>6, <2>1
<1> QED
  BY <1>3, <1>6, <1>7 DEF SchemasGrow, RegistryInv

\* What a request was told and what it encoded outlive the registry's growth.
LEMMA SchemasKept ==
    ASSUME SchemasGrow, UNCHANGED form, NEW q \in Requests,
           encoded'[q] = encoded[q]
    PROVE  /\ found'[q] = found[q] /\ FoundInv(q) => FoundInv(q)'
           /\ \A f \in Fields : Readable(q, f) => Readable(q, f)'
<1>1. \A i \in DOMAIN registry : i \in DOMAIN registry' /\ registry'[i] = registry[i]
  BY DEF SchemasGrow
<1>2. found'[q] = found[q] /\ FoundInv(q) => FoundInv(q)'
  BY <1>1 DEF FoundInv
<1>3. ASSUME NEW f \in Fields, Readable(q, f) PROVE Readable(q, f)'
  BY <1>1, <1>3 DEF Readable
<1> QED
  BY <1>2, <1>3

\* Nobody comes back from producer(), so the bound on Producers only grows.
LEMMA PastLookupGrows ==
    ASSUME NEW r \in Requests, NEW label, DOMAIN pc = Requests,
           pc' = [pc EXCEPT ![r] = label],
           r \in PastLookup => label \in {"remember", "enqueue", "flush", "result", "answered"}
    PROVE  /\ Cardinality(PastLookup) \in Nat /\ Cardinality(PastLookup') \in Nat
           /\ Cardinality(PastLookup) <= Cardinality(PastLookup')
           /\ Cardinality(PastLookup') <= Cardinality(Requests)
           /\ r \notin PastLookup /\ label = "remember" =>
                Cardinality(PastLookup') = Cardinality(PastLookup) + 1
<1>1. /\ PastLookup \subseteq PastLookup' /\ PastLookup' \subseteq Requests
      /\ PastLookup' = PastLookup \/ PastLookup' = PastLookup \cup {r}
      /\ label = "remember" => r \in PastLookup'
  BY DEF PastLookup
<1>2. IsFiniteSet(PastLookup') /\ Cardinality(PastLookup') <= Cardinality(Requests)
  BY <1>1, ProduceAssumption, FS_Subset
<1>3. Cardinality(PastLookup) <= Cardinality(PastLookup')
  BY <1>1, <1>2, FS_Subset
<1>4. r \notin PastLookup /\ label = "remember" =>
        Cardinality(PastLookup') = Cardinality(PastLookup) + 1
  BY <1>1, RequestsCounted, FS_AddElement
<1> QED
  BY <1>2, <1>3, <1>4, RequestsCounted, FS_CardinalityType

LEMMA FirstNumbers ==
    ASSUME NEW n \in Nat
    PROVE  IsFiniteSet(1 .. n) /\ Cardinality(1 .. n) = n
BY FS_Interval

\* The log holds each message once, so it is no longer than there are requests.
LEMMA LogBounded ==
    ASSUME PInv
    PROVE  Len(log) <= Cardinality(Requests)
<1>1. TypeOK /\ LogInv
  BY DEF PInv
<1>2. /\ log \in Seq(Requests) /\ Len(log) \in Nat
      /\ DOMAIN log = 1 .. Len(log)
      /\ \A i \in 1 .. Len(log) : log[i] \in Requests
  BY <1>1, LogType
<1>3. log \in Injection(1 .. Len(log), Requests)
  <2>1. log \in [1 .. Len(log) -> Requests]
    BY <1>2
  <2> QED
    BY <1>1, <2>1 DEF LogInv, Injection, IsInjective
<1>4. Cardinality(1 .. Len(log)) <= Cardinality(Requests)
  BY <1>3, ProduceAssumption, FS_Injection
<1>5. Cardinality(1 .. Len(log)) = Len(log)
  BY <1>2, FirstNumbers
<1> QED
  BY <1>4, <1>5

\* What an answer of r does to the queues: it only clears those nobody else holds.
LEMMA QueuesAfterAnswer ==
    ASSUME TypeOK, NEW r \in Requests, queue' = QueueAfter(r)
    PROVE  /\ queue' \in [Producers -> Seq(Requests)]
           /\ \A q \in Requests, n \in Producers : QueuedAt(q, n)' => QueuedAt(q, n)
           /\ \A q \in Requests \ {r} : mine[q] \in Producers => queue'[mine[q]] = queue[mine[q]]
<1>1. \A n \in Producers : /\ queue[n] \in Seq(Requests)
                           /\ queue'[n] = queue[n] \/ queue'[n] = << >>
  BY DEF QueueAfter, TypeOK
<1>2. queue' \in [Producers -> Seq(Requests)]
  <2>1. << >> \in Seq(Requests)
    OBVIOUS
  <2>2. DOMAIN queue' = Producers /\ queue' = [n \in Producers |-> queue'[n]]
    BY DEF QueueAfter
  <2> QED
    BY <1>1, <2>1, <2>2
<1>3. ASSUME NEW q \in Requests, NEW n \in Producers, QueuedAt(q, n)' PROVE QueuedAt(q, n)
  <2>1. CASE queue'[n] = queue[n]
    BY <1>3, <2>1 DEF QueuedAt
  <2>2. CASE queue'[n] = << >>
    <3>1. Len(queue'[n]) = 0
      BY <2>2
    <3> QED
      BY <1>3, <3>1 DEF QueuedAt
  <2> QED
    BY <1>1, <2>1, <2>2
<1>4. \A q \in Requests \ {r} : mine[q] \in Producers => queue'[mine[q]] = queue[mine[q]]
  BY DEF QueueAfter
<1> QED
  BY <1>2, <1>3, <1>4

-----------------------------------------------------------------------------
(* Each kind of step keeps the invariant.                                  *)

\* A request is answered: nothing is sent by it any more, and who is still in
\* flush() keeps what is in the queue.
LEMMA AnswerKeepsPInv ==
    ASSUME PInv, NEW r \in Requests, NEW a, NEW outcome,
           Answer(r, a, outcome),
           a \in {"forbidden", "broken", "error", "timeout", "ok"},
           outcome \in {"none", "error", "ok"},
           Sent(r) => outcome # "none",
           UNCHANGED <<form, found, encoded, log, report>>,
           SchemasGrow,
           shown' \in [Requests -> 0 .. Cardinality(Requests)],
           \A q \in Requests \ {r} : shown'[q] = shown[q],
           a = "ok" => shown'[r] \in 1 .. Len(log) /\ log[shown'[r]] = r
    PROVE  PInv'
<1>1. TypeOK /\ MadeInv /\ RegistryInv /\ LogInv /\ OkMeansWritten
      /\ \A q \in Requests : SendInv(q) /\ ReportInv(q)
  BY DEF PInv
<1>2. /\ pc' = [pc EXCEPT ![r] = "answered"]
      /\ answer' = [answer EXCEPT ![r] = a]
      /\ audited' = [audited EXCEPT ![r] = outcome]
      /\ mine' = [mine EXCEPT ![r] = NoProducer]
      /\ queue' = QueueAfter(r)
      /\ UNCHANGED <<cached, made>>
  BY DEF Answer
<1>3. /\ queue' \in [Producers -> Seq(Requests)]
      /\ \A q \in Requests, n \in Producers : QueuedAt(q, n)' => QueuedAt(q, n)
      /\ \A q \in Requests \ {r} : mine[q] \in Producers => queue'[mine[q]] = queue[mine[q]]
  BY <1>1, <1>2, QueuesAfterAnswer
<1>4. \A q \in Requests : (Written(q)' <=> Written(q)) /\ (Sent(q)' => Sent(q))
  BY <1>3 DEF Sent, Written, Contains
<1>5. /\ pc'[r] = "answered" /\ answer'[r] = a /\ audited'[r] = outcome /\ mine'[r] = NoProducer
      /\ \A q \in Requests \ {r} : /\ pc'[q] = pc[q] /\ answer'[q] = answer[q]
                                   /\ audited'[q] = audited[q] /\ mine'[q] = mine[q]
  BY <1>1, <1>2 DEF TypeOK
<1>6. TypeOK'
  <2>1. mine' \in [Requests -> Producers \cup {NoProducer}]
    BY <1>1, <1>2 DEF TypeOK
  <2> QED
    BY <1>1, <1>2, <1>3, <2>1 DEF TypeOK, SchemasGrow
<1>7. MadeInv'
  <2>1. DOMAIN pc = Requests
    BY <1>1 DEF TypeOK
  <2>2. /\ Cardinality(PastLookup) <= Cardinality(PastLookup')
        /\ Cardinality(PastLookup') \in Nat /\ Cardinality(PastLookup) \in Nat
    BY <1>2, <2>1, PastLookupGrows
  <2>3. made \in Nat /\ cached \in Nat
    BY <1>1, NumberTypes
  <2>4. made <= Cardinality(PastLookup) /\ cached <= made
    BY <1>1 DEF MadeInv
  <2>5. made' <= Cardinality(PastLookup') /\ cached' <= made'
    BY <1>2, <2>2, <2>3, <2>4
  <2>6. ASSUME NEW q \in Requests
        PROVE  /\ mine'[q] <= made'
               /\ pc'[q] \in {"remember", "enqueue", "flush", "result"} => mine'[q] # NoProducer
    <3>1. CASE q = r
      BY <1>2, <1>5, <2>3, <3>1 DEF NoProducer
    <3>2. CASE q # r
      BY <1>1, <1>2, <1>5, <3>2 DEF MadeInv
    <3> QED
      BY <3>1, <3>2
  <2> QED
    BY <2>5, <2>6 DEF MadeInv
<1>8. LogInv'
  BY <1>1 DEF LogInv
<1>9. ASSUME NEW q \in Requests PROVE SendInv(q)'
  <2>1. /\ FoundInv(q)'
        /\ \A f \in Fields : Readable(q, f) => Readable(q, f)'
    <3>1. FoundInv(q)
      BY <1>1 DEF SendInv
    <3> QED
      BY <3>1, SchemasKept
  <2>2. Sent(q) => form[q].write /\ \A f \in Fields : Readable(q, f)
    BY <1>1 DEF SendInv
  <2>3. CASE q = r
    BY <1>4, <1>5, <2>1, <2>2, <2>3 DEF SendInv
  <2>4. CASE q # r
    BY <1>1, <1>4, <1>5, <2>1, <2>4 DEF SendInv, Fields
  <2> QED
    BY <2>3, <2>4
<1>10. ASSUME NEW q \in Requests PROVE ReportInv(q)'
  <2>1. CASE q = r
    BY <1>1, <1>4, <1>5, <2>1 DEF ReportInv
  <2>2. CASE q # r
    <3>1. report[q] = "delivered" => Written(q)'
      BY <1>1, <1>4 DEF ReportInv
    <3>2. ASSUME pc[q] = "flush", report[q] = "none" PROVE QueuedAt(q, mine[q])'
      <4>1. mine[q] \in Producers /\ mine'[q] = mine[q]
        BY <1>1, <1>5, <2>2, <3>2 DEF MadeInv, TypeOK
      <4>2. queue'[mine'[q]] = queue[mine[q]]
        BY <1>3, <2>2, <4>1
      <4> QED
        BY <1>1, <3>2, <4>2 DEF ReportInv, QueuedAt
    <3> QED
      BY <1>5, <2>2, <3>1, <3>2 DEF ReportInv
  <2> QED
    BY <2>1, <2>2
<1>11. OkMeansWritten'
  <2>1. DOMAIN log = 1 .. Len(log)
    BY <1>1, LogType
  <2>2. ASSUME NEW q \in Requests PROVE pc'[q] = "result" => report[q] # "none"
    BY <1>1, <1>5 DEF OkMeansWritten
  <2>3. ASSUME NEW q \in Requests, answer'[q] = "ok"
        PROVE  /\ shown'[q] \in DOMAIN log
               /\ log[shown'[q]] = q
               /\ \A i \in DOMAIN log : log[i] = q => i = shown'[q]
    <3>1. CASE q = r
      BY <1>1, <1>5, <2>1, <2>3, <3>1 DEF LogInv
    <3>2. CASE q # r
      BY <1>1, <1>5, <2>3, <3>2 DEF OkMeansWritten
    <3> QED
      BY <3>1, <3>2
  <2> QED
    BY <2>2, <2>3 DEF OkMeansWritten
<1> QED
  BY <1>6, <1>7, <1>8, <1>9, <1>10, <1>11 DEF PInv, SchemasGrow

\* Encoding sends nothing yet: r only has to have its schemas by the end of it.
LEMMA EncodingKeepsPInv ==
    ASSUME PInv, NEW r \in Requests, NEW label \in {"key", "value", "lookup"},
           pc[r] \in {"start", "key", "value"}, form[r].write,
           Continue(r, label),
           UNCHANGED <<form, clientVars, shown, log, report>>,
           SchemasGrow,
           found' \in [Requests -> Found], encoded' \in [Requests -> [Fields -> Bytes]],
           \A q \in Requests \ {r} : found'[q] = found[q] /\ encoded'[q] = encoded[q],
           FoundInv(r)',
           found'[r] # NoAnswer => label \in Fields /\ form[r][label].format # "raw",
           label = "key" => \A f \in Fields : encoded'[r][f] = Raw,
           label = "value" => encoded'[r]["value"] = Raw /\ Readable(r, "key")',
           label = "lookup" => \A f \in Fields : Readable(r, f)'
    PROVE  PInv'
<1>1. /\ TypeOK /\ MadeInv /\ RegistryInv /\ LogInv /\ OkMeansWritten
      /\ \A q \in Requests : SendInv(q) /\ ReportInv(q)
  BY DEF PInv
<1>2. /\ pc' = [pc EXCEPT ![r] = label] /\ UNCHANGED <<answer, audited>>
      /\ UNCHANGED <<cached, made, mine, queue>>
  BY DEF Continue, clientVars
<1>3. TypeOK'
  BY <1>1, <1>2 DEF TypeOK, SchemasGrow
<1>4. pc'[r] = label /\ \A q \in Requests \ {r} : pc'[q] = pc[q]
  BY <1>1, <1>2 DEF TypeOK
<1>5. MadeInv'
  <2>1. DOMAIN pc = Requests /\ r \notin PastLookup
    BY <1>1 DEF TypeOK, PastLookup
  <2>2. /\ Cardinality(PastLookup) <= Cardinality(PastLookup')
        /\ Cardinality(PastLookup') \in Nat /\ Cardinality(PastLookup) \in Nat
    BY <1>2, <2>1, PastLookupGrows
  <2>3. made \in Nat
    BY <1>1, NumberTypes
  <2> QED
    BY <1>1, <1>2, <1>4, <2>2, <2>3 DEF MadeInv
<1>6. LogInv'
  BY <1>1 DEF LogInv
<1>7. ASSUME NEW q \in Requests PROVE SendInv(q)'
  <2>1. Written(q)' <=> Written(q)
    BY DEF Written, Contains
  <2>2. Sent(q)' <=> Sent(q)
    BY <1>2, <2>1 DEF Sent, QueuedAt
  <2>3. CASE q = r
    BY <1>1, <1>2, <1>4, <2>2, <2>3 DEF SendInv, Fields
  <2>4. CASE q # r
    <3>1. encoded'[q] = encoded[q] /\ found'[q] = found[q] /\ FoundInv(q)
      BY <1>1, <2>4 DEF SendInv
    <3>2. FoundInv(q)' /\ \A f \in Fields : Readable(q, f) => Readable(q, f)'
      BY <3>1, SchemasKept
    <3> QED
      BY <1>1, <1>2, <1>4, <2>2, <2>4, <3>1, <3>2 DEF SendInv, Fields
  <2> QED
    BY <2>3, <2>4
<1>8. ASSUME NEW q \in Requests PROVE ReportInv(q)'
  BY <1>1, <1>2, <1>4 DEF ReportInv, QueuedAt, Written, Contains
<1>9. OkMeansWritten'
  BY <1>1, <1>2, <1>4 DEF OkMeansWritten
<1> QED
  BY <1>3, <1>5, <1>6, <1>7, <1>8, <1>9 DEF PInv, SchemasGrow

\* producer(), in one step or in two: whoever makes a Producer was not past the
\* lookup, so there are never more Producers than requests.
LEMMA ProducerKeepsPInv ==
    ASSUME PInv, NEW r \in Requests, Lookup(r) \/ Remember(r)
    PROVE  PInv'
<1>1. /\ TypeOK /\ MadeInv /\ RegistryInv /\ LogInv /\ OkMeansWritten
      /\ \A q \in Requests : SendInv(q) /\ ReportInv(q)
  BY DEF PInv
<1>2. /\ UNCHANGED <<form, found, encoded, shown, queue, log, report, registry, subjects, answer, audited>>
      /\ pc[r] \in {"lookup", "remember"}
  BY DEF Lookup, Remember, Continue, schemaVars
<1>3. PICK label \in {"remember", "enqueue"} :
        /\ pc' = [pc EXCEPT ![r] = label]
        /\ \/ /\ label = "enqueue" /\ cached # NoProducer /\ pc[r] = "lookup"
              /\ mine' = [mine EXCEPT ![r] = cached] /\ made' = made /\ cached' = cached
           \/ /\ label = "remember" /\ pc[r] = "lookup"
              /\ mine' = [mine EXCEPT ![r] = made + 1] /\ made' = made + 1 /\ cached' = cached
           \/ /\ label = "enqueue" /\ pc[r] = "remember"
              /\ mine' = mine /\ made' = made /\ cached' = mine[r]
  BY DEF Lookup, Remember, Continue, schemaVars
<1>4. pc'[r] = label /\ \A q \in Requests \ {r} : pc'[q] = pc[q] /\ mine'[q] = mine[q]
  BY <1>1, <1>3 DEF TypeOK
<1>5. /\ made \in Nat /\ cached \in Nat /\ \A q \in Requests : mine[q] \in Nat
      /\ Cardinality(Requests) \in Nat
  BY <1>1, NumberTypes, RequestsCounted
<1>6. /\ Cardinality(PastLookup) <= Cardinality(PastLookup')
      /\ Cardinality(PastLookup') \in Nat /\ Cardinality(PastLookup) \in Nat
      /\ Cardinality(PastLookup') <= Cardinality(Requests)
      /\ pc[r] = "lookup" /\ label = "remember" =>
           Cardinality(PastLookup') = Cardinality(PastLookup) + 1
  <2>1. DOMAIN pc = Requests /\ (pc[r] = "lookup" => r \notin PastLookup)
    BY <1>1 DEF TypeOK, PastLookup
  <2> QED
    BY <1>3, <2>1, PastLookupGrows
<1>7. made <= Cardinality(PastLookup) /\ cached <= made /\ \A q \in Requests : mine[q] <= made
  BY <1>1 DEF MadeInv
<1>8. /\ made' <= Cardinality(PastLookup') /\ made' \in Nat
      /\ made' \in 0 .. Cardinality(Requests)
      /\ made <= made' /\ cached' <= made' /\ cached' \in Nat
  BY <1>3, <1>5, <1>6, <1>7
<1>9. mine'[r] \in Nat /\ mine'[r] # 0 /\ mine'[r] <= made'
  <2>1. pc[r] = "remember" => mine[r] # 0
    BY <1>1 DEF MadeInv, NoProducer
  <2>2. mine'[r] = cached \/ mine'[r] = made + 1 \/ mine'[r] = mine[r]
    BY <1>1, <1>3 DEF TypeOK
  <2> QED
    BY <1>1, <1>3, <1>5, <1>7, <2>1 DEF NoProducer, TypeOK
<1>10. TypeOK'
  <2>1. Producers = 1 .. Cardinality(Requests) /\ NoProducer = 0
    BY DEF Producers, NoProducer
  <2>2. cached' \in Producers \cup {NoProducer}
    BY <1>5, <1>8, <2>1
  <2>3. mine'[r] \in Producers
    BY <1>5, <1>8, <1>9, <2>1
  <2>4. mine' \in [Requests -> Producers \cup {NoProducer}]
    BY <1>1, <1>3, <2>3 DEF TypeOK
  <2>5. pc' \in [Requests -> {"start", "key", "value", "lookup", "remember", "enqueue",
                              "flush", "result", "answered"}]
    BY <1>1, <1>3 DEF TypeOK
  <2> QED
    BY <1>1, <1>2, <1>8, <2>2, <2>4, <2>5 DEF TypeOK
<1>11. MadeInv'
  <2>1. ASSUME NEW q \in Requests, q # r
        PROVE  /\ mine'[q] <= made'
               /\ pc'[q] \in {"remember", "enqueue", "flush", "result"} => mine'[q] # NoProducer
    BY <1>1, <1>4, <1>5, <1>7, <1>8, <2>1 DEF MadeInv
  <2> QED
    BY <1>8, <1>9, <2>1 DEF MadeInv, NoProducer
<1>12. LogInv'
  BY <1>1, <1>2 DEF LogInv
<1>13. ASSUME NEW q \in Requests PROVE SendInv(q)' /\ ReportInv(q)'
  <2>0. (FoundInv(q)' <=> FoundInv(q)) /\ \A f \in Fields : Readable(q, f)' <=> Readable(q, f)
    BY <1>2, EncodedStays
  <2>1. Written(q)' <=> Written(q)
    BY <1>2 DEF Written, Contains
  <2>2. Sent(q)' <=> Sent(q)
    BY <1>2, <2>1 DEF Sent, QueuedAt
  <2>3. CASE q = r
    BY <1>1, <1>2, <1>3, <1>4, <2>0, <2>1, <2>2, <2>3 DEF SendInv, ReportInv
  <2>4. CASE q # r
    <3>1. SendInv(q)'
      BY <1>1, <1>2, <1>4, <2>2, <2>4, SendStays
    <3>2. ReportInv(q)'
      BY <1>1, <1>2, <1>4, <2>1, <2>4 DEF ReportInv, QueuedAt
    <3> QED
      BY <3>1, <3>2
  <2> QED
    BY <2>3, <2>4
<1>14. OkMeansWritten'
  BY <1>1, <1>2, <1>3, <1>4 DEF OkMeansWritten
<1> QED
  BY <1>10, <1>11, <1>12, <1>13, <1>14, <1>1, <1>2 DEF PInv, RegistryInv

\* p.produce(): everything was judged by now, so the message may be written.
LEMMA EnqueueKeepsPInv ==
    ASSUME PInv, NEW r \in Requests, Enqueue(r)
    PROVE  PInv'
<1>1. /\ TypeOK /\ MadeInv /\ RegistryInv /\ LogInv /\ OkMeansWritten
      /\ \A q \in Requests : SendInv(q) /\ ReportInv(q)
  BY DEF PInv
<1>2. /\ pc[r] = "enqueue" /\ pc' = [pc EXCEPT ![r] = "flush"]
      /\ queue' = [queue EXCEPT ![mine[r]] = Append(@, r)]
      /\ UNCHANGED <<form, found, encoded, shown, cached, made, mine, log, report,
                     registry, subjects, answer, audited>>
  BY DEF Enqueue, Continue, schemaVars
<1>3. pc'[r] = "flush" /\ \A q \in Requests \ {r} : pc'[q] = pc[q]
  BY <1>1, <1>2 DEF TypeOK
<1>4. mine[r] \in Producers
  BY <1>1, <1>2 DEF MadeInv, TypeOK
<1>5. \A n \in Producers : queue[n] \in Seq(Requests) /\ Len(queue[n]) \in Nat
  BY <1>1, QueueTypes
<1>6. /\ queue'[mine[r]] = Append(queue[mine[r]], r)
      /\ \A n \in Producers \ {mine[r]} : queue'[n] = queue[n]
      /\ queue' \in [Producers -> Seq(Requests)]
  <2>1. queue \in [Producers -> Seq(Requests)]
    BY <1>1 DEF TypeOK
  <2>2. Append(queue[mine[r]], r) \in Seq(Requests)
    BY <1>4, <1>5
  <2> QED
    BY <1>2, <1>4, <2>1, <2>2
<1>7. /\ \A q \in Requests, n \in Producers : QueuedAt(q, n) => QueuedAt(q, n)'
      /\ \A q \in Requests, n \in Producers : QueuedAt(q, n)' => QueuedAt(q, n) \/ q = r
      /\ QueuedAt(r, mine[r])'
  <2>1. ASSUME NEW q \in Requests
        PROVE  QueuedAt(q, mine[r])' <=> QueuedAt(q, mine[r]) \/ q = r
    <3> DEFINE s == queue[mine[r]]
    <3>1. s \in Seq(Requests) /\ Len(s) \in Nat
      BY <1>4, <1>5
    <3>2. /\ Len(Append(s, r)) = Len(s) + 1 /\ Append(s, r)[Len(s) + 1] = r
          /\ \A i \in 1 .. Len(s) : Append(s, r)[i] = s[i]
      BY <3>1
    <3>3. QueuedAt(q, mine[r]) <=> \E i \in 1 .. Len(s) : s[i] = q
      BY DEF QueuedAt
    <3>4. QueuedAt(q, mine[r])' <=> \E i \in 1 .. Len(Append(s, r)) : Append(s, r)[i] = q
      BY <1>2, <1>6 DEF QueuedAt
    <3> HIDE DEF s
    <3> QED
      BY <3>1, <3>2, <3>3, <3>4
  <2>2. ASSUME NEW q \in Requests, NEW n \in Producers \ {mine[r]}
        PROVE  QueuedAt(q, n)' <=> QueuedAt(q, n)
    BY <1>6 DEF QueuedAt
  <2>3. mine' = mine
    BY <1>2
  <2> QED
    BY <1>4, <2>1, <2>2, <2>3
<1>8. TypeOK'
  <2>1. pc' \in [Requests -> {"start", "key", "value", "lookup", "remember", "enqueue",
                              "flush", "result", "answered"}]
    BY <1>1, <1>2 DEF TypeOK
  <2> QED
    BY <1>1, <1>2, <1>6, <2>1 DEF TypeOK
<1>9. MadeInv'
  <2>1. DOMAIN pc = Requests
    BY <1>1 DEF TypeOK
  <2>2. /\ Cardinality(PastLookup) <= Cardinality(PastLookup')
        /\ Cardinality(PastLookup') \in Nat /\ Cardinality(PastLookup) \in Nat
    BY <1>2, <2>1, PastLookupGrows
  <2>3. made \in Nat
    BY <1>1, NumberTypes
  <2> QED
    BY <1>1, <1>2, <1>3, <2>2, <2>3 DEF MadeInv
<1>10. LogInv'
  BY <1>1, <1>2 DEF LogInv
<1>11. ASSUME NEW q \in Requests PROVE SendInv(q)' /\ ReportInv(q)'
  <2>1. (Written(q)' <=> Written(q)) /\ (\A f \in Fields : Readable(q, f)' <=> Readable(q, f))
    BY <1>2 DEF Written, Contains, Readable
  <2>2. Sent(q)' => Sent(q) \/ q = r
    BY <1>7, <2>1 DEF Sent
  <2>3. FoundInv(q)'
    BY <1>1, <1>2 DEF SendInv, FoundInv
  <2>4. CASE q = r
    <3>1. SendInv(q)'
      BY <1>1, <1>2, <1>3, <2>1, <2>4, <2>3 DEF SendInv
    <3>2. ReportInv(q)'
      BY <1>1, <1>2, <1>3, <1>7, <2>1, <2>4 DEF ReportInv
    <3> QED
      BY <3>1, <3>2
  <2>5. CASE q # r
    <3>1. SendInv(q)'
      BY <1>1, <1>2, <1>3, <2>1, <2>2, <2>5, <2>3 DEF SendInv, Fields
    <3>2. pc[q] = "flush" => mine[q] \in Producers
      BY <1>1 DEF MadeInv, TypeOK
    <3>3. pc[q] = "flush" /\ QueuedAt(q, mine[q]) => QueuedAt(q, mine[q])'
      BY <1>2, <1>7, <3>2
    <3>4. ReportInv(q)'
      BY <1>1, <1>2, <1>3, <2>1, <2>5, <3>3 DEF ReportInv
    <3> QED
      BY <3>1, <3>4
  <2> QED
    BY <2>4, <2>5
<1>12. OkMeansWritten'
  BY <1>1, <1>2, <1>3 DEF OkMeansWritten
<1> QED
  BY <1>8, <1>9, <1>10, <1>11, <1>12, <1>1, <1>2 DEF PInv, RegistryInv

\* flush() found the queue empty: r's report was served, by whichever thread.
LEMMA FlushedKeepsPInv ==
    ASSUME PInv, NEW r \in Requests, pc[r] = "flush", ~Outstanding(r),
           Continue(r, "result"),
           UNCHANGED <<form, found, encoded, shown, clientVars, schemaVars, log, report>>
    PROVE  PInv'
<1>1. /\ TypeOK /\ MadeInv /\ RegistryInv /\ LogInv /\ OkMeansWritten
      /\ \A q \in Requests : SendInv(q) /\ ReportInv(q)
  BY DEF PInv
<1>2. /\ pc' = [pc EXCEPT ![r] = "result"]
      /\ UNCHANGED <<form, found, encoded, shown, cached, made, mine, queue, log, report,
                     registry, subjects, answer, audited>>
  BY DEF Continue, clientVars, schemaVars
<1>3. pc'[r] = "result" /\ \A q \in Requests \ {r} : pc'[q] = pc[q]
  BY <1>1, <1>2 DEF TypeOK
<1>4. report[r] # "none"
  <2>1. queue[mine[r]] = << >>
    BY DEF Outstanding
  <2>2. Len(queue[mine[r]]) = 0
    BY <2>1
  <2>3. ~QueuedAt(r, mine[r])
    BY <2>2 DEF QueuedAt
  <2> QED
    BY <1>1, <2>3 DEF ReportInv
<1>5. TypeOK'
  BY <1>1, <1>2 DEF TypeOK
<1>6. MadeInv'
  <2>1. DOMAIN pc = Requests
    BY <1>1 DEF TypeOK
  <2>2. /\ Cardinality(PastLookup) <= Cardinality(PastLookup')
        /\ Cardinality(PastLookup') \in Nat /\ Cardinality(PastLookup) \in Nat
    BY <1>2, <2>1, PastLookupGrows
  <2>3. made \in Nat
    BY <1>1, NumberTypes
  <2> QED
    BY <1>1, <1>2, <1>3, <2>2, <2>3 DEF MadeInv
<1>7. LogInv'
  BY <1>1, <1>2 DEF LogInv
<1>8. ASSUME NEW q \in Requests PROVE SendInv(q)' /\ ReportInv(q)'
  <2>0. (FoundInv(q)' <=> FoundInv(q)) /\ \A f \in Fields : Readable(q, f)' <=> Readable(q, f)
    BY <1>2, EncodedStays
  <2>1. Written(q)' <=> Written(q)
    BY <1>2 DEF Written, Contains
  <2>2. Sent(q)' <=> Sent(q)
    BY <1>2, <2>1 DEF Sent, QueuedAt
  <2>3. CASE q = r
    BY <1>1, <1>2, <1>3, <2>0, <2>1, <2>2, <2>3 DEF SendInv, ReportInv
  <2>4. CASE q # r
    <3>1. SendInv(q)'
      BY <1>1, <1>2, <1>3, <2>2, <2>4, SendStays
    <3>2. ReportInv(q)'
      BY <1>1, <1>2, <1>3, <2>1, <2>4 DEF ReportInv, QueuedAt
    <3> QED
      BY <3>1, <3>2
  <2> QED
    BY <2>3, <2>4
<1>9. OkMeansWritten'
  BY <1>1, <1>2, <1>3, <1>4 DEF OkMeansWritten
<1> QED
  BY <1>5, <1>6, <1>7, <1>8, <1>9, <1>1, <1>2 DEF PInv, RegistryInv

\* The message a Producer serves next was sent, and what is behind it stays.
LEMMA HeadOfQueue ==
    ASSUME TypeOK, NEW n \in Producers, queue[n] # << >>
    PROVE  /\ Head(queue[n]) \in Requests
           /\ QueuedAt(Head(queue[n]), n)
           /\ Tail(queue[n]) \in Seq(Requests)
           /\ \A q \in Requests :
                QueuedAt(q, n) <=> \/ q = Head(queue[n])
                                   \/ \E i \in 1 .. Len(Tail(queue[n])) : Tail(queue[n])[i] = q
<1> DEFINE s == queue[n]
<1>1. s \in Seq(Requests) /\ s # << >>
  BY QueueTypes
<1>2. QueuedAt(Head(s), n) <=> \E i \in 1 .. Len(s) : s[i] = Head(s)
  BY DEF QueuedAt
<1>3. \A q \in Requests : QueuedAt(q, n) <=> \E i \in 1 .. Len(s) : s[i] = q
  BY DEF QueuedAt
<1> HIDE DEF s
<1>4. /\ Len(s) \in Nat /\ Len(s) >= 1 /\ s[1] = Head(s) /\ Head(s) \in Requests
      /\ Tail(s) \in Seq(Requests) /\ Len(Tail(s)) = Len(s) - 1
      /\ \A i \in 1 .. Len(Tail(s)) : Tail(s)[i] = s[i + 1]
  BY <1>1
<1>5. ASSUME NEW q \in Requests
      PROVE  (\E i \in 1 .. Len(s) : s[i] = q) <=>
               (q = Head(s) \/ \E i \in 1 .. Len(Tail(s)) : Tail(s)[i] = q)
  <2>1. ASSUME NEW i \in 1 .. Len(s), s[i] = q, q # Head(s)
        PROVE  \E j \in 1 .. Len(Tail(s)) : Tail(s)[j] = q
    <3>1. i - 1 \in 1 .. Len(Tail(s)) /\ Tail(s)[i - 1] = s[i]
      BY <1>4, <2>1
    <3> QED
      BY <2>1, <3>1
  <2>2. ASSUME NEW j \in 1 .. Len(Tail(s)), Tail(s)[j] = q
        PROVE  \E i \in 1 .. Len(s) : s[i] = q
    <3>1. j + 1 \in 1 .. Len(s) /\ s[j + 1] = q
      BY <1>4, <2>2
    <3> QED
      BY <3>1
  <2> QED
    BY <1>4, <2>1, <2>2
<1>6. QueuedAt(Head(s), n)
  BY <1>2, <1>4
<1>7. \A q \in Requests :
        QueuedAt(q, n) <=> \/ q = Head(s)
                           \/ \E i \in 1 .. Len(Tail(s)) : Tail(s)[i] = q
  BY <1>3, <1>5
<1> QED
  BY <1>4, <1>6, <1>7 DEF s

\* The broker writes a message that somebody sent, for the first time.
LEMMA WriteKeepsPInv ==
    ASSUME PInv, NEW n \in Producers, BrokerWrites(n)
    PROVE  PInv'
<1>1. /\ TypeOK /\ MadeInv /\ RegistryInv /\ LogInv /\ OkMeansWritten
      /\ \A q \in Requests : SendInv(q) /\ ReportInv(q)
  BY DEF PInv
<1> DEFINE h == Head(queue[n])
<1>2. /\ queue[n] # << >> /\ ~Written(h) /\ log' = Append(log, h)
      /\ UNCHANGED <<form, pc, found, encoded, answer, shown, audited, cached, made, mine,
                     queue, report, registry, subjects>>
  BY DEF BrokerWrites, clientVars, requestVars, schemaVars
<1>3. h \in Requests /\ QueuedAt(h, n)
  BY <1>1, <1>2, HeadOfQueue
<1>4. Sent(h)
  BY <1>3 DEF Sent
<1> HIDE DEF h
<1>5. log \in Seq(Requests) /\ Len(log) \in Nat /\ DOMAIN log = 1 .. Len(log)
  BY <1>1, LogType
<1>6. /\ log' \in Seq(Requests) /\ Len(log') = Len(log) + 1 /\ log'[Len(log) + 1] = h
      /\ DOMAIN log' = 1 .. Len(log) + 1
      /\ \A i \in 1 .. Len(log) : log'[i] = log[i]
  BY <1>2, <1>3, <1>5
<1>7. ASSUME NEW i \in 1 .. Len(log) PROVE log[i] # h
  BY <1>2 DEF Written, Contains
<1>8. TypeOK'
  BY <1>1, <1>2, <1>6 DEF TypeOK
<1>9. MadeInv'
  <2>1. PastLookup' = PastLookup
    BY <1>2 DEF PastLookup
  <2> QED
    BY <1>1, <1>2, <2>1 DEF MadeInv
<1>10. LogInv'
  <2> SUFFICES ASSUME NEW i \in 1 .. Len(log) + 1, NEW j \in 1 .. Len(log) + 1,
                      log'[i] = log'[j]
               PROVE  i = j
    BY <1>6 DEF LogInv
  <2>1. i \in 1 .. Len(log) \/ i = Len(log) + 1
    BY <1>5
  <2>2. j \in 1 .. Len(log) \/ j = Len(log) + 1
    BY <1>5
  <2> QED
    BY <1>1, <1>6, <1>7, <2>1, <2>2 DEF LogInv
<1>11. ASSUME NEW q \in Requests
       PROVE  (Written(q) => Written(q)') /\ (Written(q)' => Written(q) \/ q = h)
  <2>1. Written(q) <=> \E i \in 1 .. Len(log) : log[i] = q
    BY DEF Written, Contains
  <2>2. Written(q)' <=> \E i \in 1 .. Len(log) + 1 : log'[i] = q
    BY <1>6 DEF Written, Contains
  <2>3. \A i \in 1 .. Len(log) + 1 : i \in 1 .. Len(log) \/ i = Len(log) + 1
    BY <1>5
  <2>4. \A i \in 1 .. Len(log) : i \in 1 .. Len(log) + 1
    BY <1>5
  <2> QED
    BY <1>6, <2>1, <2>2, <2>3, <2>4
<1>12. ASSUME NEW q \in Requests PROVE SendInv(q)' /\ ReportInv(q)'
  <2>1. Sent(q)' => Sent(q)
    BY <1>2, <1>4, <1>11 DEF Sent, QueuedAt
  <2>2. SendInv(q)'
    BY <1>1, <1>2, <2>1, SendStays
  <2>3. ReportInv(q)'
    BY <1>1, <1>2, <1>11 DEF ReportInv, QueuedAt
  <2> QED
    BY <2>2, <2>3
<1>13. OkMeansWritten'
  <2>1. ASSUME NEW q \in Requests, answer[q] = "ok"
        PROVE  /\ shown[q] \in DOMAIN log'
               /\ log'[shown[q]] = q
               /\ \A i \in DOMAIN log' : log'[i] = q => i = shown[q]
    <3>1. shown[q] \in 1 .. Len(log) /\ log[shown[q]] = q
      BY <1>1, <1>5, <2>1 DEF OkMeansWritten
    <3>2. shown[q] \in 1 .. Len(log) + 1 /\ log'[shown[q]] = q
      BY <1>5, <1>6, <3>1
    <3>3. \A i \in 1 .. Len(log) + 1 : log'[i] = q => i = shown[q]
      BY <1>6, <1>10, <3>2 DEF LogInv
    <3> QED
      BY <1>6, <3>2, <3>3
  <2> QED
    BY <1>1, <1>2, <2>1 DEF OkMeansWritten
<1> QED
  BY <1>8, <1>9, <1>10, <1>12, <1>13, <1>1, <1>2 DEF PInv, RegistryInv

\* A delivery report: it leaves the queue and is in its request's result at once,
\* and says "delivered" only of what is written.
LEMMA ReportKeepsPInv ==
    ASSUME PInv, NEW n \in Producers, Delivered(n) \/ Refuses(n)
    PROVE  PInv'
<1>1. /\ TypeOK /\ MadeInv /\ RegistryInv /\ LogInv /\ OkMeansWritten
      /\ \A q \in Requests : SendInv(q) /\ ReportInv(q)
  BY DEF PInv
<1> DEFINE h == Head(queue[n])
           t == Tail(queue[n])
<1>2. PICK outcome \in {"delivered", "refused"} :
        /\ queue[n] # << >>
        /\ outcome = "delivered" => Written(h)
        /\ report' = [report EXCEPT ![h] = outcome]
        /\ queue' = [queue EXCEPT ![n] = t]
        /\ UNCHANGED <<form, pc, found, encoded, answer, shown, audited, cached, made, mine,
                       log, registry, subjects>>
  BY DEF Delivered, Refuses, requestVars, schemaVars
<1>3. /\ h \in Requests /\ t \in Seq(Requests)
      /\ \A q \in Requests :
           QueuedAt(q, n) <=> q = h \/ \E i \in 1 .. Len(t) : t[i] = q
  BY <1>1, <1>2, HeadOfQueue
<1> HIDE DEF h, t
<1>4. queue'[n] = t /\ \A m \in Producers \ {n} : queue'[m] = queue[m]
  BY <1>1, <1>2 DEF TypeOK
<1>5. report'[h] = outcome /\ \A q \in Requests \ {h} : report'[q] = report[q]
  BY <1>1, <1>2, <1>3 DEF TypeOK
<1>6. TypeOK'
  <2>1. queue' \in [Producers -> Seq(Requests)]
    BY <1>1, <1>2, <1>3 DEF TypeOK
  <2>2. report' \in [Requests -> {"none", "delivered", "refused"}]
    BY <1>1, <1>2, <1>3 DEF TypeOK
  <2> QED
    BY <1>1, <1>2, <2>1, <2>2 DEF TypeOK
<1>7. MadeInv'
  <2>1. PastLookup' = PastLookup
    BY <1>2 DEF PastLookup
  <2> QED
    BY <1>1, <1>2, <2>1 DEF MadeInv
<1>8. LogInv'
  BY <1>1, <1>2 DEF LogInv
<1>9. ASSUME NEW q \in Requests, NEW m \in Producers
      PROVE  /\ QueuedAt(q, m)' => QueuedAt(q, m)
             /\ QueuedAt(q, m) => QueuedAt(q, m)' \/ q = h
  <2>1. CASE m = n
    <3>1. QueuedAt(q, m)' <=> \E i \in 1 .. Len(t) : t[i] = q
      BY <1>4, <2>1 DEF QueuedAt
    <3> QED
      BY <1>3, <2>1, <3>1
  <2>2. CASE m # n
    BY <1>4, <2>2 DEF QueuedAt
  <2> QED
    BY <2>1, <2>2
<1>10. ASSUME NEW q \in Requests PROVE SendInv(q)' /\ ReportInv(q)'
  <2>1. Written(q)' <=> Written(q)
    BY <1>2 DEF Written, Contains
  <2>2. Sent(q)' => Sent(q)
    BY <1>9, <2>1 DEF Sent
  <2>3. SendInv(q)'
    BY <1>1, <1>2, <2>2, SendStays
  <2>4. ReportInv(q)'
    <3>1. CASE q = h
      BY <1>2, <1>5, <2>1, <3>1 DEF ReportInv
    <3>2. CASE q # h
      <4>1. pc[q] = "flush" => mine[q] \in Producers
        BY <1>1 DEF MadeInv, TypeOK
      <4>2. pc[q] = "flush" /\ QueuedAt(q, mine[q]) => QueuedAt(q, mine[q])'
        BY <1>2, <1>9, <3>2, <4>1
      <4> QED
        BY <1>1, <1>2, <1>5, <2>1, <3>2, <4>2 DEF ReportInv
    <3> QED
      BY <3>1, <3>2
  <2> QED
    BY <2>3, <2>4
<1>11. OkMeansWritten'
  <2>1. ASSUME NEW q \in Requests PROVE pc[q] = "result" => report'[q] # "none"
    BY <1>1, <1>2, <1>5 DEF OkMeansWritten
  <2> QED
    BY <1>1, <1>2, <2>1 DEF OkMeansWritten
<1> QED
  BY <1>6, <1>7, <1>8, <1>10, <1>11, <1>1, <1>2 DEF PInv, RegistryInv

\* Somebody else registers a schema: what was encoded stays readable.
LEMMA OthersKeepPInv ==
    ASSUME PInv, NEW g \in Fields, OthersRegister(g)
    PROVE  PInv'
<1>1. /\ TypeOK /\ MadeInv /\ RegistryInv /\ LogInv /\ OkMeansWritten
      /\ \A q \in Requests : SendInv(q) /\ ReportInv(q)
  BY DEF PInv
<1>2. /\ \E s \in Schema : Registers(g, s)
      /\ UNCHANGED <<form, pc, found, encoded, answer, shown, audited, cached, made, mine,
                     queue, log, report>>
  BY DEF OthersRegister, clientVars, requestVars
<1>3. SchemasGrow
  BY <1>1, <1>2, RegistersSchema
<1>4. TypeOK' /\ RegistryInv'
  BY <1>1, <1>2, <1>3 DEF TypeOK, SchemasGrow
<1>5. MadeInv' /\ LogInv' /\ OkMeansWritten'
  <2>1. PastLookup' = PastLookup
    BY <1>2 DEF PastLookup
  <2> QED
    BY <1>1, <1>2, <2>1 DEF MadeInv, LogInv, OkMeansWritten
<1>6. ASSUME NEW q \in Requests PROVE SendInv(q)' /\ ReportInv(q)'
  <2>1. Written(q)' <=> Written(q)
    BY <1>2 DEF Written, Contains
  <2>2. Sent(q)' <=> Sent(q)
    BY <1>2, <2>1 DEF Sent, QueuedAt
  <2>3. FoundInv(q)
    BY <1>1 DEF SendInv
  <2>4. FoundInv(q)' /\ \A f \in Fields : Readable(q, f) => Readable(q, f)'
    BY <1>2, <1>3, <2>3, SchemasKept
  <2>5. SendInv(q)'
    BY <1>1, <1>2, <2>2, <2>4 DEF SendInv, Fields
  <2>6. ReportInv(q)'
    BY <1>1, <1>2, <2>1 DEF ReportInv, QueuedAt
  <2> QED
    BY <2>5, <2>6
<1> QED
  BY <1>4, <1>5, <1>6 DEF PInv

\* A failed request changes nothing but its own state, so all that is left to see
\* is that it is audited if anything was sent.
LEMMA FailureKeepsPInv ==
    ASSUME PInv, NEW r \in Requests, NEW a \in {"forbidden", "broken", "error", "timeout"},
           NEW outcome \in {"none", "error"},
           Answer(r, a, outcome), Sent(r) => outcome = "error",
           UNCHANGED <<form, found, encoded, shown, schemaVars, log, report>>
    PROVE  PInv'
<1>1. shown \in [Requests -> 0 .. Cardinality(Requests)] /\ SchemasGrow
  BY SameSchemas DEF PInv, TypeOK
<1> QED
  BY <1>1, AnswerKeepsPInv

LEMMA ReceiveKeepsPInv ==
    ASSUME PInv, NEW r \in Requests, Receive(r)
    PROVE  PInv'
<1>1. /\ pc[r] = "start" /\ UNCHANGED <<form, found, encoded, shown, schemaVars, log, report>>
  BY DEF Receive
<1>2. TypeOK /\ RegistryInv /\ SendInv(r)
  BY DEF PInv
<1>3. ~Sent(r)
  BY <1>1, <1>2 DEF SendInv
<1>4. CASE Answer(r, "forbidden", "none") \/ Answer(r, "broken", "none") \/ Raise(r)
  BY <1>1, <1>3, <1>4, FailureKeepsPInv DEF Raise, ErrorOutcome
<1>5. CASE form[r].write /\ Continue(r, "key") /\ UNCHANGED clientVars
  <2>1. SchemasGrow
    BY <1>1, <1>2, SameSchemas
  <2>2. /\ found' \in [Requests -> Found] /\ encoded' \in [Requests -> [Fields -> Bytes]]
        /\ \A q \in Requests \ {r} : found'[q] = found[q] /\ encoded'[q] = encoded[q]
    BY <1>1, <1>2 DEF TypeOK
  <2>3. FoundInv(r)' /\ found'[r] = NoAnswer /\ \A f \in Fields : encoded'[r][f] = Raw
    BY <1>1, <1>2 DEF SendInv, FoundInv, schemaVars
  <2> QED
    BY <1>1, <1>5, <2>1, <2>2, <2>3, EncodingKeepsPInv
<1> QED
  BY <1>4, <1>5 DEF Receive

\* The registry's answer: r keeps a schema with its own id, and stays where it is.
LEMMA AnswerOfRegistryKeepsPInv ==
    ASSUME PInv, NEW r \in Requests, NEW f \in Fields, Asking(r, f), SchemasGrow,
           NEW a \in Found, found' = [found EXCEPT ![r] = a],
           a.id \in DOMAIN registry', registry'[a.id].type = a.type,
           registry'[a.id].text = a.text,
           UNCHANGED <<form, pc, encoded, answer, shown, audited, clientVars, log, report>>
    PROVE  PInv'
<1>1. TypeOK /\ SendInv(r)
  BY DEF PInv
<1>2. pc[r] = f /\ f \in {"key", "value"} /\ form[r].write /\ form[r][f].format # "raw"
  BY <1>1 DEF Asking, SendInv, Fields
<1>3. Continue(r, f)
  BY <1>1, <1>2 DEF Continue, TypeOK
<1>4. /\ found' \in [Requests -> Found] /\ encoded' \in [Requests -> [Fields -> Bytes]]
      /\ \A q \in Requests \ {r} : found'[q] = found[q] /\ encoded'[q] = encoded[q]
      /\ found'[r] = a
  BY <1>1 DEF TypeOK
<1>5. FoundInv(r)'
  BY <1>4 DEF FoundInv
<1>6. \A g \in Fields : Readable(r, g) => Readable(r, g)'
  BY SchemasKept
<1>7. /\ f = "key" => \A g \in Fields : encoded'[r][g] = Raw
      /\ f = "value" => encoded'[r]["value"] = Raw /\ Readable(r, "key")'
  BY <1>1, <1>2, <1>6 DEF SendInv, Fields
<1> QED
  BY <1>2, <1>3, <1>4, <1>5, <1>7, EncodingKeepsPInv DEF Fields

\* A field is ready: r goes on to the next one with the bytes b.
LEMMA FieldKeepsPInv ==
    ASSUME PInv, NEW r \in Requests, NEW f \in Fields, pc[r] = f, NEW b \in Bytes,
           encoded' = [encoded EXCEPT ![r][f] = b],
           found' = [found EXCEPT ![r] = NoAnswer],
           Readable(r, f)', Continue(r, AfterField(f)),
           UNCHANGED <<form, shown, clientVars, schemaVars, log, report>>
    PROVE  PInv'
<1>1. TypeOK /\ SendInv(r) /\ RegistryInv
  BY DEF PInv
<1>2. form[r].write /\ f \in {"key", "value"}
  BY <1>1 DEF SendInv, Fields
<1>3. SchemasGrow
  BY <1>1, SameSchemas
<1>4. NoAnswer \in Found
  <2>1. 0 \in 0 .. MaxSchemas
    BY ProduceAssumption
  <2> QED
    BY <2>1 DEF NoAnswer, Found
<1>5. /\ found' \in [Requests -> Found] /\ \A q \in Requests \ {r} : found'[q] = found[q]
      /\ found'[r] = NoAnswer
  BY <1>1, <1>4 DEF TypeOK
<1>6. /\ encoded' \in [Requests -> [Fields -> Bytes]]
      /\ \A q \in Requests \ {r} : encoded'[q] = encoded[q]
      /\ \A g \in Fields \ {f} : encoded'[r][g] = encoded[r][g]
  <2>1. encoded \in [Requests -> [Fields -> Bytes]]
    BY <1>1 DEF TypeOK
  <2>2. [encoded[r] EXCEPT ![f] = b] \in [Fields -> Bytes]
    BY <2>1
  <2>3. encoded' = [encoded EXCEPT ![r] = [encoded[r] EXCEPT ![f] = b]]
    OBVIOUS
  <2> QED
    BY <2>1, <2>2, <2>3
<1>7. FoundInv(r)'
  BY <1>5 DEF FoundInv
<1>8. /\ AfterField(f) \in {"key", "value", "lookup"}
      /\ AfterField(f) # "key"
      /\ AfterField(f) = "value" => f = "key"
      /\ AfterField(f) = "lookup" => f = "value"
  BY <1>2 DEF AfterField
<1>9. f = "key" => encoded'[r]["value"] = Raw /\ Readable(r, "key")'
  BY <1>1, <1>6 DEF SendInv, Fields
<1>10. ASSUME f = "value" PROVE \A g \in Fields : Readable(r, g)'
  <2>1. Readable(r, "key") /\ encoded'[r]["key"] = encoded[r]["key"]
    BY <1>1, <1>6, <1>10 DEF SendInv, Fields
  <2>2. Readable(r, "key")'
    BY <2>1 DEF Readable, schemaVars
  <2> QED
    BY <1>10, <2>2 DEF Fields
<1> QED
  BY <1>2, <1>3, <1>5, <1>6, <1>7, <1>8, <1>9, <1>10, EncodingKeepsPInv

LEMMA LastElement ==
    ASSUME NEW S, NEW s \in Seq(S), s # << >>
    PROVE  Len(s) \in 1 .. Len(s) /\ s[Len(s)] \in S
<1>1. Len(s) \in Nat /\ Len(s) # 0
  OBVIOUS
<1> QED
  BY <1>1

\* One step of encoding a field.
LEMMA EncodeKeepsPInv ==
    ASSUME PInv, NEW r \in Requests, NEW f \in Fields,
           \/ SendRaw(r, f) \/ AskLatest(r, f) \/ Register(r, f)
           \/ EncodeAvro(r, f) \/ EncodeJson(r, f) \/ EncodingFails(r, f)
    PROVE  PInv'
<1>1. TypeOK /\ SendInv(r) /\ RegistryInv /\ f \in {"key", "value"}
  BY DEF PInv, Fields
<1>2. form \in [Requests -> Forms] /\ form[r] \in Form /\ form[r][f] \in Encoding
  <2>1. form \in [Requests -> Forms] /\ form[r] \in Form
    BY <1>1, ProduceAssumption DEF TypeOK
  <2>2. form[r].key \in Encoding /\ form[r].value \in Encoding
    BY <2>1 DEF Form
  <2> QED
    BY <1>1, <2>1, <2>2
<1>3. CASE SendRaw(r, f)
  <2>1. pc[r] = f /\ form[r][f].format = "raw" /\ Continue(r, AfterField(f))
        /\ UNCHANGED <<form, found, encoded, shown, clientVars, schemaVars, log, report>>
    BY <1>3 DEF SendRaw
  <2>2. encoded[r][f] = Raw /\ found' = [found EXCEPT ![r] = NoAnswer]
    <3>1. encoded[r][f] = Raw /\ found[r] = NoAnswer
      BY <1>1, <2>1 DEF SendInv
    <3> QED
      BY <1>1, <2>1, <3>1 DEF TypeOK
  <2>3. Raw \in Bytes /\ encoded' = [encoded EXCEPT ![r][f] = Raw]
    <3>1. encoded \in [Requests -> [Fields -> Bytes]]
      BY <1>1 DEF TypeOK
    <3>2. encoded[r] = [encoded[r] EXCEPT ![f] = encoded[r][f]]
      BY <3>1
    <3>3. encoded = [encoded EXCEPT ![r] = encoded[r]]
      BY <3>1
    <3>4. encoded = [encoded EXCEPT ![r][f] = encoded[r][f]]
      BY <3>2, <3>3
    <3> QED
      BY <2>1, <2>2, <3>1, <3>4
  <2>4. Readable(r, f)'
    BY <2>1, <2>2 DEF Readable
  <2> QED
    BY <2>1, <2>2, <2>3, <2>4, FieldKeepsPInv
<1>4. CASE AskLatest(r, f)
  <2> DEFINE id == Last(subjects[f])
             a == [id |-> id, type |-> registry[id].type, text |-> registry[id].text]
  <2>1. /\ Asking(r, f) /\ subjects[f] # << >>
        /\ found' = [found EXCEPT ![r] = a]
        /\ UNCHANGED <<form, pc, encoded, answer, shown, audited, clientVars, schemaVars,
                       log, report>>
    BY <1>4 DEF AskLatest
  <2>2. id \in 1 .. MaxSchemas /\ id \in DOMAIN registry
    <3>1. subjects[f] \in Seq(1 .. MaxSchemas)
      BY <1>1 DEF TypeOK
    <3>2. Len(subjects[f]) \in 1 .. Len(subjects[f])
          /\ subjects[f][Len(subjects[f])] \in 1 .. MaxSchemas
      BY <2>1, <3>1, LastElement
    <3>3. id = subjects[f][Len(subjects[f])]
      BY DEF Last
    <3> QED
      BY <1>1, <3>2, <3>3 DEF RegistryInv
  <2> HIDE DEF id
  <2>3. registry[id] \in Schema
    BY <1>1, <2>2 DEF TypeOK
  <2>4. id \in 0 .. MaxSchemas
    BY <2>2
  <2>5. a \in Found
    BY <2>3, <2>4 DEF Found, Schema
  <2>6. a.id = id /\ a.type = registry[id].type /\ a.text = registry[id].text
    OBVIOUS
  <2> HIDE DEF a
  <2>7. registry' = registry /\ SchemasGrow
    BY <1>1, <2>1, SameSchemas DEF schemaVars
  <2> QED
    BY <2>1, <2>2, <2>5, <2>6, <2>7, AnswerOfRegistryKeepsPInv
<1>5. CASE Register(r, f)
  <2> DEFINE s == [type |-> IF form[r][f].format = "avro" THEN "AVRO" ELSE "JSON",
                   text |-> form[r][f].schema]
             a == [id |-> IdOf(s), type |-> s.type, text |-> s.text]
  <2>1. /\ Asking(r, f) /\ Registers(f, s)
        /\ found' = [found EXCEPT ![r] = a]
        /\ UNCHANGED <<form, pc, encoded, answer, shown, audited, clientVars, log, report>>
    BY <1>5 DEF Register
  <2>2. s \in Schema
    BY <1>2 DEF Encoding, Schema
  <2> HIDE DEF s
  <2>3. SchemasGrow /\ IdOf(s) \in 1 .. MaxSchemas /\ IdOf(s) \in DOMAIN registry'
        /\ registry'[IdOf(s)] = s
    BY <1>1, <2>1, <2>2, RegistersSchema
  <2>4. IdOf(s) \in 0 .. MaxSchemas
    BY <2>3
  <2>5. a \in Found
    BY <2>2, <2>4 DEF Found, Schema
  <2>6. a.id = IdOf(s) /\ a.type = s.type /\ a.text = s.text
    OBVIOUS
  <2> HIDE DEF a
  <2> QED
    BY <2>1, <2>3, <2>5, <2>6, AnswerOfRegistryKeepsPInv
<1>6. CASE EncodeAvro(r, f) \/ EncodeJson(r, f)
  <2>1. PICK fits \in BOOLEAN, body \in {"avro", "json"} :
          /\ pc[r] = f /\ found[r] # NoAnswer
          /\ IF found[r].type = "AVRO" THEN body = "avro" /\ fits = TRUE ELSE body = "json"
          /\ EncodesAs(r, f, body, fits)
    BY <1>6 DEF EncodeAvro, EncodeJson, EncodesAvro
  <2> DEFINE b == [id |-> found[r].id, text |-> found[r].text, body |-> body, fits |-> fits]
  <2>2. /\ encoded' = [encoded EXCEPT ![r][f] = b]
        /\ found' = [found EXCEPT ![r] = NoAnswer]
        /\ Continue(r, AfterField(f))
        /\ UNCHANGED <<form, shown, clientVars, schemaVars, log, report>>
    BY <2>1 DEF EncodesAs
  <2>3. found[r] \in Found
    BY <1>1 DEF TypeOK
  <2>4. b \in Bytes
    BY <2>3 DEF Bytes, Found
  <2>5. encoded'[r][f] = b
    BY <1>1, <2>2 DEF TypeOK
  <2>6. /\ b.id = found[r].id /\ b.text = found[r].text /\ b.body = body /\ b.fits = fits
    OBVIOUS
  <2> HIDE DEF b
  <2>7. form'[r][f].format # "raw"
    <3>1. form[r][f].format # "raw"
      BY <1>1, <2>1 DEF SendInv
    <3> QED
      BY <2>2, <3>1
  <2>8. Readable(r, f)'
    <3>1. /\ found[r].id \in DOMAIN registry
          /\ registry[found[r].id].type = found[r].type
          /\ registry[found[r].id].text = found[r].text
      BY <1>1, <2>1 DEF SendInv, FoundInv
    <3>2. registry' = registry
      BY <2>2 DEF schemaVars
    <3>3. registry[b.id].type = "AVRO" => b.body = "avro" /\ b.fits
      BY <2>1, <2>6, <3>1
    <3>4. registry[b.id].type = "JSON" => b.body = "json"
      BY <2>1, <2>6, <3>1
    <3> QED
      BY <2>5, <2>6, <2>7, <3>1, <3>2, <3>3, <3>4 DEF Readable
  <2> QED
    BY <2>1, <2>2, <2>4, <2>8, FieldKeepsPInv
<1>7. CASE EncodingFails(r, f)
  <2>1. Raise(r) /\ UNCHANGED <<form, found, encoded, shown, schemaVars, log, report>> /\ pc[r] = f
    BY <1>7 DEF EncodingFails
  <2>2. ~Sent(r)
    BY <1>1, <2>1 DEF SendInv
  <2> QED
    BY <2>1, <2>2, FailureKeepsPInv DEF Raise, ErrorOutcome
<1> QED
  BY <1>3, <1>4, <1>5, <1>6, <1>7

\* The answer "ok" names the place of r's message in the log.
LEMMA ResultKeepsPInv ==
    ASSUME PInv, NEW r \in Requests, ReadResult(r)
    PROVE  PInv'
<1>1. TypeOK /\ ReportInv(r) /\ OkMeansWritten /\ Cardinality(Requests) \in Nat
  BY RequestsCounted DEF PInv
<1>2. pc[r] = "result" /\ UNCHANGED <<form, found, encoded, schemaVars, log, report>>
  BY DEF ReadResult
<1>3. SchemasGrow
  BY <1>1, <1>2, SameSchemas DEF PInv
<1>4. CASE Raise(r) /\ UNCHANGED shown
  BY <1>2, <1>3, <1>4, FailureKeepsPInv DEF Raise, ErrorOutcome
<1>5. CASE ~(report[r] = "none" \/ DeliveryRefused(r))
  <2> DEFINE place == CHOOSE i \in 0 .. Len(log) : \/ i > 0 /\ log[i] = r
                                                   \/ i = 0 /\ ~Contains(log, r)
  <2>1. Answer(r, "ok", "ok") /\ shown' = [shown EXCEPT ![r] = place]
    BY <1>5 DEF ReadResult
  <2>2. Len(log) \in Nat /\ Len(log) <= Cardinality(Requests)
    BY <1>1, LogType, LogBounded
  <2>3. Contains(log, r)
    BY <1>1, <1>5 DEF ReportInv, TypeOK, DeliveryRefused, Written
  <2>4. PICK i \in 1 .. Len(log) : log[i] = r
    BY <2>3 DEF Contains
  <2>5. i \in 0 .. Len(log) /\ i > 0
    BY <2>2
  <2>6. place \in 0 .. Len(log) /\ place > 0 /\ log[place] = r
    BY <2>3, <2>4, <2>5
  <2> HIDE DEF place
  <2>7. place \in 1 .. Len(log) /\ place \in 0 .. Cardinality(Requests)
    BY <1>1, <2>2, <2>6
  <2>8. shown \in [Requests -> 0 .. Cardinality(Requests)]
    BY <1>1 DEF TypeOK
  <2>9. /\ shown' \in [Requests -> 0 .. Cardinality(Requests)]
        /\ \A q \in Requests \ {r} : shown'[q] = shown[q]
        /\ shown'[r] \in 1 .. Len(log) /\ log[shown'[r]] = r
    BY <2>1, <2>6, <2>7, <2>8
  <2> QED
    BY <1>2, <1>3, <2>1, <2>9, AnswerKeepsPInv
<1> QED
  BY <1>4, <1>5 DEF ReadResult

LEMMA InitPInv == Init => PInv
<1> SUFFICES ASSUME Init PROVE PInv
  OBVIOUS
<1>1. /\ Cardinality(Requests) \in Nat /\ IsFiniteSet(PastLookup)
      /\ Cardinality(PastLookup) \in Nat /\ MaxSchemas \in Nat /\ MaxSchemas >= 1
  BY RequestsCounted, ProduceAssumption
<1>2. Len(log) = 0 /\ \A n \in Producers : Len(queue[n]) = 0
  BY DEF Init
<1>3. TypeOK
  <2>1. log \in Seq(Requests) /\ queue \in [Producers -> Seq(Requests)]
    <3>1. << >> \in Seq(Requests)
      OBVIOUS
    <3> QED
      BY <3>1 DEF Init
  <2>2. registry \in Seq(Schema) /\ Len(registry) <= MaxSchemas
        /\ subjects \in [Fields -> Seq(1 .. MaxSchemas)]
    <3>1. << >> \in Seq(Schema) /\ << >> \in Seq(1 .. MaxSchemas) /\ Len(<< >>) = 0
      OBVIOUS
    <3> QED
      BY <1>1, <3>1 DEF Init
  <2>3. found \in [Requests -> Found] /\ encoded \in [Requests -> [Fields -> Bytes]]
    <3>1. 0 \in 0 .. MaxSchemas
      BY <1>1
    <3>2. NoAnswer \in Found /\ Raw \in Bytes
      BY <3>1 DEF NoAnswer, Found, Raw, Bytes
    <3> QED
      BY <3>2 DEF Init
  <2>4. /\ shown \in [Requests -> 0 .. Cardinality(Requests)]
        /\ made \in 0 .. Cardinality(Requests)
    BY <1>1 DEF Init
  <2> QED
    BY <2>1, <2>2, <2>3, <2>4 DEF Init, TypeOK
<1>4. MadeInv
  BY <1>1 DEF Init, MadeInv, NoProducer
<1>5. ASSUME NEW r \in Requests PROVE SendInv(r) /\ ReportInv(r)
  <2>1. ~Sent(r)
    BY <1>2 DEF Sent, Written, Contains, QueuedAt
  <2>2. found[r] = NoAnswer /\ \A f \in Fields : encoded[r][f] = Raw
    BY DEF Init
  <2> QED
    BY <2>1, <2>2 DEF Init, SendInv, ReportInv, FoundInv
<1>6. LogInv /\ OkMeansWritten /\ RegistryInv
  <2>1. \A f \in Fields : Len(subjects[f]) = 0
    BY DEF Init
  <2> QED
    BY <1>2, <2>1 DEF Init, LogInv, OkMeansWritten, RegistryInv
<1> QED
  BY <1>3, <1>4, <1>5, <1>6 DEF PInv

LEMMA StepKeepsPInv ==
    ASSUME PInv, NEW r \in Requests, Step(r)
    PROVE  PInv'
<1>1. CASE Receive(r)
  BY <1>1, ReceiveKeepsPInv
<1>2. CASE \E f \in Fields : \/ SendRaw(r, f) \/ AskLatest(r, f) \/ Register(r, f)
                             \/ EncodeAvro(r, f) \/ EncodeJson(r, f)
                             \/ EncodingFails(r, f)
  BY <1>2, EncodeKeepsPInv
<1>3. CASE Lookup(r) \/ Remember(r)
  BY <1>3, ProducerKeepsPInv
<1>4. CASE Enqueue(r)
  BY <1>4, EnqueueKeepsPInv
<1>5. CASE QueueFull(r)
  <2>1. Raise(r) /\ UNCHANGED <<form, found, encoded, shown, schemaVars, log, report>>
    BY <1>5 DEF QueueFull
  <2> QED
    BY <2>1, FailureKeepsPInv DEF Raise, ErrorOutcome
<1>6. CASE FlushEnds(r)
  <2>1. pc[r] = "flush" /\ UNCHANGED <<form, found, encoded, shown, schemaVars, log, report>>
    BY <1>6 DEF FlushEnds
  <2>2. CASE Outstanding(r)
    <3>1. Answer(r, "timeout", "error")
      BY <1>6, <2>2 DEF FlushEnds, TimedOut, ErrorOutcome
    <3> QED
      BY <2>1, <3>1, FailureKeepsPInv
  <2>3. CASE ~Outstanding(r)
    BY <1>6, <2>1, <2>3, FlushedKeepsPInv DEF FlushEnds
  <2> QED
    BY <2>2, <2>3
<1>7. CASE ReadResult(r)
  BY <1>7, ResultKeepsPInv
<1> QED
  BY <1>1, <1>2, <1>3, <1>4, <1>5, <1>6, <1>7 DEF Step

LEMMA StutterKeepsPInv == PInv /\ UNCHANGED vars => PInv'
<1> SUFFICES ASSUME PInv, UNCHANGED vars PROVE PInv'
  OBVIOUS
<1>1. UNCHANGED <<form, pc, found, encoded, answer, shown, audited, cached, made, mine,
                  queue, log, report, registry, subjects>>
  BY DEF vars, clientVars, schemaVars, requestVars
<1>2. TypeOK' /\ RegistryInv' /\ LogInv' /\ OkMeansWritten'
  BY <1>1 DEF PInv, TypeOK, RegistryInv, LogInv, OkMeansWritten
<1>3. MadeInv'
  BY <1>1 DEF PInv, MadeInv, PastLookup
<1>4. ASSUME NEW r \in Requests PROVE SendInv(r)' /\ ReportInv(r)'
  BY <1>1 DEF PInv, SendInv, ReportInv, Sent, Written, Contains, QueuedAt, Readable,
           FoundInv
<1> QED
  BY <1>2, <1>3, <1>4 DEF PInv

LEMMA NextKeepsPInv == PInv /\ [Next]_vars => PInv'
<1> SUFFICES ASSUME PInv, [Next]_vars PROVE PInv'
  OBVIOUS
<1>1. CASE \E r \in Requests : Step(r)
  BY <1>1, StepKeepsPInv
<1>2. CASE \E n \in Producers : BrokerWrites(n) \/ Delivered(n) \/ Refuses(n)
  BY <1>2, WriteKeepsPInv, ReportKeepsPInv
<1>3. CASE \E f \in Fields : OthersRegister(f)
  BY <1>3, OthersKeepPInv
<1>4. CASE UNCHANGED vars
  BY <1>4, StutterKeepsPInv
<1> QED
  BY <1>1, <1>2, <1>3, <1>4 DEF Next

LEMMA PInvHolds == Spec => []PInv
BY InitPInv, NextKeepsPInv, PTL DEF Spec

-----------------------------------------------------------------------------
(* The theorems                                                            *)

\* Every variable of the producing side has its type, the number of Producers
\* included: however requests race through producer(), each makes one at most.
THEOREM TypeCorrect == Spec => []TypeOK
<1>1. PInv => TypeOK
  BY DEF PInv
<1> QED
  BY <1>1, PInvHolds, PTL

\* "Producing waits for the broker's delivery report before reporting success":
\* send_message() answers "ok" only for a message that is in the log once, at the
\* place it names, whoever's thread served the report.
THEOREM SentMeansWritten == Spec => []OkMeansWritten
<1>1. PInv => OkMeansWritten
  BY DEF PInv
<1> QED
  BY <1>1, PInvHolds, PTL

\* Whatever send_message() got written was encoded with a schema the registry has.
THEOREM WrittenReadable == Spec => []WrittenIsReadable
<1>1. PInv => WrittenIsReadable
  <2> SUFFICES ASSUME PInv, NEW i \in DOMAIN log, NEW f \in Fields
               PROVE  Readable(log[i], f)
    BY DEF WrittenIsReadable
  <2>1. i \in 1 .. Len(log) /\ log[i] \in Requests
    BY LogType DEF PInv
  <2>2. Sent(log[i])
    BY <2>1 DEF Sent, Written, Contains
  <2> QED
    BY <2>1, <2>2 DEF PInv, SendInv
<1> QED
  BY <1>1, PInvHolds, PTL

\* Nothing is written for a request that require_write turned away, and the endpoint
\* leaves an audit line for everything else, also when flush() timed out.
THEOREM WritesAudited == Spec => []WritesAccounted
<1>1. PInv => WritesAccounted
  <2> SUFFICES ASSUME PInv, NEW r \in Requests, Written(r)
               PROVE  form[r].write /\ (answer[r] # "none" => audited[r] # "none")
    BY DEF WritesAccounted
  <2> QED
    BY DEF PInv, SendInv, Sent
<1> QED
  BY <1>1, PInvHolds, PTL
=============================================================================
