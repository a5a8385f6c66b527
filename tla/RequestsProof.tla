---------------------------- MODULE RequestsProof ----------------------------
(***************************************************************************)
(* Proofs about the user's side.  Of Config and Requests: settings that    *)
(* are accepted work, a request reaches no cluster but its own, and only   *)
(* an entitled one writes, for any settings and any number of tabs,        *)
(* clusters and restarts.  Of Page, the browser's side of a search: the    *)
(* results on it are one server's stream, for any topic, limits and drops. *)
(***************************************************************************)
EXTENDS Requests, Page, FiniteSetTheorems, WellFoundedInduction, TLAPS

USE DEF Protocols, SaslProtocols, UserPass, Mechanisms, AuthModes, Roles

-----------------------------------------------------------------------------
(* Config                                                                  *)

\* What normalising leaves alone.
LEMMA NormalisedFields ==
    ASSUME NEW e \in ClusterEntry
    PROVE  /\ Normalised(e).name = e.name
           /\ Normalised(e).brokers = e.brokers
           /\ Normalised(e).readonly = e.readonly
  BY DEF Normalised, ClusterEntry

\* The cluster made of flat variables.
LEMMA FlatLegacy ==
    ASSUME NEW e \in ClusterEntry
    PROVE  LET c == Legacy(e) d == Normalised(e) IN
           /\ c.name = IF e.name = Blank THEN "default" ELSE e.name
           /\ c.brokers = e.brokers
           /\ c.protocol = d.protocol /\ c.mechanism = d.mechanism
           /\ c.username = d.username /\ c.password = d.password
           /\ c.readonly = FALSE
  BY DEF Legacy, Normalised, ClusterEntry

\* The check of an entry is enough to log in.
LEMMA CoherentConnects ==
    ASSUME NEW c, CoherentSecurity(c)
    PROVE  CanConnect(c)
  BY DEF CoherentSecurity, CredentialsGiven, CanConnect

\* The last entry of the list is the one that counts for its name.
LEMMA BasicLetsIn ==
    ASSUME NEW users \in Seq(UserEntry), users # << >>,
           \A i \in DOMAIN users : UserEntryOK(users[i])
    PROVE  \E n \in DOMAIN ParseUsers(users) : ParseUsers(users)[n].role \in Roles
<1> DEFINE n == users[Len(users)].name
           Is(i) == /\ users[i].name = n
                    /\ \A j \in DOMAIN users : users[j].name = n => j <= i
           i == CHOOSE x \in DOMAIN users : Is(x)
<1>1. Len(users) \in DOMAIN users /\ \A j \in DOMAIN users : j <= Len(users)
  OBVIOUS
<1>2. Is(Len(users))
  BY <1>1
<1>3. i \in DOMAIN users
  BY <1>1, <1>2
<1>4. LastEntry(users, n) = users[i]
  BY DEF LastEntry
<1>5. Canonical[users[i].role] \in Roles
  BY <1>3 DEF UserEntryOK
<1>6. n \in DOMAIN ParseUsers(users) /\ ParseUsers(users)[n].role = Canonical[users[i].role]
  BY <1>1, <1>4 DEF ParseUsers
<1> QED
  BY <1>5, <1>6

\* As many names as entries, when they differ.
LEMMA NamesCount ==
    ASSUME NEW S, NEW s \in Seq(S),
           \A x, y \in DOMAIN s : s[x].name = s[y].name => x = y
    PROVE  Cardinality({s[x].name : x \in DOMAIN s}) = Len(s)
<1> DEFINE T == {s[x].name : x \in DOMAIN s}
           f == [x \in 1 .. Len(s) |-> s[x].name]
<1>1. DOMAIN s = 1 .. Len(s) /\ Len(s) \in Nat
  OBVIOUS
<1>2. f \in Bijection(1 .. Len(s), T)
  BY <1>1 DEF Bijection, Injection, Surjection, IsInjective
<1> HIDE DEF T
<1> QED
  BY <1>1, <1>2, FS_CountingElements DEF ExistsBijection, T

\* Settings that are accepted work: whatever the environment describes, the process
\* that starts has clusters with names of their own that it can log in to.
THEOREM AcceptedWorks ==
    ASSUME NEW e \in Environment, Accepts(e)
    PROVE  Workable(e)
<1> DEFINE cs == ResolveClusters(e)
<1>1. e.flat \in ClusterEntry /\ e.clusters \in Seq(ClusterEntry)
      /\ e.users \in Seq(UserEntry) /\ e.multi \in BOOLEAN
  BY DEF Environment
<1>2. CASE e.multi = TRUE
  <2>1. EntriesOK(e.clusters)
    BY <1>2 DEF Accepts
  <2>2. /\ DOMAIN cs = DOMAIN e.clusters /\ Len(cs) = Len(e.clusters) /\ cs # << >>
        /\ cs \in Seq({Normalised(x) : x \in ClusterEntry})
        /\ \A i \in DOMAIN cs : cs[i] = Normalised(e.clusters[i])
    BY <1>1, <1>2, <2>1 DEF ResolveClusters, EntriesOK
  <2>3. \A i \in DOMAIN cs : /\ cs[i].name = e.clusters[i].name
                             /\ cs[i].brokers = e.clusters[i].brokers
                             /\ EntryOK(e.clusters[i])
    BY <1>1, <2>1, <2>2, NormalisedFields DEF EntriesOK
  <2>4. \A i \in DOMAIN cs : cs[i].name \in GoodNames /\ CanConnect(cs[i])
    BY <2>2, <2>3, CoherentConnects DEF EntryOK
  <2>5. Cardinality({cs[i].name : i \in DOMAIN cs}) = Len(cs)
    <3>1. \A x, y \in DOMAIN cs : cs[x].name = cs[y].name => x = y
      BY <2>1, <2>2, <2>3 DEF EntriesOK
    <3> HIDE DEF cs
    <3> QED
      BY <2>2, <3>1, NamesCount
  <2>6. \A i \in DOMAIN cs : cs[i].brokers # Blank
    BY <2>2, <2>3 DEF EntryOK
  <2> QED
    BY <1>1, <2>2, <2>4, <2>5, <2>6, BasicLetsIn DEF Workable, Accepts
<1>3. CASE e.multi = FALSE
  <2>1. cs = <<Legacy(e.flat)>>
    BY <1>3 DEF ResolveClusters
  <2>2. FlatFieldsOK(Normalised(e.flat)) /\ FlatOK(Normalised(e.flat))
    BY <1>3 DEF Accepts
  <2>3. Legacy(e.flat).name \in GoodNames
    BY <1>1, <2>2, FlatLegacy, NormalisedFields, ConfigAssumption DEF FlatOK
  <2>4. CanConnect(Legacy(e.flat))
    BY <1>1, <2>2, FlatLegacy DEF FlatFieldsOK, FlatOK, CredentialsGiven, CanConnect
  <2>5. Cardinality({cs[i].name : i \in DOMAIN cs}) = Len(cs)
    <3>1. {cs[i].name : i \in DOMAIN cs} = {Legacy(e.flat).name} /\ Len(cs) = 1
      BY <2>1
    <3> QED
      BY <3>1, FS_Singleton
  <2>6. cs # << >> /\ \A i \in DOMAIN cs : cs[i] = Legacy(e.flat)
    BY <2>1
  <2>7. \A i \in DOMAIN cs : cs[i].brokers = e.flat.brokers
    BY <1>1, <2>6, FlatLegacy
  <2>8. Canonical[e.mode] = "basic" =>
          \E n \in DOMAIN ParseUsers(e.users) : ParseUsers(e.users)[n].role \in Roles
    BY <1>1, BasicLetsIn DEF Accepts
  <2> HIDE DEF cs
  <2>9. \A i \in DOMAIN cs : cs[i].name \in GoodNames /\ CanConnect(cs[i])
    BY <2>3, <2>4, <2>6
  <2> QED
    BY <1>3, <2>5, <2>6, <2>7, <2>8, <2>9 DEF Workable, cs
<1> QED
  BY <1>1, <1>2, <1>3

\* A cluster that is described with flat variables is judged as it would be as the
\* only entry of KAFKASCOPE_CLUSTERS.
THEOREM DescriptionsJudgedAlike ==
    ASSUME NEW e \in Environment
    PROVE  JudgedAlike(e)
<1> DEFINE d == [e EXCEPT !.multi = TRUE, !.clusters = <<e.flat>>]
           c == Normalised(e.flat)
<1> SUFFICES ASSUME ~e.multi
             PROVE  Accepts(d) <=> Accepts(e) /\ Blank \notin {e.flat.brokers, e.flat.name}
  BY DEF JudgedAlike
<1>1. e.flat \in ClusterEntry /\ e.flat.isObject /\ e.flat.keysKnown
  BY DEF Environment
<1>2. /\ d.flat = e.flat /\ d.mode = e.mode /\ d.users = e.users
      /\ d.multi = TRUE /\ d.clusters = <<e.flat>>
  BY DEF Environment
<1>3. EntriesOK(<<e.flat>>) <=> EntryOK(e.flat)
  BY DEF EntriesOK
<1>4. EntryOK(e.flat) <=>
        e.flat.name \in GoodNames /\ e.flat.brokers # Blank /\ CoherentSecurity(c)
  BY <1>1 DEF EntryOK
<1>5. FlatOK(c) <=> /\ e.flat.name = Blank \/ e.flat.name \in GoodNames
                    /\ c.protocol \in SaslProtocols => c.mechanism # Blank /\ CredentialsGiven(c)
  BY <1>1, NormalisedFields DEF FlatOK
<1>6. CoherentSecurity(c) <=>
        /\ FlatFieldsOK(c)
        /\ c.protocol \in SaslProtocols => c.mechanism # Blank /\ CredentialsGiven(c)
  BY DEF CoherentSecurity, FlatFieldsOK
<1>7. Blank \notin GoodNames
  BY ConfigAssumption
<1> QED
  BY <1>2, <1>3, <1>4, <1>5, <1>6, <1>7 DEF Accepts

-----------------------------------------------------------------------------
(* Requests                                                                *)

RequestFields == {"phase", "kind", "url", "cookie", "header", "token", "ctx", "hit",
                  "audited", "under", "status"}

IsRequest(q) == q = [f \in RequestFields |-> q[f]]

MayWrite(k) == Role = "admin" /\ ~IsReadonly(k)

\* A post that passed the token check, and one that passed it under the secret its
\* call was made under.
Checked(q)  == q.kind = "post" /\ Enforced => q.header = q.cookie /\ Valid(q.cookie)
Admitted(q) == q.kind = "post" /\ Enforced =>
                   q.header = q.cookie /\ q.header # NoToken /\ q.header.secret = q.under

Untouched(q) == q.hit = NoCluster /\ q.audited = NoCluster /\ q.status = "none"

\* A request past the middlewares is at the cluster of its address, and a post past
\* require_write may write to it.
UnderWay(q) ==
    q.phase \in {"authorise", "call", "connect"} =>
        /\ Untouched(q)
        /\ q.ctx = q.url /\ q.url \in Clusters
        /\ Checked(q)
        /\ q.kind = "post" /\ q.phase # "authorise" => MayWrite(q.url)

Finished(q) ==
    \/ Untouched(q)
    \/ q.hit = NoCluster /\ q.audited = NoCluster /\ q.status # "ok"
    \/ /\ q.hit = q.url /\ q.url \in Clusters
       /\ q.audited \in {NoCluster, q.url}
       /\ q.kind = "post" => MayWrite(q.url) /\ q.audited = q.url
       /\ Admitted(q)

ReqInv(q) ==
    /\ IsRequest(q)
    /\ UnderWay(q)
    /\ Finished(q)
    /\ q.phase \in {"idle", "sent"} => Untouched(q)

StartInv ==
    /\ env \in Environment
    /\ started \in {"no", "yes", "refused"}
    /\ started = "yes" => Accepts(env)
    /\ started # "yes" => req = [t \in Tabs |-> NoRequest]

AdminsInv ==
    started = "yes" => /\ DOMAIN admins = Clusters
                       /\ \A k \in Clusters : admins[k] \in {NoCluster, k}

RInv ==
    /\ StartInv
    /\ AdminsInv
    /\ DOMAIN req = Tabs
    /\ \A t \in Tabs : ReqInv(req[t])

\* Nothing but Start changes what the settings say.
LEMMA SettingsStay ==
    ASSUME UNCHANGED <<env, started, caller>>
    PROVE  /\ Clusters' = Clusters
           /\ Enforced' <=> Enforced
           /\ \A k : MayWrite(k)' <=> MayWrite(k)
<1>1. Resolved' = Resolved
  BY DEF Resolved
<1>2. Clusters' = Clusters
  BY <1>1 DEF Clusters
<1>3. Role' = Role
  BY DEF Role, Mode, BasicRole, ProxyRole
<1>4. \A k : IsReadonly(k)' <=> IsReadonly(k)
  BY <1>1 DEF IsReadonly
<1> QED
  BY <1>1, <1>2, <1>3, <1>4 DEF Enforced, Mode, MayWrite

\* So a request that is not touched keeps its invariant, and one that is answered
\* does so whatever becomes of the secret.
LEMMA ReqInvStays ==
    ASSUME UNCHANGED <<env, started, caller>>, NEW q, ReqInv(q),
           epoch' = epoch \/ q.phase = "answered"
    PROVE  ReqInv(q)'
<1>1. IsRequest(q)' /\ (Untouched(q) <=> Untouched(q)')
  BY DEF ReqInv, IsRequest, Untouched
<1>2. Finished(q)'
  BY <1>1, SettingsStay DEF ReqInv, Finished, Admitted
<1>3. CASE epoch' = epoch
  <2>1. Checked(q) <=> Checked(q)'
    BY <1>3, SettingsStay DEF Checked, Valid, Secret
  <2> QED
    BY <1>1, <1>2, <2>1, SettingsStay DEF ReqInv, UnderWay
<1>4. CASE q.phase = "answered"
  BY <1>1, <1>2, <1>4 DEF ReqInv, UnderWay
<1> QED
  BY <1>3, <1>4

LEMMA InitRInv == Init => RInv
<1> SUFFICES ASSUME Init PROVE RInv
  OBVIOUS
<1>1. env \in Environment
  BY RequestsAssumption DEF Init
<1>2. ReqInv(NoRequest)
  BY DEF ReqInv, NoRequest, IsRequest, RequestFields, UnderWay, Finished, Untouched
<1> QED
  BY <1>1, <1>2 DEF Init, RInv, StartInv, AdminsInv

-----------------------------------------------------------------------------
(* One lemma per action                                                    *)

LEMMA StartRInv == RInv /\ Start => RInv'
<1> SUFFICES ASSUME RInv, Start PROVE RInv'
  OBVIOUS
<1>1. StartInv'
  BY DEF RInv, StartInv, Start
<1>2. AdminsInv'
  BY DEF AdminsInv, Start, NoClients
<1>3. req' = [t \in Tabs |-> NoRequest]
  BY DEF RInv, StartInv, Start
<1>4. ReqInv(NoRequest)'
  BY DEF ReqInv, NoRequest, IsRequest, RequestFields, UnderWay, Finished, Untouched
<1> QED
  BY <1>1, <1>2, <1>3, <1>4 DEF RInv

\* What is common to the steps of one tab's request.
LEMMA OneRequest ==
    ASSUME RInv, started = "yes", UNCHANGED <<env, started, caller, epoch>>, AdminsInv',
           NEW s \in Tabs, NEW q, ReqInv(q), req' = [req EXCEPT ![s] = q]
    PROVE  RInv'
<1>1. StartInv'
  BY DEF RInv, StartInv
<1>2. \A t \in Tabs : ReqInv(req'[t])
  BY DEF RInv
<1>3. \A t \in Tabs : ReqInv(req[t])'
  BY <1>2, ReqInvStays
<1> QED
  BY <1>1, <1>3 DEF RInv

\* The clients stay as they are.
LEMMA AdminsStay ==
    ASSUME RInv, UNCHANGED <<env, started, caller, admins>>
    PROVE  AdminsInv'
  BY SettingsStay DEF RInv, AdminsInv

\* A request that is on its way is one of a process that has started.
LEMMA HasStarted ==
    ASSUME RInv, NEW t \in Tabs, req[t] # NoRequest
    PROVE  started = "yes"
  BY DEF RInv, StartInv

LEMMA SendRInv ==
    ASSUME RInv, NEW t \in Tabs, NEW kind, NEW url, NEW header, Send(t, kind, url, header)
    PROVE  RInv'
<1> DEFINE q == [NoRequest EXCEPT !.phase = "sent", !.kind = kind, !.url = url,
                                  !.cookie = cookie, !.header = header]
<1>1. ReqInv(q)
  BY DEF ReqInv, NoRequest, IsRequest, RequestFields, UnderWay, Finished, Untouched
<1>2. req' = [req EXCEPT ![t] = q] /\ started = "yes"
  BY DEF Send
<1>3. UNCHANGED <<env, started, caller, epoch, admins>>
  BY DEF Send
<1> HIDE DEF q
<1> QED
  BY <1>1, <1>2, <1>3, AdminsStay, OneRequest

LEMMA EnterRInv ==
    ASSUME RInv, NEW t \in Tabs, Enter(t)
    PROVE  RInv'
<1>1. UNCHANGED <<env, started, caller, epoch, admins>> /\ req[t].phase = "sent"
  BY DEF Enter
<1>2. started = "yes"
  BY <1>1, HasStarted DEF NoRequest
<1>3. IsRequest(req[t]) /\ Untouched(req[t])
  BY <1>1 DEF RInv, ReqInv
<1> DEFINE q == [req[t] EXCEPT !.token = TokenFor(req[t].cookie), !.phase = "answered"]
           csrf == [q EXCEPT !.token = q.cookie, !.status = "csrf"]
           unknown == [q EXCEPT !.status = "unauthenticated"]
           missing == [q EXCEPT !.status = "missing"]
           routed == [q EXCEPT !.ctx = Context(q.url),
                               !.phase = IF q.kind = "post" THEN "authorise" ELSE "call"]
<1>4. ReqInv(csrf) /\ ReqInv(unknown) /\ ReqInv(missing)
  BY <1>3 DEF ReqInv, IsRequest, RequestFields, UnderWay, Finished, Untouched
<1>5. ASSUME Enforced /\ q.kind = "post" => TokensMatch(t), q.url \in Clusters
      PROVE  ReqInv(routed)
  <2>1. IsRequest(routed) /\ Untouched(routed)
    BY <1>3 DEF IsRequest, RequestFields, Untouched
  <2>2. /\ routed.ctx = routed.url /\ routed.url = q.url /\ routed.kind = q.kind
        /\ routed.header = req[t].header /\ routed.cookie = req[t].cookie
        /\ routed.phase = IF q.kind = "post" THEN "authorise" ELSE "call"
        /\ q.kind = req[t].kind
    BY <1>3 DEF IsRequest, RequestFields, Context
  <2>3. Checked(routed)
    BY <1>5, <2>2 DEF Checked, TokensMatch, Valid
  <2> HIDE DEF routed
  <2> QED
    BY <1>5, <2>1, <2>2, <2>3 DEF ReqInv, UnderWay, Finished
<1>6. \/ req' = [req EXCEPT ![t] = csrf]
      \/ req' = [req EXCEPT ![t] = unknown]
      \/ req' = [req EXCEPT ![t] = missing]
      \/ /\ req' = [req EXCEPT ![t] = routed]
         /\ Enforced /\ q.kind = "post" => TokensMatch(t)
         /\ q.url \in Clusters
  BY DEF Enter
<1>7. AdminsInv'
  BY <1>1, AdminsStay
<1> HIDE DEF csrf, unknown, missing, routed
<1>8. CASE req' = [req EXCEPT ![t] = csrf]
  BY <1>1, <1>2, <1>4, <1>7, <1>8, OneRequest
<1>9. CASE req' = [req EXCEPT ![t] = unknown]
  BY <1>1, <1>2, <1>4, <1>7, <1>9, OneRequest
<1>10. CASE req' = [req EXCEPT ![t] = missing]
  BY <1>1, <1>2, <1>4, <1>7, <1>10, OneRequest
<1>11. CASE req' = [req EXCEPT ![t] = routed] /\ ReqInv(routed)
  BY <1>1, <1>2, <1>7, <1>11, OneRequest
<1> QED
  BY <1>5, <1>6, <1>8, <1>9, <1>10, <1>11

LEMMA AuthoriseRInv ==
    ASSUME RInv, NEW t \in Tabs, Authorise(t)
    PROVE  RInv'
<1>1. UNCHANGED <<env, started, caller, epoch, admins>> /\ req[t].phase = "authorise"
  BY DEF Authorise
<1>2. started = "yes" /\ AdminsInv'
  BY <1>1, HasStarted, AdminsStay DEF NoRequest
<1>3. ReqInv(req[t]) /\ DOMAIN req = Tabs
  BY DEF RInv
<1> DEFINE ok == [req[t] EXCEPT !.phase = "call"]
           no == [req[t] EXCEPT !.phase = "answered", !.status = "forbidden"]
<1>4. ReqInv(no) /\ (CanWrite(t) => ReqInv(ok))
  BY <1>1, <1>3 DEF ReqInv, IsRequest, RequestFields, UnderWay, Finished, Untouched, Checked, CanWrite, MayWrite
<1>5. CASE CanWrite(t)
  <2>1. req' = [req EXCEPT ![t] = ok]
    BY <1>3, <1>5 DEF Authorise
  <2> HIDE DEF ok
  <2> QED
    BY <1>1, <1>2, <1>4, <1>5, <2>1, OneRequest
<1>6. CASE ~CanWrite(t)
  <2>1. req' = [req EXCEPT ![t] = no]
    BY <1>3, <1>6 DEF Authorise, Respond
  <2> HIDE DEF no
  <2> QED
    BY <1>1, <1>2, <1>4, <2>1, OneRequest
<1> QED
  BY <1>5, <1>6

\* A call with the client of the request's own cluster.
LEMMA CallRInv ==
    ASSUME RInv, NEW t \in Tabs, req[t].phase \in {"call", "connect"}, Call(t, req[t].url),
           UNCHANGED <<env, started, caller, epoch>>, AdminsInv'
    PROVE  RInv'
<1>1. started = "yes"
  BY HasStarted DEF NoRequest
<1>2. ReqInv(req[t])
  BY DEF RInv
<1>3. PICK worked \in BOOLEAN :
        req' = [req EXCEPT ![t] =
             [req[t] EXCEPT !.phase = "answered", !.hit = req[t].url,
                       !.under = Secret,
                       !.audited = IF req[t].kind = "post" THEN req[t].ctx ELSE NoCluster,
                       !.status = IF req[t].kind = "post" \/ worked THEN "ok" ELSE "broken",
                       !.token = IF req[t].kind = "post" \/ worked THEN req[t].token
                                                                   ELSE req[t].cookie]]
  BY DEF Call
<1> DEFINE q == [req[t] EXCEPT !.phase = "answered", !.hit = req[t].url,
                       !.under = Secret,
                       !.audited = IF req[t].kind = "post" THEN req[t].ctx ELSE NoCluster,
                       !.status = IF req[t].kind = "post" \/ worked THEN "ok" ELSE "broken",
                       !.token = IF req[t].kind = "post" \/ worked THEN req[t].token
                                                                   ELSE req[t].cookie]
<1>4. /\ IsRequest(q)
      /\ q.phase = "answered" /\ q.hit = req[t].url /\ q.url = req[t].url
      /\ q.kind = req[t].kind /\ q.header = req[t].header /\ q.cookie = req[t].cookie
      /\ q.audited = IF req[t].kind = "post" THEN req[t].ctx ELSE NoCluster
      /\ q.under = Secret
  BY <1>2 DEF ReqInv, IsRequest, RequestFields
<1>5. req' = [req EXCEPT ![t] = q]
  BY <1>3
<1> HIDE DEF q
<1>6. ReqInv(q)
  BY <1>2, <1>4 DEF ReqInv, UnderWay, Finished, Checked, Admitted, Valid
<1> QED
  BY <1>1, <1>5, <1>6, OneRequest

\* A request past the middlewares has its cluster, and that cluster its client.
LEMMA AtOwnCluster ==
    ASSUME RInv, NEW t \in Tabs, req[t].phase \in {"call", "connect"}
    PROVE  /\ started = "yes"
           /\ Key(t) = req[t].url /\ req[t].ctx = req[t].url
           /\ req[t].url \in Clusters
           /\ DOMAIN admins = Clusters
           /\ admins[req[t].url] \in {NoCluster, req[t].url}
<1>1. started = "yes"
  BY HasStarted DEF NoRequest
<1> QED
  BY <1>1 DEF RInv, ReqInv, UnderWay, AdminsInv, Key

LEMMA UseClientRInv ==
    ASSUME RInv, NEW t \in Tabs, UseClient(t)
    PROVE  RInv'
<1>1. UNCHANGED <<env, started, caller, epoch, admins>> /\ req[t].phase = "call"
  BY DEF UseClient
<1>2. started = "yes" /\ AdminsInv' /\ ReqInv(req[t])
  BY <1>1, AtOwnCluster, AdminsStay DEF RInv
<1>3. CASE admins[Key(t)] # NoCluster
  BY <1>1, <1>2, <1>3, AtOwnCluster, CallRInv DEF UseClient
<1>4. CASE admins[Key(t)] = NoCluster
  <2> DEFINE q == [req[t] EXCEPT !.phase = "connect"]
  <2>1. ReqInv(q)
    BY <1>1, <1>2 DEF ReqInv, IsRequest, RequestFields, UnderWay, Finished, Untouched, Checked
  <2>2. req' = [req EXCEPT ![t] = q]
    BY <1>4 DEF UseClient
  <2> HIDE DEF q
  <2> QED
    BY <1>1, <1>2, <2>1, <2>2, OneRequest
<1> QED
  BY <1>3, <1>4

LEMMA MakeClientRInv ==
    ASSUME RInv, NEW t \in Tabs, MakeClient(t)
    PROVE  RInv'
<1>1. UNCHANGED <<env, started, caller, epoch>> /\ req[t].phase = "connect"
  BY DEF MakeClient
<1>2. admins' = [admins EXCEPT ![req[t].url] = req[t].url] /\ Call(t, req[t].url)
  BY <1>1, AtOwnCluster DEF MakeClient
<1>3. AdminsInv'
  BY <1>1, <1>2, AtOwnCluster, SettingsStay DEF RInv, AdminsInv
<1> QED
  BY <1>1, <1>2, <1>3, CallRInv

LEMMA ArriveRInv ==
    ASSUME RInv, NEW t \in Tabs, Arrive(t)
    PROVE  RInv'
<1>1. UNCHANGED <<env, started, caller, epoch, admins>> /\ req[t].phase = "answered"
      /\ req' = [req EXCEPT ![t] = NoRequest]
  BY DEF Arrive
<1>2. started = "yes" /\ AdminsInv'
  BY <1>1, HasStarted, AdminsStay DEF NoRequest
<1>3. ReqInv(NoRequest)
  BY DEF ReqInv, NoRequest, IsRequest, RequestFields, UnderWay, Finished, Untouched
<1> QED
  BY <1>1, <1>2, <1>3, OneRequest

LEMMA RestartRInv == RInv /\ Restart => RInv'
<1> SUFFICES ASSUME RInv, Restart PROVE RInv'
  OBVIOUS
<1>1. UNCHANGED <<env, started, caller>> /\ started = "yes" /\ admins' = NoClients
  BY DEF Restart
<1>2. AdminsInv'
  BY <1>1, SettingsStay DEF AdminsInv, NoClients
<1>3. ReqInv(NoRequest)
  BY DEF ReqInv, NoRequest, IsRequest, RequestFields, UnderWay, Finished, Untouched
<1>4. /\ DOMAIN req' = Tabs
      /\ \A t \in Tabs : /\ ReqInv(req'[t])
                         /\ req'[t].phase = "answered" \/ req'[t] = NoRequest
  BY <1>3 DEF RInv, Restart
<1>5. ReqInv(NoRequest)'
  BY DEF ReqInv, NoRequest, IsRequest, RequestFields, UnderWay, Finished, Untouched
<1>6. \A t \in Tabs : ReqInv(req[t])'
  BY <1>1, <1>4, <1>5, ReqInvStays
<1> QED
  BY <1>1, <1>2, <1>4, <1>6 DEF RInv, StartInv

LEMMA StutterRInv == RInv /\ UNCHANGED vars => RInv'
<1> SUFFICES ASSUME RInv, UNCHANGED vars PROVE RInv'
  OBVIOUS
<1>1. UNCHANGED <<env, started, caller, epoch, admins, req>>
  BY DEF vars
<1>2. \A t \in Tabs : ReqInv(req[t])'
  BY <1>1, ReqInvStays DEF RInv
<1> QED
  BY <1>1, <1>2, AdminsStay DEF RInv, StartInv

LEMMA NextRInv == RInv /\ [Next]_vars => RInv'
<1> SUFFICES ASSUME RInv, [Next]_vars PROVE RInv'
  OBVIOUS
<1>1. CASE Start
  BY <1>1, StartRInv
<1>2. ASSUME NEW t \in Tabs, Load(t)
      PROVE  RInv'
  BY <1>2, SendRInv DEF Load
<1>3. ASSUME NEW t \in Tabs, Post(t)
      PROVE  RInv'
  BY <1>3, SendRInv DEF Post
<1>4. ASSUME NEW t \in Tabs, ServerStep(t)
      PROVE  RInv'
  BY <1>4, EnterRInv, AuthoriseRInv, UseClientRInv, MakeClientRInv DEF ServerStep
<1>5. ASSUME NEW t \in Tabs, Arrive(t)
      PROVE  RInv'
  BY <1>5, ArriveRInv
<1>6. CASE Restart
  BY <1>6, RestartRInv
<1>7. CASE UNCHANGED vars
  BY <1>7, StutterRInv
<1> QED
  BY <1>1, <1>2, <1>3, <1>4, <1>5, <1>6, <1>7 DEF Next

LEMMA RequestsInvariant == Spec => []RInv
  BY InitRInv, NextRInv, PTL DEF Spec

-----------------------------------------------------------------------------
(* Theorems                                                                *)

\* The settings of a process that runs work, and the two ways to describe a cluster
\* agree, for every environment.
THEOREM ConfigIsSound == Spec => []ConfigSound
<1>1. RInv => ConfigSound
  BY AcceptedWorks, DescriptionsJudgedAlike DEF RInv, StartInv, ConfigSound
<1> QED
  BY <1>1, RequestsInvariant, PTL

\* No request, its client or its audit line ever lands at another cluster.
THEOREM ReachesOwnCluster == Spec => []OwnCluster
<1>1. RInv => OwnCluster
  BY DEF RInv, ReqInv, Finished, Untouched, OwnCluster
<1> QED
  BY <1>1, RequestsInvariant, PTL

\* What reached a cluster with a post was entitled to, and is audited.
THEOREM WritesAreEntitled == Spec => []WritesEntitled
<1>1. ASSUME RInv, NEW t \in Tabs, req[t].kind = "post", req[t].hit # NoCluster
      PROVE  /\ Role = "admin"
             /\ ~env.readonly
             /\ \A i \in DOMAIN Resolved : Resolved[i].name = req[t].url => ~Resolved[i].readonly
             /\ Enforced => /\ req[t].header = req[t].cookie
                            /\ req[t].header # NoToken /\ req[t].header.secret = req[t].under
             /\ req[t].audited # NoCluster
  <2>1. MayWrite(req[t].url) /\ Admitted(req[t]) /\ req[t].audited = req[t].hit
    BY <1>1 DEF RInv, ReqInv, Finished, Untouched
  <2> QED
    BY <1>1, <2>1 DEF MayWrite, IsReadonly, Admitted
<1>2. RInv => WritesEntitled
  BY <1>1 DEF WritesEntitled
<1> QED
  BY <1>2, RequestsInvariant, PTL

-----------------------------------------------------------------------------
(* Type correctness                                                        *)

\* A set of numbers has a least one, and one below a bound a greatest.
LEMMA Least ==
    ASSUME NEW T, T \subseteq Nat, T # {}
    PROVE  \E x \in T : \A y \in T : x <= y
<1> DEFINE R == OpToRel(<, Nat)
<1>1. \A x, y \in Nat : <<x, y>> \in R <=> x < y
  BY DEF OpToRel
<1>2. IsWellFoundedOn(R, Nat)
  BY NatLessThanWellFounded
<1> HIDE DEF R
<1>3. PICK x \in T : \A y \in T : ~(<<y, x>> \in R)
  BY <1>2, WFMin
<1>4. ASSUME NEW y \in T PROVE x <= y
  <2>1. x \in Nat /\ y \in Nat
    OBVIOUS
  <2>2. ~(y < x)
    BY <1>1, <1>3, <2>1
  <2> QED
    BY <2>1, <2>2
<1> QED
  BY <1>4
LEMMA Greatest ==
    ASSUME NEW m \in Nat, NEW T, T \subseteq 1 .. m, T # {}
    PROVE  \E x \in T : \A y \in T : y <= x
<1> DEFINE D == {m - x : x \in T}
<1>1. D \subseteq Nat /\ D # {}
  <2>1. \A x \in T : m - x \in Nat
    OBVIOUS
  <2> QED
    BY <2>1
<1>2. PICK d \in D : \A y \in D : d <= y
  <2> HIDE DEF D
  <2> QED
  BY <1>1, Least
<1>3. PICK x \in T : d = m - x
  BY <1>2
<1>4. \A y \in T : m - x <= m - y
  BY <1>2, <1>3
<1>5. \A y \in T : x \in 1 .. m /\ y \in 1 .. m
  OBVIOUS
<1> QED
  BY <1>4, <1>5

-----------------------------------------------------------------------------
\* What the tabs hold of a kind is at most one each.
LEMMA OnePerTab ==
    ASSUME NEW f
    PROVE  LET S == {f[t] : t \in Tabs} IN
           IsFiniteSet(S) /\ Cardinality(S) <= Cardinality(Tabs)
<1> DEFINE S == {f[t] : t \in Tabs}
           g == [t \in Tabs |-> f[t]]
<1>1. g \in Surjection(Tabs, S)
  BY DEF Surjection
<1> HIDE DEF S, g
<1> QED
  BY <1>1, FS_Surjection, RequestsAssumption DEF S

LEMMA UnionCount ==
    ASSUME NEW S, NEW T, NEW m \in Nat, NEW n \in Nat,
           IsFiniteSet(S), Cardinality(S) <= m, IsFiniteSet(T), Cardinality(T) <= n
    PROVE  IsFiniteSet(S \cup T) /\ Cardinality(S \cup T) <= m + n
<1>1. IsFiniteSet(S \cup T) /\ IsFiniteSet(S \cap T)
  BY FS_Union, FS_Intersection
<1>2. /\ Cardinality(S) \in Nat /\ Cardinality(T) \in Nat
      /\ Cardinality(S \cap T) \in Nat
  BY <1>1, FS_CardinalityType
<1>3. Cardinality(S \cup T) = Cardinality(S) + Cardinality(T) - Cardinality(S \cap T)
  BY FS_Union
<1> QED
  BY <1>1, <1>2, <1>3

\* There are more serials than tokens anybody holds, so a fresh one is there.
LEMMA FreshToken ==
    ASSUME Secret \in 0 .. MaxRestarts
    PROVE  IssueToken \in Token
<1> DEFINE c == Cardinality(Tabs)
           Pages   == {page[t].token : t \in Tabs}
           Cookies == {req[t].cookie : t \in Tabs}
           Headers == {req[t].header : t \in Tabs}
           Tokens  == {req[t].token : t \in Tabs}
           known == {cookie} \cup {page[t].token : t \in Tabs}
                    \cup UNION {{req[t].cookie, req[t].header, req[t].token} : t \in Tabs}
           tok(n) == [secret |-> Secret, serial |-> n]
           used == {n \in Serials : tok(n) \in known}
<1>1. c \in Nat
  BY RequestsAssumption, FS_CardinalityType
<1>2. /\ IsFiniteSet(Pages) /\ Cardinality(Pages) <= c
      /\ IsFiniteSet(Cookies) /\ Cardinality(Cookies) <= c
      /\ IsFiniteSet(Headers) /\ Cardinality(Headers) <= c
      /\ IsFiniteSet(Tokens) /\ Cardinality(Tokens) <= c
  <2>1. /\ Pages = {[s \in Tabs |-> page[s].token][t] : t \in Tabs}
        /\ Cookies = {[s \in Tabs |-> req[s].cookie][t] : t \in Tabs}
        /\ Headers = {[s \in Tabs |-> req[s].header][t] : t \in Tabs}
        /\ Tokens = {[s \in Tabs |-> req[s].token][t] : t \in Tabs}
    OBVIOUS
  <2> HIDE DEF Pages, Cookies, Headers, Tokens, c
  <2>2. IsFiniteSet(Pages) /\ Cardinality(Pages) <= Cardinality(Tabs)
    BY <2>1, OnePerTab
  <2>3. IsFiniteSet(Cookies) /\ Cardinality(Cookies) <= Cardinality(Tabs)
    BY <2>1, OnePerTab
  <2>4. IsFiniteSet(Headers) /\ Cardinality(Headers) <= Cardinality(Tabs)
    BY <2>1, OnePerTab
  <2>5. IsFiniteSet(Tokens) /\ Cardinality(Tokens) <= Cardinality(Tabs)
    BY <2>1, OnePerTab
  <2> QED
    BY <2>2, <2>3, <2>4, <2>5 DEF c
<1>3. known = (({cookie} \cup Pages) \cup Cookies) \cup (Headers \cup Tokens)
  <2>1. UNION {{req[t].cookie, req[t].header, req[t].token} : t \in Tabs}
          = Cookies \cup (Headers \cup Tokens)
    OBVIOUS
  <2> HIDE DEF Cookies, Headers, Tokens
  <2> QED
    BY <2>1
<1>4. IsFiniteSet(known) /\ Cardinality(known) <= 4 * c + 1
  <2> HIDE DEF Pages, Cookies, Headers, Tokens, known, c
  <2>1. IsFiniteSet({cookie}) /\ Cardinality({cookie}) <= 1
    BY FS_Singleton
  <2>2. IsFiniteSet({cookie} \cup Pages) /\ Cardinality({cookie} \cup Pages) <= 1 + c
    BY <1>1, <1>2, <2>1, UnionCount
  <2>3. /\ IsFiniteSet(({cookie} \cup Pages) \cup Cookies)
        /\ Cardinality(({cookie} \cup Pages) \cup Cookies) <= (1 + c) + c
    <3>1. 1 + c \in Nat
      BY <1>1
    <3> QED
      BY <1>1, <1>2, <2>2, <3>1, UnionCount
  <2>4. IsFiniteSet(Headers \cup Tokens) /\ Cardinality(Headers \cup Tokens) <= c + c
    BY <1>1, <1>2, UnionCount
  <2>5. IsFiniteSet(known) /\ Cardinality(known) <= ((1 + c) + c) + (c + c)
    <3>1. (1 + c) + c \in Nat /\ c + c \in Nat
      BY <1>1
    <3> QED
      BY <1>3, <2>3, <2>4, <3>1, UnionCount
  <2>6. ((1 + c) + c) + (c + c) = 4 * c + 1
    BY <1>1
  <2> QED
    BY <2>5, <2>6
<1>5. Cardinality(used) <= Cardinality(known)
  <2> DEFINE f == [n \in used |-> tok(n)]
  <2>1. f \in Injection(used, known)
    <3>1. \A m, n \in used : tok(m) = tok(n) => m = n
      <4>1. \A m : tok(m).serial = m
        OBVIOUS
      <4> QED
        BY <4>1
    <3>2. \A n \in used : tok(n) \in known
      OBVIOUS
    <3> HIDE DEF used, known, tok
    <3> QED
      BY <3>1, <3>2 DEF Injection, IsInjective
  <2> HIDE DEF used, known, f
  <2> QED
    BY <1>4, <2>1, FS_Injection
<1>6. Cardinality(Serials) = 4 * c + 2
  <2> HIDE DEF c
  <2>1. 0 \in Int /\ 4 * c + 1 \in Int /\ ~(0 > 4 * c + 1) /\ (4 * c + 1) - 0 + 1 = 4 * c + 2
    BY <1>1
  <2>2. Cardinality(0 .. 4 * c + 1) = (4 * c + 1) - 0 + 1
    BY <2>1, FS_Interval
  <2> QED
    BY <2>1, <2>2 DEF Serials, c
<1>7. \E n \in Serials : tok(n) \notin known
  <2>1. used # Serials
    <3> HIDE DEF used, known, c
    <3>1. Cardinality(known) \in Nat
      BY <1>4, FS_CardinalityType
    <3> QED
      BY <1>1, <1>4, <1>5, <1>6, <3>1
  <2> QED
    BY <2>1
<1>8. IssueToken = [secret |-> Secret, serial |-> CHOOSE n \in Serials : tok(n) \notin known]
  BY DEF IssueToken
<1> HIDE DEF known
<1>9. (CHOOSE n \in Serials : tok(n) \notin known) \in Serials
  BY <1>7
<1> QED
  BY <1>8, <1>9 DEF Token

-----------------------------------------------------------------------------
\* Settings that were accepted give everybody a role the code knows.
LEMMA RoleKnown == RInv => Role \in Roles \cup {"unknown"}
<1> SUFFICES ASSUME RInv PROVE Role \in Roles \cup {"unknown"}
  OBVIOUS
<1>1. CASE started = "yes" /\ Mode = "basic" /\ BasicRole # "unknown"
  <2> DEFINE users == env.users
             S == {i \in DOMAIN users : users[i].name = caller.name}
             Is(i) == /\ users[i].name = caller.name
                      /\ \A j \in DOMAIN users : users[j].name = caller.name => j <= i
             last == CHOOSE i \in DOMAIN users : Is(i)
  <2>1. users \in Seq(UserEntry) /\ \A i \in DOMAIN users : UserEntryOK(users[i])
    BY <1>1 DEF RInv, StartInv, Accepts, Environment, Mode
  <2>2. caller.name \in DOMAIN ParseUsers(users)
        /\ BasicRole = ParseUsers(users)[caller.name].role
    BY <1>1 DEF BasicRole
  <2>3. S \subseteq 1 .. Len(users) /\ Len(users) \in Nat /\ S # {}
    BY <2>1, <2>2 DEF ParseUsers
  <2>4. \E i \in DOMAIN users : Is(i)
    <3>1. PICK i \in S : \A j \in S : j <= i
      <4> HIDE DEF S
      <4> QED
        BY <2>3, Greatest
    <3> QED
      BY <3>1
  <2>5. last \in DOMAIN users
    BY <2>4
  <2>6. LastEntry(users, caller.name) = users[last]
    BY DEF LastEntry
  <2>7. BasicRole = Canonical[users[last].role]
    BY <2>2, <2>6 DEF ParseUsers
  <2> QED
    BY <1>1, <2>1, <2>5, <2>7 DEF UserEntryOK, Role
<1>2. CASE started = "yes" /\ Mode = "basic" /\ BasicRole = "unknown"
  BY <1>2 DEF Role
<1>3. CASE started = "yes" /\ Mode = "proxy"
  BY <1>3 DEF Role, ProxyRole
<1>4. CASE started # "yes" \/ Mode = "none"
  BY <1>4 DEF Role
<1>5. started = "yes" => Mode \in AuthModes
  BY DEF RInv, StartInv, Accepts, Mode
<1> QED
  BY <1>1, <1>2, <1>3, <1>4, <1>5

Addresses   == {Address[t] : t \in Tabs}
TokenOrNone == Token \cup {NoToken}
KnownOrNone == Clusters \cup {NoCluster}

RequestType ==
    [phase : {"idle", "sent", "authorise", "call", "connect", "answered"},
     kind : {"none", "load", "post"}, url : Addresses \cup {NoCluster},
     cookie : TokenOrNone, header : TokenOrNone, token : TokenOrNone,
     ctx : KnownOrNone, hit : KnownOrNone, audited : KnownOrNone,
     under : 0 .. MaxRestarts,
     status : {"none", "ok", "broken", "csrf", "unauthenticated", "missing",
               "forbidden"}]

PageType == [url : KnownOrNone, token : TokenOrNone, refused : BOOLEAN]

\* The types, and what keeps them: a page is of a cluster that some tab addresses,
\* nothing is shown before the process is up, and a request has a kind.
TInv ==
    /\ caller \in Callers
    /\ epoch \in 0 .. MaxRestarts
    /\ admins \in [Clusters -> KnownOrNone]
    /\ cookie \in TokenOrNone
    /\ page \in [Tabs -> PageType]
    /\ req \in [Tabs -> RequestType]
    /\ \A t \in Tabs : page[t].url \in Addresses \cup {NoCluster}
    /\ started # "yes" => page = [t \in Tabs |-> NoPage]
    /\ \A t \in Tabs : req[t].phase # "idle" => req[t].kind # "none"

LEMMA NothingTyped == NoRequest \in RequestType /\ NoPage \in PageType
  BY RequestsAssumption DEF NoRequest, NoPage, RequestType, PageType, TokenOrNone, KnownOrNone

LEMMA InitTInv == Init => TInv
<1> SUFFICES ASSUME Init PROVE TInv
  OBVIOUS
<1>1. Clusters = {}
  BY DEF Init, Clusters, Resolved
<1>2. admins \in [Clusters -> KnownOrNone]
  BY <1>1 DEF Init
<1>3. epoch \in 0 .. MaxRestarts
  BY RequestsAssumption DEF Init
<1>4. page \in [Tabs -> PageType] /\ req \in [Tabs -> RequestType]
  BY NothingTyped DEF Init
<1> QED
  BY <1>2, <1>3, <1>4 DEF Init, TInv, TokenOrNone, NoRequest, NoPage

\* The clusters are those of before.
LEMMA TypesStay ==
    ASSUME UNCHANGED <<env, started, caller>>
    PROVE  KnownOrNone' = KnownOrNone /\ RequestType' = RequestType /\ PageType' = PageType
<1>1. KnownOrNone' = KnownOrNone
  BY SettingsStay DEF KnownOrNone
<1> QED
  BY <1>1 DEF RequestType, PageType

LEMMA StartTInv == RInv /\ TInv /\ Start => TInv'
<1> SUFFICES ASSUME RInv, TInv, Start PROVE TInv'
  OBVIOUS
<1>1. page' = [t \in Tabs |-> NoPage] /\ req' = [t \in Tabs |-> NoRequest]
  BY DEF RInv, StartInv, TInv, Start
<1>2. NoRequest \in RequestType' /\ NoPage \in PageType'
  BY RequestsAssumption DEF NoRequest, NoPage, RequestType, PageType, TokenOrNone, KnownOrNone
<1>3. admins' \in [Clusters' -> KnownOrNone']
  BY DEF Start, NoClients, KnownOrNone
<1>4. caller' \in Callers /\ epoch' \in 0 .. MaxRestarts /\ cookie' \in TokenOrNone
  BY DEF TInv, Start
<1>5. page' \in [Tabs -> PageType'] /\ req' \in [Tabs -> RequestType']
  BY <1>1, <1>2
<1>6. \A t \in Tabs : /\ page'[t].url = NoCluster
                       /\ req'[t].phase = "idle"
  BY <1>1 DEF NoRequest, NoPage
<1> QED
  BY <1>1, <1>3, <1>4, <1>5, <1>6 DEF TInv, Addresses, TokenOrNone

\* What is common to the steps of one tab's request.
LEMMA OneTyped ==
    ASSUME TInv, started = "yes", UNCHANGED <<env, started, caller, epoch, cookie, page>>,
           admins' \in [Clusters -> KnownOrNone],
           NEW s \in Tabs, NEW q \in RequestType, q.kind # "none",
           req' = [req EXCEPT ![s] = q]
    PROVE  TInv'
<1>1. Clusters' = Clusters
  BY SettingsStay
<1>2. req' \in [Tabs -> RequestType]
  BY DEF TInv
<1>3. \A t \in Tabs : req'[t].phase # "idle" => req'[t].kind # "none"
  BY DEF TInv
<1> QED
  BY <1>1, <1>2, <1>3, TypesStay DEF TInv

LEMMA SendTInv ==
    ASSUME TInv, NEW t \in Tabs, NEW kind \in {"load", "post"},
           NEW url \in Addresses \cup {NoCluster}, NEW header \in TokenOrNone,
           Send(t, kind, url, header)
    PROVE  TInv'
<1> DEFINE q == [NoRequest EXCEPT !.phase = "sent", !.kind = kind, !.url = url,
                                  !.cookie = cookie, !.header = header]
<1>1. q \in RequestType /\ q.kind # "none"
  <2>1. NoRequest \in RequestType /\ cookie \in TokenOrNone
    BY NothingTyped DEF TInv
  <2> HIDE DEF NoRequest
  <2> QED
    BY <2>1 DEF RequestType
<1>2. req' = [req EXCEPT ![t] = q] /\ started = "yes"
      /\ UNCHANGED <<env, started, caller, epoch, admins, cookie, page>>
  BY DEF Send
<1>3. admins' \in [Clusters -> KnownOrNone]
  BY <1>2 DEF TInv
<1> HIDE DEF q
<1> QED
  BY <1>1, <1>2, <1>3, OneTyped

LEMMA EnterTInv ==
    ASSUME RInv, TInv, NEW t \in Tabs, Enter(t)
    PROVE  TInv'
<1>1. /\ UNCHANGED <<env, started, caller, epoch, admins, cookie, page>>
      /\ req[t].phase = "sent"
  BY DEF Enter
<1>2. started = "yes" /\ admins' \in [Clusters -> KnownOrNone]
  BY <1>1, HasStarted DEF NoRequest, TInv
<1>3. req[t] \in RequestType /\ req[t].kind # "none"
  BY <1>1 DEF TInv
<1>4. TokenFor(req[t].cookie) \in TokenOrNone
  <2>1. Secret \in 0 .. MaxRestarts
    BY RequestsAssumption DEF Secret, TInv
  <2>2. req[t].cookie \in TokenOrNone
    BY <1>3 DEF RequestType
  <2> QED
    BY <2>1, <2>2, FreshToken DEF TokenFor, TokenOrNone
<1> DEFINE q == [req[t] EXCEPT !.token = TokenFor(req[t].cookie), !.phase = "answered"]
           csrf == [q EXCEPT !.token = q.cookie, !.status = "csrf"]
           unknown == [q EXCEPT !.status = "unauthenticated"]
           missing == [q EXCEPT !.status = "missing"]
           routed == [q EXCEPT !.ctx = Context(q.url),
                               !.phase = IF q.kind = "post" THEN "authorise" ELSE "call"]
<1>5. q \in RequestType /\ q.kind # "none"
  BY <1>3, <1>4 DEF RequestType
<1>6. \/ req' = [req EXCEPT ![t] = csrf]
      \/ req' = [req EXCEPT ![t] = unknown]
      \/ req' = [req EXCEPT ![t] = missing]
      \/ req' = [req EXCEPT ![t] = routed] /\ q.url \in Clusters
  BY DEF Enter
<1>7. /\ csrf \in RequestType /\ csrf.kind # "none"
      /\ unknown \in RequestType /\ unknown.kind # "none"
      /\ missing \in RequestType /\ missing.kind # "none"
  <2> HIDE DEF q
  <2> QED
    BY <1>5 DEF RequestType
<1>8. q.url \in Clusters => routed \in RequestType /\ routed.kind # "none"
  <2> HIDE DEF q
  <2> QED
    BY ZenonT(40), <1>5 DEF RequestType, Context, KnownOrNone
<1> HIDE DEF csrf, unknown, missing, routed
<1> QED
  BY <1>1, <1>2, <1>6, <1>7, <1>8, OneTyped

LEMMA AuthoriseTInv ==
    ASSUME RInv, TInv, NEW t \in Tabs, Authorise(t)
    PROVE  TInv'
<1>1. /\ UNCHANGED <<env, started, caller, epoch, admins, cookie, page>>
      /\ req[t].phase = "authorise"
  BY DEF Authorise
<1>2. started = "yes" /\ admins' \in [Clusters -> KnownOrNone]
  BY <1>1, HasStarted DEF NoRequest, TInv
<1>3. req[t] \in RequestType /\ req[t].kind # "none"
  BY <1>1 DEF TInv
<1> DEFINE ok == [req[t] EXCEPT !.phase = "call"]
           no == [req[t] EXCEPT !.phase = "answered", !.status = "forbidden"]
<1>4. /\ ok \in RequestType /\ ok.kind # "none"
      /\ no \in RequestType /\ no.kind # "none"
  BY <1>3 DEF RequestType
<1>5. req' = [req EXCEPT ![t] = ok] \/ req' = [req EXCEPT ![t] = no]
  BY DEF Authorise, Respond, TInv
<1> HIDE DEF ok, no
<1> QED
  BY <1>1, <1>2, <1>4, <1>5, OneTyped

\* A call with the client of some cluster.
LEMMA CallTyped ==
    ASSUME RInv, TInv, NEW t \in Tabs, req[t].phase \in {"call", "connect"},
           NEW k \in KnownOrNone, Call(t, k),
           UNCHANGED <<env, started, caller, epoch, cookie, page>>,
           admins' \in [Clusters -> KnownOrNone]
    PROVE  TInv'
<1>1. started = "yes"
  BY HasStarted DEF NoRequest
<1>2. req[t] \in RequestType /\ req[t].kind # "none"
  BY DEF TInv
<1>3. PICK worked \in BOOLEAN :
        req' = [req EXCEPT ![t] =
             [req[t] EXCEPT !.phase = "answered", !.hit = k, !.under = Secret,
                       !.audited = IF req[t].kind = "post" THEN req[t].ctx ELSE NoCluster,
                       !.status = IF req[t].kind = "post" \/ worked THEN "ok" ELSE "broken",
                       !.token = IF req[t].kind = "post" \/ worked THEN req[t].token
                                                                   ELSE req[t].cookie]]
  BY DEF Call
<1> DEFINE q == [req[t] EXCEPT !.phase = "answered", !.hit = k, !.under = Secret,
                       !.audited = IF req[t].kind = "post" THEN req[t].ctx ELSE NoCluster,
                       !.status = IF req[t].kind = "post" \/ worked THEN "ok" ELSE "broken",
                       !.token = IF req[t].kind = "post" \/ worked THEN req[t].token
                                                                   ELSE req[t].cookie]
<1>4. q \in RequestType /\ q.kind # "none"
  <2>1. Secret \in 0 .. MaxRestarts
    BY RequestsAssumption DEF Secret, TInv
  <2> QED
    BY ZenonT(40), <1>2, <2>1 DEF RequestType, KnownOrNone
<1>5. req' = [req EXCEPT ![t] = q]
  BY <1>3
<1> HIDE DEF q
<1> QED
  BY <1>1, <1>4, <1>5, OneTyped

LEMMA UseClientTInv ==
    ASSUME RInv, TInv, NEW t \in Tabs, UseClient(t)
    PROVE  TInv'
<1>1. /\ UNCHANGED <<env, started, caller, epoch, admins, cookie, page>>
      /\ req[t].phase = "call"
  BY DEF UseClient
<1>2. started = "yes" /\ admins' \in [Clusters -> KnownOrNone]
  BY <1>1, HasStarted DEF NoRequest, TInv
<1>3. CASE admins[Key(t)] # NoCluster
  <2>1. admins[Key(t)] \in KnownOrNone
    BY <1>1, AtOwnCluster DEF KnownOrNone
  <2>2. Call(t, admins[Key(t)])
    BY <1>3 DEF UseClient
  <2> QED
    BY <1>1, <1>2, <2>1, <2>2, CallTyped
<1>4. CASE admins[Key(t)] = NoCluster
  <2> DEFINE q == [req[t] EXCEPT !.phase = "connect"]
  <2>1. q \in RequestType /\ q.kind # "none"
    BY <1>1 DEF TInv, RequestType
  <2>2. req' = [req EXCEPT ![t] = q]
    BY <1>4 DEF UseClient
  <2> HIDE DEF q
  <2> QED
    BY <1>1, <1>2, <2>1, <2>2, OneTyped
<1> QED
  BY <1>3, <1>4

LEMMA MakeClientTInv ==
    ASSUME RInv, TInv, NEW t \in Tabs, MakeClient(t)
    PROVE  TInv'
<1>1. UNCHANGED <<env, started, caller, epoch, cookie, page>> /\ req[t].phase = "connect"
  BY DEF MakeClient
<1>2. admins' = [admins EXCEPT ![req[t].url] = req[t].url] /\ Call(t, req[t].url)
      /\ req[t].url \in KnownOrNone
  BY <1>1, AtOwnCluster DEF MakeClient, KnownOrNone
<1>3. admins' \in [Clusters -> KnownOrNone]
  BY <1>2 DEF TInv
<1> QED
  BY <1>1, <1>2, <1>3, CallTyped

LEMMA ArriveTInv ==
    ASSUME RInv, TInv, NEW t \in Tabs, Arrive(t)
    PROVE  TInv'
<1>1. /\ UNCHANGED <<env, started, caller, epoch, admins>>
      /\ req[t].phase = "answered"
      /\ req' = [req EXCEPT ![t] = NoRequest]
      /\ cookie' = IF req[t].token # req[t].cookie THEN req[t].token ELSE cookie
  BY DEF Arrive
<1>2. started = "yes"
  BY <1>1, HasStarted DEF NoRequest
<1>3. req[t] \in RequestType /\ req[t].kind \in {"load", "post"} /\ page[t] \in PageType
  BY <1>1 DEF TInv, RequestType
<1>4. cookie' \in TokenOrNone
  BY <1>1, <1>3 DEF TInv, RequestType
<1> DEFINE loaded == [url |-> req[t].url, token |-> req[t].token, refused |-> FALSE]
           posted == [page[t] EXCEPT !.refused = (req[t].status = "csrf")]
<1>5. \/ page' = [page EXCEPT ![t] = NoPage]
      \/ page' = [page EXCEPT ![t] = loaded] /\ req[t].status = "ok"
      \/ page' = [page EXCEPT ![t] = posted]
  <2>1. CASE req[t].kind = "load"
    BY <2>1 DEF Arrive
  <2>2. CASE req[t].kind = "post"
    BY <2>2 DEF Arrive, TInv
  <2> QED
    BY <1>3, <2>1, <2>2
<1>6. NoPage \in PageType /\ NoPage.url = NoCluster
  BY NothingTyped DEF NoPage
<1>7. req[t].status = "ok" =>
        /\ loaded \in PageType
        /\ loaded.url \in Addresses \cup {NoCluster}
  <2>1. req[t].status = "ok" => req[t].url \in Clusters
    BY DEF RInv, ReqInv, Finished, Untouched
  <2> QED
    BY <1>3, <2>1 DEF RequestType, PageType, KnownOrNone
<1>8. posted \in PageType /\ posted.url \in Addresses \cup {NoCluster}
  BY <1>3 DEF TInv, PageType
<1>9. \E p \in PageType : /\ p.url \in Addresses \cup {NoCluster}
                          /\ page' = [page EXCEPT ![t] = p]
  <2> HIDE DEF loaded, posted
  <2> QED
    BY <1>5, <1>6, <1>7, <1>8
<1>10. /\ page' \in [Tabs -> PageType]
       /\ \A s \in Tabs : page'[s].url \in Addresses \cup {NoCluster}
  BY <1>9 DEF TInv
<1>11. /\ req' \in [Tabs -> RequestType]
       /\ \A s \in Tabs : req'[s].phase # "idle" => req'[s].kind # "none"
  BY <1>1, NothingTyped DEF TInv, NoRequest
<1>12. Clusters' = Clusters
  BY <1>1, SettingsStay
<1> QED
  BY <1>1, <1>2, <1>4, <1>10, <1>11, <1>12, TypesStay DEF TInv

LEMMA RestartTInv == RInv /\ TInv /\ Restart => TInv'
<1> SUFFICES ASSUME RInv, TInv, Restart PROVE TInv'
  OBVIOUS
<1>1. UNCHANGED <<env, started, caller, cookie>> /\ started = "yes"
      /\ admins' = NoClients /\ epoch' = epoch + 1 /\ epoch < MaxRestarts
  BY DEF Restart
<1>2. Clusters' = Clusters
  BY <1>1, SettingsStay
<1>3. admins' \in [Clusters -> KnownOrNone] /\ epoch' \in 0 .. MaxRestarts
  BY <1>1, RequestsAssumption DEF NoClients, KnownOrNone, TInv
<1>4. /\ req' \in [Tabs -> RequestType]
      /\ \A s \in Tabs : req'[s].phase # "idle" => req'[s].kind # "none"
  BY NothingTyped DEF Restart, TInv, NoRequest
<1>5. /\ page' \in [Tabs -> PageType]
      /\ \A s \in Tabs : page'[s].url \in Addresses \cup {NoCluster}
  <2>1. NoPage.url = NoCluster
    BY DEF NoPage
  <2> QED
    BY <2>1, NothingTyped DEF Restart, TInv
<1> QED
  BY <1>1, <1>2, <1>3, <1>4, <1>5, TypesStay DEF TInv

LEMMA StutterTInv == TInv /\ UNCHANGED vars => TInv'
<1> SUFFICES ASSUME TInv, UNCHANGED vars PROVE TInv'
  OBVIOUS
<1>1. UNCHANGED <<env, started, caller>>
  BY DEF vars
<1> QED
  BY <1>1, SettingsStay, TypesStay DEF TInv, vars

LEMMA NextTInv == RInv /\ TInv /\ [Next]_vars => TInv'
<1> SUFFICES ASSUME RInv, TInv, [Next]_vars PROVE TInv'
  OBVIOUS
<1>1. CASE Start
  BY <1>1, StartTInv
<1>2. ASSUME NEW t \in Tabs, Load(t)
      PROVE  TInv'
  <2>1. Address[t] \in Addresses \cup {NoCluster} /\ NoToken \in TokenOrNone
    BY DEF Addresses, TokenOrNone
  <2> QED
    BY <1>2, <2>1, SendTInv DEF Load
<1>3. ASSUME NEW t \in Tabs, Post(t)
      PROVE  TInv'
  <2>1. page[t].url \in Addresses \cup {NoCluster} /\ page[t].token \in TokenOrNone
    BY DEF TInv, PageType
  <2> QED
    BY <1>3, <2>1, SendTInv DEF Post
<1>4. ASSUME NEW t \in Tabs, ServerStep(t)
      PROVE  TInv'
  BY <1>4, EnterTInv, AuthoriseTInv, UseClientTInv, MakeClientTInv DEF ServerStep
<1>5. ASSUME NEW t \in Tabs, Arrive(t)
      PROVE  TInv'
  BY <1>5, ArriveTInv
<1>6. CASE Restart
  BY <1>6, RestartTInv
<1>7. CASE UNCHANGED vars
  BY <1>7, StutterTInv
<1> QED
  BY <1>1, <1>2, <1>3, <1>4, <1>5, <1>6, <1>7 DEF Next

\* Every variable keeps its type, for any settings and any number of tabs: a token is
\* always one of the serials, a role one the code knows.
THEOREM TypeCorrect == Spec => []TypeOK
<1>1. RInv /\ TInv => TypeOK
  <2> SUFFICES ASSUME RInv, TInv PROVE TypeOK
    OBVIOUS
  <2>1. started \in {"no", "yes", "refused"} /\ Role \in Roles \cup {"unknown"}
    BY RoleKnown DEF RInv, StartInv
  <2> QED
    BY <2>1 DEF TInv, TypeOK, RequestType, PageType, Addresses, TokenOrNone, KnownOrNone
<1>2. TInv /\ RInv /\ [Next]_vars => TInv'
  BY NextTInv
<1> QED
  BY <1>1, <1>2, InitTInv, RequestsInvariant, PTL DEF Spec

-----------------------------------------------------------------------------
HIDE DEF Protocols, SaslProtocols, UserPass, Mechanisms, AuthModes, Roles

(* The page in a browser's tab: the script behind a search or a live tail, *)
(* over a server that keeps the promise of HitStream.                      *)

\* What the buttons and the status line say of the EventSource.
ButtonsInv ==
    /\ running <=> source # "none"
    /\ ready = "closed" <=> source = "none"
    /\ source # "none" => status = source

\* Only a start and a broken connection make a new one.
ConnInv ==
    /\ first \in 1 .. conn + 1
    /\ conn + (IF ready = "connecting" THEN 1 ELSE 0) <= MaxSearches + drops
    /\ conn < first => results = << >> /\ ready # "open"
    /\ ready # "open" => wire = << >>
    /\ source = "tail" /\ ready = "open" => final # "done"

\* The hits of a partition are in order, and those of a tail were not there when it
\* was connected.
SentInv ==
    /\ \A i \in DOMAIN sent : sent[i][2] < end[sent[i][1]]
    /\ status = "tail" /\ conn >= first =>
         \A i \in DOMAIN sent : from[sent[i][1]] <= sent[i][2]
    /\ \A i, j \in DOMAIN sent : i < j /\ sent[i][1] = sent[j][1] => sent[i][2] < sent[j][2]

\* So what earlier connections of a tail brought is older.
Fresh(x) ==
    /\ first <= x.conn
    /\ x.record[2] < end[x.record[1]]
    /\ status = "tail" /\ x.conn < conn => x.record[2] < from[x.record[1]]

Before(x, y) ==
    x.record[1] = y.record[1] => \/ x.record[2] < y.record[2]
                                 \/ x.conn < y.conn /\ status # "tail"

ResultsInv ==
    /\ \A i \in DOMAIN results : Fresh(results[i])
    /\ \A i, j \in DOMAIN results : i < j => Before(results[i], results[j])

\* The page shows the first n hits of this connection, after `old` results of earlier
\* ones and with `m` of its own gone; what follows is still on the wire.
OnPage(old, m, n) ==
    /\ n = m + Len(results) - old
    /\ \A i \in DOMAIN results : results[i].conn = conn <=> i > old
    /\ \A i \in old + 1 .. Len(results) : results[i].record = sent[m + i - old]
    /\ m > 0 => source # "scan" /\ Len(results) = MaxResults
    /\ status = "done" => m = 0 /\ n = Len(sent)

OnWire(n) ==
    /\ Len(wire) = (Len(sent) - n) + IF final = "none" THEN 0 ELSE 2
    /\ \A i \in 1 .. Len(sent) - n : wire[i] = [event |-> "hit", record |-> sent[n + i]]
    /\ final # "none" => /\ wire[Len(sent) - n + 1] = [event |-> final]
                         /\ wire[Len(sent) - n + 2] = [event |-> "end"]

StreamInv ==
    conn >= first => \E old \in 0 .. Len(results), m, n \in 0 .. Len(sent) :
        /\ OnPage(old, m, n)
        /\ ready = "open" => OnWire(n)

PageInv ==
    /\ PageTypeOK
    /\ ButtonsInv /\ ConnInv
    /\ SentInv /\ ResultsInv /\ StreamInv

LEMMA PageBounds ==
    /\ MaxHigh \in Nat /\ MaxDrops \in Nat
    /\ Limit \in Nat \ {0} /\ MaxResults \in Nat \ {0} /\ MaxSearches \in Nat \ {0}
    /\ \A c \in Matching : c[1] \in Partitions /\ c[2] \in Nat /\ c[2] < MaxHigh
<1>1. /\ MaxHigh \in Nat /\ MaxDrops \in Nat
      /\ Limit \in Nat \ {0} /\ MaxResults \in Nat \ {0} /\ MaxSearches \in Nat \ {0}
  BY PageAssumption
<1>2. \A c \in Matching : c[1] \in Partitions /\ c[2] \in 0 .. MaxHigh - 1
  BY PageAssumption DEF Records
<1> QED
  BY <1>1, <1>2

\* The types in a form for the provers.
LEMMA PageTypes ==
    ASSUME PageInv
    PROVE  /\ \A p \in Partitions : end[p] \in Nat /\ from[p] \in Nat
           /\ results \in Seq([record : Matching, conn : 1 .. conn])
           /\ \A i \in DOMAIN results : /\ results[i].record \in Matching
                                        /\ results[i].conn \in 1 .. conn
           /\ conn \in Nat /\ first \in Nat \ {0} /\ drops \in Nat
           /\ sent \in Seq(Matching)
           /\ \A i \in DOMAIN sent : sent[i] \in Matching
           /\ Len(results) \in Nat /\ DOMAIN results = 1 .. Len(results)
           /\ Len(sent) \in Nat /\ DOMAIN sent = 1 .. Len(sent)
           /\ Len(wire) \in Nat /\ DOMAIN wire = 1 .. Len(wire)
           /\ limit \in Nat
<1>1. /\ end \in [Partitions -> 0 .. MaxHigh] /\ from \in [Partitions -> 0 .. MaxHigh]
      /\ results \in Seq([record : Matching, conn : 1 .. conn])
      /\ conn \in 0 .. MaxSearches + MaxDrops
      /\ first \in 1 .. MaxSearches + MaxDrops + 1
      /\ drops \in 0 .. MaxDrops
      /\ sent \in Seq(Matching) /\ limit \in Nat
  BY DEF PageInv, PageTypeOK
<1>2. wire \in Seq([event : {"hit"}, record : Matching]
                   \cup [event : {"done", "failed", "end"}])
  BY DEF PageInv, PageTypeOK
<1>3. conn \in Nat /\ first \in Nat \ {0} /\ drops \in Nat
  BY <1>1, PageBounds
<1>4. \A p \in Partitions : end[p] \in Nat /\ from[p] \in Nat
  BY <1>1, PageBounds
<1>5. \A i \in DOMAIN results : /\ results[i].record \in Matching
                                /\ results[i].conn \in 1 .. conn
  <2> DEFINE R == [record : Matching, conn : 1 .. conn]
  <2>1. \A x \in R : x.record \in Matching /\ x.conn \in 1 .. conn
    OBVIOUS
  <2>2. results \in Seq(R)
    BY <1>1
  <2> HIDE DEF R
  <2>3. \A i \in DOMAIN results : results[i] \in R
    BY <2>2
  <2> QED
    BY <2>1, <2>3
<1>6. /\ DOMAIN results = 1 .. Len(results) /\ DOMAIN sent = 1 .. Len(sent)
      /\ \A i \in DOMAIN sent : sent[i] \in Matching
      /\ Len(results) \in Nat /\ Len(sent) \in Nat
  BY <1>1
<1>7. Len(wire) \in Nat /\ DOMAIN wire = 1 .. Len(wire)
  BY <1>2
<1> QED
  BY <1>1, <1>3, <1>4, <1>5, <1>6, <1>7

LEMMA Counters ==
    ASSUME PageInv
    PROVE  /\ conn \in Nat /\ first \in Nat \ {0} /\ drops \in Nat
           /\ MaxSearches \in Nat \ {0} /\ MaxDrops \in Nat
           /\ conn <= MaxSearches + MaxDrops /\ drops <= MaxDrops
<1>1. conn \in 0 .. MaxSearches + MaxDrops /\ drops \in 0 .. MaxDrops
  BY DEF PageInv, PageTypeOK
<1>2. MaxSearches \in Nat \ {0} /\ MaxDrops \in Nat
  BY PageBounds
<1>3. conn \in Nat /\ first \in Nat \ {0} /\ drops \in Nat
  BY PageTypes
<1> QED
  BY <1>1, <1>2, <1>3

LEMMA LargerRange ==
    ASSUME NEW S, NEW T, S \subseteq T, NEW s \in Seq(S)
    PROVE  s \in Seq(T)
  OBVIOUS

\* The connection is gone, with what was on the wire: the page keeps what it shows.
LEMMA CutOff ==
    ASSUME PageInv,
           ready' \in {"connecting", "closed"}, wire' = << >>,
           UNCHANGED <<end, results, conn, first, sent, limit, final, from>>,
           source' \in {source, "none"}, running' \in BOOLEAN,
           status' \in {"scan", "tail", "done", "failed", "lost"},
           status' = "tail" => status = "tail",
           drops' \in drops .. MaxDrops,
           \A old \in 0 .. Len(results), m, n \in 0 .. Len(sent) :
              status' = "done" /\ OnPage(old, m, n) /\ (ready = "open" => OnWire(n))
                => m = 0 /\ n = Len(sent)
    PROVE  PageTypeOK' /\ SentInv' /\ ResultsInv' /\ StreamInv'
<1>1. PageTypeOK'
  <2>1. drops' \in 0 .. MaxDrops
    <3>1. drops \in Nat
      BY PageTypes
    <3>2. MaxDrops \in Nat
      BY PageBounds
    <3> QED
      BY <3>1, <3>2
  <2> QED
    BY <2>1 DEF PageInv, PageTypeOK
<1>2. SentInv'
  BY DEF PageInv, SentInv
<1>3. ResultsInv'
  BY DEF PageInv, ResultsInv, Fresh, Before
<1>4. StreamInv'
  <2>1. SUFFICES ASSUME conn >= first
                 PROVE  \E old \in 0 .. Len(results), m, n \in 0 .. Len(sent) :
                            OnPage(old, m, n)'
    BY DEF StreamInv
  <2>2. PICK old \in 0 .. Len(results), m, n \in 0 .. Len(sent) :
           OnPage(old, m, n) /\ (ready = "open" => OnWire(n))
    BY <2>1 DEF PageInv, StreamInv
  <2>3. OnPage(old, m, n)'
    BY <2>2 DEF OnPage
  <2> QED
    BY <2>3
<1> QED
  BY <1>1, <1>2, <1>3, <1>4

\* What comes next on the wire: the first hit the page has not got, or, after the
\* last, the final event.
LEMMA NextOnWire ==
    ASSUME PageInv, wire # << >>,
           NEW n \in 0 .. Len(sent), OnWire(n)
    PROVE  \/ n < Len(sent) /\ Head(wire) = [event |-> "hit", record |-> sent[n + 1]]
           \/ n = Len(sent) /\ final # "none" /\ Head(wire) = [event |-> final]
<1>1. Len(wire) \in Nat /\ Len(sent) \in Nat /\ Len(wire) # 0 /\ Head(wire) = wire[1]
  BY PageTypes DEF PageInv, PageTypeOK
<1>2. CASE n < Len(sent)
  <2>1. 1 \in 1 .. Len(sent) - n
    BY <1>1, <1>2
  <2>2. wire[1] = [event |-> "hit", record |-> sent[n + 1]]
    BY <2>1 DEF OnWire
  <2> QED
    BY <1>1, <1>2, <2>2
<1>3. CASE n = Len(sent)
  <2>1. final # "none"
    BY <1>1, <1>3 DEF OnWire
  <2>2. wire[Len(sent) - n + 1] = [event |-> final] /\ Len(sent) - n + 1 = 1
    BY <1>1, <1>3, <2>1 DEF OnWire
  <2> QED
    BY <1>1, <1>3, <2>1, <2>2
<1> QED
  BY <1>1, <1>2, <1>3

LEMMA StartKeeps ==
    ASSUME PageInv, NEW kind \in {"scan", "tail"}, StartSource(kind)
    PROVE  PageInv'
<1>1. /\ source' = kind /\ ready' = "connecting" /\ running' = TRUE /\ results' = << >>
      /\ status' = kind /\ first' = conn + 1 /\ wire' = << >> /\ conn < MaxSearches
      /\ UNCHANGED <<end, conn, sent, limit, final, from, drops>>
  BY DEF StartSource, NewSource, serverVars
<1>2. /\ conn \in Nat /\ drops \in Nat /\ first' \in 1 .. MaxSearches + MaxDrops + 1
      /\ conn + 1 <= MaxSearches + drops
  BY <1>1, Counters
<1>3. PageTypeOK'
  BY <1>1, <1>2, PageBounds DEF PageInv, PageTypeOK
<1>4. ButtonsInv'
  BY <1>1 DEF ButtonsInv
<1>5. ConnInv'
  BY <1>1, <1>2 DEF ConnInv
<1>6. SentInv' /\ ResultsInv' /\ StreamInv'
  BY <1>1, <1>2 DEF PageInv, SentInv, ResultsInv, StreamInv
<1> QED
  BY <1>3, <1>4, <1>5, <1>6 DEF PageInv

LEMMA StopKeeps ==
    ASSUME PageInv, Stop
    PROVE  PageInv'
<1>1. /\ source' = "none" /\ ready' = "closed" /\ running' = FALSE /\ wire' = << >>
      /\ running
      /\ UNCHANGED <<end, results, status, conn, first, sent, limit, final, from, drops>>
  BY DEF Stop, StopScan, serverVars
<1>2. status # "done"
  BY <1>1 DEF PageInv, ButtonsInv, PageTypeOK
<1>3. PageTypeOK' /\ SentInv' /\ ResultsInv' /\ StreamInv'
  <2>1. drops' \in drops .. MaxDrops /\ status \in {"scan", "tail", "done", "failed", "lost"}
    BY <1>1, PageBounds DEF PageInv, PageTypeOK
  <2> QED
    BY <1>1, <1>2, <2>1, CutOff
<1>4. ButtonsInv'
  BY <1>1 DEF ButtonsInv
<1>5. ConnInv'
  BY <1>1, PageTypes, PageBounds DEF PageInv, ConnInv
<1> QED
  BY <1>3, <1>4, <1>5 DEF PageInv

LEMMA RefusedKeeps ==
    ASSUME PageInv, Refused
    PROVE  PageInv'
<1>1. /\ source' = "none" /\ ready' = "closed" /\ running' = FALSE /\ status' = "lost"
      /\ ready = "connecting"
      /\ UNCHANGED <<end, results, conn, first, wire, sent, limit, final, from, drops>>
  BY DEF Refused, Lost, serverVars
<1>2. wire' = << >>
  BY <1>1 DEF PageInv, ConnInv
<1>3. PageTypeOK' /\ SentInv' /\ ResultsInv' /\ StreamInv'
  <2>1. drops' \in drops .. MaxDrops
    BY <1>1, PageBounds DEF PageInv, PageTypeOK
  <2> QED
    BY <1>1, <1>2, <2>1, CutOff
<1>4. ButtonsInv'
  BY <1>1 DEF ButtonsInv
<1>5. ConnInv'
  BY <1>1, <1>2, PageTypes, PageBounds DEF PageInv, ConnInv
<1> QED
  BY <1>3, <1>4, <1>5 DEF PageInv

LEMMA DropKeeps ==
    ASSUME PageInv, Drop
    PROVE  PageInv'
<1>1. /\ ready' = "connecting" /\ wire' = << >> /\ drops' = drops + 1
      /\ ready = "open" /\ drops < MaxDrops
      /\ UNCHANGED <<end, source, running, results, status, conn, first, sent, limit, final,
                     from>>
  BY DEF Drop, serverVars
<1>2. status # "done" /\ source # "none"
  BY <1>1 DEF PageInv, ButtonsInv, PageTypeOK
<1>3. PageTypeOK' /\ SentInv' /\ ResultsInv' /\ StreamInv'
  <2>1. /\ drops' \in drops .. MaxDrops
        /\ status \in {"scan", "tail", "done", "failed", "lost"} /\ running \in BOOLEAN
    BY <1>1, PageTypes, PageBounds DEF PageInv, PageTypeOK
  <2> QED
    BY <1>1, <1>2, <2>1, CutOff
<1>4. ButtonsInv'
  BY <1>1, <1>2 DEF PageInv, ButtonsInv
<1>5. ConnInv'
  <2>1. /\ first \in 1 .. conn + 1
        /\ conn <= MaxSearches + drops
        /\ ~(conn < first)
    BY <1>1, Counters DEF PageInv, ConnInv
  <2> QED
    BY <1>1, <2>1, Counters DEF ConnInv
<1> QED
  BY <1>3, <1>4, <1>5 DEF PageInv

\* On an open connection the page is somewhere in the stream.
LEMMA Reading ==
    ASSUME PageInv, ready = "open"
    PROVE  /\ conn >= first /\ conn \in 1 .. conn
           /\ source \in {"scan", "tail"} /\ status = source
           /\ \E old \in 0 .. Len(results), m, n \in 0 .. Len(sent) :
                OnPage(old, m, n) /\ OnWire(n)
<1>1. conn >= first /\ conn \in 1 .. conn
  BY Counters DEF PageInv, ConnInv
<1>2. source \in {"scan", "tail"} /\ status = source
  BY DEF PageInv, ButtonsInv, PageTypeOK
<1>3. \E old \in 0 .. Len(results), m, n \in 0 .. Len(sent) : OnPage(old, m, n) /\ OnWire(n)
  BY <1>1 DEF PageInv, StreamInv
<1> QED
  BY <1>1, <1>2, <1>3

\* The final event of a search, or the failure of a tail.
LEMMA FinalKeeps ==
    ASSUME PageInv, ready = "open", wire # << >>, OnFinal,
           UNCHANGED <<end, conn, first, sent, limit, final, from, drops>>
    PROVE  PageInv'
<1>1. Head(wire).event \in {"done", "failed"} /\ UNCHANGED results
  BY DEF OnFinal
<1>2. ASSUME NEW n \in 0 .. Len(sent), OnWire(n)
      PROVE  n = Len(sent) /\ final # "none" /\ Head(wire) = [event |-> final]
  BY <1>1, <1>2, NextOnWire
<1>3. final # "none" /\ Head(wire).event = final
  BY <1>2, Reading
<1>4. source = "tail" => final # "done"
  BY DEF PageInv, ConnInv
<1>5. /\ source' = "none" /\ ready' = "closed" /\ running' = FALSE
      /\ status' = final /\ wire' = << >>
  BY <1>3, <1>4 DEF OnFinal, StopScan
<1>6. ASSUME NEW old \in 0 .. Len(results), NEW m \in 0 .. Len(sent), NEW n \in 0 .. Len(sent),
             final = "done", OnPage(old, m, n), OnWire(n)
      PROVE  m = 0 /\ n = Len(sent)
  <2>1. source = "scan"
    BY <1>4, <1>6, Reading
  <2>2. m = 0
    BY <1>6, <2>1, PageTypes DEF OnPage
  <2> QED
    BY <1>2, <1>6, <2>2
<1>7. PageTypeOK' /\ SentInv' /\ ResultsInv' /\ StreamInv'
  <2>1. drops' \in drops .. MaxDrops /\ final \in {"done", "failed"}
    BY <1>3, PageBounds DEF PageInv, PageTypeOK
  <2> QED
    BY <1>1, <1>5, <1>6, <2>1, CutOff
<1>8. ButtonsInv'
  BY <1>5 DEF ButtonsInv
<1>9. ConnInv'
  <2>1. /\ first \in 1 .. conn + 1
        /\ conn <= MaxSearches + drops
        /\ ~(conn < first)
    BY Counters DEF PageInv, ConnInv
  <2> QED
    BY <1>1, <1>5, <2>1, Counters DEF ConnInv
<1> QED
  BY <1>7, <1>8, <1>9 DEF PageInv

\* The end of a stream never comes first: the script has closed the source by then.
LEMMA NoEndAlone ==
    ASSUME PageInv, ready = "open", wire # << >>
    PROVE  Head(wire).event # "end"
<1>1. PICK n \in 0 .. Len(sent) : OnWire(n)
  BY Reading
<1>2. final \in {"none", "done", "failed"}
  BY DEF PageInv, PageTypeOK
<1> QED
  BY <1>1, <1>2, NextOnWire

LEMMA CountedRecords == Cardinality(Records) \in Nat
<1>1. IsFiniteSet(0 .. MaxHigh - 1)
  BY PageBounds, FS_Interval
<1> QED
  BY <1>1, PageAssumption, FS_Product, FS_CardinalityType DEF Records

LEMMA ConnectKeeps ==
    ASSUME PageInv, Connect
    PROVE  PageInv'
<1>1. /\ ready = "connecting" /\ ready' = "open" /\ conn' = conn + 1 /\ sent' = << >>
      /\ final' = "none" /\ from' = end
      /\ limit' = IF source = "scan" THEN Limit ELSE Cardinality(Records) + 1
      /\ UNCHANGED <<end, source, running, results, status, first, wire, drops>>
  BY DEF Connect
<1>2. source # "none" /\ status = source /\ wire = << >>
  BY <1>1 DEF PageInv, ButtonsInv, ConnInv
<1>3. /\ first \in 1 .. conn + 1
      /\ conn + 1 <= MaxSearches + drops
  BY <1>1 DEF PageInv, ConnInv
<1>4. PageTypeOK'
  <2>1. limit' \in Nat /\ conn' \in 0 .. MaxSearches + MaxDrops
    BY <1>1, <1>3, Counters, PageBounds, CountedRecords
  <2>2. results' \in Seq([record : Matching, conn : 1 .. conn'])
    <3>1. [record : Matching, conn : 1 .. conn] \subseteq [record : Matching, conn : 1 .. conn + 1]
      BY Counters
    <3>2. results \in Seq([record : Matching, conn : 1 .. conn])
      BY PageTypes
    <3>3. results \in Seq([record : Matching, conn : 1 .. conn + 1])
      BY <3>1, <3>2, LargerRange, Zenon
    <3> QED
      BY <1>1, <3>3
  <2> QED
    BY <1>1, <2>1, <2>2 DEF PageInv, PageTypeOK
<1>5. ButtonsInv'
  BY <1>1, <1>2 DEF PageInv, ButtonsInv
<1>6. ConnInv'
  BY <1>1, <1>3, Counters DEF ConnInv
<1>7. SentInv'
  BY <1>1 DEF SentInv
<1>8. ResultsInv'
  BY <1>1 DEF PageInv, ResultsInv, Fresh, Before
<1>9. StreamInv'
  <2>1. Len(results) \in Nat /\ DOMAIN results = 1 .. Len(results) /\ status # "done"
    BY <1>2, PageTypes DEF PageInv, PageTypeOK
  <2>2. \A i \in DOMAIN results : results[i].conn # conn + 1
    <3>1. \A x \in 1 .. conn : x # conn + 1
      BY Counters
    <3> QED
      BY <3>1, PageTypes
  <2>3. OnPage(Len(results), 0, 0)'
    BY <1>1, <2>1, <2>2 DEF OnPage
  <2>4. OnWire(0)'
    BY <1>1, <1>2 DEF OnWire
  <2>5. Len(results) \in 0 .. Len(results') /\ 0 \in 0 .. Len(sent')
    BY <1>1, <2>1
  <2> QED
    BY <2>3, <2>4, <2>5 DEF StreamInv
<1> QED
  BY <1>4, <1>5, <1>6, <1>7, <1>8, <1>9 DEF PageInv

\* A hit of this connection comes after all that the page shows.
LEMMA HitIsLast ==
    ASSUME PageInv, conn >= first,
           NEW old \in 0 .. Len(results), NEW m \in 0 .. Len(sent), NEW n \in 0 .. Len(sent),
           OnPage(old, m, n), n < Len(sent),
           NEW x, x = [record |-> sent[n + 1], conn |-> conn]
    PROVE  /\ x.record \in Matching
           /\ Fresh(x)
           /\ \A i \in DOMAIN results : Before(results[i], x)
<1> DEFINE c == sent[n + 1]
<1>0. /\ Len(results) \in Nat /\ Len(sent) \in Nat
      /\ old \in Nat /\ old <= Len(results) /\ m \in Nat
      /\ DOMAIN results = 1 .. Len(results) /\ DOMAIN sent = 1 .. Len(sent)
  BY PageTypes
<1>1. n \in Nat /\ n < Len(sent) /\ n + 1 \in DOMAIN sent /\ n = m + Len(results) - old
  BY <1>0 DEF OnPage
<1>2. x.record = c /\ x.conn = conn
  OBVIOUS
<1>3. /\ c \in Matching /\ c[2] < end[c[1]]
      /\ status = "tail" => from[c[1]] <= c[2]
  BY <1>1, PageTypes DEF PageInv, SentInv
<1> HIDE DEF c
<1>4. Fresh(x)
  BY <1>2, <1>3, Counters DEF Fresh
<1>5. ASSUME NEW i \in DOMAIN results
      PROVE  Before(results[i], x)
  <2>1. /\ i \in 1 .. Len(results) /\ results[i].record \in Matching
        /\ results[i].conn \in 1 .. conn
    BY PageTypes
  <2>2. CASE i > old
    <3>1. results[i].record = sent[m + i - old]
      <4>1. i \in old + 1 .. Len(results)
        BY <1>0, <2>1, <2>2
      <4> QED
        BY <4>1 DEF OnPage
    <3>2. m + i - old \in DOMAIN sent /\ m + i - old < n + 1
      BY SMTT(30), <1>0, <1>1, <2>1, <2>2
    <3>3. results[i].record[1] = c[1] => results[i].record[2] < c[2]
      BY <1>1, <3>1, <3>2 DEF PageInv, SentInv, c
    <3> QED
      BY <1>2, <3>3 DEF Before
  <2>3. CASE ~(i > old)
    <3>1. results[i].conn # conn
      BY <2>1, <2>3 DEF OnPage
    <3>2. results[i].conn < conn
      BY <2>1, <3>1, Counters
    <3>3. status = "tail" => results[i].record[2] < from[results[i].record[1]]
      BY <3>2 DEF PageInv, ResultsInv, Fresh
    <3>4. /\ results[i].record[2] \in Nat /\ c[2] \in Nat /\ c[1] \in Partitions
          /\ from[c[1]] \in Nat
      BY <1>3, <2>1, PageBounds, PageTypes
    <3> QED
      BY SMTT(30), <1>2, <1>3, <3>2, <3>3, <3>4 DEF Before
  <2> QED
    BY <2>2, <2>3
<1> QED
  BY <1>2, <1>3, <1>4, <1>5

\* A hit leaves the wire.
LEMMA HitOffWire ==
    ASSUME PageInv, wire # << >>,
           NEW n \in 0 .. Len(sent), n < Len(sent), OnWire(n),
           wire' = Tail(wire), UNCHANGED <<sent, final>>
    PROVE  OnWire(n + 1)'
<1>1. Len(wire) \in Nat /\ Len(sent) \in Nat /\ n \in Nat
  BY PageTypes
<1>2. /\ Len(wire') = Len(wire) - 1
      /\ \A i \in 1 .. Len(wire) - 1 : wire'[i] = wire[i + 1]
  BY DEF PageInv, PageTypeOK
<1>3. Len(wire) = (Len(sent) - n) + IF final = "none" THEN 0 ELSE 2
  BY DEF OnWire
<1>4. ASSUME NEW i \in 1 .. Len(sent) - (n + 1)
      PROVE  wire'[i] = [event |-> "hit", record |-> sent[(n + 1) + i]]
  <2>1. i \in 1 .. Len(wire) - 1 /\ i + 1 \in 1 .. Len(sent) - n
    BY <1>1, <1>3
  <2>2. wire[i + 1] = [event |-> "hit", record |-> sent[n + (i + 1)]]
    BY <2>1 DEF OnWire
  <2>3. n + (i + 1) = (n + 1) + i
    BY <1>1
  <2> QED
    BY <1>2, <2>1, <2>2, <2>3
<1>5. ASSUME final # "none"
      PROVE  /\ wire'[Len(sent) - (n + 1) + 1] = [event |-> final]
             /\ wire'[Len(sent) - (n + 1) + 2] = [event |-> "end"]
  <2> DEFINE k == Len(sent) - n
  <2>1. k \in Nat \ {0} /\ Len(wire) = k + 2
    BY <1>1, <1>3, <1>5
  <2>2. wire[k + 1] = [event |-> final] /\ wire[k + 2] = [event |-> "end"]
    BY <1>5 DEF OnWire
  <2>3. Len(sent) - (n + 1) + 1 = k /\ Len(sent) - (n + 1) + 2 = k + 1
    BY <1>1
  <2> HIDE DEF k
  <2>4. k \in 1 .. Len(wire) - 1 /\ k + 1 \in 1 .. Len(wire) - 1
    BY <2>1
  <2>5. wire'[k] = wire[k + 1] /\ wire'[k + 1] = wire[k + 2]
    BY <1>2, <2>1, <2>4
  <2> QED
    BY <2>2, <2>3, <2>5
<1>6. Len(wire') = (Len(sent) - (n + 1)) + IF final = "none" THEN 0 ELSE 2
  BY <1>1, <1>2, <1>3
<1> QED
  BY <1>4, <1>5, <1>6 DEF OnWire

\* OnHit, with the oldest result of a full tail making room.
LEMMA HitKeeps ==
    ASSUME PageInv, ready = "open", wire # << >>, OnHit,
           UNCHANGED <<end, conn, first, sent, limit, final, from, drops>>
    PROVE  PageInv'
<1>1. PICK old \in 0 .. Len(results), m, n \in 0 .. Len(sent) : OnPage(old, m, n) /\ OnWire(n)
  BY Reading
<1> DEFINE x == [record |-> sent[n + 1], conn |-> conn]
           s == Append(results, x)
           R == [record : Matching, conn : 1 .. conn]
<1>2. /\ Head(wire).event = "hit" /\ wire' = Tail(wire)
      /\ UNCHANGED <<source, ready, running, status>>
  BY DEF OnHit
<1>3. /\ n < Len(sent) /\ Head(wire).record = sent[n + 1]
      /\ conn >= first /\ conn \in 1 .. conn
      /\ source \in {"scan", "tail"} /\ status = source
  <2>1. final \in {"none", "done", "failed"}
    BY DEF PageInv, PageTypeOK
  <2> QED
    BY <1>1, <1>2, <2>1, NextOnWire, Reading
<1>4. \/ results' = s /\ ~(source = "tail" /\ Len(s) > MaxResults)
      \/ results' = Tail(s) /\ source = "tail" /\ Len(s) > MaxResults
  BY <1>3 DEF OnHit, KeepNewest
<1>5. /\ Len(results) \in Nat /\ Len(sent) \in Nat
      /\ old \in Nat /\ old <= Len(results) /\ m \in Nat /\ m <= Len(sent)
      /\ MaxResults \in Nat /\ MaxResults > 0
      /\ n = m + Len(results) - old /\ n \in Nat
  <2>1. Len(results) \in Nat /\ Len(sent) \in Nat
    BY PageTypes
  <2>2. MaxResults \in Nat /\ MaxResults > 0
    BY PageBounds
  <2>3. n = m + Len(results) - old
    BY <1>1 DEF OnPage
  <2> QED
    BY <2>1, <2>2, <2>3
<1>s. results \in Seq(R) /\ DOMAIN results = 1 .. Len(results)
  BY PageTypes
<1>6. x \in R /\ Fresh(x) /\ \A i \in DOMAIN results : Before(results[i], x)
  <2>1. /\ x.record \in Matching /\ Fresh(x)
        /\ \A i \in DOMAIN results : Before(results[i], x)
    BY <1>1, <1>3, HitIsLast
  <2> QED
    BY <1>3, <2>1
<1>7. source = "tail" => Len(results) <= MaxResults
  BY DEF PageInv, PageTypeOK
<1>8. OnWire(n + 1)'
  BY <1>1, <1>2, <1>3, HitOffWire
<1>9. PageTypeOK /\ OnPage(old, m, n) /\ x.record = sent[n + 1] /\ x.conn = conn
  BY <1>1 DEF PageInv
<1>10. wire' \in Seq([event : {"hit"}, record : Matching]
                     \cup [event : {"done", "failed", "end"}])
  BY <1>2, <1>9 DEF PageTypeOK
<1> HIDE DEF x, R
<1>11. /\ s \in Seq(R) /\ DOMAIN s = 1 .. Len(s)
       /\ \A i \in 1 .. Len(results) : s[i] = results[i]
       /\ s[Len(results) + 1] = x
  BY <1>6, <1>s
<1>l. Len(s) = Len(results) + 1
  BY <1>s
<1> HIDE DEF s
<1>12. /\ \A i \in DOMAIN s : Fresh(s[i])
       /\ \A i, j \in DOMAIN s : i < j => Before(s[i], s[j])
  <2>1. /\ \A i \in DOMAIN results : Fresh(results[i])
        /\ \A i, j \in DOMAIN results : i < j => Before(results[i], results[j])
    BY DEF PageInv, ResultsInv
  <2>2. \A i \in DOMAIN s : i \in DOMAIN results \/ i = Len(results) + 1
    BY <1>5, <1>s, <1>l, <1>11
  <2>3. \A i \in DOMAIN s : Fresh(s[i])
    BY <1>5, <1>6, <1>s, <1>l, <1>11, <2>1, <2>2
  <2>4. ASSUME NEW i \in DOMAIN s, NEW j \in DOMAIN s, i < j
        PROVE  Before(s[i], s[j])
    <3>1. i \in DOMAIN results /\ s[i] = results[i]
      BY <1>5, <1>s, <1>l, <1>11, <2>4
    <3>2. CASE j \in DOMAIN results
      BY <1>5, <1>s, <1>l, <1>11, <2>1, <2>4, <3>1, <3>2
    <3>3. CASE j = Len(results) + 1
      BY <1>6, <1>11, <3>1, <3>3
    <3> QED
      BY <2>2, <3>2, <3>3
  <2> QED
    BY <2>3, <2>4
\* The sequence that is left of s, `k` hits shorter.
<1>13. ASSUME NEW k \in {0, 1}, results' \in Seq(R), Len(results') = Len(s) - k,
              \A i \in 1 .. Len(s) - k : results'[i] = s[i + k],
              source = "tail" => Len(s) - k <= MaxResults,
              NEW o \in 0 .. Len(results'), NEW l \in 0 .. Len(sent), OnPage(o, l, n + 1)'
       PROVE  PageInv'
  <2>1. PageTypeOK'
    <3>1. source = "tail" => Len(results') <= MaxResults
      BY <1>13
    <3>2. results' \in Seq([record : Matching, conn : 1 .. conn])
      BY <1>13 DEF R
    <3> QED
      BY <1>2, <1>9, <1>10, <3>1, <3>2 DEF PageTypeOK
  <2>2. ButtonsInv'
    BY <1>2 DEF PageInv, ButtonsInv
  <2>3. ConnInv'
    BY <1>2, <1>3, Counters DEF PageInv, ConnInv
  <2>4. SentInv'
    BY <1>2 DEF PageInv, SentInv
  <2>5. ResultsInv'
    <3>1. \A i \in DOMAIN results' : i + k \in DOMAIN s /\ results'[i] = s[i + k]
      <4>1. DOMAIN results' = 1 .. Len(s) - k
        BY <1>13
      <4>2. Len(s) \in Nat /\ k \in {0, 1}
        BY <1>5, <1>s, <1>l, <1>11
      <4>3. \A i \in 1 .. Len(s) - k : i + k \in 1 .. Len(s)
        BY <4>2
      <4> QED
        BY <1>11, <1>13, <4>1, <4>3
    <3>2. \A i \in DOMAIN results' : Fresh(results'[i])
      BY <1>12, <3>1
    <3>3. \A i, j \in DOMAIN results' : i < j => Before(results'[i], results'[j])
      <4>1. \A i, j \in DOMAIN results' : i < j => i + k < j + k
        BY <1>13
      <4> QED
        BY <1>12, <3>1, <4>1
    <3> QED
      BY <1>2, <3>2, <3>3 DEF ResultsInv, Fresh, Before
  <2>6. StreamInv'
    <3>1. n + 1 \in 0 .. Len(sent')
      BY <1>3, <1>5
    <3>2. o \in 0 .. Len(results') /\ l \in 0 .. Len(sent')
      BY <1>13
    <3> QED
      BY <1>8, <1>13, <3>1, <3>2 DEF StreamInv
  <2> QED
    BY <2>1, <2>2, <2>3, <2>4, <2>5, <2>6 DEF PageInv
<1>14. /\ \A i \in 1 .. Len(results) : results[i].conn = conn <=> i > old
       /\ \A i \in old + 1 .. Len(results) : results[i].record = sent[m + i - old]
       /\ m > 0 => source = "tail" /\ Len(results) = MaxResults
       /\ status # "done"
  BY <1>3, <1>5, <1>9, <1>s DEF OnPage
<1>15. /\ \A i \in 1 .. Len(s) : s[i].conn = conn <=> i > old
       /\ \A i \in old + 1 .. Len(s) : s[i].record = sent[m + i - old]
  <2>1. \A i \in 1 .. Len(s) : i \in 1 .. Len(results) \/ i = Len(results) + 1
    BY <1>5, <1>l
  <2>2. ASSUME NEW i \in 1 .. Len(s)
        PROVE  s[i].conn = conn <=> i > old
    <3>1. CASE i = Len(results) + 1
      <4>1. i > old
        BY <1>5, <3>1
      <4> QED
        BY <1>9, <1>11, <3>1, <4>1
    <3>2. CASE i \in 1 .. Len(results)
      BY <1>11, <1>14, <3>2
    <3> QED
      BY <2>1, <3>1, <3>2
  <2>3. ASSUME NEW i \in old + 1 .. Len(s)
        PROVE  s[i].record = sent[m + i - old]
    <3>1. CASE i = Len(results) + 1
      <4>1. m + i - old = n + 1
        BY <1>5, <3>1
      <4> QED
        BY <1>9, <1>11, <3>1, <4>1
    <3>2. CASE i \in 1 .. Len(results)
      <4>1. i \in old + 1 .. Len(results)
        BY <1>5, <3>2
      <4> QED
        BY <1>11, <1>14, <3>2, <4>1
    <3>3. i \in 1 .. Len(s)
      BY <1>5, <1>l
    <3> QED
      BY <2>1, <3>1, <3>2, <3>3
  <2> QED
    BY <2>2, <2>3
<1>16. CASE results' = s /\ ~(source = "tail" /\ Len(s) > MaxResults)
  <2>1. m = 0
    <3>1. m > 0 => Len(results) + 1 <= MaxResults /\ Len(results) = MaxResults
      BY <1>5, <1>l, <1>14, <1>16
    <3> QED
      BY <1>5, <3>1
  <2>2. OnPage(old, m, n + 1)'
    <3>1. n + 1 = m + Len(s) - old
      BY <1>5, <1>l
    <3> QED
      <4>1. /\ Len(results') = Len(s) /\ DOMAIN results' = 1 .. Len(s)
            /\ \A i \in 1 .. Len(s) : results'[i] = s[i]
        BY <1>11, <1>16
      <4>2. \A i \in old + 1 .. Len(s) : i \in 1 .. Len(s)
        BY <1>5
      <4>3. ~(m > 0) /\ status' # "done"
        BY <1>2, <1>14, <2>1
      <4> QED
        BY <1>15, <3>1, <4>1, <4>2, <4>3 DEF OnPage
  <2>3. /\ results' \in Seq(R) /\ Len(results') = Len(s) - 0
        /\ \A i \in 1 .. Len(s) - 0 : results'[i] = s[i + 0]
        /\ source = "tail" => Len(s) - 0 <= MaxResults
        /\ old \in 0 .. Len(results')
    BY <1>5, <1>l, <1>11, <1>16
  <2> QED
    BY <1>13, <2>2, <2>3
<1>17. CASE results' = Tail(s) /\ source = "tail" /\ Len(s) > MaxResults
  <2>1. Len(results) = MaxResults /\ Len(s) - 1 = Len(results)
    BY <1>5, <1>7, <1>l, <1>17
  <2>2. /\ results' \in Seq(R) /\ Len(results') = Len(s) - 1
        /\ DOMAIN results' = 1 .. Len(s) - 1
        /\ \A i \in 1 .. Len(s) - 1 : results'[i] = s[i + 1]
    BY <1>5, <1>l, <1>11, <1>17
  <2>3. ASSUME NEW o \in 0 .. Len(results), NEW l \in 0 .. Len(sent),
               l - o = m + 1 - old,
               \A i \in 1 .. Len(results) : i > o <=> i + 1 > old
        PROVE  PageInv'
    <3>1. n + 1 = l + Len(results') - o
      <4>1. Len(results') = Len(results) /\ o \in Nat /\ l \in Nat
        BY <1>5, <2>1, <2>2
      <4> QED
        BY <1>5, <2>3, <4>1
    <3>2. ASSUME NEW i \in DOMAIN results'
          PROVE  results'[i].conn = conn <=> i > o
      <4>1. \A k \in 1 .. Len(results) : k + 1 \in 1 .. Len(s)
        BY <1>5, <1>l
      <4>2. DOMAIN results' = 1 .. Len(results)
        BY <2>1, <2>2
      <4>3. \A k \in 1 .. Len(results) : results'[k] = s[k + 1]
        BY <2>1, <2>2
      <4> QED
        <5>1. /\ i \in 1 .. Len(results) /\ i + 1 \in 1 .. Len(s)
              /\ results'[i] = s[i + 1]
          BY <3>2, <4>1, <4>2, <4>3
        <5> QED
          BY <1>15, <2>3, <5>1
    <3>3. ASSUME NEW i \in o + 1 .. Len(results')
          PROVE  results'[i].record = sent[l + i - o]
      <4>1. i \in 1 .. Len(results) /\ i + 1 \in old + 1 .. Len(s)
        <5>1. i \in o + 1 .. Len(results) /\ o \in Nat
          BY <1>5, <2>1, <2>2
        <5>2. i \in 1 .. Len(results) /\ i > o
          BY <1>5, <5>1
        <5>3. i + 1 > old /\ Len(s) = Len(results) + 1
          BY <1>l, <2>3, <5>2
        <5> QED
          BY <1>5, <5>2, <5>3
      <4>2. m + (i + 1) - old = l + i - o
        BY <1>5, <2>3, <4>1
      <4> QED
        BY <1>15, <2>1, <2>2, <4>1, <4>2
    <3>4. OnPage(o, l, n + 1)'
      BY <1>2, <1>14, <1>17, <2>1, <2>2, <3>1, <3>2, <3>3 DEF OnPage
    <3> QED
      BY <1>13, <1>7, <2>1, <2>2, <2>3, <3>4
  <2>4. CASE old > 0
    <3>1. old - 1 \in 0 .. Len(results) /\ m - (old - 1) = m + 1 - old
      BY <1>5, <2>4
    <3>2. \A i \in 1 .. Len(results) : i > old - 1 <=> i + 1 > old
      BY <1>5
    <3> QED
      BY <2>3, <3>1, <3>2
  <2>5. CASE old = 0
    <3>1. 0 \in 0 .. Len(results) /\ m + 1 \in 0 .. Len(sent) /\ (m + 1) - 0 = m + 1 - old
      <4>1. m < Len(sent)
        BY <1>3, <1>5, <2>5
      <4> QED
        BY <1>5, <2>5, <4>1
    <3>2. \A i \in 1 .. Len(results) : i > 0 <=> i + 1 > old
      BY <1>5, <2>5
    <3> QED
      BY <2>3, <3>1, <3>2
  <2> QED
    BY <1>5, <2>4, <2>5
<1> QED
  BY <1>4, <1>16, <1>17 DEF s

LEMMA DispatchKeeps ==
    ASSUME PageInv, Dispatch
    PROVE  PageInv'
<1>1. /\ ready = "open" /\ wire # << >>
      /\ UNCHANGED <<end, conn, first, sent, limit, final, from, drops>>
      /\ OnHit \/ OnFinal \/ OnEnd
  BY DEF Dispatch, serverVars
<1>2. ~OnEnd
  BY <1>1, NoEndAlone DEF OnEnd
<1> QED
  BY <1>1, <1>2, HitKeeps, FinalKeeps

\* A final event takes the end of the stream with it.
LEMMA Closing ==
    ASSUME NEW W, NEW u \in Seq(W), NEW f, NEW v,
           f # "none" => [event |-> f] \in W /\ [event |-> "end"] \in W,
           v = u \o IF f = "none" THEN << >> ELSE <<[event |-> f], [event |-> "end"]>>
    PROVE  /\ v \in Seq(W)
           /\ Len(v) = Len(u) + IF f = "none" THEN 0 ELSE 2
           /\ \A i \in 1 .. Len(u) : v[i] = u[i]
           /\ f # "none" => /\ v[Len(u) + 1] = [event |-> f]
                            /\ v[Len(u) + 2] = [event |-> "end"]
<1>1. CASE f = "none"
  <2>1. v = u \o << >>
    BY <1>1
  <2> QED
    BY <1>1, <2>1
<1>2. CASE f # "none"
  <2> DEFINE a == [event |-> f]
             b == [event |-> "end"]
  <2>1. a \in W /\ b \in W /\ v = u \o <<a, b>>
    BY <1>2
  <2> HIDE DEF a, b
  <2>2. /\ v \in Seq(W) /\ Len(v) = Len(u) + 2
        /\ \A i \in 1 .. Len(u) : v[i] = u[i]
        /\ v[Len(u) + 1] = a /\ v[Len(u) + 2] = b
    BY <2>1
  <2> QED
    BY <1>2, <2>2 DEF a, b
<1> QED
  BY <1>1, <1>2

LEMMA FinishKeeps ==
    ASSUME PageInv, ServerFinishes
    PROVE  PageInv'
<1> DEFINE W == [event : {"hit"}, record : Matching] \cup [event : {"done", "failed", "end"}]
<1>1. PICK f \in {"done", "failed"} :
        /\ source = "tail" => f = "failed"
        /\ final = "none" /\ final' = f /\ UNCHANGED <<limit, sent>>
        /\ Transmit(<< >>)
  BY DEF ServerFinishes, Server!Finish
<1>2. /\ ready = "open"
      /\ UNCHANGED <<end, source, ready, running, results, status, conn, first, from, drops>>
      /\ wire' = wire \o << >> \o IF final' = "none" THEN << >>
                                  ELSE <<[event |-> final'], [event |-> "end"]>>
  BY <1>1 DEF ServerFinishes, Transmit, scriptVars
<1>3. PICK old \in 0 .. Len(results), m, n \in 0 .. Len(sent) : OnPage(old, m, n) /\ OnWire(n)
  BY <1>2, Reading
<1>4. wire \in Seq(W)
  BY DEF PageInv, PageTypeOK
<1>5. [event |-> f] \in W /\ [event |-> "end"] \in W
  OBVIOUS
<1> HIDE DEF W
<1>6. wire' = wire \o IF f = "none" THEN << >> ELSE <<[event |-> f], [event |-> "end"]>>
  <2>1. wire \o << >> = wire
    BY <1>4
  <2> QED
    BY <1>1, <1>2, <2>1
<1>7. /\ wire' \in Seq(W) /\ Len(wire') = Len(wire) + 2
      /\ \A i \in 1 .. Len(wire) : wire'[i] = wire[i]
      /\ wire'[Len(wire) + 1] = [event |-> f] /\ wire'[Len(wire) + 2] = [event |-> "end"]
  BY <1>1, <1>4, <1>5, <1>6, Closing
<1>8. PageTypeOK'
  BY <1>1, <1>2, <1>7 DEF PageInv, PageTypeOK, W
<1>9. ButtonsInv'
  BY <1>2 DEF PageInv, ButtonsInv
<1>10. ConnInv'
  <2>1. source = "tail" => final' # "done"
    BY <1>1
  <2> QED
    BY <1>2, <2>1 DEF PageInv, ConnInv
<1>11. SentInv' /\ ResultsInv'
  BY <1>1, <1>2 DEF PageInv, SentInv, ResultsInv, Fresh, Before
<1>12. StreamInv'
  <2>1. Len(wire) = Len(sent) - n /\ Len(sent) \in Nat /\ n \in Nat
    BY <1>1, <1>3, PageTypes DEF OnWire
  <2>2. OnWire(n)'
    <3>1. Len(sent) - n + 1 = Len(wire) + 1 /\ Len(sent) - n + 2 = Len(wire) + 2
      BY <2>1
    <3>2. \A i \in 1 .. Len(sent) - n : wire'[i] = [event |-> "hit", record |-> sent[n + i]]
      BY <1>3, <1>7, <2>1 DEF OnWire
    <3>3. final' # "none"
      BY <1>1
    <3> QED
      BY <1>1, <1>7, <2>1, <3>1, <3>2, <3>3 DEF OnWire
  <2>3. OnPage(old, m, n)'
    BY <1>1, <1>2, <1>3 DEF OnPage
  <2> QED
    BY <1>1, <1>2, <2>2, <2>3 DEF StreamInv
<1> QED
  BY <1>8, <1>9, <1>10, <1>11, <1>12 DEF PageInv

\* A hit goes out on the wire, maybe with the end of the search.
LEMMA ShowKeeps ==
    ASSUME PageInv, ServerShows
    PROVE  PageInv'
<1> DEFINE W == [event : {"hit"}, record : Matching] \cup [event : {"done", "failed", "end"}]
<1>1. PICK c \in Records :
        /\ c[2] < end[c[1]]
        /\ source = "tail" => c[2] >= from[c[1]]
        /\ final = "none" /\ c \in Matching
        /\ \A i \in 1 .. Len(sent) : sent[i][1] = c[1] => sent[i][2] < c[2]
        /\ sent' = Append(sent, c) /\ final' \in {"none", "done"} /\ limit' = limit
        /\ source = "tail" => final' = "none"
        /\ Transmit(<<[event |-> "hit", record |-> c]>>)
  BY DEF ServerShows, Server!Show, Server!IsNews
<1> DEFINE h == [event |-> "hit", record |-> c]
<1>2. /\ ready = "open"
      /\ UNCHANGED <<end, source, ready, running, results, status, conn, first, from, drops>>
      /\ wire' = wire \o <<h>> \o IF final' = "none" THEN << >>
                                  ELSE <<[event |-> final'], [event |-> "end"]>>
  BY <1>1 DEF ServerShows, Transmit, scriptVars
<1>3. PICK old \in 0 .. Len(results), m, n \in 0 .. Len(sent) : OnPage(old, m, n) /\ OnWire(n)
  BY <1>2, Reading
<1>4. wire \in Seq(W) /\ h \in W
  BY <1>1 DEF PageInv, PageTypeOK
<1>5. final' # "none" => [event |-> final'] \in W /\ [event |-> "end"] \in W
  BY <1>1
<1>6. /\ Len(sent) \in Nat /\ Len(sent') = Len(sent) + 1 /\ sent' \in Seq(Matching)
      /\ DOMAIN sent = 1 .. Len(sent) /\ DOMAIN sent' = 1 .. Len(sent')
      /\ \A i \in 1 .. Len(sent) : sent'[i] = sent[i]
      /\ sent'[Len(sent) + 1] = c
  BY <1>1, PageTypes
<1>7. Len(wire) = Len(sent) - n /\ n \in Nat /\ n <= Len(sent)
  BY <1>1, <1>3, <1>6 DEF OnWire
<1> DEFINE u == wire \o <<h>>
           t == final'
<1> HIDE DEF W, h
<1>8. /\ u \in Seq(W) /\ Len(u) = Len(wire) + 1
      /\ \A i \in 1 .. Len(wire) : u[i] = wire[i]
      /\ u[Len(wire) + 1] = h
  BY <1>4
<1> HIDE DEF u, t
<1>9. wire' = u \o IF t = "none" THEN << >> ELSE <<[event |-> t], [event |-> "end"]>>
  BY <1>2 DEF u, t
<1>10. t # "none" => [event |-> t] \in W /\ [event |-> "end"] \in W
  BY <1>5 DEF t
<1>11. /\ wire' \in Seq(W)
       /\ Len(wire') = Len(u) + IF t = "none" THEN 0 ELSE 2
       /\ \A i \in 1 .. Len(u) : wire'[i] = u[i]
       /\ t # "none" => /\ wire'[Len(u) + 1] = [event |-> t]
                        /\ wire'[Len(u) + 2] = [event |-> "end"]
  BY <1>8, <1>9, <1>10, Closing
<1>12. PageTypeOK'
  <2>1. final' \in {"none", "done", "failed"}
    BY <1>1
  <2> QED
    BY <1>1, <1>2, <1>6, <1>11, <2>1 DEF PageInv, PageTypeOK, W
<1>13. ButtonsInv'
  BY <1>2 DEF PageInv, ButtonsInv
<1>14. ConnInv'
  <2>1. source = "tail" => final' # "done"
    BY <1>1
  <2> QED
    BY <1>2, <2>1 DEF PageInv, ConnInv
<1>15. SentInv'
  <2>1. /\ \A i \in 1 .. Len(sent) : sent[i][2] < end[sent[i][1]]
        /\ status = "tail" /\ conn >= first =>
             \A i \in 1 .. Len(sent) : from[sent[i][1]] <= sent[i][2]
        /\ \A i, j \in 1 .. Len(sent) :
             i < j /\ sent[i][1] = sent[j][1] => sent[i][2] < sent[j][2]
    BY <1>6 DEF PageInv, SentInv
  <2>2. \A i \in DOMAIN sent' : i \in 1 .. Len(sent) \/ i = Len(sent) + 1
    BY <1>6
  <2>3. status = "tail" => from[c[1]] <= c[2]
    <3>1. source = status /\ c[2] \in Nat /\ from[c[1]] \in Nat
      BY <1>1, <1>2, Reading, PageBounds, PageTypes
    <3> QED
      BY <1>1, <3>1
  <2>4. \A i \in DOMAIN sent' : sent'[i][2] < end[sent'[i][1]]
    BY <1>1, <1>6, <2>1, <2>2
  <2>5. status = "tail" /\ conn >= first =>
          \A i \in DOMAIN sent' : from[sent'[i][1]] <= sent'[i][2]
    BY <1>6, <2>1, <2>2, <2>3
  <2>6. ASSUME NEW i \in DOMAIN sent', NEW j \in DOMAIN sent', i < j,
               sent'[i][1] = sent'[j][1]
        PROVE  sent'[i][2] < sent'[j][2]
    <3>1. i \in 1 .. Len(sent)
      BY <1>6, <2>6
    <3>2. CASE j = Len(sent) + 1
      BY <1>1, <1>6, <2>6, <3>1, <3>2
    <3>3. CASE j \in 1 .. Len(sent)
      BY <1>6, <2>1, <2>6, <3>1, <3>3
    <3> QED
      BY <2>2, <3>2, <3>3
  <2> QED
    BY <1>2, <2>4, <2>5, <2>6 DEF SentInv
<1>16. ResultsInv'
  BY <1>2 DEF PageInv, ResultsInv, Fresh, Before
<1>17. OnWire(n)'
  <2>1. /\ Len(sent') - n = Len(u) /\ Len(u) = (Len(sent) - n) + 1
        /\ Len(sent') - n + 1 = Len(u) + 1 /\ Len(sent') - n + 2 = Len(u) + 2
    BY <1>6, <1>7, <1>8
  <2>2. ASSUME NEW i \in 1 .. Len(u)
        PROVE  wire'[i] = [event |-> "hit", record |-> sent'[n + i]]
    <3>1. CASE i = Len(wire) + 1
      <4>1. n + i = Len(sent) + 1
        BY <1>6, <1>7, <3>1
      <4> QED
        BY <1>6, <1>8, <1>11, <3>1, <4>1 DEF h
    <3>2. CASE i \in 1 .. Len(wire)
      <4>1. i \in 1 .. Len(sent) - n /\ n + i \in 1 .. Len(sent)
        BY <1>6, <1>7, <3>2
      <4>2. wire[i] = [event |-> "hit", record |-> sent[n + i]]
        BY <1>3, <4>1 DEF OnWire
      <4> QED
        BY <1>6, <1>8, <1>11, <3>2, <4>1, <4>2
    <3> QED
      BY <1>6, <1>7, <1>8, <3>1, <3>2
  <2> QED
    BY <1>11, <2>1, <2>2 DEF OnWire, t
<1>18. OnPage(old, m, n)'
  <2>1. status # "done" /\ Len(results) \in Nat /\ DOMAIN results = 1 .. Len(results)
    BY <1>2, Reading, PageTypes
  <2>2. /\ n = m + Len(results) - old
        /\ \A i \in old + 1 .. Len(results) : results[i].record = sent[m + i - old]
    BY <1>3 DEF OnPage
  <2>3. \A i \in old + 1 .. Len(results) : m + i - old \in 1 .. Len(sent)
    BY SMTT(30), <1>6, <1>7, <2>1, <2>2
  <2>4. \A i \in old + 1 .. Len(results) : results[i].record = sent'[m + i - old]
    BY <1>6, <2>2, <2>3
  <2> QED
    BY <1>2, <1>3, <2>1, <2>2, <2>4 DEF OnPage
<1>19. StreamInv'
  <2>1. m \in 0 .. Len(sent') /\ n \in 0 .. Len(sent')
    BY <1>6
  <2> QED
    BY <1>2, <1>17, <1>18, <2>1 DEF StreamInv
<1> QED
  BY <1>12, <1>13, <1>14, <1>15, <1>16, <1>19 DEF PageInv

LEMMA ProducedKeeps ==
    ASSUME PageInv, NEW p \in Partitions, Produced(p)
    PROVE  PageInv'
<1>1. /\ end[p] < MaxHigh /\ end' = [end EXCEPT ![p] = @ + 1]
      /\ UNCHANGED <<source, ready, running, results, status, conn, first, wire, sent, limit,
                     final, from, drops>>
  BY DEF Produced, scriptVars, serverVars
<1>2. /\ end \in [Partitions -> 0 .. MaxHigh] /\ MaxHigh \in Nat
      /\ \A q \in Partitions : end[q] \in Nat
  BY PageBounds, PageTypes DEF PageInv, PageTypeOK
<1>3. /\ end' \in [Partitions -> 0 .. MaxHigh]
      /\ \A q \in Partitions : end'[q] \in Nat /\ end[q] <= end'[q]
  BY <1>1, <1>2
<1>4. PageTypeOK'
  BY <1>1, <1>3 DEF PageInv, PageTypeOK
<1>5. \A c \in Matching : c[2] < end[c[1]] => c[2] < end'[c[1]]
  BY <1>2, <1>3, PageBounds
<1>6. ButtonsInv' /\ ConnInv' /\ StreamInv'
  <2>1. ButtonsInv' /\ ConnInv'
    BY <1>1 DEF PageInv, ButtonsInv, ConnInv
  <2>2. StreamInv'
    <3>1. SUFFICES ASSUME conn >= first
                   PROVE  \E old \in 0 .. Len(results), m, n \in 0 .. Len(sent) :
                            OnPage(old, m, n)' /\ (ready = "open" => OnWire(n)')
      BY <1>1 DEF StreamInv
    <3>2. PICK old \in 0 .. Len(results), m, n \in 0 .. Len(sent) :
             OnPage(old, m, n) /\ (ready = "open" => OnWire(n))
      BY <3>1 DEF PageInv, StreamInv
    <3>3. OnPage(old, m, n)'
      BY <1>1, <3>2 DEF OnPage
    <3>4. ready = "open" => OnWire(n)'
      BY <1>1, <3>2 DEF OnWire
    <3> QED
      BY <3>3, <3>4
  <2> QED
    BY <2>1, <2>2
<1>7. SentInv'
  BY <1>1, <1>5, PageTypes DEF PageInv, SentInv
<1>8. ResultsInv'
  <2>1. \A i \in DOMAIN results : results[i].record[2] < end'[results[i].record[1]]
    BY <1>5, PageTypes DEF PageInv, ResultsInv, Fresh
  <2> QED
    BY <1>1, <2>1 DEF PageInv, ResultsInv, Fresh, Before
<1> QED
  BY <1>4, <1>6, <1>7, <1>8 DEF PageInv

LEMMA InitPageInv ==
    ASSUME PageInit
    PROVE  PageInv
<1>1. PageTypeOK
  BY PageBounds DEF PageInit, PageTypeOK
<1>2. ButtonsInv /\ ConnInv
  BY PageBounds DEF PageInit, ButtonsInv, ConnInv
<1>3. SentInv /\ ResultsInv /\ StreamInv
  BY DEF PageInit, SentInv, ResultsInv, StreamInv
<1> QED
  BY <1>1, <1>2, <1>3 DEF PageInv

LEMMA PageInvHolds == PageSpec => []PageInv
<1>1. ASSUME PageInv, [PageNext]_pageVars
      PROVE  PageInv'
  <2>1. CASE PageNext
    BY <1>1, <2>1, StartKeeps, StopKeeps, DispatchKeeps, ConnectKeeps, RefusedKeeps,
       DropKeeps, ShowKeeps, FinishKeeps, ProducedKeeps DEF PageNext
  <2>2. CASE UNCHANGED pageVars
    <3>1. UNCHANGED <<end, source, ready, running, results, status, conn, first, wire, sent,
                      limit, final, from, drops>>
      BY <2>2 DEF pageVars, scriptVars, serverVars
    <3>2. PageTypeOK' /\ ButtonsInv' /\ ConnInv'
      BY <1>1, <3>1 DEF PageInv, PageTypeOK, ButtonsInv, ConnInv
    <3>3. SentInv' /\ ResultsInv'
      BY <1>1, <3>1 DEF PageInv, SentInv, ResultsInv, Fresh, Before
    <3>4. StreamInv'
      BY <1>1, <3>1 DEF PageInv, StreamInv, OnPage, OnWire
    <3> QED
      BY <3>2, <3>3, <3>4 DEF PageInv
  <2> QED
    BY <1>1, <2>1, <2>2
<1> QED
  BY <1>1, InitPageInv, PTL DEF PageSpec

\* Every variable of the page has its type, and a tail never shows more than its cap.
THEOREM PageTypeCorrect == PageSpec => []PageTypeOK
<1>1. PageInv => PageTypeOK
  BY DEF PageInv
<1> QED
  BY <1>1, PageInvHolds, PTL

\* Whatever startScan, startTail, stopScan, the reconnections of the EventSource and the
\* server do in whatever order, the page shows one search: its last connection's hits
\* from the first one on and in order, and all of them once it says "done".
THEOREM PageShowsOneStream == PageSpec => []ShowsOneStream
<1>1. ASSUME PageInv PROVE ShowsOneStream
  <2>1. \A i \in DOMAIN results : results[i].conn >= first
    BY <1>1, PageTypes, Counters DEF PageInv, ResultsInv, Fresh
  <2>2. \A i, j \in DOMAIN results :
          i < j /\ results[i].record[1] = results[j].record[1] =>
              \/ results[i].record[2] < results[j].record[2]
              \/ results[i].conn < results[j].conn /\ status # "tail"
    BY <1>1 DEF PageInv, ResultsInv, Before
  <2>3. ASSUME conn >= first
        PROVE  \E old \in 0 .. Len(results), m \in 0 .. Len(sent) :
                 LET n == m + Len(results) - old IN
                 /\ n <= Len(sent)
                 /\ \A i \in DOMAIN results : results[i].conn = conn <=> i > old
                 /\ \A i \in old + 1 .. Len(results) : results[i].record = sent[m + i - old]
                 /\ m > 0 => Len(results) = MaxResults
                 /\ status = "done" => m = 0 /\ n = Len(sent)
                 /\ ready = "open" => \A i \in n + 1 .. Len(sent) :
                      \E j \in DOMAIN wire : wire[j].event = "hit" /\ wire[j].record = sent[i]
    <3>1. PICK old \in 0 .. Len(results), m, n \in 0 .. Len(sent) :
             OnPage(old, m, n) /\ (ready = "open" => OnWire(n))
      BY <1>1, <2>3 DEF PageInv, StreamInv
    <3>2. n = m + Len(results) - old /\ n <= Len(sent) /\ n \in Nat /\ Len(sent) \in Nat
      BY <1>1, <3>1, PageTypes DEF OnPage
    <3>3. ASSUME ready = "open", NEW i \in n + 1 .. Len(sent)
          PROVE  \E j \in DOMAIN wire : wire[j].event = "hit" /\ wire[j].record = sent[i]
      <4>1. i - n \in 1 .. Len(sent) - n /\ n + (i - n) = i
        BY <3>2
      <4>2. wire[i - n] = [event |-> "hit", record |-> sent[n + (i - n)]]
        BY <3>1, <3>3, <4>1 DEF OnWire
      <4>3. i - n \in DOMAIN wire
        <5>1. Len(wire) \in Nat /\ DOMAIN wire = 1 .. Len(wire)
          BY <1>1, PageTypes
        <5>2. Len(wire) >= Len(sent) - n
          BY <3>1, <3>2, <3>3 DEF OnWire
        <5> QED
          BY <3>2, <4>1, <5>1, <5>2
      <4> QED
        BY <4>1, <4>2, <4>3
    <3> QED
      BY <3>1, <3>2, <3>3 DEF OnPage
  <2> QED
    BY <2>1, <2>2, <2>3 DEF ShowsOneStream
<1> QED
  BY <1>1, PageInvHolds, PTL
=============================================================================
