------------------------------ MODULE Requests ------------------------------
(***************************************************************************)
(* What stands between the browser and every endpoint: the CSRF and        *)
(* authentication middleware, the cluster picked by the address, the right *)
(* to write, and the client that talks to that cluster (app/main.py,       *)
(* app/csrf.py, app/auth.py, app/kafka_client.py).                         *)
(*                                                                         *)
(* One browser, whose tabs share a cookie, has a request under way in each *)
(* of them, which loads a page or posts from it; to the cookie, a poll of  *)
(* auto-refresh is one more tab that loads.  The process may restart at    *)
(* any time; what it has not answered by then is lost, and without         *)
(* KAFKASCOPE_SECRET_KEY it comes back with another secret.                *)
(*                                                                         *)
(* The event loop runs both middlewares and select_cluster of a request    *)
(* without waiting for anything outside of it, so they are one action;     *)
(* require_write and the call to the cluster run on worker threads.        *)
(*                                                                         *)
(* Left out: public paths, security headers, what an endpoint does (a      *)
(* call to a cluster, which works or not), and bytes: a token is a serial  *)
(* number under a secret, a password is right or wrong.                    *)
(***************************************************************************)
EXTENDS Config

CONSTANTS
    Tabs,         \* the browser's tabs
    Address,      \* Address[t]: the cluster in the address of tab t
    Described,    \* the environments somebody may describe to the process
    Deployed,     \* bound: those requests are followed under
    Callers,      \* who may sit at the browser
    NoToken,      \* no cookie, or no header
    NoCluster,    \* no client yet, or no call
    MaxRestarts   \* bound: restarts of the process

ASSUME RequestsAssumption ==
    /\ IsFiniteSet(Tabs)
    /\ Described \subseteq Environment
    /\ Deployed \subseteq Described
    /\ MaxRestarts \in Nat

VARIABLES
    env,          \* the environment of the process
    started,      \* whether the settings were accepted: "no", "yes" or "refused"
    caller,       \* the credentials the browser, or the proxy, sends
    epoch,        \* how often the process has restarted
    admins,       \* _admins: the cluster each client is connected to
    cookie,       \* kafkascope_csrf
    page,         \* page[t]: what tab t shows
    req           \* the requests under way

vars == <<env, started, caller, epoch, admins, cookie, page, req>>

-----------------------------------------------------------------------------
(* Settings                                                                *)

Resolved == IF started = "yes" THEN ResolveClusters(env) ELSE << >>
Clusters == {Resolved[i].name : i \in DOMAIN Resolved}
Mode     == Canonical[env.mode]

DefaultCluster == Resolved[1].name

\* is_readonly: the cluster's own switch, or that of the whole instance.
IsReadonly(k) == env.readonly \/ \E i \in DOMAIN Resolved :
                                    Resolved[i].name = k /\ Resolved[i].readonly

-----------------------------------------------------------------------------
(* app/csrf.py                                                             *)

Serials == 0 .. 4 * Cardinality(Tabs) + 1
Token   == [secret : 0 .. MaxRestarts, serial : Serials]

\* A configured secret survives a restart, a random one does not.
Secret == IF env.secretKey THEN 0 ELSE epoch

Valid(tok) == tok # NoToken /\ tok.secret = Secret

\* Random: a token nobody has.
IssueToken ==
    LET known == {cookie} \cup {page[t].token : t \in Tabs}
                 \cup UNION {{req[t].cookie, req[t].header, req[t].token} : t \in Tabs}
    IN [secret |-> Secret,
        serial |-> CHOOSE n \in Serials : [secret |-> Secret, serial |-> n] \notin known]

\* Mutant: any cookie is kept.
TokenIfMissing(c) == IF c # NoToken THEN c ELSE IssueToken

\* The token of a request: that of its cookie, as long as it is good.
TokenFor(c) == IF Valid(c) THEN c ELSE IssueToken

Enforced == Mode \in {"basic", "proxy"}

\* Mutant: a cookie of an earlier secret counts as well.
AnyPair(t) == req[t].cookie # NoToken /\ req[t].cookie = req[t].header

TokensMatch(t) == Valid(req[t].cookie) /\ req[t].cookie = req[t].header

-----------------------------------------------------------------------------
(* app/auth.py                                                             *)

BasicRole ==
    LET users == ParseUsers(env.users) IN
    IF caller.name \in DOMAIN users /\ users[caller.name].digest = caller.digest
      THEN users[caller.name].role ELSE "unknown"

\* No admin group configured: everybody is one.
ProxyRole ==
    CASE caller.name = Blank -> "unknown"
      [] caller.name # Blank /\ env.adminGroups = {} -> "admin"
      [] OTHER -> IF caller.groups \cap env.adminGroups # {} THEN "admin" ELSE "viewer"

\* resolve_principal
Role == CASE started # "yes" -> "unknown"
          [] started = "yes" /\ Mode = "none"  -> "admin"
          [] started = "yes" /\ Mode = "basic" -> BasicRole
          [] started = "yes" /\ Mode = "proxy" -> ProxyRole

-----------------------------------------------------------------------------
NoRequest == [phase |-> "idle", kind |-> "none", url |-> NoCluster,
              cookie |-> NoToken, header |-> NoToken, token |-> NoToken,
              ctx |-> NoCluster, hit |-> NoCluster, audited |-> NoCluster,
              under |-> 0, status |-> "none"]

NoPage == [url |-> NoCluster, token |-> NoToken, refused |-> FALSE]

Init ==
    /\ env \in Described
    /\ started = "no"
    /\ caller \in Callers
    /\ epoch = 0
    /\ admins = << >>
    /\ cookie = NoToken
    /\ page = [t \in Tabs |-> NoPage]
    /\ req = [t \in Tabs |-> NoRequest]

NoClients == [k \in Clusters |-> NoCluster]

\* Settings() on import: the process comes up, or does not.
Start ==
    /\ started = "no"
    /\ started' = IF Accepts(env) THEN "yes" ELSE "refused"
    /\ UNCHANGED <<env, caller, epoch, cookie, page, req>>
    /\ admins' = NoClients'

-----------------------------------------------------------------------------
(* The browser                                                             *)

Send(t, kind, url, header) ==
    /\ started = "yes" /\ env \in Deployed
    /\ req[t] = NoRequest
    /\ req' = [req EXCEPT ![t] = [NoRequest EXCEPT !.phase = "sent", !.kind = kind,
                          !.url = url, !.cookie = cookie, !.header = header]]
    /\ UNCHANGED <<env, started, caller, epoch, admins, cookie, page>>

Load(t) == Send(t, "load", Address[t], NoToken)

Open(t) == page[t] # NoPage

\* hx-headers of the page's body; a user who was refused reloads the page first.
Post(t) ==
    /\ Open(t) /\ ~page[t].refused
    /\ Send(t, "post", page[t].url, page[t].token)

-----------------------------------------------------------------------------
(* The server                                                              *)

Respond(t, status) == req' = [req EXCEPT ![t] = [@ EXCEPT !.phase = "answered", !.status = status]]

\* Mutant: the dependency runs on a thread of its own, whose context is gone after.
ContextLost(k) == DefaultCluster

\* set_current_cluster, for the rest of the request and its threads.
Context(k) == k

\* csrf_middleware, authenticate, select_cluster.
Enter(t) ==
    /\ req[t].phase = "sent"
    /\ LET q == [req[t] EXCEPT !.token = TokenFor(req[t].cookie), !.phase = "answered"]
           answer ==
             IF Enforced /\ q.kind = "post" /\ ~TokensMatch(t)
               THEN [q EXCEPT !.token = q.cookie, !.status = "csrf"]
             ELSE IF Role = "unknown" THEN [q EXCEPT !.status = "unauthenticated"]
             ELSE IF q.url \notin Clusters THEN [q EXCEPT !.status = "missing"]
             ELSE [q EXCEPT !.ctx = Context(q.url),
                            !.phase = IF q.kind = "post" THEN "authorise" ELSE "call"]
       IN req' = [req EXCEPT ![t] = answer]
    /\ UNCHANGED <<env, started, caller, epoch, admins, cookie, page>>

CanWrite(t) == Role = "admin" /\ ~IsReadonly(req[t].ctx)

\* require_write
Authorise(t) ==
    /\ req[t].phase = "authorise"
    /\ IF CanWrite(t) THEN req' = [req EXCEPT ![t].phase = "call"]
                      ELSE Respond(t, "forbidden")
    /\ UNCHANGED <<env, started, caller, epoch, admins, cookie, page>>

\* The endpoint with a client connected to k: an operation is audited whatever
\* becomes of it; a page that cannot be made is the error page of the outermost
\* layer, and brings no cookie.  "under" is history: the secret at that moment.
Call(t, k) ==
    \E worked \in BOOLEAN :
        LET q    == req[t]
            post == q.kind = "post"
        IN req' = [req EXCEPT ![t] =
             [q EXCEPT !.phase = "answered", !.hit = k, !.under = Secret,
                       !.audited = IF post THEN q.ctx ELSE NoCluster,
                       !.status = IF post \/ worked THEN "ok" ELSE "broken",
                       !.token = IF post \/ worked THEN q.token ELSE q.cookie]]

Key(t) == req[t].ctx

\* admin(): the client of the cluster, if there is one already.
UseClient(t) ==
    /\ req[t].phase = "call"
    /\ IF admins[Key(t)] # NoCluster THEN Call(t, admins[Key(t)])
                                     ELSE req' = [req EXCEPT ![t].phase = "connect"]
    /\ UNCHANGED <<env, started, caller, epoch, admins, cookie, page>>

\* Another thread may have stored a client by now, which is then replaced.
MakeClient(t) ==
    /\ req[t].phase = "connect"
    /\ admins' = [admins EXCEPT ![Key(t)] = req[t].ctx]
    /\ Call(t, req[t].ctx)
    /\ UNCHANGED <<env, started, caller, epoch, cookie, page>>

ServerStep(t) == Enter(t) \/ Authorise(t) \/ UseClient(t) \/ MakeClient(t)

-----------------------------------------------------------------------------
\* The answer arrives: its Set-Cookie, and its page.
Arrive(t) ==
    /\ req[t].phase = "answered"
    /\ LET q == req[t] IN
         /\ cookie' = IF q.token # q.cookie THEN q.token ELSE cookie
         /\ page' = [page EXCEPT ![t] =
                CASE q.kind = "load" -> IF q.status # "ok" THEN NoPage ELSE
                          [url |-> q.url, token |-> q.token, refused |-> FALSE]
                  [] q.kind = "post" -> [@ EXCEPT !.refused = q.status = "csrf"]]
    /\ req' = [req EXCEPT ![t] = NoRequest]
    /\ UNCHANGED <<env, started, caller, epoch, admins>>

\* The connections of unanswered requests break; a page that was on its way never
\* comes.
Restart ==
    /\ started = "yes" /\ env \in Deployed
    /\ epoch < MaxRestarts
    /\ epoch' = epoch + 1
    /\ admins' = NoClients
    /\ req' = [t \in Tabs |-> IF req[t].phase = "answered" THEN req[t] ELSE NoRequest]
    /\ page' = [t \in Tabs |->
                  IF req'[t] = NoRequest /\ req[t].kind = "load"
                    THEN NoPage ELSE page[t]]
    /\ UNCHANGED <<env, started, caller, cookie>>

Next ==
    \/ Start
    \/ \E t \in Tabs : Load(t) \/ Post(t) \/ ServerStep(t) \/ Arrive(t)
    \/ Restart

Spec == Init /\ [][Next]_vars

\* Threads and connections go on, and a user of a tab keeps trying: loads the page
\* when there is none to post from, and posts when there is.
FairSpec ==
    /\ Spec
    /\ \A t \in Tabs : WF_vars(ServerStep(t)) /\ WF_vars(Arrive(t))
    /\ \A t \in Tabs : SF_vars(Post(t)) /\ WF_vars((~Open(t) \/ page[t].refused) /\ Load(t))

-----------------------------------------------------------------------------
(* Properties                                                              *)

\* Every variable has its type.
TypeOK ==
    /\ started \in {"no", "yes", "refused"}
    /\ caller \in Callers
    /\ Role \in Roles \cup {"unknown"}
    /\ epoch \in 0 .. MaxRestarts
    /\ admins \in [Clusters -> Clusters \cup {NoCluster}]
    /\ cookie \in Token \cup {NoToken}
    /\ page \in [Tabs -> [url : Clusters \cup {NoCluster}, token : Token \cup {NoToken},
                          refused : BOOLEAN]]
    /\ req \in [Tabs ->
         [phase : {"idle", "sent", "authorise", "call", "connect", "answered"},
          kind : {"none", "load", "post"},
          url : {Address[t] : t \in Tabs} \cup {NoCluster},
          cookie : Token \cup {NoToken}, header : Token \cup {NoToken},
          token : Token \cup {NoToken},
          ctx : Clusters \cup {NoCluster}, hit : Clusters \cup {NoCluster},
          audited : Clusters \cup {NoCluster}, under : 0 .. MaxRestarts,
          status : {"none", "ok", "broken", "csrf", "unauthenticated", "missing",
                    "forbidden"}]]

\* Whatever the environment, the process either refuses to start or starts with
\* settings it can work with -- apart from blank brokers, which it takes from flat
\* variables; but for those and a blank name, both ways to describe a cluster are
\* judged alike.
ConfigSound == /\ JudgedAlike(env)
               /\ started = "yes" => Workable(env)

\* "Never a silent fall-through to some other cluster": whatever requests run side
\* by side, each reaches the cluster its address names and no other, and its audit
\* line names that cluster.
OwnCluster ==
    \A t \in Tabs : /\ req[t].hit \in {NoCluster, req[t].url}
                    /\ req[t].audited \in {NoCluster, req[t].url}
                    /\ req[t].status = "ok" => req[t].hit = req[t].url

\* An operation that reached a cluster was asked for by an admin, of a cluster that
\* may be written to, and is audited; and where tokens are enforced, it came from a
\* page that carried the browser's cookie, a token of the secret the process had
\* when it made the call -- one from before a restart with another secret writes
\* nothing.
WritesEntitled ==
    \A t \in Tabs : req[t].kind = "post" /\ req[t].hit # NoCluster =>
        /\ Role = "admin"
        /\ ~env.readonly
        /\ \A i \in DOMAIN Resolved : Resolved[i].name = req[t].url => ~Resolved[i].readonly
        /\ Enforced => /\ req[t].header = req[t].cookie
                       /\ req[t].header # NoToken /\ req[t].header.secret = req[t].under
        /\ req[t].audited # NoCluster

\* The process knows the caller.
Known == started = "yes" /\ env \in Deployed /\ Role # "unknown"

\* A post gets past the token check, or a page does not load.
GotThrough(t) == req[t].kind = "post" /\ req[t].status \in {"ok", "forbidden"}
LoadBroken(t) == req[t].status \in {"broken", "missing"}

\* Neither restarts nor other tabs lock a user out for good: who keeps trying, and
\* reloads after a refusal, gets through again and again as long as pages load.
PersistentUserSucceeds ==
    \A t \in Tabs : Known ~> GotThrough(t) \/ LoadBroken(t)
=============================================================================
