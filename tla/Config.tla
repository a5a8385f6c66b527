------------------------------- MODULE Config -------------------------------
(***************************************************************************)
(* What app/config.py makes of the environment at start-up: the clusters,  *)
(* the users and the authentication mode the process runs with, or a       *)
(* refusal to start.                                                       *)
(*                                                                         *)
(* Left out: settings that are only passed on (SSL files, the registry,    *)
(* the audit file), JSON itself (an entry is an object, or is not), and    *)
(* the characters of names and digests (they are well formed, or not).     *)
(***************************************************************************)
EXTENDS Integers, FiniteSets, Sequences

CONSTANTS
    Canonical,    \* what strip().upper() or strip().lower() makes of a word
    GoodNames,    \* the names that match CLUSTER_NAME_RE
    Unset,        \* a variable or key that is not there
    Blank         \* an empty text

Protocols     == {"PLAINTEXT", "SSL", "SASL_PLAINTEXT", "SASL_SSL"}
SaslProtocols == {"SASL_PLAINTEXT", "SASL_SSL"}
UserPass      == {"PLAIN", "SCRAM-SHA-256", "SCRAM-SHA-512"}
Mechanisms    == UserPass \cup {"OAUTHBEARER", "GSSAPI"}
AuthModes     == {"none", "basic", "proxy"}
Roles         == {"admin", "viewer"}

ASSUME ConfigAssumption ==
    /\ \A w \in DOMAIN Canonical : Canonical[w] \in DOMAIN Canonical
    /\ \A w \in DOMAIN Canonical : Canonical[Canonical[w]] = Canonical[w]
    /\ Blank \in DOMAIN Canonical /\ Canonical[Blank] = Blank
    /\ Unset # Blank
    /\ "default" \in GoodNames
    /\ Blank \notin GoodNames

ClusterEntry ==
    [isObject  : BOOLEAN,   \* the entry is a JSON object
     keysKnown : BOOLEAN,   \* it has no unknown key
     name      : STRING,
     brokers   : STRING,
     protocol  : DOMAIN Canonical \cup {Unset},
     mechanism : DOMAIN Canonical,
     username  : STRING,
     password  : STRING,
     readonly  : BOOLEAN]

UserEntry ==
    [parts : Nat, name : STRING, digest : STRING, digestOK : BOOLEAN,
     role : DOMAIN Canonical]

\* multi says that KAFKASCOPE_CLUSTERS is not blank; secretKey, that one is set.
Environment ==
    [flat        : {c \in ClusterEntry : c.isObject /\ c.keysKnown},
     multi       : BOOLEAN,
     clusters    : Seq(ClusterEntry),
     mode        : DOMAIN Canonical,
     users       : Seq(UserEntry),
     adminGroups : SUBSET STRING,
     readonly    : BOOLEAN,
     secretKey   : BOOLEAN]

-----------------------------------------------------------------------------
(* Users: entries name:digest:role                                         *)

UserEntryOK(u) == u.parts = 3 /\ Canonical[u.role] \in Roles /\ u.digestOK

\* The entry that counts: the last one of its name.
LastEntry(users, n) ==
    users[CHOOSE i \in DOMAIN users :
             /\ users[i].name = n
             /\ \A j \in DOMAIN users : users[j].name = n => j <= i]

\* Mutant: roles stay as they are written.
ParseUsersVerbatim(users) ==
    [n \in {users[i].name : i \in DOMAIN users} |->
        [digest |-> LastEntry(users, n).digest, role |-> LastEntry(users, n).role]]

\* parse_users
ParseUsers(users) ==
    [n \in {users[i].name : i \in DOMAIN users} |->
        [digest |-> LastEntry(users, n).digest, role |-> Canonical[LastEntry(users, n).role]]]

-----------------------------------------------------------------------------
(* Clusters                                                                *)

\* Mutant: credentials are not asked for.
CredentialsAny(c) == TRUE

\* A mechanism with a user name and a password has both.
CredentialsGiven(c) ==
    c.mechanism \in UserPass => c.username # Blank /\ c.password # Blank

\* _coherent_security
CoherentSecurity(c) ==
    /\ c.protocol \in Protocols
    /\ c.mechanism \in Mechanisms \cup {Blank}
    /\ c.protocol \in SaslProtocols => c.mechanism # Blank /\ CredentialsGiven(c)

Normalised(e) ==
    [e EXCEPT !.protocol = IF @ = Unset THEN "PLAINTEXT" ELSE Canonical[@],
              !.mechanism = Canonical[@]]

\* _cluster_from_dict: an entry of KAFKASCOPE_CLUSTERS.
EntryOK(e) ==
    /\ e.isObject
    /\ e.keysKnown
    /\ e.name \in GoodNames
    /\ e.brokers # Blank
    /\ CoherentSecurity(Normalised(e))

EntriesOK(entries) ==
    /\ entries # << >>
    /\ \A i \in DOMAIN entries : EntryOK(entries[i])
    /\ \A i, j \in DOMAIN entries : entries[i].name = entries[j].name => i = j

\* _normalise_protocol and _normalise_mechanism judge the flat variables even when
\* KAFKASCOPE_CLUSTERS is set.
FlatFieldsOK(c) ==
    /\ c.protocol \in Protocols
    /\ c.mechanism \in Mechanisms \cup {Blank}

\* _check_sasl_coherent, and the name of the cluster built from flat variables.
FlatOK(c) ==
    /\ c.protocol \in SaslProtocols => c.mechanism # Blank /\ CredentialsGiven(c)
    /\ c.name = Blank \/ c.name \in GoodNames

-----------------------------------------------------------------------------
(* Settings()                                                              *)

Accepts(env) ==
    /\ FlatFieldsOK(Normalised(env.flat))
    /\ Canonical[env.mode] \in AuthModes
    /\ Canonical[env.mode] = "basic" =>
           env.users # << >> /\ \A i \in DOMAIN env.users : UserEntryOK(env.users[i])
    /\ IF env.multi THEN EntriesOK(env.clusters) ELSE FlatOK(Normalised(env.flat))

\* The flat cluster is never read-only by itself.
Legacy(flat) ==
    [Normalised(flat) EXCEPT !.name = IF @ = Blank THEN "default" ELSE @,
                             !.readonly = FALSE]

\* _resolve_clusters: in the order they are given, the first one the default.
ResolveClusters(env) ==
    IF env.multi THEN [i \in DOMAIN env.clusters |-> Normalised(env.clusters[i])]
                  ELSE <<Legacy(env.flat)>>

-----------------------------------------------------------------------------
(* Properties                                                              *)

\* A SASL cluster can log in: what a process that started would otherwise find out
\* on its first call to the broker.
CanConnect(c) ==
    c.protocol \in SaslProtocols =>
        \/ c.mechanism \in {"OAUTHBEARER", "GSSAPI"}
        \/ c.mechanism \in UserPass /\ Blank \notin {c.username, c.password}

\* An environment the process starts with gives it a cluster, each with a name of
\* its own, brokers and what its protocol needs, and "basic" lets somebody in.  The
\* exception is a cluster of flat variables whose brokers are blank: nobody refuses
\* it, although an entry of KAFKASCOPE_CLUSTERS "needs a non-empty 'brokers'".
Workable(env) ==
    LET cs == ResolveClusters(env) IN
    /\ cs # << >>
    /\ Cardinality({cs[i].name : i \in DOMAIN cs}) = Len(cs)
    /\ \A i \in DOMAIN cs : cs[i].name \in GoodNames /\ CanConnect(cs[i])
    /\ \A i \in DOMAIN cs : cs[i].brokers = Blank => ~env.multi /\ env.flat.brokers = Blank
    /\ Canonical[env.mode] = "basic" =>
          \E n \in DOMAIN ParseUsers(env.users) : ParseUsers(env.users)[n].role \in Roles

\* A single cluster may be described in flat variables or in KAFKASCOPE_CLUSTERS.
\* The entry is accepted exactly if the flat description is and neither its name nor
\* its brokers are blank: a blank name is "default" in flat variables, and blank
\* brokers pass there unnoticed.
JudgedAlike(env) ==
    ~env.multi =>
        (Accepts([env EXCEPT !.multi = TRUE, !.clusters = <<env.flat>>])
           <=> Accepts(env) /\ Blank \notin {env.flat.brokers, env.flat.name})

=============================================================================
