----------------------------- MODULE MCRequests -----------------------------
(* Small instances of Requests, and descriptions for Config, for TLC.      *)
EXTENDS Requests, TLC

CONSTANTS t1, t2

Words == {"PLAINTEXT", "SASL_SSL", "PLAIN", "GSSAPI", "NTLM", "none", "basic",
          "proxy", "ldap", "admin", "viewer", "root", "SASL_PLAINTEXT"}

MCCanonical == [w \in Words |-> w] @@ "sasl_ssl" :> "SASL_SSL" @@ "Basic" :> "basic"
               @@ "Admin" :> "admin" @@ Blank :> Blank

MCGoodNames == {"default", "dev", "prod"}

Dev  == [isObject |-> TRUE, keysKnown |-> TRUE, name |-> "dev", brokers |-> "b",
         protocol |-> Unset, mechanism |-> Blank, username |-> Blank,
         password |-> Blank, readonly |-> FALSE]
Prod == [Dev EXCEPT !.name = "prod", !.readonly = TRUE]

User(name, role) ==
    [parts |-> 3, name |-> name, digest |-> "x", digestOK |-> TRUE, role |-> role]

Base == [flat |-> Dev, multi |-> TRUE, clusters |-> <<Dev, Prod>>, mode |-> "none", users |-> << >>,
         adminGroups |-> {}, readonly |-> FALSE, secretKey |-> FALSE]

\* No login; users, one of them listed twice; a proxy in front of a process that
\* keeps its secret; one read-only cluster.
MCDeployed ==
    { Base,
      [Base EXCEPT !.mode = "Basic",
           !.users = <<User("ann", "viewer"), User("vic", "viewer"), User("ann", "Admin")>>],
      [Base EXCEPT !.mode = "proxy", !.adminGroups = {"ops"}, !.secretKey = TRUE],
      [Base EXCEPT !.mode = "proxy", !.multi = FALSE, !.readonly = TRUE] }

MCCallers ==
    { [name |-> "ann", digest |-> "x", groups |-> {"ops", "dev"}],
      [name |-> "vic", digest |-> "y", groups |-> {"dev"}] }

MCAddress == [t \in Tabs |-> IF t = t1 THEN "dev" ELSE "prod"]

Shapes ==
    [isObject : {TRUE}, keysKnown : {TRUE}, name : {"dev", "a/b", Blank},
     brokers : {"b", Blank}, protocol : {Unset, Blank, "PLAINTEXT", "sasl_ssl"},
     mechanism : {Blank, "PLAIN", "GSSAPI", "NTLM"}, username : {"u", Blank},
     password : {"p", Blank}, readonly : {FALSE}]

\* Every shape of a cluster as flat variables and beside another entry, and every
\* way to list users.
MCDescribed ==
    MCDeployed
    \cup {[Base EXCEPT !.flat = s, !.multi = FALSE] : s \in Shapes}
    \cup {[Base EXCEPT !.clusters = <<s, d>>] : s \in Shapes, d \in {Dev, Prod}}
    \cup {[Base EXCEPT !.clusters = c] :
             c \in {<< >>, <<[Dev EXCEPT !.isObject = FALSE]>>, <<[Dev EXCEPT !.keysKnown = FALSE]>>}}
    \cup {[Base EXCEPT !.mode = m, !.users = u] :
             m \in {"none", "Basic", "proxy", "ldap"},
             u \in {<< >>, <<User("ann", "root")>>, <<User("ann", "Admin"), User("ann", "viewer")>>,
                    <<[User("ann", "admin") EXCEPT !.parts = 2]>>,
                    <<[User("ann", "admin") EXCEPT !.digestOK = FALSE]>>}}
=============================================================================
