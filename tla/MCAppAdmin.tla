----------------------------- MODULE MCAppAdmin -----------------------------
(***************************************************************************)
(* A small instance of AppAdmin: forms that are right, and forms that are  *)
(* wrong in one field.                                                     *)
(***************************************************************************)
EXTENDS AppAdmin, TLC

MCLower == [x \in Spellings |-> IF x = "OpenID" THEN "openid" ELSE x]

GoodApps ==
    {[name |-> "n1", firstParty |-> TRUE, scopes |-> {"openid", "OpenID"}],
     [name |-> "n1", firstParty |-> FALSE, scopes |-> {}]}
BadApps ==
    {[name |-> "n1", firstParty |-> TRUE, scopes |-> {"offline"}],
     [name |-> None, firstParty |-> TRUE, scopes |-> {}]}

Https == [absolute |-> TRUE, scheme |-> "https", loopback |-> FALSE,
          fragment |-> FALSE, wildcard |-> FALSE]
Local == [Https EXCEPT !.scheme = "http", !.loopback = TRUE]

\* Each of these must be refused.
BadURIs ==
    {[Https EXCEPT !.scheme = "http"], [Local EXCEPT !.scheme = "other"],
     [Https EXCEPT !.fragment = TRUE], [Https EXCEPT !.wildcard = TRUE],
     [Https EXCEPT !.absolute = FALSE]}

GoodClients ==
    {[type |-> t, redirects |-> {Https, Local}, rest |-> TRUE] : t \in {"confidential", "public"}}
BadClients ==
    {[type |-> "public", redirects |-> {Https, u}, rest |-> TRUE] : u \in BadURIs}
        \cup {[type |-> "other", redirects |-> {Https}, rest |-> TRUE],
              [type |-> "public", redirects |-> {}, rest |-> TRUE],
              [type |-> "public", redirects |-> {Https}, rest |-> FALSE]}

MCForms == (GoodApps \X GoodClients)
    \cup {<<f, g>> : f \in BadApps, g \in {h \in GoodClients : h.type = "public"}}
    \cup {<<f, g>> : f \in {h \in GoodApps : h.firstParty}, g \in BadClients}

Symmetry == Permutations(Procs) \cup Permutations(AppIds)
              \cup Permutations(ClientIds) \cup Permutations(Secrets)
=============================================================================
