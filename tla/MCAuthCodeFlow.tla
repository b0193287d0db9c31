--------------------------- MODULE MCAuthCodeFlow ---------------------------
(***************************************************************************)
(* Small instances of AuthCodeFlow: a confidential web client and a public *)
(* single-page client, of two applications, and requests of which some are *)
(* as they should be and the others differ in the one thing that must stop *)
(* them.                                                                   *)
(***************************************************************************)
EXTENDS AuthCodeFlow, TLC

CONSTANTS webApp, spaApp

MCApps == {webApp, spaApp}
MCScopes == {"openid", "email"}
MCClients == {"web", "spa"}

MCClientRow == [c \in MCClients |->
    IF c = "web"
    THEN [app |-> webApp, type |-> "confidential", authMethod |-> "client_secret_basic",
          secret |-> "pw", redirectURIs |-> {"uriW"}]
    ELSE [app |-> spaApp, type |-> "public", authMethod |-> "none",
          secret |-> "", redirectURIs |-> {"uriS"}]]

MCInitialScopes == [a \in MCApps |-> MCScopes]
MCScopeChoices == {MCScopes, {"openid"}}

\* v1 hashes to ch1, v2 to ch2; short is a verifier below the minimum length.
MCS256 == [v \in {"v1", "v2", "short"} |-> IF v = "v2" THEN "ch2" ELSE "ch1"]
MCLength == [x \in {"v1", "v2", "short", "ch1", "ch2"} |-> IF x = "short" THEN 42 ELSE 43]

\* Authorization requests.
WebRequest ==
    [client |-> "web", redirectURI |-> "uriW", responseType |-> "code", state |-> "st",
     scope |-> {"openid", "email"}, nonce |-> "n1", challenge |-> "ch1", method |-> "S256"]
SpaRequest ==
    [client |-> "spa", redirectURI |-> "uriS", responseType |-> "code", state |-> "st",
     scope |-> {"openid"}, nonce |-> "n2", challenge |-> "ch2", method |-> "S256"]

MCAuthorizeRequests ==
    {WebRequest, SpaRequest,
     [WebRequest EXCEPT !.redirectURI = "uriS", !.method = "plain"],
     [SpaRequest EXCEPT !.nonce = ""]}
MCFewAuthorizeRequests == {WebRequest, SpaRequest}

\* Token requests.
WebExchange(c) ==
    [grantType |-> "authorization_code", code |-> c, redirectURI |-> "uriW",
     verifier |-> "v1", client |-> "", secret |-> "",
     hasBasic |-> TRUE, basicID |-> "web", basicSecret |-> "pw"]
SpaExchange(c) ==
    [grantType |-> "authorization_code", code |-> c, redirectURI |-> "uriS",
     verifier |-> "v2", client |-> "spa", secret |-> "",
     hasBasic |-> FALSE, basicID |-> "", basicSecret |-> ""]

\* The web client's code, redirect URI and verifier, sent by the other client.
StrayExchange(c) == [SpaExchange(c) EXCEPT !.redirectURI = "uriW", !.verifier = "v1"]

MCTokenRequests ==
    UNION {{WebExchange(c), SpaExchange(c), StrayExchange(c),
            [WebExchange(c) EXCEPT !.basicSecret = ""],
            [WebExchange(c) EXCEPT !.verifier = "v2"]} : c \in Codes}
MCFewTokenRequests ==
    UNION {{WebExchange(c), [WebExchange(c) EXCEPT !.verifier = "v2"]} : c \in Codes}

Symmetry == Permutations(Procs)
=============================================================================
