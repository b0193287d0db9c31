---------------------------- MODULE AuthCodeFlow ----------------------------
(***************************************************************************)
(* The authorization code flow: GET /authorize (internal/authorize.go) and *)
(* POST /token (internal/token.go), with the session middleware in front   *)
(* of the first, the code repository between the two, and the parts of     *)
(* internal/oauth and internal/oidc they call.                             *)
(*                                                                         *)
(* Every request runs in a goroutine of its own (Procs).  A handler is a   *)
(* sequence of steps, one for each database call, and any step of another  *)
(* request, of the cleanup goroutine, of an operator editing an app, or of *)
(* the clock can come between two of them.  Clock values are read where    *)
(* the code reads them: Consume, for one, reads time.Now() before its      *)
(* UPDATE waits for a connection and runs.                                 *)
(*                                                                         *)
(* Strings are abstract, the empty one among them.  A scope parameter is   *)
(* the set of its fields.  A code, like a session token, stands for itself *)
(* and for its hash; it is drawn once.                                     *)
(***************************************************************************)
EXTENDS SessionStore, Sequences, FiniteSets

CONSTANTS
    Procs,              \* handler goroutines at once
    Codes,              \* authorization codes that can be drawn
    Clients,            \* client_ids with a row in oauth_clients
    ClientRow,          \* those rows, which no handler ever changes
    Apps,               \* applications
    Scopes,             \* scope names
    InitialScopes,      \* allowed_scopes of each application at the start
    ScopeChoices,       \* what an operator may set them to
    AuthorizeRequests,  \* the queries of GET /authorize considered
    TokenRequests,      \* the forms of POST /token considered
    S256,               \* PKCEChallenge: verifier to challenge
    Length,             \* length of a challenge or verifier
    CodeTTL,            \* oauth.AuthorizationCodeTTL, in clock ticks
    MaxTime,            \* bound: the clock stops here
    DBFaults,           \* whether database calls may fail
    Crashes,            \* whether the process may be killed and restarted
    Empty,              \* the empty string
    NoCode,             \* marks a code that has no row
    NoRequest,          \* marks a handler local that is not set
    Nobody              \* no user, and no session cookie

ClientRows == [app : Apps, type : {"public", "confidential"},
               authMethod : {"none", "client_secret_basic", "client_secret_post"},
               secret : STRING, redirectURIs : SUBSET STRING]

AuthorizeRequest == [client : STRING, redirectURI : STRING, responseType : STRING,
                     state : STRING, scope : SUBSET Scopes, nonce : STRING,
                     challenge : STRING, method : STRING]

\* basicID and basicSecret come from the Authorization header; hasBasic says
\* whether there was one.
TokenRequest == [grantType : STRING, code : Codes \cup {Empty}, redirectURI : STRING,
                 verifier : STRING, client : STRING, secret : STRING,
                 hasBasic : BOOLEAN, basicID : STRING, basicSecret : STRING]

CodeRow == [client : Clients, user : Subjects, redirectURI : STRING,
            scope : SUBSET Scopes, nonce : STRING, challenge : STRING,
            method : STRING, expiresAt : Nat, createdAt : Nat, consumed : BOOLEAN]

\* The claims and parameters of a successful answer of POST /token.
Token == [client : STRING, user : Subjects, redirectURI : STRING,
          verifier : STRING, idToken : BOOLEAN, email : BOOLEAN,
          nonce : STRING, authTime : Nat]

ASSUME EmptyAssumption == Empty \in STRING
ASSUME ClientsAssumption == Clients \subseteq STRING /\ ClientRow \in [Clients -> ClientRows]
ASSUME ScopesAssumption ==
    /\ InitialScopes \in [Apps -> SUBSET Scopes]
    /\ ScopeChoices \subseteq SUBSET Scopes
ASSUME RequestsAssumption ==
    /\ \A r \in AuthorizeRequests : r \in AuthorizeRequest
    /\ \A r \in TokenRequests : r \in TokenRequest
ASSUME TimeAssumption == CodeTTL \in Nat /\ MaxTime \in Nat
ASSUME FaultsAssumption == DBFaults \in BOOLEAN /\ Crashes \in BOOLEAN
ASSUME MarksAssumption ==
    /\ NoCode \notin CodeRow
    /\ NoRequest \notin AuthorizeRequests /\ NoRequest \notin TokenRequests
    /\ Nobody \notin Subjects /\ Nobody \notin Tokens

VARIABLES
    codes,        \* the oauth_authorization_codes table
    allowed,      \* allowed_scopes of each application
    pc,           \* where each handler is
    areq,         \* authorize: the parsed request
    user,         \* authorize: the user the middleware put in the context
    via,          \* authorize: the session that user came from
    expiry,       \* authorize: ExpiresAt of the row about to be inserted
    treq,         \* token: the parsed form
    stored,       \* token: the row GetByCodeHash returned
    clock,        \* token: the time Consume compares expires_at with
    redirects,    \* history: <<client, URI>> the browser was redirected for
    grants,       \* history: the tokens each code was exchanged for, in order
    spoiled,      \* history: codes whose exchange failed after Consume
    origin,       \* history: the session each code was issued through
    signedIn      \* history: the user and the app each session was made for

aLocals == <<areq, user, via, expiry>>
tLocals == <<treq, stored, clock>>
history == <<redirects, grants, spoiled, origin, signedIn>>
vars == <<now, sessions, codes, allowed, pc, aLocals, tLocals, history>>

AuthorizePCs == {"authClient", "authApp", "authCreate"}
TokenPCs == {"client", "getCode", "checkCode", "consume", "issue"}

Nowhere == [user |-> Nobody, app |-> Nobody]

TypeOK ==
    /\ SessionTypeOK
    /\ codes \in [Codes -> CodeRow \cup {NoCode}]
    /\ allowed \in [Apps -> SUBSET Scopes]
    /\ pc \in [Procs -> {"idle"} \cup AuthorizePCs \cup TokenPCs]
    /\ areq \in [Procs -> AuthorizeRequests \cup {NoRequest}]
    /\ user \in [Procs -> Subjects \cup {Nobody}]
    /\ via \in [Procs -> Tokens \cup {Nobody}]
    /\ expiry \in [Procs -> Nat]
    /\ treq \in [Procs -> TokenRequests \cup {NoRequest}]
    /\ stored \in [Procs -> CodeRow \cup {NoCode}]
    /\ clock \in [Procs -> Nat]
    /\ redirects \in SUBSET (STRING \X STRING)
    /\ grants \in [Codes -> Seq(Token)]
    /\ spoiled \in SUBSET Codes
    /\ origin \in [Codes -> Tokens \cup {Nobody}]
    /\ signedIn \in [Tokens -> [user : Subjects, app : Apps] \cup {Nowhere}]

Init ==
    /\ now = 0
    /\ sessions = NoSessions
    /\ codes = [c \in Codes |-> NoCode]
    /\ allowed = InitialScopes
    /\ pc = [p \in Procs |-> "idle"]
    /\ areq = [p \in Procs |-> NoRequest]
    /\ user = [p \in Procs |-> Nobody]
    /\ via = [p \in Procs |-> Nobody]
    /\ expiry = [p \in Procs |-> 0]
    /\ treq = [p \in Procs |-> NoRequest]
    /\ stored = [p \in Procs |-> NoCode]
    /\ clock = [p \in Procs |-> 0]
    /\ redirects = {}
    /\ grants = [c \in Codes |-> <<>>]
    /\ spoiled = {}
    /\ origin = [c \in Codes |-> Nobody]
    /\ signedIn = [t \in Tokens |-> Nowhere]

-----------------------------------------------------------------------------
(* What the handlers compute from a request and the rows they have read.   *)

\* oauth.AuthorizeRequest.Validate
ValidRequest(r) ==
    /\ r.responseType = "code"
    /\ r.challenge # Empty
    /\ r.method = "S256"
    /\ Length[r.challenge] \in 43..128
    /\ "openid" \in r.scope => r.nonce # Empty
    /\ r.state # Empty

\* oauth.IsRedirectURIAllowed
IsRedirectURIAllowed(c, uri) == uri \in ClientRow[c].redirectURIs

\* Faulty variant: the redirect URI is not looked up.
UnknownClient(r) == r.client = Empty \/ r.redirectURI = Empty \/ r.client \notin Clients

\* The requests authorizeHandler answers with its own error page, because
\* nothing says yet that the redirect URI can be trusted.
UntrustedTarget(r) ==
    \/ r.client = Empty \/ r.redirectURI = Empty
    \/ r.client \notin Clients
    \/ ~IsRedirectURIAllowed(r.client, r.redirectURI)

\* oauth.ValidateRequestedScopes
ValidateRequestedScopes(app, scope) == scope \subseteq allowed[app]

\* The client_id of a token request: the form's, or else that of the
\* Authorization header.
ClientID(r) == IF r.client # Empty THEN r.client ELSE r.basicID

\* A token request with a parameter missing or the wrong grant type.
Malformed(r) ==
    \/ r.grantType # "authorization_code"
    \/ Empty \in {r.code, r.redirectURI, r.verifier, ClientID(r)}

\* oauth.ValidateClientSecret
ValidateClientSecret(c, secret) ==
    ClientRow[c].secret # Empty /\ secret # Empty /\ ClientRow[c].secret = secret

\* authenticateTokenClient
AuthenticateTokenClient(r) ==
    LET c == ClientID(r)
    IN  \/ ClientRow[c].type # "confidential"
        \/ /\ ClientRow[c].authMethod = "client_secret_basic"
           /\ r.hasBasic /\ r.basicID = c /\ ValidateClientSecret(c, r.basicSecret)
        \/ /\ ClientRow[c].authMethod = "client_secret_post"
           /\ ValidateClientSecret(c, r.secret)

\* oauth.VerifyPKCE
VerifyPKCE(challenge, verifier, method) ==
    /\ method = "S256"
    /\ challenge # Empty
    /\ Length[verifier] \in 43..128
    /\ S256[verifier] = challenge

\* What middleware.Session finds for a cookie: its session's user, or nobody.
ContextUser(t) ==
    IF t \in Tokens /\ Validate(sessions[t], now) THEN sessions[t].subject ELSE Nobody

\* Faulty variant: the lifetime is subtracted.
NewCodeAlreadyExpired(p) ==
    LET r == areq[p]
    IN  [client |-> r.client, user |-> user[p], redirectURI |-> r.redirectURI,
         scope |-> r.scope, nonce |-> r.nonce, challenge |-> r.challenge,
         method |-> r.method, expiresAt |-> now - CodeTTL, createdAt |-> now,
         consumed |-> FALSE]

\* The row authorizeHandler inserts.  gorm sets created_at in Create.
NewCode(p) ==
    LET r == areq[p]
    IN  [client |-> r.client, user |-> user[p], redirectURI |-> r.redirectURI,
         scope |-> r.scope, nonce |-> r.nonce, challenge |-> r.challenge,
         method |-> r.method, expiresAt |-> expiry[p], createdAt |-> now,
         consumed |-> FALSE]

\* The answer of a successful exchange.  An ID token comes with the openid
\* scope only; its claims are sub, aud, nonce, email and auth_time.
NewToken(p) ==
    LET openid == "openid" \in stored[p].scope
    IN  [client |-> ClientID(treq[p]), user |-> stored[p].user,
         redirectURI |-> treq[p].redirectURI, verifier |-> treq[p].verifier,
         idToken |-> openid, email |-> openid /\ "email" \in stored[p].scope,
         nonce |-> IF openid THEN stored[p].nonce ELSE Empty,
         authTime |-> IF openid THEN stored[p].createdAt ELSE 0]

\* The answer is written: the goroutine ends and its locals are gone.
Finish(p) ==
    /\ pc' = [pc EXCEPT ![p] = "idle"]
    /\ areq' = [areq EXCEPT ![p] = NoRequest]
    /\ user' = [user EXCEPT ![p] = Nobody]
    /\ via' = [via EXCEPT ![p] = Nobody]
    /\ expiry' = [expiry EXCEPT ![p] = 0]
    /\ treq' = [treq EXCEPT ![p] = NoRequest]
    /\ stored' = [stored EXCEPT ![p] = NoCode]
    /\ clock' = [clock EXCEPT ![p] = 0]

\* A redirect to the request's redirect_uri, with a code or with an error.
Redirect(p) == redirects' = redirects \cup {<<areq[p].client, areq[p].redirectURI>>}

-----------------------------------------------------------------------------
(* GET /authorize.                                                         *)

\* Bound: a code is left for every authorize request in flight.
CodeLeft ==
    Cardinality({p \in Procs : pc[p] \in AuthorizePCs})
        < Cardinality({c \in Codes : codes[c] = NoCode})

\* The request comes in and the middleware looks at its cookie, if it has
\* one.  A failed lookup makes it the request of nobody.
AuthorizeBegin(p, t, r) ==
    /\ pc[p] = "idle"
    /\ CodeLeft
    /\ \E u \in {ContextUser(t)} \cup (IF DBFaults THEN {Nobody} ELSE {}) :
          /\ user' = [user EXCEPT ![p] = u]
          /\ via' = [via EXCEPT ![p] = IF u = Nobody THEN Nobody ELSE t]
    /\ areq' = [areq EXCEPT ![p] = r]
    /\ pc' = [pc EXCEPT ![p] = "authClient"]
    /\ UNCHANGED <<now, sessions, codes, allowed, expiry, tLocals, history>>

\* The client is loaded and the parameters are checked, those first that
\* say whether errors may be redirected.
AuthorizeClient(p) ==
    /\ pc[p] = "authClient"
    /\ \/ /\ UntrustedTarget(areq[p]) \/ DBFaults
          /\ Finish(p)
          /\ UNCHANGED redirects
       \/ /\ ~UntrustedTarget(areq[p])
          /\ ~ValidRequest(areq[p])
          /\ Finish(p)
          /\ Redirect(p)
       \/ /\ ~UntrustedTarget(areq[p])
          /\ ValidRequest(areq[p])
          /\ pc' = [pc EXCEPT ![p] = "authApp"]
          /\ UNCHANGED <<aLocals, tLocals, redirects>>
    /\ UNCHANGED <<now, sessions, codes, allowed, grants, spoiled, origin, signedIn>>

\* The application is loaded for its scopes.  Nobody gets the sign-in
\* prompt (or an error page in its place); a user gets a code, whose expiry
\* is fixed here.
AuthorizeApp(p) ==
    LET ok == ValidateRequestedScopes(ClientRow[areq[p].client].app, areq[p].scope)
    IN  /\ pc[p] = "authApp"
        /\ \/ /\ ~ok \/ DBFaults
              /\ Finish(p)
              /\ Redirect(p)
           \/ /\ ok
              /\ user[p] = Nobody
              /\ Finish(p)
              /\ UNCHANGED redirects
           \/ /\ ok
              /\ user[p] # Nobody
              /\ expiry' = [expiry EXCEPT ![p] = now + CodeTTL]
              /\ pc' = [pc EXCEPT ![p] = "authCreate"]
              /\ UNCHANGED <<areq, user, via, tLocals, redirects>>
        /\ UNCHANGED <<now, sessions, codes, allowed, grants, spoiled, origin, signedIn>>

\* The code is stored and handed to the client through the browser.  When
\* the INSERT reports an error the row may be there or not, and the browser
\* takes an error back instead.
AuthorizeCreate(p) ==
    /\ pc[p] = "authCreate"
    /\ \/ \E c \in Codes :
             /\ codes[c] = NoCode
             /\ codes' = [codes EXCEPT ![c] = NewCode(p)]
             /\ origin' = [origin EXCEPT ![c] = via[p]]
       \/ DBFaults /\ UNCHANGED <<codes, origin>>
    /\ Finish(p)
    /\ Redirect(p)
    /\ UNCHANGED <<now, sessions, allowed, grants, spoiled, signedIn>>

-----------------------------------------------------------------------------
(* POST /token.                                                            *)

TokenBegin(p, r) ==
    /\ pc[p] = "idle"
    /\ treq' = [treq EXCEPT ![p] = r]
    /\ pc' = [pc EXCEPT ![p] = "client"]
    /\ UNCHANGED <<now, sessions, codes, allowed, aLocals, stored, clock, history>>

\* The parameters are checked, the client is loaded and authenticated.
TokenClient(p) ==
    LET r == treq[p]
        ok == ~Malformed(r) /\ ClientID(r) \in Clients /\ AuthenticateTokenClient(r)
    IN  /\ pc[p] = "client"
        /\ \/ /\ ~ok \/ DBFaults
              /\ Finish(p)
           \/ /\ ok
              /\ pc' = [pc EXCEPT ![p] = "getCode"]
              /\ UNCHANGED <<aLocals, tLocals>>
        /\ UNCHANGED <<now, sessions, codes, allowed, history>>

\* Faulty variant: a code that is not found is not answered.
GetByCodeHashWaits(p) ==
    /\ pc[p] = "getCode"
    /\ codes[treq[p].code] # NoCode
    /\ stored' = [stored EXCEPT ![p] = codes[treq[p].code]]
    /\ pc' = [pc EXCEPT ![p] = "checkCode"]
    /\ UNCHANGED <<now, sessions, codes, allowed, aLocals, treq, clock, history>>

\* codes.GetByCodeHash
GetByCodeHash(p) ==
    LET c == treq[p].code
    IN  /\ pc[p] = "getCode"
        /\ \/ /\ codes[c] = NoCode \/ DBFaults
              /\ Finish(p)
           \/ /\ codes[c] # NoCode
              /\ stored' = [stored EXCEPT ![p] = codes[c]]
              /\ pc' = [pc EXCEPT ![p] = "checkCode"]
              /\ UNCHANGED <<aLocals, treq, clock>>
        /\ UNCHANGED <<now, sessions, codes, allowed, history>>

\* Faulty variant: the code of one client is taken from another.
RedeemableByAnyone(p) == ~stored[p].consumed /\ ~(now > stored[p].expiresAt)

\* The checks on the row read.
Redeemable(p) ==
    /\ stored[p].client = ClientID(treq[p])
    /\ ~stored[p].consumed
    /\ ~(now > stored[p].expiresAt)

\* The row read is checked, and the clock is read that Consume builds its
\* UPDATE with.
CheckCode(p) ==
    /\ pc[p] = "checkCode"
    /\ \/ /\ ~Redeemable(p)
          /\ Finish(p)
       \/ /\ Redeemable(p)
          /\ clock' = [clock EXCEPT ![p] = now]
          /\ pc' = [pc EXCEPT ![p] = "consume"]
          /\ UNCHANGED <<aLocals, treq, stored>>
    /\ UNCHANGED <<now, sessions, codes, allowed, history>>

\* Faulty variant: consumed_at IS NULL is missing.
ConsumableAgain(p) == codes[treq[p].code].expiresAt > clock[p]

\* The WHERE clauses of Consume's UPDATE.
Consumable(p) ==
    LET c == treq[p].code
    IN  codes[c] # NoCode /\ ~codes[c].consumed /\ codes[c].expiresAt > clock[p]

\* Faulty variant: the number of rows is tested the wrong way round.
ConsumeMisreadsRows(p) ==
    /\ pc[p] = "consume"
    /\ Consumable(p)
    /\ codes' = [codes EXCEPT ![treq[p].code].consumed = TRUE]
    /\ Finish(p)
    /\ UNCHANGED <<now, sessions, allowed, history>>

\* Faulty variant: RowsAffected is not looked at, so that a request whose
\* UPDATE matched no row goes on as well.
ConsumeIgnoresRows(p) ==
    /\ pc[p] = "consume"
    /\ codes' = IF Consumable(p) THEN [codes EXCEPT ![treq[p].code].consumed = TRUE]
                                ELSE codes
    /\ pc' = [pc EXCEPT ![p] = "issue"]
    /\ UNCHANGED <<now, sessions, allowed, aLocals, tLocals, history>>

\* codes.Consume: the UPDATE.  Whoever matches the row goes on; an error is
\* answered as invalid_grant, whether or not the UPDATE took effect.
Consume(p) ==
    LET c == treq[p].code
        consumed == [codes EXCEPT ![c].consumed = TRUE]
    IN  /\ pc[p] = "consume"
        /\ \/ /\ Consumable(p)
              /\ codes' = consumed
              /\ pc' = [pc EXCEPT ![p] = "issue"]
              /\ UNCHANGED <<aLocals, tLocals>>
           \/ /\ ~Consumable(p)
              /\ Finish(p)
              /\ UNCHANGED codes
           \/ /\ DBFaults
              /\ Finish(p)
              /\ codes' \in {codes, IF Consumable(p) THEN consumed ELSE codes}
        /\ UNCHANGED <<now, sessions, allowed, history>>

\* Faulty variant: a failed exchange gives the code back for a retry.
IssueOrRelease(p) ==
    LET c == treq[p].code
        ok == /\ stored[p].redirectURI = treq[p].redirectURI
              /\ VerifyPKCE(stored[p].challenge, treq[p].verifier, stored[p].method)
    IN  /\ pc[p] = "issue"
        /\ \/ /\ ~ok \/ DBFaults
              /\ spoiled' = spoiled \cup {c}
              /\ codes' = [codes EXCEPT ![c].consumed = FALSE]
              /\ UNCHANGED grants
           \/ /\ ok
              /\ grants' = [grants EXCEPT ![c] = Append(@, NewToken(p))]
              /\ UNCHANGED <<codes, spoiled>>
        /\ Finish(p)
        /\ UNCHANGED <<now, sessions, allowed, redirects, origin, signedIn>>

\* The rest of tokenHandler: redirect URI and PKCE are compared, the user is
\* loaded and the tokens are made.  Every failure comes after Consume.
Issue(p) ==
    LET c == treq[p].code
        ok == /\ stored[p].redirectURI = treq[p].redirectURI
              /\ VerifyPKCE(stored[p].challenge, treq[p].verifier, stored[p].method)
    IN  /\ pc[p] = "issue"
        /\ \/ /\ ~ok \/ DBFaults
              /\ spoiled' = spoiled \cup {c}
              /\ UNCHANGED grants
           \/ /\ ok
              /\ grants' = [grants EXCEPT ![c] = Append(@, NewToken(p))]
              /\ UNCHANGED spoiled
        /\ Finish(p)
        /\ UNCHANGED <<now, sessions, codes, allowed, redirects, origin, signedIn>>

-----------------------------------------------------------------------------
(* What goes on beside the handlers.                                       *)

\* The end of the upstream callback: a user has signed in with a provider of
\* app a and gets a session.
SignIn(t, u, a) ==
    /\ Create(t, u)
    /\ signedIn' = [signedIn EXCEPT ![t] = [user |-> u, app |-> a]]
    /\ UNCHANGED <<now, codes, allowed, pc, aLocals, tLocals,
                   redirects, grants, spoiled, origin>>

\* AppService.UpdateApp, as far as scopes go.
UpdateApp(a, scopes) ==
    /\ allowed' = [allowed EXCEPT ![a] = scopes]
    /\ UNCHANGED <<now, sessions, codes, pc, aLocals, tLocals, history>>

\* The cleanup goroutine, whose cutoff may be a little old.
Cleanup ==
    /\ \E cutoff \in 0..now : DeleteInactive(cutoff)
    /\ UNCHANGED <<now, codes, allowed, pc, aLocals, tLocals, history>>

Tick ==
    /\ now < MaxTime
    /\ now' = now + 1
    /\ UNCHANGED <<sessions, codes, allowed, pc, aLocals, tLocals, history>>

\* The process is killed and started again: the tables are all that is left.
Crash ==
    /\ Crashes
    /\ pc' = [p \in Procs |-> "idle"]
    /\ areq' = [p \in Procs |-> NoRequest]
    /\ user' = [p \in Procs |-> Nobody]
    /\ via' = [p \in Procs |-> Nobody]
    /\ expiry' = [p \in Procs |-> 0]
    /\ treq' = [p \in Procs |-> NoRequest]
    /\ stored' = [p \in Procs |-> NoCode]
    /\ clock' = [p \in Procs |-> 0]
    /\ UNCHANGED <<now, sessions, codes, allowed, history>>

AuthorizeStep(p) == AuthorizeClient(p) \/ AuthorizeApp(p) \/ AuthorizeCreate(p)

TokenStep(p) ==
    TokenClient(p) \/ GetByCodeHash(p) \/ CheckCode(p) \/ Consume(p) \/ Issue(p)

Next ==
    \/ \E p \in Procs, t \in Tokens \cup {Nobody}, r \in AuthorizeRequests :
          AuthorizeBegin(p, t, r)
    \/ \E p \in Procs, r \in TokenRequests : TokenBegin(p, r)
    \/ \E p \in Procs : AuthorizeStep(p) \/ TokenStep(p)
    \/ \E t \in Tokens, u \in Subjects, a \in Apps : SignIn(t, u, a)
    \/ \E a \in Apps, scopes \in ScopeChoices : UpdateApp(a, scopes)
    \/ Cleanup
    \/ Tick
    \/ Crash

Spec == Init /\ [][Next]_vars

\* The Go scheduler runs every goroutine, and the database answers.
Fairness == \A p \in Procs : WF_vars(AuthorizeStep(p)) /\ WF_vars(TokenStep(p))

FairSpec == Spec /\ Fairness

-----------------------------------------------------------------------------
(* Properties.                                                             *)

\* A code is exchanged for tokens at most once, however many requests race
\* for it, time out, crash or are repeated (the conditional UPDATE of
\* Consume; the row tokenHandler checked before may be stale).
AtMostOneExchange == \A c \in Codes : Len(grants[c]) <= 1

\* Tokens go to nobody but the client the code was issued to, which sent the
\* redirect URI and the verifier of the authorization request, and they name
\* the user whose session asked for the code; that redirect URI is one of
\* the client's own, and an ID token carries the request's nonce.
TokensMatchAuthorization ==
    \A c \in Codes : \A i \in DOMAIN grants[c] :
        LET g == grants[c][i] IN
        /\ codes[c] # NoCode
        /\ g.client = codes[c].client
        /\ g.redirectURI = codes[c].redirectURI
        /\ g.redirectURI \in ClientRow[g.client].redirectURIs
        /\ S256[g.verifier] = codes[c].challenge
        /\ origin[c] \in Tokens
        /\ g.user = signedIn[origin[c]].user
        /\ g.idToken => g.nonce # Empty /\ g.nonce = codes[c].nonce

\* "Consume first: a failed exchange must not leave the code reusable":
\* once an exchange got past Consume and failed, no request ever gets tokens
\* for that code, and none did.
FailedExchangeBurnsCode ==
    \A c \in spoiled : codes[c].consumed /\ grants[c] = <<>>

\* The browser is only ever sent to a redirect URI registered for the client
\* named in the request, errors included.
RedirectsStayRegistered ==
    \A e \in redirects : e[1] \in Clients /\ e[2] \in ClientRow[e[1]].redirectURIs

\* The abstract view: the table says whether a code is live or spent, the
\* handlers past Consume hold it, and every answer of POST /token shows.
Grants == [client : Clients, user : Subjects]
GrantOf(row) == [client |-> row.client, user |-> row.user]

Phase(c) ==
    IF codes[c] = NoCode THEN "none"
    ELSE IF codes[c].consumed THEN "spent" ELSE "live"
Bound(c) == IF codes[c] = NoCode THEN Nobody ELSE GrantOf(codes[c])
Holders(c) == {p \in Procs : pc[p] = "issue" /\ treq[p].code = c}
Given(c) == [i \in DOMAIN grants[c] |-> GrantOf(grants[c][i])]

Abstract == INSTANCE OneTimeCode WITH
    Requests <- Procs,
    NoGrant <- Nobody,
    phase <- [c \in Codes |-> Phase(c)],
    bound <- [c \in Codes |-> Bound(c)],
    holders <- [c \in Codes |-> Holders(c)],
    given <- [c \in Codes |-> Given(c)]

\* The handlers and the code table keep the promise of OneTimeCode: one
\* UPDATE spends a code, the request behind it is the only one ever to get
\* past Consume with it, and it answers once, for the client and the user
\* the code's row was inserted for.
CodesAreOneTime == Abstract!Spec

\* Every request is answered, none waits for another.
RequestsAreAnswered == \A p \in Procs : pc[p] # "idle" ~> pc[p] = "idle"

\* A code that was spent is settled: while the process lives, the request
\* that spent it ends in tokens or in a failure that is reported as one.
SpentCodesAreSettled ==
    \A c \in Codes :
        (codes[c] # NoCode /\ codes[c].consumed) ~> (grants[c] # <<>> \/ c \in spoiled)

\* "centrauth does not offer persistent SSO across unrelated apps": a session
\* yields codes only for clients of the app the user signed in for.
SessionsServeOneApp ==
    \A c \in Codes :
        codes[c] # NoCode => ClientRow[codes[c].client].app = signedIn[origin[c]].app
=============================================================================
