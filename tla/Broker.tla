------------------------------- MODULE Broker -------------------------------
(***************************************************************************)
(* Signing a user in through an upstream provider                          *)
(* (internal/upstream_flow.go): the sign-in prompt of GET /authorize       *)
(* remembers the request in a cookie, start sends the browser to Google or *)
(* GitHub with a fresh state and remembers the flow in a second cookie,    *)
(* and the callback exchanges the provider's code, makes a session and     *)
(* resumes the request.                                                    *)
(*                                                                         *)
(* Nothing of a flow is kept on the server.  Cookies are sealed, so a      *)
(* browser holds only what it was given, but its tabs share one of each    *)
(* name, a request carries the cookies of the moment it is sent, and a     *)
(* callback address can be opened again, late, or in another browser.      *)
(* The verifier is drawn together with the state and kept in the same      *)
(* cookie; one value stands for both.                                      *)
(***************************************************************************)
EXTENDS Integers, FiniteSets

CONSTANTS
    Browsers, Tabs,
    BrowserOf,       \* the browser of a tab
    Requests,        \* authorization requests: the addresses /authorize?...
    AppOf,           \* the application of a request's client
    Apps,
    Providers,
    Accounts,        \* accounts at the providers
    States,          \* state values that can be drawn
    TTL,             \* authorizeRequestTTL, in clock ticks
    MaxTime,         \* bound: the clock stops here
    Faults,          \* whether the database, a provider or provisioning may fail
    None             \* no cookie, nobody, nothing

Payload == [provider : Providers, state : States, app : Apps,
            returnTo : Requests, expiresAt : Nat]

ASSUME BrowsersAssumption == BrowserOf \in [Tabs -> Browsers]
ASSUME RequestsAssumption == AppOf \in [Requests -> Apps]
ASSUME ProvidersAssumption == Providers \subseteq {"google", "github"}
ASSUME BoundsAssumption == TTL \in Nat /\ MaxTime \in Nat /\ Faults \in BOOLEAN
ASSUME NoneAssumption ==
    None \notin Payload /\ None \notin Requests /\ None \notin Accounts
        /\ None \notin Providers /\ None \notin States /\ None \notin Browsers

VARIABLES
    now,
    enabled,     \* identity_providers: the <<app, provider>> rows that are enabled
    authz,       \* the centrauth_authz cookie: request and expiry
    upstream,    \* the centrauth_upstream cookie: payload and expiry
    session,     \* the account whose session cookie a browser has
    account,     \* providers: who signed in for a state
    used,        \* providers: states whose code has been exchanged
    pc,          \* where each tab is
    request,     \* the authorization request a tab's address or cookie holds
    provider,    \* the provider in a tab's address
    state,       \* the state in a tab's address
    payload,     \* the upstream cookie the tab's callback carried
    visitor,     \* the account whose session the tab's /authorize carried
    wanted,      \* history: the request the user opened in a tab
    origin,      \* history: browser, provider and request a state was drawn for
    via,         \* history: the state a browser's session came from
    late,        \* history: the provider has been off since the callback began
    answers      \* history: <<tab, wanted, request>> a code was issued for

cookies == <<authz, upstream, session>>
upstreamSide == <<account, used>>
locals == <<pc, request, provider, state, payload, visitor>>
history == <<wanted, origin, via, late, answers>>
vars == <<now, enabled, cookies, upstreamSide, locals, history>>

Unborn == [browser |-> None, provider |-> None, request |-> None]

TypeOK ==
    /\ now \in Nat
    /\ enabled \in SUBSET (Apps \X Providers)
    /\ authz \in [Browsers -> [value : Requests, until : Nat] \cup {None}]
    /\ upstream \in [Browsers -> [value : Payload, until : Nat] \cup {None}]
    /\ session \in [Browsers -> Accounts \cup {None}]
    /\ account \in [States -> Accounts \cup {None}]
    /\ used \in SUBSET States
    /\ pc \in [Tabs -> {"idle", "open", "authorize", "prompt", "start", "provider",
                        "return", "check", "lookup", "exchange", "signIn", "done"}]
    /\ request \in [Tabs -> Requests \cup {None}]
    /\ provider \in [Tabs -> Providers \cup {None}]
    /\ state \in [Tabs -> States \cup {None}]
    /\ payload \in [Tabs -> Payload \cup {None}]
    /\ visitor \in [Tabs -> Accounts \cup {None}]
    /\ wanted \in [Tabs -> Requests \cup {None}]
    /\ origin \in [States -> [browser : Browsers, provider : Providers, request : Requests]
                                \cup {Unborn}]
    /\ via \in [Browsers -> States \cup {None}]
    /\ late \in [Tabs -> BOOLEAN]
    /\ answers \in SUBSET (Tabs \X Requests \X Requests)

Init ==
    /\ now = 0
    /\ enabled = Apps \X Providers
    /\ authz = [b \in Browsers |-> None]
    /\ upstream = [b \in Browsers |-> None]
    /\ session = [b \in Browsers |-> None]
    /\ account = [s \in States |-> None]
    /\ used = {}
    /\ pc = [t \in Tabs |-> "idle"]
    /\ request = [t \in Tabs |-> None]
    /\ provider = [t \in Tabs |-> None]
    /\ state = [t \in Tabs |-> None]
    /\ payload = [t \in Tabs |-> None]
    /\ visitor = [t \in Tabs |-> None]
    /\ wanted = [t \in Tabs |-> None]
    /\ origin = [s \in States |-> Unborn]
    /\ via = [b \in Browsers |-> None]
    /\ late = [t \in Tabs |-> FALSE]
    /\ answers = {}

-----------------------------------------------------------------------------
\* ConfigFor
UsePKCE(p) == p = "google"

\* Faulty variant: the value is taken as it was stored, not unsealed.
Unopened(jar) == IF jar # None /\ now < jar.until THEN jar ELSE None

\* What a browser sends of a cookie, unsealed: nothing once its MaxAge is over.
Sent(jar) == IF jar # None /\ now < jar.until THEN jar.value ELSE None

\* An error page, or the application: the tab is free for something else.
Leave(t, label) ==
    /\ pc' = [pc EXCEPT ![t] = label]
    /\ request' = [request EXCEPT ![t] = None]
    /\ provider' = [provider EXCEPT ![t] = None]
    /\ state' = [state EXCEPT ![t] = None]
    /\ payload' = [payload EXCEPT ![t] = None]
    /\ visitor' = [visitor EXCEPT ![t] = None]
    /\ late' = [late EXCEPT ![t] = FALSE]
    /\ UNCHANGED <<wanted, origin, via>>

-----------------------------------------------------------------------------
(* GET /authorize, as far as signing in goes.                              *)

\* The user comes from an application.
Open(t, r) ==
    /\ pc[t] \in {"idle", "prompt", "done"}
    /\ pc' = [pc EXCEPT ![t] = "open"]
    /\ request' = [request EXCEPT ![t] = r]
    /\ wanted' = [wanted EXCEPT ![t] = r]
    /\ UNCHANGED <<now, enabled, cookies, upstreamSide, provider, state, payload, visitor,
                   origin, via, late, answers>>

\* The request goes out with the session cookie the browser has.
AuthorizeBegin(t) ==
    /\ pc[t] = "open"
    /\ pc' = [pc EXCEPT ![t] = "authorize"]
    /\ visitor' = [visitor EXCEPT ![t] = session[BrowserOf[t]]]
    /\ UNCHANGED <<now, enabled, cookies, upstreamSide, request, provider, state, payload,
                   history>>

\* A code for the visitor, and the browser goes back to the application.
IssueCode(t) ==
    /\ visitor[t] # None
    /\ answers' = answers \cup {<<t, wanted[t], request[t]>>}
    /\ Leave(t, "done")
    /\ UNCHANGED cookies

\* Faulty variant: a request that is still pending is not replaced.
AskToSignInOnce(t) ==
    LET b == BrowserOf[t]
    IN  /\ visitor[t] = None
        /\ authz' = IF Sent(authz[b]) # None THEN authz
                    ELSE [authz EXCEPT ![b] = [value |-> request[t], until |-> now + TTL]]
        /\ Leave(t, "prompt")
        /\ UNCHANGED <<upstream, session, answers>>

\* storeAuthorizeRequest and the sign-in prompt, which is shown even when the
\* cookie could not be sealed.
AskToSignIn(t) ==
    /\ visitor[t] = None
    /\ \/ authz' = [authz EXCEPT ![BrowserOf[t]] =
                       [value |-> request[t], until |-> now + TTL]]
       \/ Faults /\ UNCHANGED authz
    /\ Leave(t, "prompt")
    /\ UNCHANGED <<upstream, session, answers>>

AuthorizeAnswer(t) ==
    /\ pc[t] = "authorize"
    /\ \/ IssueCode(t)
       \/ AskToSignIn(t)
       \/ Faults /\ Leave(t, "idle") /\ UNCHANGED <<cookies, answers>>
    /\ UNCHANGED <<now, enabled, upstreamSide>>

-----------------------------------------------------------------------------
(* GET /auth/upstream/{provider}/start.                                    *)

\* Bound: a state is left for every tab that is about to draw one.
StateLeft ==
    Cardinality({t \in Tabs : pc[t] = "start"})
        < Cardinality({s \in States : origin[s] = Unborn})

\* readAuthorizeRequest: the cookie is all start knows of the request.
StartBegin(t, p) ==
    /\ pc[t] = "prompt" /\ StateLeft
    /\ pc' = [pc EXCEPT ![t] = "start"]
    /\ provider' = [provider EXCEPT ![t] = p]
    /\ request' = [request EXCEPT ![t] = Sent(authz[BrowserOf[t]])]
    /\ UNCHANGED <<now, enabled, cookies, upstreamSide, state, payload, visitor, history>>

\* The provider's row is read, a state is drawn, the flow is stored in the
\* cookie and the browser sent off.
StartAnswer(t) ==
    LET b == BrowserOf[t]
        r == request[t]
        p == provider[t]
        ok == r # None /\ <<AppOf[r], p>> \in enabled
    IN  /\ pc[t] = "start"
        /\ \/ /\ ok
              /\ \E s \in States :
                    /\ origin[s] = Unborn
                    /\ upstream' = [upstream EXCEPT ![b] =
                          [value |-> [provider |-> p, state |-> s, app |-> AppOf[r],
                                      returnTo |-> r, expiresAt |-> now + TTL],
                           until |-> now + TTL]]
                    /\ state' = [state EXCEPT ![t] = s]
                    /\ origin' = [origin EXCEPT ![s] =
                                     [browser |-> b, provider |-> p, request |-> r]]
              /\ pc' = [pc EXCEPT ![t] = "provider"]
              /\ UNCHANGED <<request, provider, payload, visitor, wanted, via, late>>
           \/ /\ ~ok \/ Faults
              /\ Leave(t, "idle")
              /\ UNCHANGED upstream
        /\ UNCHANGED <<now, enabled, authz, session, upstreamSide, answers>>

-----------------------------------------------------------------------------
(* The provider (external), and what browsers do with its answer.          *)

\* The user signs in with an account, and the provider sends the browser to
\* the callback with a code, which is one with the state it was asked with.
ProviderSignIn(t, a) ==
    /\ pc[t] = "provider"
    /\ account[state[t]] = None
    /\ account' = [account EXCEPT ![state[t]] = a]
    /\ pc' = [pc EXCEPT ![t] = "return"]
    /\ UNCHANGED <<now, enabled, cookies, used, request, provider, state, payload, visitor,
                   history>>

\* The user goes away or declines; the callback shows that as an error page.
ProviderDecline(t) ==
    /\ pc[t] = "provider"
    /\ Leave(t, "idle")
    /\ UNCHANGED <<now, enabled, cookies, upstreamSide, answers>>

\* A callback address is opened once more, in this browser or another.
Reopen(t, s) ==
    /\ pc[t] \in {"idle", "prompt", "done"}
    /\ account[s] # None
    /\ pc' = [pc EXCEPT ![t] = "return"]
    /\ state' = [state EXCEPT ![t] = s]
    /\ provider' = [provider EXCEPT ![t] = origin[s].provider]
    /\ wanted' = [wanted EXCEPT ![t] = origin[s].request]
    /\ UNCHANGED <<now, enabled, cookies, upstreamSide, request, payload, visitor,
                   origin, via, late, answers>>

-----------------------------------------------------------------------------
(* GET /auth/upstream/{provider}/callback.                                 *)

\* The request goes out with the upstream cookie, if the browser has one.
CallbackBegin(t) ==
    LET sent == Sent(upstream[BrowserOf[t]])
    IN  /\ pc[t] = "return"
        /\ pc' = [pc EXCEPT ![t] = "check"]
        /\ payload' = [payload EXCEPT ![t] = sent]
        /\ late' = [late EXCEPT ![t] =
                       sent # None /\ <<sent.app, provider[t]>> \notin enabled]
        /\ UNCHANGED <<now, enabled, cookies, upstreamSide, request, provider, state, visitor,
                       wanted, origin, via, answers>>

\* Faulty variant: the state of the address is not compared.
AnyState(t) ==
    /\ payload[t] # None
    /\ payload[t].provider = provider[t]
    /\ ~(now > payload[t].expiresAt)

\* The cookie belongs to this callback and has not expired.
StateMatches(t) ==
    /\ payload[t] # None
    /\ payload[t].provider = provider[t]
    /\ payload[t].state = state[t]
    /\ ~(now > payload[t].expiresAt)

CallbackCheck(t) ==
    /\ pc[t] = "check"
    /\ \/ /\ StateMatches(t)
          /\ pc' = [pc EXCEPT ![t] = "lookup"]
          /\ UNCHANGED <<request, provider, state, payload, visitor, wanted, origin, via, late>>
       \/ ~StateMatches(t) /\ Leave(t, "idle")
    /\ UNCHANGED <<now, enabled, cookies, upstreamSide, answers>>

\* Faulty variant: the row is read for its secret only.
CallbackLookupIgnoresEnabled(t) ==
    /\ pc[t] = "lookup"
    /\ pc' = [pc EXCEPT ![t] = "exchange"]
    /\ UNCHANGED <<now, enabled, cookies, upstreamSide, request, provider, state, payload,
                   visitor, history>>

\* The provider must still be there and enabled.
CallbackLookup(t) ==
    LET ok == <<payload[t].app, provider[t]>> \in enabled
    IN  /\ pc[t] = "lookup"
        /\ \/ /\ ok
              /\ pc' = [pc EXCEPT ![t] = "exchange"]
              /\ UNCHANGED <<request, provider, state, payload, visitor,
                             wanted, origin, via, late>>
           \/ (~ok \/ Faults) /\ Leave(t, "idle")
        /\ UNCHANGED <<now, enabled, cookies, upstreamSide, answers>>

\* The provider takes a code once, from the registration it was given to,
\* and with PKCE from whoever has the verifier (external).
CodeAccepted(t) ==
    /\ state[t] \notin used
    /\ payload[t].app = AppOf[origin[state[t]].request]
    /\ UsePKCE(provider[t]) => payload[t].state = state[t]

\* Client.Exchange.  An answer that is lost, or an identity that cannot be
\* fetched afterwards, leaves the code used.
CallbackExchange(t) ==
    LET s == state[t]
    IN  /\ pc[t] = "exchange"
        /\ \/ /\ CodeAccepted(t)
              /\ used' = used \cup {s}
              /\ pc' = [pc EXCEPT ![t] = "signIn"]
              /\ UNCHANGED <<request, provider, state, payload, visitor,
                             wanted, origin, via, late>>
           \/ ~CodeAccepted(t) /\ Leave(t, "idle") /\ UNCHANGED used
           \/ Faults /\ Leave(t, "idle") /\ used' \in {used, used \cup {s}}
        /\ UNCHANGED <<now, enabled, cookies, account, answers>>

\* Faulty variant: the browser is not given the session cookie.
CallbackKeepsToken(t) ==
    LET b == BrowserOf[t]
    IN  /\ pc[t] = "signIn"
        /\ authz' = [authz EXCEPT ![b] = None]
        /\ upstream' = [upstream EXCEPT ![b] = None]
        /\ pc' = [pc EXCEPT ![t] = "open"]
        /\ request' = [request EXCEPT ![t] = payload[t].returnTo]
        /\ UNCHANGED <<now, enabled, session, upstreamSide, provider, state, payload,
                       visitor, history>>

\* ProvisionUser and the session: the browser gets the session cookie, loses
\* the cookies of the flow and goes back to the request they held.
CallbackSignIn(t) ==
    LET b == BrowserOf[t]
    IN  /\ pc[t] = "signIn"
        /\ \/ /\ session' = [session EXCEPT ![b] = account[state[t]]]
              /\ via' = [via EXCEPT ![b] = state[t]]
              /\ authz' = [authz EXCEPT ![b] = None]
              /\ upstream' = [upstream EXCEPT ![b] = None]
              /\ pc' = [pc EXCEPT ![t] = "open"]
              /\ request' = [request EXCEPT ![t] = payload[t].returnTo]
              /\ provider' = [provider EXCEPT ![t] = None]
              /\ state' = [state EXCEPT ![t] = None]
              /\ payload' = [payload EXCEPT ![t] = None]
              /\ late' = [late EXCEPT ![t] = FALSE]
              /\ UNCHANGED <<visitor, wanted, origin>>
           \/ Faults /\ Leave(t, "idle") /\ UNCHANGED cookies
        /\ UNCHANGED <<now, enabled, upstreamSide, answers>>

-----------------------------------------------------------------------------
\* An operator enables a provider of an app, or disables or deletes it.
SetEnabled(row) ==
    /\ enabled' = enabled \cup {row}
    /\ late' = [t \in Tabs |->
          late[t] /\ ~(payload[t] # None /\ <<payload[t].app, provider[t]>> = row)]
    /\ UNCHANGED <<now, cookies, upstreamSide, locals, wanted, origin, via, answers>>
SetDisabled(row) ==
    /\ enabled' = enabled \ {row}
    /\ UNCHANGED <<now, cookies, upstreamSide, locals, history>>

Tick ==
    /\ now < MaxTime
    /\ now' = now + 1
    /\ UNCHANGED <<enabled, cookies, upstreamSide, locals, history>>

ServerStep(t) ==
    \/ AuthorizeBegin(t) \/ AuthorizeAnswer(t) \/ StartAnswer(t)
    \/ CallbackBegin(t) \/ CallbackCheck(t) \/ CallbackLookup(t)
    \/ CallbackExchange(t) \/ CallbackSignIn(t)

Next ==
    \/ \E t \in Tabs, r \in Requests : Open(t, r)
    \/ \E t \in Tabs, p \in Providers : StartBegin(t, p)
    \/ \E t \in Tabs, a \in Accounts : ProviderSignIn(t, a)
    \/ \E t \in Tabs, s \in States : Reopen(t, s)
    \/ \E t \in Tabs : ProviderDecline(t) \/ ServerStep(t)
    \/ \E row \in Apps \X Providers : SetEnabled(row) \/ SetDisabled(row)
    \/ Tick

Spec == Init /\ [][Next]_vars

\* Browsers follow redirects and the server answers; users do as they please.
Fairness == \A t \in Tabs : WF_vars(ServerStep(t))

FairSpec == Spec /\ Fairness

-----------------------------------------------------------------------------
(* Properties.                                                             *)

\* A browser is signed in only by a flow it started itself, as the account
\* that signed in at the provider in that flow, whoever opens the callback
\* address of another browser's flow while one of its own is under way (the
\* comparison of the state with the cookie).
SignedInByOwnFlow ==
    \A b \in Browsers : session[b] # None =>
        /\ origin[via[b]].browser = b
        /\ session[b] = account[via[b]]

\* A sign-in method that is switched off admits nobody any more: no callback
\* ends in a session if the method was off from its beginning to its end,
\* even when the flow was started while it was on.
DisabledProviderAdmitsNobody == \A t \in Tabs : pc[t] = "signIn" => ~late[t]

\* "Resume the original authorization request": the code a tab brings back
\* to an application answers the request that the user opened in that tab.
ResumesOriginalRequest == \A e \in answers : e[2] = e[3]

\* "The authorize handler will now see the new session and issue an
\* authorization code": signing in does not go round in circles, a tab whose
\* identity the provider has confirmed ends at the application with a code and
\* not at another prompt.
SignInIsNotRepeated == \A t \in Tabs : pc[t] = "signIn" ~> pc[t] = "done"
=============================================================================
