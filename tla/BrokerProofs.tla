---------------------------- MODULE BrokerProofs ----------------------------
(***************************************************************************)
(* Proofs about Broker, for any browsers, tabs, applications, providers,   *)
(* accounts and clock values, with faults at any point: a browser is       *)
(* signed in only by a flow of its own, and a provider that is switched    *)
(* off admits nobody.                                                      *)
(*                                                                         *)
(* The server keeps nothing of a flow, so the argument follows the sealed  *)
(* cookie: the state in a browser's cookie was drawn for that browser      *)
(* (CookieIsOwn), the copy a callback carries is such a cookie             *)
(* (TabCarriesOwn), and past the comparison of the state the address names *)
(* the same flow (TabMatched).  Histories only grow: once a state is drawn *)
(* or its user has signed in, what was recorded of it stays (FlowsStay).   *)
(***************************************************************************)
EXTENDS Broker, TLAPS

\* A tab that a provider has been asked for.
AtProviderPCs == {"provider", "return", "check", "lookup", "exchange", "signIn"}
\* A tab the provider has sent back.
ReturnPCs == {"return", "check", "lookup", "exchange", "signIn"}
\* A callback whose state has been compared with the cookie.
MatchedPCs == {"lookup", "exchange", "signIn"}

\* A tab that is used at all has a request the user wants, and one that is on
\* its way to /authorize has it in its address.
TabAsks(t) ==
    /\ pc[t] # "idle" => wanted[t] \in Requests
    /\ pc[t] \in {"open", "authorize"} => request[t] \in Requests

\* The address of a tab at the provider, or back from it, names a provider and
\* a state that was drawn; one that is back, a state somebody signed in for.
TabNamesFlow(t) ==
    /\ pc[t] = "start" => provider[t] \in Providers
    /\ pc[t] \in AtProviderPCs =>
          provider[t] \in Providers /\ state[t] \in States /\ origin[state[t]] # Unborn
    /\ pc[t] \in ReturnPCs => account[state[t]] # None

\* The cookie a callback carried is of a flow of the tab's own browser.
TabCarriesOwn(t) ==
    payload[t] # None => origin[payload[t].state].browser = BrowserOf[t]

\* Past the comparison, the cookie and the address are of one flow.
TabMatched(t) ==
    pc[t] \in MatchedPCs => payload[t] # None /\ payload[t].state = state[t]

\* A callback marked late has not passed the lookup, and its row is off.
TabLate(t) ==
    late[t] => /\ pc[t] \in {"check", "lookup"}
               /\ payload[t] # None
               /\ <<payload[t].app, provider[t]>> \notin enabled

TabOK(t) ==
    TabAsks(t) /\ TabNamesFlow(t) /\ TabCarriesOwn(t) /\ TabMatched(t) /\ TabLate(t)

\* The state in a browser's flow cookie was drawn for that browser.
CookieIsOwn(b) ==
    upstream[b] # None => origin[upstream[b].value.state].browser = b

\* A browser's session came from a flow of its own.
SessionIsOwn(b) ==
    session[b] # None => /\ via[b] \in States
                         /\ origin[via[b]].browser = b
                         /\ session[b] = account[via[b]]

BrowserOK(b) == CookieIsOwn(b) /\ SessionIsOwn(b)

\* Nobody signs in for a state that was not drawn.
FlowOK(s) == account[s] # None => origin[s] # Unborn

BrokerInv ==
    /\ TypeOK
    /\ \A t \in Tabs : TabOK(t)
    /\ \A b \in Browsers : BrowserOK(b)
    /\ \A s \in States : FlowOK(s)

\* What was recorded of a state stays.
FlowsStay ==
    \A s \in States : /\ origin[s] # Unborn => origin'[s] = origin[s]
                      /\ account[s] # None => account'[s] = account[s]

\* A step leaves a tab alone.
SameTab(t) ==
    /\ pc'[t] = pc[t] /\ request'[t] = request[t] /\ provider'[t] = provider[t]
    /\ state'[t] = state[t] /\ payload'[t] = payload[t] /\ wanted'[t] = wanted[t]
    /\ late'[t] = late[t]

\* A step leaves a browser's cookie and session alone.
SameBrowser(b) ==
    upstream'[b] = upstream[b] /\ session'[b] = session[b] /\ via'[b] = via[b]

\* What a step of tab t owes the invariant.
TabStep(t) ==
    /\ TypeOK'
    /\ FlowsStay
    /\ enabled' = enabled
    /\ \A u \in Tabs \ {t} : SameTab(u)
    /\ TabOK(t)'
    /\ \A b \in Browsers : SameBrowser(b) \/ BrowserOK(b)'
    /\ \A s \in States : FlowOK(s)'

-----------------------------------------------------------------------------
(* What stays true of tabs and browsers while others move.                 *)

\* The state of a sealed payload is one that was drawn: its browser is known.
LEMMA OwnIsBorn ==
    ASSUME TypeOK, NEW s \in States, NEW b \in Browsers, origin[s].browser = b
    PROVE  origin[s] # Unborn
  BY NoneAssumption DEF TypeOK, Unborn

\* A tab no step touches keeps its facts when flows stay as recorded.
LEMMA TabStands ==
    ASSUME TypeOK, FlowsStay, enabled' = enabled, NEW t \in Tabs, TabOK(t), SameTab(t)
    PROVE  TabOK(t)'
  <1>1. TabAsks(t)'
    BY DEF TabOK, TabAsks, SameTab
  <1>2. TabNamesFlow(t)'
    BY DEF TabOK, TabNamesFlow, SameTab, FlowsStay, AtProviderPCs, ReturnPCs, TypeOK
  <1>3. TabCarriesOwn(t)'
    <2> SUFFICES ASSUME payload[t] # None
                 PROVE  origin'[payload[t].state].browser = BrowserOf[t]
      BY DEF TabCarriesOwn, SameTab
    <2>1. payload[t].state \in States /\ BrowserOf[t] \in Browsers
      BY BrowsersAssumption DEF TypeOK, Payload
    <2>2. origin[payload[t].state].browser = BrowserOf[t]
      BY DEF TabOK, TabCarriesOwn
    <2>3. origin[payload[t].state] # Unborn
      BY <2>1, <2>2, OwnIsBorn
    <2> QED
      BY <2>1, <2>2, <2>3 DEF FlowsStay
  <1>4. TabMatched(t)'
    BY DEF TabOK, TabMatched, SameTab
  <1>5. TabLate(t)'
    BY DEF TabOK, TabLate, SameTab
  <1> QED
    BY <1>1, <1>2, <1>3, <1>4, <1>5 DEF TabOK

\* So does a browser.
LEMMA BrowserStands ==
    ASSUME TypeOK, FlowsStay, NEW b \in Browsers, BrowserOK(b), SameBrowser(b)
    PROVE  BrowserOK(b)'
  <1>1. CookieIsOwn(b)'
    <2> SUFFICES ASSUME upstream[b] # None
                 PROVE  origin'[upstream[b].value.state].browser = b
      BY DEF CookieIsOwn, SameBrowser
    <2>1. upstream[b].value.state \in States
      BY DEF TypeOK, Payload
    <2>2. origin[upstream[b].value.state].browser = b
      BY DEF BrowserOK, CookieIsOwn
    <2> QED
      BY <2>1, <2>2, OwnIsBorn DEF FlowsStay
  <1>2. SessionIsOwn(b)'
    <2> SUFFICES ASSUME session[b] # None
                 PROVE  /\ via[b] \in States
                        /\ origin'[via[b]].browser = b
                        /\ session[b] = account'[via[b]]
      BY DEF SessionIsOwn, SameBrowser
    <2>1. via[b] \in States /\ origin[via[b]].browser = b /\ session[b] = account[via[b]]
      BY DEF BrowserOK, SessionIsOwn
    <2> QED
      BY <2>1, OwnIsBorn DEF FlowsStay
  <1> QED
    BY <1>1, <1>2 DEF BrowserOK

\* A step of one tab that pays what it owes preserves the invariant.
LEMMA TabStepKeepsInv ==
    ASSUME BrokerInv, NEW t \in Tabs, TabStep(t)
    PROVE  BrokerInv'
  <1>1. \A u \in Tabs : TabOK(u)'
    BY TabStands DEF BrokerInv, TabStep
  <1>2. \A b \in Browsers : BrowserOK(b)'
    BY BrowserStands DEF BrokerInv, TabStep
  <1> QED
    BY <1>1, <1>2 DEF BrokerInv, TabStep

\* Nothing recorded of a flow changes when its two variables do not.
LEMMA FlowsUnchanged ==
    ASSUME BrokerInv, UNCHANGED <<origin, account>>
    PROVE  FlowsStay /\ \A s \in States : FlowOK(s)'
  BY DEF FlowsStay, FlowOK, BrokerInv

\* A tab that ends in an error page, at a prompt or at the application holds
\* nothing of a flow, and no other tab is touched.
LEMMA LeaveEffect ==
    ASSUME BrokerInv, NEW t \in Tabs, NEW label \in {"idle", "prompt", "done"},
           Leave(t, label), label = "idle" \/ pc[t] # "idle"
    PROVE  /\ TabOK(t)'
           /\ \A u \in Tabs \ {t} : SameTab(u)
           /\ pc' \in [Tabs -> {"idle", "open", "authorize", "prompt", "start", "provider",
                                "return", "check", "lookup", "exchange", "signIn", "done"}]
           /\ request' \in [Tabs -> Requests \cup {None}]
           /\ provider' \in [Tabs -> Providers \cup {None}]
           /\ state' \in [Tabs -> States \cup {None}]
           /\ payload' \in [Tabs -> Payload \cup {None}]
           /\ visitor' \in [Tabs -> Accounts \cup {None}]
           /\ late' \in [Tabs -> BOOLEAN]
           /\ UNCHANGED <<wanted, origin, via>>
  <1> USE DEF BrokerInv
  <1>1. /\ pc'[t] = label /\ payload'[t] = None /\ late'[t] = FALSE
        /\ wanted'[t] = wanted[t]
    BY DEF Leave, TypeOK
  <1>2. TabOK(t)'
    <2>1. TabAsks(t)'
      BY <1>1 DEF TabOK, TabAsks
    <2>2. TabNamesFlow(t)' /\ TabMatched(t)'
      BY <1>1 DEF TabNamesFlow, TabMatched, AtProviderPCs, ReturnPCs, MatchedPCs
    <2>3. TabCarriesOwn(t)' /\ TabLate(t)'
      BY <1>1 DEF TabCarriesOwn, TabLate
    <2> QED
      BY <2>1, <2>2, <2>3 DEF TabOK
  <1>3. \A u \in Tabs \ {t} : SameTab(u)
    BY DEF Leave, SameTab, TypeOK
  <1> QED
    BY <1>2, <1>3 DEF Leave, TypeOK

\* Leaving with no cookie changed but the pending request's is a step of the tab.
LEMMA LeaveKeepsInv ==
    ASSUME BrokerInv, NEW t \in Tabs, NEW label \in {"idle", "prompt", "done"},
           Leave(t, label), label = "idle" \/ pc[t] # "idle",
           UNCHANGED <<now, enabled, upstream, session, account>>,
           authz' \in [Browsers -> [value : Requests, until : Nat] \cup {None}],
           used' \in SUBSET States,
           answers' \in SUBSET (Tabs \X Requests \X Requests)
    PROVE  BrokerInv'
  <1>1. /\ TabOK(t)' /\ UNCHANGED <<wanted, origin, via>>
        /\ \A u \in Tabs \ {t} : SameTab(u)
    BY LeaveEffect
  <1>2. TypeOK'
    BY LeaveEffect DEF BrokerInv, TypeOK
  <1>3. FlowsStay /\ \A s \in States : FlowOK(s)'
    BY <1>1, FlowsUnchanged
  <1>4. \A b \in Browsers : SameBrowser(b)
    BY <1>1 DEF SameBrowser
  <1>5. TabStep(t)
    BY <1>1, <1>2, <1>3, <1>4 DEF TabStep
  <1> QED
    BY <1>5, TabStepKeepsInv

-----------------------------------------------------------------------------
(* One lemma per action.                                                   *)

\* At the start nothing is drawn, carried or signed in.
LEMMA BrokerInvInit == Init => BrokerInv
  <1> SUFFICES ASSUME Init PROVE BrokerInv
    OBVIOUS
  <1>1. TypeOK
    BY DEF Init, TypeOK
  <1>2. \A t \in Tabs : TabOK(t)
    BY DEF Init, TabOK, TabAsks, TabNamesFlow, TabCarriesOwn, TabMatched, TabLate,
           AtProviderPCs, ReturnPCs, MatchedPCs
  <1>3. (\A b \in Browsers : BrowserOK(b)) /\ (\A s \in States : FlowOK(s))
    BY DEF Init, BrowserOK, CookieIsOwn, SessionIsOwn, FlowOK
  <1> QED
    BY <1>1, <1>2, <1>3 DEF BrokerInv

\* What a browser sends of its pending-request cookie is a request or nothing.
LEMMA SentRequest ==
    ASSUME TypeOK, NEW b \in Browsers
    PROVE  Sent(authz[b]) \in Requests \cup {None}
  BY DEF TypeOK, Sent

\* What a browser sends of its flow cookie is a flow of its own, or nothing.
LEMMA SentPayload ==
    ASSUME TypeOK, NEW b \in Browsers, CookieIsOwn(b)
    PROVE  /\ Sent(upstream[b]) \in Payload \cup {None}
           /\ Sent(upstream[b]) # None => origin[Sent(upstream[b]).state].browser = b
  BY DEF TypeOK, Sent, CookieIsOwn

\* Opening a request puts it in the address of a tab that holds no flow.
LEMMA OpenKeepsInv ==
    ASSUME BrokerInv, NEW t \in Tabs, NEW r \in Requests, Open(t, r)
    PROVE  BrokerInv'
  <1> USE DEF BrokerInv
  <1>1. TypeOK'
    BY DEF Open, TypeOK, cookies, upstreamSide
  <1>2. FlowsStay /\ \A s \in States : FlowOK(s)'
    BY FlowsUnchanged DEF Open, upstreamSide
  <1>3. TabOK(t)'
    <2>1. pc'[t] = "open" /\ request'[t] = r /\ wanted'[t] = r
      BY DEF Open, TypeOK
    <2>2. TabAsks(t)' /\ TabNamesFlow(t)' /\ TabMatched(t)'
      BY <2>1 DEF TabAsks, TabNamesFlow, TabMatched, AtProviderPCs, ReturnPCs, MatchedPCs
    <2>3. TabCarriesOwn(t)' /\ TabLate(t)'
      BY DEF Open, TabOK, TabCarriesOwn, TabLate
    <2> QED
      BY <2>2, <2>3 DEF TabOK
  <1>4. TabStep(t)
    BY <1>1, <1>2, <1>3
       DEF TabStep, Open, TypeOK, SameTab, SameBrowser, cookies
  <1> QED
    BY <1>4, TabStepKeepsInv

\* Sending the request reads the session cookie and nothing else.
LEMMA AuthorizeBeginKeepsInv ==
    ASSUME BrokerInv, NEW t \in Tabs, AuthorizeBegin(t)
    PROVE  BrokerInv'
  <1> USE DEF BrokerInv
  <1>1. TypeOK'
    BY BrowsersAssumption DEF AuthorizeBegin, TypeOK, cookies, upstreamSide, history
  <1>2. FlowsStay /\ \A s \in States : FlowOK(s)'
    BY FlowsUnchanged DEF AuthorizeBegin, upstreamSide, history
  <1>3. TabOK(t)'
    <2>1. pc'[t] = "authorize" /\ request'[t] = request[t] /\ wanted'[t] = wanted[t]
      BY DEF AuthorizeBegin, TypeOK, history
    <2>2. TabAsks(t)'
      BY <2>1 DEF TabOK, TabAsks, AuthorizeBegin
    <2>3. TabNamesFlow(t)' /\ TabMatched(t)'
      BY <2>1 DEF TabNamesFlow, TabMatched, AtProviderPCs, ReturnPCs, MatchedPCs
    <2>4. TabCarriesOwn(t)' /\ TabLate(t)'
      BY DEF AuthorizeBegin, TabOK, TabCarriesOwn, TabLate, history
    <2> QED
      BY <2>2, <2>3, <2>4 DEF TabOK
  <1>4. TabStep(t)
    BY <1>1, <1>2, <1>3
       DEF TabStep, AuthorizeBegin, TypeOK, SameTab, SameBrowser, cookies, history
  <1> QED
    BY <1>4, TabStepKeepsInv

\* Whatever /authorize answers, the tab leaves; a prompt remembers the request.
LEMMA AuthorizeAnswerKeepsInv ==
    ASSUME BrokerInv, NEW t \in Tabs, AuthorizeAnswer(t)
    PROVE  BrokerInv'
  <1> USE DEF BrokerInv
  <1>1. pc[t] = "authorize" /\ request[t] \in Requests /\ wanted[t] \in Requests
    BY DEF AuthorizeAnswer, TabOK, TabAsks
  <1>2. UNCHANGED <<now, enabled, account, used>> /\ used' \in SUBSET States
    BY DEF AuthorizeAnswer, upstreamSide, TypeOK
  <1>3. CASE IssueCode(t)
    <2>1. answers' \in SUBSET (Tabs \X Requests \X Requests)
      BY <1>1, <1>3 DEF IssueCode, TypeOK
    <2> QED
      BY <1>1, <1>2, <1>3, <2>1, LeaveKeepsInv DEF IssueCode, cookies, TypeOK
  <1>4. CASE AskToSignIn(t)
    <2>1. authz' \in [Browsers -> [value : Requests, until : Nat] \cup {None}]
      BY <1>1, <1>4, BrowsersAssumption, BoundsAssumption DEF AskToSignIn, TypeOK
    <2> QED
      BY <1>1, <1>2, <1>4, <2>1, LeaveKeepsInv DEF AskToSignIn, TypeOK
  <1>5. CASE Leave(t, "idle") /\ UNCHANGED <<cookies, answers>>
    BY <1>2, <1>5, LeaveKeepsInv DEF cookies, TypeOK
  <1> QED
    BY <1>3, <1>4, <1>5 DEF AuthorizeAnswer

\* Asking to start at a provider reads the pending request and nothing else.
LEMMA StartBeginKeepsInv ==
    ASSUME BrokerInv, NEW t \in Tabs, NEW p \in Providers, StartBegin(t, p)
    PROVE  BrokerInv'
  <1> USE DEF BrokerInv
  <1>1. Sent(authz[BrowserOf[t]]) \in Requests \cup {None}
    BY BrowsersAssumption, SentRequest
  <1>2. TypeOK'
    BY <1>1 DEF StartBegin, TypeOK, cookies, upstreamSide, history
  <1>3. FlowsStay /\ \A s \in States : FlowOK(s)'
    BY FlowsUnchanged DEF StartBegin, upstreamSide, history
  <1>4. TabOK(t)'
    <2>1. pc'[t] = "start" /\ provider'[t] = p /\ wanted'[t] = wanted[t] /\ ~late[t]
      BY DEF StartBegin, TypeOK, history, TabOK, TabLate
    <2>2. TabAsks(t)'
      BY <2>1 DEF TabOK, TabAsks, StartBegin
    <2>3. TabNamesFlow(t)' /\ TabMatched(t)'
      BY <2>1 DEF TabNamesFlow, TabMatched, AtProviderPCs, ReturnPCs, MatchedPCs
    <2>4. TabCarriesOwn(t)' /\ TabLate(t)'
      BY <2>1 DEF StartBegin, TabOK, TabCarriesOwn, TabLate, history
    <2> QED
      BY <2>2, <2>3, <2>4 DEF TabOK
  <1>5. TabStep(t)
    BY <1>2, <1>3, <1>4
       DEF TabStep, StartBegin, TypeOK, SameTab, SameBrowser, cookies, history
  <1> QED
    BY <1>5, TabStepKeepsInv

\* Starting at a provider draws a state nobody has, for the browser that gets
\* the cookie.
LEMMA StartDrawKeepsInv ==
    ASSUME BrokerInv, NEW t \in Tabs, NEW s \in States, NEW r \in Requests,
           NEW p \in Providers, pc[t] = "start", provider[t] = p, request[t] = r,
           origin[s] = Unborn,
           upstream' = [upstream EXCEPT ![BrowserOf[t]] =
               [value |-> [provider |-> p, state |-> s, app |-> AppOf[r],
                           returnTo |-> r, expiresAt |-> now + TTL],
                until |-> now + TTL]],
           state' = [state EXCEPT ![t] = s],
           origin' = [origin EXCEPT ![s] =
               [browser |-> BrowserOf[t], provider |-> p, request |-> r]],
           pc' = [pc EXCEPT ![t] = "provider"],
           UNCHANGED <<request, provider, payload, visitor, wanted, via, late,
                       now, enabled, authz, session, account, used, answers>>
    PROVE  BrokerInv'
  <1> USE DEF BrokerInv
  <1> DEFINE b == BrowserOf[t]
             flow == [browser |-> b, provider |-> p, request |-> r]
             pl == [provider |-> p, state |-> s, app |-> AppOf[r],
                    returnTo |-> r, expiresAt |-> now + TTL]
             jar == [value |-> pl, until |-> now + TTL]
  <1>1. b \in Browsers /\ AppOf[r] \in Apps /\ now + TTL \in Nat
    <2>1. b \in Browsers /\ AppOf[r] \in Apps
      BY BrowsersAssumption, RequestsAssumption
    <2>2. now \in Nat
      BY DEF TypeOK
    <2> QED
      BY <2>1, <2>2, BoundsAssumption
  <1>2. /\ flow \in [browser : Browsers, provider : Providers, request : Requests]
        /\ flow.browser = b /\ flow # Unborn
    BY <1>1, NoneAssumption DEF Unborn
  <1>3. pl \in Payload /\ jar \in [value : Payload, until : Nat] /\ jar.value.state = s
    BY <1>1 DEF Payload
  <1>4. /\ upstream' = [upstream EXCEPT ![b] = jar]
        /\ origin' = [origin EXCEPT ![s] = flow]
    OBVIOUS
  <1> HIDE DEF b, flow, pl, jar
  <1>5. TypeOK'
    BY <1>1, <1>2, <1>3, <1>4 DEF TypeOK
  <1>6. FlowsStay
    BY <1>4 DEF FlowsStay, TypeOK
  <1>7. \A x \in States : FlowOK(x)'
    BY <1>2, <1>4 DEF FlowOK, TypeOK
  <1>8. \A c \in Browsers \ {b} : SameBrowser(c)
    BY <1>1, <1>4 DEF SameBrowser, TypeOK
  <1>9. BrowserOK(b)'
    <2>1. CookieIsOwn(b)'
      BY <1>1, <1>2, <1>3, <1>4 DEF CookieIsOwn, TypeOK
    <2>2. SessionIsOwn(b)'
      <3> SUFFICES ASSUME session[b] # None
                   PROVE  /\ via[b] \in States
                          /\ origin'[via[b]].browser = b
                          /\ session[b] = account[via[b]]
        BY DEF SessionIsOwn
      <3>1. via[b] \in States /\ origin[via[b]].browser = b /\ session[b] = account[via[b]]
        BY <1>1 DEF BrowserOK, SessionIsOwn
      <3> QED
        BY <1>1, <1>6, <3>1, OwnIsBorn DEF FlowsStay
    <2> QED
      BY <2>1, <2>2 DEF BrowserOK
  <1>10. TabOK(t)'
    <2>1. /\ pc'[t] = "provider" /\ state'[t] = s /\ origin'[s] = flow /\ ~late[t]
      BY <1>4 DEF TypeOK, TabOK, TabLate
    <2>2. TabAsks(t)' /\ TabMatched(t)' /\ TabLate(t)'
      BY <2>1 DEF TabOK, TabAsks, TabMatched, TabLate, MatchedPCs
    <2>3. TabNamesFlow(t)'
      BY <2>1, <1>2 DEF TabNamesFlow, AtProviderPCs, ReturnPCs
    <2>4. TabCarriesOwn(t)'
      <3> SUFFICES ASSUME payload[t] # None
                   PROVE  origin'[payload[t].state].browser = BrowserOf[t]
        BY DEF TabCarriesOwn
      <3>1. payload[t].state \in States /\ BrowserOf[t] \in Browsers
        BY BrowsersAssumption DEF TypeOK, Payload
      <3>2. origin[payload[t].state].browser = BrowserOf[t]
        BY DEF TabOK, TabCarriesOwn
      <3> QED
        BY <1>6, <3>1, <3>2, OwnIsBorn DEF FlowsStay
    <2> QED
      BY <2>2, <2>3, <2>4 DEF TabOK
  <1>11. \A u \in Tabs \ {t} : SameTab(u)
    BY DEF SameTab, TypeOK
  <1>12. TabStep(t)
    BY <1>5, <1>6, <1>7, <1>8, <1>9, <1>10, <1>11 DEF TabStep
  <1> QED
    BY <1>12, TabStepKeepsInv

\* The start handler draws a state, or answers with an error page.
LEMMA StartAnswerKeepsInv ==
    ASSUME BrokerInv, NEW t \in Tabs, StartAnswer(t)
    PROVE  BrokerInv'
  <1> USE DEF BrokerInv
  <1>1. provider[t] \in Providers /\ request[t] \in Requests \cup {None} /\ pc[t] = "start"
    BY DEF StartAnswer, TabOK, TabNamesFlow, TypeOK
  <1>2. CASE Leave(t, "idle") /\ UNCHANGED upstream
    BY <1>2, LeaveKeepsInv DEF StartAnswer, upstreamSide, TypeOK
  <1>3. CASE ~(Leave(t, "idle") /\ UNCHANGED upstream)
    <2>1. request[t] \in Requests
      BY <1>1, <1>3 DEF StartAnswer
    <2>2. PICK s \in States :
             /\ origin[s] = Unborn
             /\ upstream' = [upstream EXCEPT ![BrowserOf[t]] =
                   [value |-> [provider |-> provider[t], state |-> s,
                               app |-> AppOf[request[t]], returnTo |-> request[t],
                               expiresAt |-> now + TTL],
                    until |-> now + TTL]]
             /\ state' = [state EXCEPT ![t] = s]
             /\ origin' = [origin EXCEPT ![s] =
                   [browser |-> BrowserOf[t], provider |-> provider[t],
                    request |-> request[t]]]
      BY <1>3, Zenon DEF StartAnswer
    <2>3. /\ pc' = [pc EXCEPT ![t] = "provider"]
          /\ UNCHANGED <<request, provider, payload, visitor, wanted, via, late>>
      BY <1>3, Zenon DEF StartAnswer
    <2>4. UNCHANGED <<now, enabled, authz, session, account, used, answers>>
      BY DEF StartAnswer, upstreamSide
    <2> QED
      BY <1>1, <2>1, <2>2, <2>3, <2>4, StartDrawKeepsInv, Zenon
  <1> QED
    BY <1>2, <1>3

\* Signing in at the provider records an account for a state that has none.
LEMMA ProviderSignInKeepsInv ==
    ASSUME BrokerInv, NEW t \in Tabs, NEW a \in Accounts, ProviderSignIn(t, a)
    PROVE  BrokerInv'
  <1> USE DEF BrokerInv
  <1>1. /\ pc[t] = "provider" /\ state[t] \in States /\ origin[state[t]] # Unborn
        /\ provider[t] \in Providers
    BY DEF ProviderSignIn, TabOK, TabNamesFlow, AtProviderPCs
  <1>2. TypeOK'
    BY DEF ProviderSignIn, TypeOK, cookies, history
  <1>3. FlowsStay
    BY DEF ProviderSignIn, FlowsStay, TypeOK, history
  <1>4. \A s \in States : FlowOK(s)'
    BY <1>1 DEF ProviderSignIn, FlowOK, TypeOK, history
  <1>5. TabOK(t)'
    <2>1. pc'[t] = "return" /\ account'[state[t]] = a /\ a # None /\ ~late[t]
      BY <1>1, NoneAssumption DEF ProviderSignIn, TypeOK, TabOK, TabLate
    <2>2. TabAsks(t)' /\ TabMatched(t)' /\ TabLate(t)' /\ TabCarriesOwn(t)'
      BY <1>1, <2>1
         DEF ProviderSignIn, history, TabOK, TabAsks, TabMatched, TabLate, TabCarriesOwn,
             MatchedPCs
    <2>3. TabNamesFlow(t)'
      BY <1>1, <2>1 DEF ProviderSignIn, history, TabNamesFlow, AtProviderPCs, ReturnPCs
    <2> QED
      BY <2>2, <2>3 DEF TabOK
  <1>6. TabStep(t)
    BY <1>2, <1>3, <1>4, <1>5
       DEF TabStep, ProviderSignIn, TypeOK, SameTab, SameBrowser, cookies, history
  <1> QED
    BY <1>6, TabStepKeepsInv

\* A callback address opened again names a flow somebody signed in for.
LEMMA ReopenKeepsInv ==
    ASSUME BrokerInv, NEW t \in Tabs, NEW s \in States, Reopen(t, s)
    PROVE  BrokerInv'
  <1> USE DEF BrokerInv
  <1>1. origin[s] # Unborn /\ account[s] # None
    BY DEF Reopen, FlowOK
  <1>2. origin[s].provider \in Providers /\ origin[s].request \in Requests
    BY <1>1 DEF TypeOK
  <1>3. TypeOK'
    BY <1>2 DEF Reopen, TypeOK, cookies, upstreamSide
  <1>4. FlowsStay /\ \A x \in States : FlowOK(x)'
    BY FlowsUnchanged DEF Reopen, upstreamSide
  <1>5. TabOK(t)'
    <2>1. /\ pc'[t] = "return" /\ state'[t] = s /\ provider'[t] \in Providers
          /\ wanted'[t] \in Requests /\ ~late[t]
      BY <1>2 DEF Reopen, TypeOK, TabOK, TabLate
    <2>2. TabAsks(t)' /\ TabMatched(t)' /\ TabLate(t)' /\ TabCarriesOwn(t)'
      BY <2>1 DEF Reopen, TabOK, TabAsks, TabMatched, TabLate, TabCarriesOwn, MatchedPCs
    <2>3. TabNamesFlow(t)'
      BY <1>1, <2>1 DEF Reopen, upstreamSide, TabNamesFlow, AtProviderPCs, ReturnPCs
    <2> QED
      BY <2>2, <2>3 DEF TabOK
  <1>6. TabStep(t)
    BY <1>3, <1>4, <1>5 DEF TabStep, Reopen, TypeOK, SameTab, SameBrowser, cookies
  <1> QED
    BY <1>6, TabStepKeepsInv

\* The callback reads the cookie of the moment: it is of a flow of the browser.
LEMMA CallbackBeginKeepsInv ==
    ASSUME BrokerInv, NEW t \in Tabs, CallbackBegin(t)
    PROVE  BrokerInv'
  <1> USE DEF BrokerInv
  <1> DEFINE sent == Sent(upstream[BrowserOf[t]])
             off == sent # None /\ <<sent.app, provider[t]>> \notin enabled
  <1>1. BrowserOf[t] \in Browsers
    BY BrowsersAssumption
  <1>2. /\ sent \in Payload \cup {None}
        /\ sent # None => origin[sent.state].browser = BrowserOf[t]
    BY <1>1, SentPayload DEF BrowserOK
  <1>3. /\ pc[t] = "return" /\ pc' = [pc EXCEPT ![t] = "check"]
        /\ payload' = [payload EXCEPT ![t] = sent]
        /\ late' = [late EXCEPT ![t] = off]
        /\ UNCHANGED <<now, enabled, cookies, upstreamSide, request, provider, state,
                       visitor, wanted, origin, via, answers>>
    BY DEF CallbackBegin
  <1>4. off \in BOOLEAN /\ (off => sent # None /\ <<sent.app, provider[t]>> \notin enabled)
    OBVIOUS
  <1> HIDE DEF sent, off
  <1>5. TypeOK'
    BY <1>2, <1>3, <1>4 DEF TypeOK, cookies, upstreamSide
  <1>6. FlowsStay /\ \A s \in States : FlowOK(s)'
    BY <1>3, FlowsUnchanged DEF upstreamSide
  <1>7. TabOK(t)'
    <2>1. pc'[t] = "check" /\ payload'[t] = sent /\ late'[t] = off
      BY <1>3 DEF TypeOK
    <2>2. TabAsks(t)' /\ TabMatched(t)'
      BY <1>3, <2>1 DEF TabOK, TabAsks, TabMatched, MatchedPCs
    <2>3. TabNamesFlow(t)'
      BY <1>3, <2>1 DEF TabOK, TabNamesFlow, AtProviderPCs, ReturnPCs, upstreamSide
    <2>4. TabCarriesOwn(t)'
      BY <1>2, <1>3, <2>1 DEF TabCarriesOwn
    <2>5. TabLate(t)'
      BY <1>3, <1>4, <2>1 DEF TabLate
    <2> QED
      BY <2>2, <2>3, <2>4, <2>5 DEF TabOK
  <1>8. TabStep(t)
    BY <1>3, <1>5, <1>6, <1>7 DEF TabStep, TypeOK, SameTab, SameBrowser, cookies
  <1> QED
    BY <1>8, TabStepKeepsInv

\* A callback that goes on to its next step keeps its flow; only the label moves.
LEMMA CallbackMovesOn ==
    ASSUME BrokerInv, NEW t \in Tabs, NEW label \in MatchedPCs, pc[t] \in ReturnPCs,
           payload[t] # None, payload[t].state = state[t],
           late[t] => label = "lookup",
           pc' = [pc EXCEPT ![t] = label],
           used' \in SUBSET States,
           UNCHANGED <<now, enabled, cookies, account, request, provider, state, payload,
                       visitor, wanted, origin, via, late, answers>>
    PROVE  BrokerInv'
  <1> USE DEF BrokerInv
  <1>1. label \in ReturnPCs /\ label \in AtProviderPCs /\ pc[t] \in AtProviderPCs
    BY DEF MatchedPCs, ReturnPCs, AtProviderPCs
  <1>2. TypeOK'
    BY <1>1 DEF TypeOK, cookies, ReturnPCs
  <1>3. FlowsStay /\ \A s \in States : FlowOK(s)'
    BY FlowsUnchanged
  <1>4. TabOK(t)'
    <2>1. pc'[t] = label /\ label \notin {"idle", "open", "authorize", "start"}
      BY DEF TypeOK, MatchedPCs
    <2>2. TabAsks(t)'
      BY <2>1 DEF TabOK, TabAsks, ReturnPCs
    <2>3. TabNamesFlow(t)'
      BY <1>1, <2>1 DEF TabOK, TabNamesFlow
    <2>4. TabCarriesOwn(t)' /\ TabMatched(t)' /\ TabLate(t)'
      BY <2>1 DEF TabOK, TabCarriesOwn, TabMatched, TabLate
    <2> QED
      BY <2>2, <2>3, <2>4 DEF TabOK
  <1>5. TabStep(t)
    BY <1>2, <1>3, <1>4 DEF TabStep, TypeOK, SameTab, SameBrowser, cookies
  <1> QED
    BY <1>5, TabStepKeepsInv

\* Past the comparison the cookie and the address are of one flow.
LEMMA CallbackCheckKeepsInv ==
    ASSUME BrokerInv, NEW t \in Tabs, CallbackCheck(t)
    PROVE  BrokerInv'
  <1> USE DEF BrokerInv
  <1>1. used' \in SUBSET States /\ UNCHANGED <<now, enabled, cookies, account, answers>>
    BY DEF CallbackCheck, upstreamSide, TypeOK
  <1>2. CASE StateMatches(t) /\ ~Leave(t, "idle")
    BY <1>1, <1>2, CallbackMovesOn DEF CallbackCheck, StateMatches, ReturnPCs, MatchedPCs
  <1>3. CASE Leave(t, "idle")
    BY <1>1, <1>3, LeaveKeepsInv DEF cookies, TypeOK
  <1> QED
    BY <1>2, <1>3 DEF CallbackCheck

\* Past the lookup the row was on: a late callback does not get there.
LEMMA CallbackLookupKeepsInv ==
    ASSUME BrokerInv, NEW t \in Tabs, CallbackLookup(t)
    PROVE  BrokerInv'
  <1> USE DEF BrokerInv
  <1>1. used' \in SUBSET States /\ UNCHANGED <<now, enabled, cookies, account, answers>>
    BY DEF CallbackLookup, upstreamSide, TypeOK
  <1>2. CASE <<payload[t].app, provider[t]>> \in enabled /\ ~Leave(t, "idle")
    <2>1. payload[t] # None /\ payload[t].state = state[t] /\ ~late[t]
      BY <1>2 DEF CallbackLookup, TabOK, TabMatched, TabLate, MatchedPCs
    <2> QED
      BY <1>1, <1>2, <2>1, CallbackMovesOn DEF CallbackLookup, ReturnPCs, MatchedPCs
  <1>3. CASE Leave(t, "idle")
    BY <1>1, <1>3, LeaveKeepsInv DEF cookies, TypeOK
  <1> QED
    BY <1>2, <1>3 DEF CallbackLookup

\* The exchange only uses the code up.
LEMMA CallbackExchangeKeepsInv ==
    ASSUME BrokerInv, NEW t \in Tabs, CallbackExchange(t)
    PROVE  BrokerInv'
  <1> USE DEF BrokerInv
  <1>1. /\ pc[t] = "exchange" /\ state[t] \in States
        /\ payload[t] # None /\ payload[t].state = state[t] /\ ~late[t]
    BY DEF CallbackExchange, TabOK, TabNamesFlow, TabMatched, TabLate, MatchedPCs,
           AtProviderPCs
  <1>2. used' \in SUBSET States /\ UNCHANGED <<now, enabled, cookies, account, answers>>
    BY <1>1 DEF CallbackExchange, TypeOK
  <1>3. CASE ~Leave(t, "idle")
    BY <1>1, <1>2, <1>3, CallbackMovesOn DEF CallbackExchange, ReturnPCs, MatchedPCs
  <1>4. CASE Leave(t, "idle")
    BY <1>2, <1>4, LeaveKeepsInv DEF cookies, TypeOK
  <1> QED
    BY <1>3, <1>4

\* The session is of the account that signed in for the state in the browser's
\* own cookie, and the flow's cookies are gone.
LEMMA CallbackSignInKeepsInv ==
    ASSUME BrokerInv, NEW t \in Tabs, CallbackSignIn(t)
    PROVE  BrokerInv'
  <1> USE DEF BrokerInv
  <1> DEFINE b == BrowserOf[t]
  <1>1. b \in Browsers /\ pc[t] = "signIn"
    BY BrowsersAssumption DEF CallbackSignIn
  <1>2. /\ state[t] \in States /\ account[state[t]] # None
        /\ payload[t] # None /\ payload[t].state = state[t]
        /\ origin[state[t]].browser = b /\ wanted[t] \in Requests
    BY <1>1 DEF TabOK, TabNamesFlow, TabMatched, TabCarriesOwn, TabAsks,
                MatchedPCs, AtProviderPCs, ReturnPCs
  <1>3. payload[t].returnTo \in Requests
    BY <1>2 DEF TypeOK, Payload
  <1>4. UNCHANGED <<now, enabled, account, used, answers>>
    BY DEF CallbackSignIn, upstreamSide
  <1>5. CASE Leave(t, "idle") /\ UNCHANGED cookies
    BY <1>4, <1>5, LeaveKeepsInv DEF cookies, TypeOK
  <1>6. CASE ~(Leave(t, "idle") /\ UNCHANGED cookies)
    <2>1. /\ session' = [session EXCEPT ![b] = account[state[t]]]
          /\ via' = [via EXCEPT ![b] = state[t]]
          /\ authz' = [authz EXCEPT ![b] = None]
          /\ upstream' = [upstream EXCEPT ![b] = None]
          /\ pc' = [pc EXCEPT ![t] = "open"]
          /\ request' = [request EXCEPT ![t] = payload[t].returnTo]
          /\ provider' = [provider EXCEPT ![t] = None]
          /\ state' = [state EXCEPT ![t] = None]
          /\ payload' = [payload EXCEPT ![t] = None]
          /\ late' = [late EXCEPT ![t] = FALSE]
          /\ UNCHANGED <<visitor, wanted, origin>>
      BY <1>6 DEF CallbackSignIn
    <2> HIDE DEF b
    <2>2. TypeOK'
      BY <1>1, <1>2, <1>3, <1>4, <2>1 DEF TypeOK
    <2>3. FlowsStay /\ \A s \in States : FlowOK(s)'
      BY <1>4, <2>1, FlowsUnchanged
    <2>4. BrowserOK(b)'
      BY <1>1, <1>2, <1>4, <2>1 DEF BrowserOK, CookieIsOwn, SessionIsOwn, TypeOK
    <2>5. \A c \in Browsers \ {b} : SameBrowser(c)
      BY <2>1 DEF SameBrowser, TypeOK
    <2>6. TabOK(t)'
      <3>1. /\ pc'[t] = "open" /\ request'[t] \in Requests /\ wanted'[t] \in Requests
            /\ payload'[t] = None /\ late'[t] = FALSE
        BY <1>2, <1>3, <2>1 DEF TypeOK
      <3> QED
        BY <3>1 DEF TabOK, TabAsks, TabNamesFlow, TabCarriesOwn, TabMatched, TabLate,
                    MatchedPCs, AtProviderPCs, ReturnPCs
    <2>7. \A u \in Tabs \ {t} : SameTab(u)
      BY <2>1 DEF SameTab, TypeOK
    <2>8. TabStep(t)
      BY <1>4, <2>2, <2>3, <2>4, <2>5, <2>6, <2>7 DEF TabStep
    <2> QED
      BY <2>8, TabStepKeepsInv
  <1> QED
    BY <1>5, <1>6

\* Enabling a provider takes the mark from the callbacks it is about; disabling
\* it, or the passing of time, disturbs none.
LEMMA OperatorKeepsInv ==
    ASSUME BrokerInv,
           NEW row \in Apps \X Providers, SetEnabled(row) \/ SetDisabled(row)
    PROVE  BrokerInv'
  <1> USE DEF BrokerInv
  <1>1. /\ UNCHANGED <<now, cookies, upstreamSide, locals, wanted, origin, via, answers>>
        /\ enabled' \in SUBSET (Apps \X Providers)
        /\ late' \in [Tabs -> BOOLEAN]
        /\ \A t \in Tabs : late'[t] =>
              /\ late[t]
              /\ <<payload[t].app, provider[t]>> \notin enabled => 
                    <<payload[t].app, provider[t]>> \notin enabled'
    <2>1. CASE SetEnabled(row)
      <3> DEFINE still(t) == 
              late[t] /\ ~(payload[t] # None /\ <<payload[t].app, provider[t]>> = row)
      <3>1. \A t \in Tabs : still(t) \in BOOLEAN
        OBVIOUS
      <3>2. late' = [t \in Tabs |-> still(t)]
        BY <2>1 DEF SetEnabled
      <3>3. \A t \in Tabs : still(t) => late[t] /\ <<payload[t].app, provider[t]>> # row
        BY DEF TabOK, TabLate
      <3> HIDE DEF still
      <3> QED
        BY <2>1, <3>1, <3>2, <3>3 DEF SetEnabled, TypeOK
    <2>2. CASE SetDisabled(row)
      BY <2>2 DEF SetDisabled, TypeOK, history
    <2> QED
      BY <2>1, <2>2
  <1>2. TypeOK'
    BY <1>1 DEF TypeOK, cookies, upstreamSide, locals
  <1>3. \A t \in Tabs : TabOK(t)'
    <2> TAKE t \in Tabs
    <2>1. TabLate(t)'
      BY <1>1 DEF TabOK, TabLate, locals
    <2>2. TabAsks(t)' /\ TabNamesFlow(t)' /\ TabCarriesOwn(t)' /\ TabMatched(t)'
      BY <1>1 DEF TabOK, TabAsks, TabNamesFlow, TabCarriesOwn, TabMatched, locals,
                  upstreamSide
    <2> QED
      BY <2>1, <2>2 DEF TabOK
  <1>4. \A b \in Browsers : BrowserOK(b)'
    BY <1>1 DEF BrowserOK, CookieIsOwn, SessionIsOwn, cookies, upstreamSide
  <1>5. \A s \in States : FlowOK(s)'
    BY <1>1 DEF FlowOK, upstreamSide
  <1> QED
    BY <1>2, <1>3, <1>4, <1>5

\* The invariant does not read the clock, beyond its type.
LEMMA ClockKeepsInv ==
    ASSUME BrokerInv, now' \in Nat,
           UNCHANGED <<enabled, cookies, upstreamSide, locals, history>>
    PROVE  BrokerInv'
  <1> USE DEF BrokerInv, cookies, upstreamSide, locals, history
  <1>1. TypeOK'
    BY DEF TypeOK
  <1>2. \A t \in Tabs : TabOK(t)'
    BY DEF TabOK, TabAsks, TabNamesFlow, TabCarriesOwn, TabMatched, TabLate
  <1>3. (\A b \in Browsers : BrowserOK(b)') /\ (\A s \in States : FlowOK(s)')
    BY DEF BrowserOK, CookieIsOwn, SessionIsOwn, FlowOK
  <1> QED
    BY <1>1, <1>2, <1>3

-----------------------------------------------------------------------------
\* Every step of every tab, browser, provider and operator preserves BrokerInv.
LEMMA BrokerInvStep == BrokerInv /\ [Next]_vars => BrokerInv'
  <1> SUFFICES ASSUME BrokerInv, [Next]_vars PROVE BrokerInv'
    OBVIOUS
  <1>1. ASSUME NEW t \in Tabs, NEW r \in Requests, Open(t, r) PROVE BrokerInv'
    BY <1>1, OpenKeepsInv
  <1>2. ASSUME NEW t \in Tabs, NEW p \in Providers, StartBegin(t, p) PROVE BrokerInv'
    BY <1>2, StartBeginKeepsInv
  <1>3. ASSUME NEW t \in Tabs, NEW a \in Accounts, ProviderSignIn(t, a) PROVE BrokerInv'
    BY <1>3, ProviderSignInKeepsInv
  <1>4. ASSUME NEW t \in Tabs, NEW s \in States, Reopen(t, s) PROVE BrokerInv'
    BY <1>4, ReopenKeepsInv
  <1>5. ASSUME NEW t \in Tabs, ProviderDecline(t) PROVE BrokerInv'
    BY <1>5, LeaveKeepsInv DEF ProviderDecline, cookies, upstreamSide, BrokerInv, TypeOK
  <1>6. ASSUME NEW t \in Tabs, ServerStep(t) PROVE BrokerInv'
    BY <1>6, AuthorizeBeginKeepsInv, AuthorizeAnswerKeepsInv, StartAnswerKeepsInv,
       CallbackBeginKeepsInv, CallbackCheckKeepsInv, CallbackLookupKeepsInv,
       CallbackExchangeKeepsInv, CallbackSignInKeepsInv
       DEF ServerStep
  <1>7. ASSUME NEW row \in Apps \X Providers, SetEnabled(row) \/ SetDisabled(row)
        PROVE  BrokerInv'
    BY <1>7, OperatorKeepsInv
  <1>8. CASE Tick
    BY <1>8, ClockKeepsInv DEF Tick, BrokerInv, TypeOK
  <1>9. CASE UNCHANGED vars
    <2>1. now' \in Nat /\ UNCHANGED <<enabled, cookies, upstreamSide, locals, history>>
      BY <1>9 DEF vars, BrokerInv, TypeOK
    <2> QED
      BY <2>1, ClockKeepsInv
  <1> QED
    BY <1>1, <1>2, <1>3, <1>4, <1>5, <1>6, <1>7, <1>8, <1>9 DEF Next

\* BrokerInv holds of every state the flow reaches.
LEMMA BrokerInvariant == Spec => []BrokerInv
  BY BrokerInvInit, BrokerInvStep, PTL DEF Spec

\* The cookies, addresses and callbacks of the flow always have their types.
THEOREM TypeCorrect == Spec => []TypeOK
  <1>1. BrokerInv => TypeOK
    BY DEF BrokerInv
  <1> QED
    BY <1>1, BrokerInvariant, PTL

\* A browser is signed in only by a flow it started itself, as the account that
\* signed in at the provider in that flow: whichever callback addresses are
\* opened again, late, or in other browsers, and however tabs interleave.
THEOREM SignedInBySelf == Spec => []SignedInByOwnFlow
  <1>1. BrokerInv => SignedInByOwnFlow
    BY DEF BrokerInv, BrowserOK, SessionIsOwn, SignedInByOwnFlow
  <1> QED
    BY <1>1, BrokerInvariant, PTL

\* No callback ends in a session when the provider was off from its beginning
\* to its end, whatever was on when the flow was started.
THEOREM DisabledAdmitsNobody == Spec => []DisabledProviderAdmitsNobody
  <1>1. BrokerInv => DisabledProviderAdmitsNobody
    BY DEF BrokerInv, TabOK, TabLate, DisabledProviderAdmitsNobody
  <1> QED
    BY <1>1, BrokerInvariant, PTL

-----------------------------------------------------------------------------
(* Which request is resumed.  With several tabs in a browser it may be the *)
(* other tab's, and a prompt whose cookie could not be sealed resumes      *)
(* whatever was pending before; with one tab each and no faults it is      *)
(* always the tab's own.  ResumeInv follows the request from the address   *)
(* through the pending-request cookie, the draw of the state and the       *)
(* sealed flow back to the address.                                        *)

\* No two tabs share the cookies of a browser.
OneTabEach == \A t, u \in Tabs : BrowserOf[t] = BrowserOf[u] => t = u

\* Wherever a tab's request is kept, it is the one the user opened.
TabResumes(t) ==
    /\ pc[t] \in {"open", "authorize"} => request[t] = wanted[t]
    /\ pc[t] = "prompt" /\ authz[BrowserOf[t]] # None =>
          authz[BrowserOf[t]].value = wanted[t]
    /\ pc[t] = "start" /\ request[t] # None => request[t] = wanted[t]
    /\ pc[t] \in AtProviderPCs => origin[state[t]].request = wanted[t]

\* A sealed flow returns to the request its state was drawn for.
TabReturns(t) ==
    payload[t] # None => payload[t].returnTo = origin[payload[t].state].request
CookieReturns(b) ==
    upstream[b] # None =>
        upstream[b].value.returnTo = origin[upstream[b].value.state].request

ResumeInv ==
    /\ \A t \in Tabs : TabResumes(t) /\ TabReturns(t)
    /\ \A b \in Browsers : CookieReturns(b)
    /\ ResumesOriginalRequest

\* What a step of tab t owes ResumeInv.
ResumeStep(t) ==
    /\ FlowsStay
    /\ \A u \in Tabs \ {t} : SameTab(u) /\ authz'[BrowserOf[u]] = authz[BrowserOf[u]]
    /\ TabResumes(t)' /\ TabReturns(t)'
    /\ \A b \in Browsers : upstream'[b] = upstream[b] \/ CookieReturns(b)'
    /\ ResumesOriginalRequest'

\* The states a tab names, in its address or in the flow it carries, and the one
\* in a browser's cookie have been drawn.
LEMMA NamedIsBorn ==
    ASSUME BrokerInv
    PROVE  /\ \A t \in Tabs : pc[t] \in AtProviderPCs =>
                 state[t] \in States /\ origin[state[t]] # Unborn
           /\ \A t \in Tabs : payload[t] # None =>
                 payload[t].state \in States /\ origin[payload[t].state] # Unborn
           /\ \A b \in Browsers : upstream[b] # None =>
                 /\ upstream[b].value.state \in States
                 /\ origin[upstream[b].value.state] # Unborn
  <1> USE DEF BrokerInv
  <1>1. ASSUME NEW t \in Tabs, pc[t] \in AtProviderPCs
        PROVE  state[t] \in States /\ origin[state[t]] # Unborn
    BY <1>1 DEF TabOK, TabNamesFlow
  <1>2. ASSUME NEW t \in Tabs, payload[t] # None
        PROVE  payload[t].state \in States /\ origin[payload[t].state] # Unborn
    <2>1. payload[t].state \in States /\ BrowserOf[t] \in Browsers
      BY <1>2, BrowsersAssumption DEF TypeOK, Payload
    <2> QED
      BY <1>2, <2>1, OwnIsBorn DEF TabOK, TabCarriesOwn
  <1>3. ASSUME NEW b \in Browsers, upstream[b] # None
        PROVE  /\ upstream[b].value.state \in States
               /\ origin[upstream[b].value.state] # Unborn
    <2>1. upstream[b].value.state \in States
      BY <1>3 DEF TypeOK, Payload
    <2> QED
      BY <1>3, <2>1, OwnIsBorn DEF BrowserOK, CookieIsOwn
  <1> QED
    BY <1>1, <1>2, <1>3

\* A step of one tab that pays what it owes preserves ResumeInv.
LEMMA ResumeStepKeepsInv ==
    ASSUME BrokerInv, ResumeInv, NEW t \in Tabs, ResumeStep(t)
    PROVE  ResumeInv'
  <1>1. ASSUME NEW u \in Tabs \ {t} PROVE TabResumes(u)'
    BY NamedIsBorn DEF ResumeInv, ResumeStep, SameTab, TabResumes, FlowsStay
  <1>2. ASSUME NEW u \in Tabs \ {t} PROVE TabReturns(u)'
    BY NamedIsBorn DEF ResumeInv, ResumeStep, SameTab, TabReturns, FlowsStay
  <1>3. ASSUME NEW b \in Browsers, upstream'[b] = upstream[b] PROVE CookieReturns(b)'
    BY <1>3, NamedIsBorn DEF ResumeInv, ResumeStep, CookieReturns, FlowsStay
  <1> QED
    BY <1>1, <1>2, <1>3 DEF ResumeInv, ResumeStep

\* No step rewrites what was recorded of a state.
LEMMA FlowsOnlyGrow ==
    ASSUME BrokerInv, [Next]_vars
    PROVE  FlowsStay
  <1> USE DEF BrokerInv
  <1>1. CASE UNCHANGED <<origin, account>>
    BY <1>1 DEF FlowsStay
  <1>2. ASSUME NEW t \in Tabs, StartAnswer(t) PROVE FlowsStay
    <2>1. UNCHANGED account
      BY <1>2 DEF StartAnswer, upstreamSide
    <2>2. UNCHANGED origin \/ \E s \in States : /\ origin[s] = Unborn
                                                /\ \E f : origin' = [origin EXCEPT ![s] = f]
      BY <1>2 DEF StartAnswer, Leave
    <2> QED
      BY <2>1, <2>2 DEF FlowsStay, TypeOK
  <1>3. ASSUME NEW t \in Tabs, NEW a \in Accounts, ProviderSignIn(t, a) PROVE FlowsStay
    BY <1>3 DEF ProviderSignIn, history, FlowsStay, TypeOK
  <1>4. ASSUME NEW t \in Tabs, ServerStep(t), ~StartAnswer(t)
        PROVE  UNCHANGED <<origin, account>>
    BY <1>4 DEF ServerStep, AuthorizeBegin, AuthorizeAnswer, IssueCode, AskToSignIn,
           CallbackBegin, CallbackCheck, CallbackLookup, CallbackExchange, CallbackSignIn,
           Leave, history, upstreamSide
  <1>5. ASSUME NEW t \in Tabs, \/ \E r \in Requests : Open(t, r)
                               \/ \E p \in Providers : StartBegin(t, p)
                               \/ \E s \in States : Reopen(t, s)
                               \/ ProviderDecline(t)
        PROVE  UNCHANGED <<origin, account>>
    BY <1>5 DEF Open, StartBegin, Reopen, ProviderDecline, Leave, history, upstreamSide
  <1>6. CASE (\E row \in Apps \X Providers : SetEnabled(row) \/ SetDisabled(row)) \/ Tick
              \/ UNCHANGED vars
    <2>1. UNCHANGED <<origin, account>>
      BY <1>6 DEF SetEnabled, SetDisabled, Tick, vars, history, upstreamSide
    <2> QED
      BY <1>1, <2>1
  <1> QED
    BY <1>1, <1>2, <1>3, <1>4, <1>5, <1>6 DEF Next

\* A tab that leaves for an error page or the application owes nothing more.
LEMMA LeaveResumes ==
    ASSUME BrokerInv, ResumeInv, FlowsStay, NEW t \in Tabs, NEW label \in {"idle", "done"},
           Leave(t, label), UNCHANGED <<authz, upstream>>, ResumesOriginalRequest'
    PROVE  ResumeInv'
  <1>1. pc'[t] = label /\ payload'[t] = None
    BY DEF Leave, BrokerInv, TypeOK
  <1>2. TabResumes(t)' /\ TabReturns(t)'
    BY <1>1 DEF TabResumes, TabReturns, AtProviderPCs
  <1>3. \A u \in Tabs \ {t} : SameTab(u)
    BY DEF Leave, SameTab, BrokerInv, TypeOK
  <1>4. ResumeStep(t)
    BY <1>2, <1>3 DEF ResumeStep
  <1> QED
    BY <1>4, ResumeStepKeepsInv

\* The request the user opened is the one that is asked to be authorized.
LEMMA OpenResumes ==
    ASSUME BrokerInv, ResumeInv, FlowsStay, NEW t \in Tabs,
           (\E r \in Requests : Open(t, r)) \/ AuthorizeBegin(t)
    PROVE  ResumeInv'
  <1> USE DEF history, cookies
  <1>1. /\ pc'[t] \in {"open", "authorize"} /\ request'[t] = wanted'[t]
        /\ UNCHANGED <<payload, origin, authz, upstream, answers>>
    BY DEF Open, AuthorizeBegin, BrokerInv, TypeOK, ResumeInv, TabResumes
  <1>2. TabResumes(t)' /\ TabReturns(t)'
    BY <1>1 DEF TabResumes, TabReturns, AtProviderPCs, ResumeInv
  <1>3. \A u \in Tabs \ {t} : SameTab(u)
    BY DEF Open, AuthorizeBegin, SameTab, BrokerInv, TypeOK
  <1>4. ResumeStep(t)
    BY <1>1, <1>2, <1>3 DEF ResumeStep, ResumeInv, ResumesOriginalRequest
  <1> QED
    BY <1>4, ResumeStepKeepsInv

\* A code answers the request in the address, and a prompt leaves that request
\* pending, which no other tab of the browser can replace.
LEMMA AuthorizeAnswerResumes ==
    ASSUME BrokerInv, ResumeInv, FlowsStay, OneTabEach, ~Faults,
           NEW t \in Tabs, AuthorizeAnswer(t)
    PROVE  ResumeInv'
  <1>1. pc[t] = "authorize" /\ request[t] = wanted[t]
    BY DEF AuthorizeAnswer, ResumeInv, TabResumes
  <1>2. CASE IssueCode(t)
    <2>1. ResumesOriginalRequest'
      BY <1>1, <1>2 DEF IssueCode, ResumesOriginalRequest, ResumeInv
    <2> QED
      BY <1>2, <2>1, LeaveResumes DEF IssueCode, cookies
  <1>3. CASE AskToSignIn(t)
    <2> DEFINE b == BrowserOf[t]
    <2>1. b \in Browsers
      BY BrowsersAssumption
    <2>2. /\ authz' = [authz EXCEPT ![b] = [value |-> request[t], until |-> now + TTL]]
          /\ Leave(t, "prompt") /\ UNCHANGED <<upstream, answers>>
      BY <1>3 DEF AskToSignIn
    <2>3. /\ pc'[t] = "prompt" /\ payload'[t] = None /\ wanted'[t] = wanted[t]
          /\ authz'[b].value = wanted[t]
      BY <1>1, <2>1, <2>2 DEF Leave, BrokerInv, TypeOK
    <2>4. TabResumes(t)' /\ TabReturns(t)'
      BY <2>3 DEF TabResumes, TabReturns, AtProviderPCs
    <2>5. \A u \in Tabs \ {t} : SameTab(u)
      BY <2>2 DEF Leave, SameTab, BrokerInv, TypeOK
    <2>6. \A u \in Tabs \ {t} : authz'[BrowserOf[u]] = authz[BrowserOf[u]]
      BY <2>2, BrowsersAssumption DEF OneTabEach, BrokerInv, TypeOK
    <2>7. ResumeStep(t)
      BY <2>2, <2>4, <2>5, <2>6 DEF ResumeStep, ResumeInv, ResumesOriginalRequest
    <2> QED
      BY <2>7, ResumeStepKeepsInv
  <1> QED
    BY <1>2, <1>3 DEF AuthorizeAnswer

\* Start takes the pending request, which is the tab's own.
LEMMA StartBeginResumes ==
    ASSUME BrokerInv, ResumeInv, FlowsStay, NEW t \in Tabs, NEW p \in Providers,
           StartBegin(t, p)
    PROVE  ResumeInv'
  <1> USE DEF history, cookies
  <1>1. /\ pc'[t] = "start" /\ request'[t] = Sent(authz[BrowserOf[t]])
        /\ UNCHANGED <<payload, origin, authz, upstream, answers, wanted>>
    BY DEF StartBegin, BrokerInv, TypeOK
  <1>2. request'[t] # None => request'[t] = wanted[t]
    BY <1>1 DEF StartBegin, Sent, ResumeInv, TabResumes
  <1>3. TabResumes(t)' /\ TabReturns(t)'
    BY <1>1, <1>2 DEF TabResumes, TabReturns, AtProviderPCs, ResumeInv
  <1>4. \A u \in Tabs \ {t} : SameTab(u)
    BY DEF StartBegin, SameTab, BrokerInv, TypeOK
  <1>5. ResumeStep(t)
    BY <1>1, <1>3, <1>4 DEF ResumeStep, ResumeInv, ResumesOriginalRequest
  <1> QED
    BY <1>5, ResumeStepKeepsInv

\* The state is drawn for that request, and the sealed flow returns to it.
LEMMA StartAnswerResumes ==
    ASSUME BrokerInv, ResumeInv, FlowsStay, NEW t \in Tabs, StartAnswer(t)
    PROVE  ResumeInv'
  <1> DEFINE b == BrowserOf[t]
             flow == [browser |-> b, provider |-> provider[t], request |-> request[t]]
             pl(s) == [provider |-> provider[t], state |-> s, app |-> AppOf[request[t]],
                       returnTo |-> request[t], expiresAt |-> now + TTL]
             jar(s) == [value |-> pl(s), until |-> now + TTL]
  <1>1. b \in Browsers /\ UNCHANGED <<authz, answers>> /\ pc[t] = "start"
    BY BrowsersAssumption DEF StartAnswer
  <1>2. CASE Leave(t, "idle") /\ UNCHANGED upstream
    BY <1>1, <1>2, LeaveResumes DEF ResumeInv, ResumesOriginalRequest
  <1>3. CASE ~(Leave(t, "idle") /\ UNCHANGED upstream)
    <2>1. request[t] # None /\ request[t] = wanted[t]
      BY <1>1, <1>3 DEF StartAnswer, ResumeInv, TabResumes
    <2>2. PICK s \in States : /\ origin[s] = Unborn
                              /\ upstream' = [upstream EXCEPT ![b] = jar(s)]
                              /\ state' = [state EXCEPT ![t] = s]
                              /\ origin' = [origin EXCEPT ![s] = flow]
      BY <1>3, Zenon DEF StartAnswer
    <2>3. /\ pc' = [pc EXCEPT ![t] = "provider"]
          /\ UNCHANGED <<request, provider, payload, visitor, wanted, via, late>>
      BY <1>3, Zenon DEF StartAnswer
    <2>4. /\ flow.request = request[t] /\ jar(s).value.returnTo = request[t]
          /\ jar(s).value.state = s
      OBVIOUS
    <2> HIDE DEF flow, jar, pl, b
    <2>5. CookieReturns(b)' /\ \A c \in Browsers \ {b} : upstream'[c] = upstream[c]
      BY <1>1, <2>2, <2>4 DEF CookieReturns, BrokerInv, TypeOK
    <2>6. TabResumes(t)'
      <3>1. /\ pc'[t] = "provider" /\ state'[t] = s /\ origin'[s].request = wanted[t]
            /\ wanted'[t] = wanted[t]
        BY <2>1, <2>2, <2>3, <2>4 DEF BrokerInv, TypeOK
      <3> QED
        BY <3>1 DEF TabResumes
    <2>7. TabReturns(t)'
      BY <2>3, NamedIsBorn DEF TabReturns, ResumeInv, FlowsStay
    <2>8. \A u \in Tabs \ {t} : SameTab(u)
      BY <2>2, <2>3 DEF SameTab, BrokerInv, TypeOK
    <2>9. ResumeStep(t)
      BY <1>1, <2>5, <2>6, <2>7, <2>8 DEF ResumeStep, ResumeInv, ResumesOriginalRequest
    <2> QED
      BY <2>9, ResumeStepKeepsInv
  <1> QED
    BY <1>2, <1>3

\* A tab at the provider, or back from it, stays with the flow it has, or opens
\* a callback address and wants what that flow is for.
LEMMA FlowStepResumes ==
    ASSUME BrokerInv, ResumeInv, FlowsStay, NEW t \in Tabs,
           pc'[t] \in AtProviderPCs, origin'[state'[t]].request = wanted'[t],
           UNCHANGED <<authz, upstream, origin, answers>>,
           TabReturns(t)', \A u \in Tabs \ {t} : SameTab(u)
    PROVE  ResumeInv'
  <1>1. TabResumes(t)'
    BY DEF TabResumes, AtProviderPCs
  <1>2. ResumeStep(t)
    BY <1>1 DEF ResumeStep, ResumeInv, ResumesOriginalRequest
  <1> QED
    BY <1>2, ResumeStepKeepsInv

\* Signing in, declining and opening a callback address again.
LEMMA ProviderResumes ==
    ASSUME BrokerInv, ResumeInv, FlowsStay, NEW t \in Tabs,
           \/ \E a \in Accounts : ProviderSignIn(t, a)
           \/ \E s \in States : Reopen(t, s)
           \/ ProviderDecline(t)
    PROVE  ResumeInv'
  <1> USE DEF history, cookies
  <1>1. ASSUME NEW a \in Accounts, ProviderSignIn(t, a) PROVE ResumeInv'
    <2>1. pc'[t] = "return" /\ UNCHANGED <<authz, upstream, origin, answers, state, wanted, payload>>
      BY <1>1 DEF ProviderSignIn, BrokerInv, TypeOK
    <2>2. TabReturns(t)' /\ origin'[state'[t]].request = wanted'[t]
      BY <1>1, <2>1 DEF ProviderSignIn, ResumeInv, TabReturns, TabResumes, AtProviderPCs
    <2>3. \A u \in Tabs \ {t} : SameTab(u)
      BY <1>1 DEF ProviderSignIn, SameTab, BrokerInv, TypeOK
    <2> QED
      BY <2>1, <2>2, <2>3, FlowStepResumes DEF AtProviderPCs
  <1>2. ASSUME NEW s \in States, Reopen(t, s) PROVE ResumeInv'
    <2>1. /\ pc'[t] = "return" /\ state'[t] = s /\ wanted'[t] = origin[s].request
          /\ UNCHANGED <<authz, upstream, origin, answers, payload>>
      BY <1>2 DEF Reopen, BrokerInv, TypeOK
    <2>2. TabReturns(t)'
      BY <2>1 DEF ResumeInv, TabReturns
    <2>3. \A u \in Tabs \ {t} : SameTab(u)
      BY <1>2 DEF Reopen, SameTab, BrokerInv, TypeOK
    <2> QED
      BY <2>1, <2>2, <2>3, FlowStepResumes DEF AtProviderPCs
  <1>3. ASSUME ProviderDecline(t) PROVE ResumeInv'
    BY <1>3, LeaveResumes DEF ProviderDecline, ResumeInv, ResumesOriginalRequest
  <1> QED
    BY <1>1, <1>2, <1>3

\* The callback carries a flow that returns to its own request.
LEMMA CallbackBeginResumes ==
    ASSUME BrokerInv, ResumeInv, FlowsStay, NEW t \in Tabs, CallbackBegin(t)
    PROVE  ResumeInv'
  <1> USE DEF cookies
  <1> DEFINE b == BrowserOf[t]
  <1>1. b \in Browsers
    BY BrowsersAssumption
  <1>2. /\ pc'[t] = "check" /\ payload'[t] = Sent(upstream[b])
        /\ UNCHANGED <<authz, upstream, origin, answers, state, wanted>>
    BY DEF CallbackBegin, BrokerInv, TypeOK
  <1>3. TabReturns(t)'
    BY <1>1, <1>2 DEF TabReturns, Sent, ResumeInv, CookieReturns
  <1>4. origin'[state'[t]].request = wanted'[t]
    BY <1>2 DEF CallbackBegin, ResumeInv, TabResumes, AtProviderPCs
  <1>5. \A u \in Tabs \ {t} : SameTab(u)
    BY DEF CallbackBegin, SameTab, BrokerInv, TypeOK
  <1> QED
    BY <1>2, <1>3, <1>4, <1>5, FlowStepResumes DEF AtProviderPCs

\* The callback's checks and the exchange keep the flow, or end it.
LEMMA CallbackResumes ==
    ASSUME BrokerInv, ResumeInv, FlowsStay, NEW t \in Tabs,
           CallbackCheck(t) \/ CallbackLookup(t) \/ CallbackExchange(t)
    PROVE  ResumeInv'
  <1>1. UNCHANGED <<authz, upstream, answers>> /\ pc[t] \in AtProviderPCs
    BY DEF CallbackCheck, CallbackLookup, CallbackExchange, cookies, AtProviderPCs
  <1>2. CASE Leave(t, "idle")
    BY <1>1, <1>2, LeaveResumes DEF ResumeInv, ResumesOriginalRequest
  <1>3. CASE ~Leave(t, "idle")
    <2>1. /\ \E label \in AtProviderPCs : pc' = [pc EXCEPT ![t] = label]
          /\ UNCHANGED <<request, provider, state, payload, wanted, origin, late>>
      BY <1>3 DEF CallbackCheck, CallbackLookup, CallbackExchange, AtProviderPCs
    <2>2. pc'[t] \in AtProviderPCs /\ \A u \in Tabs \ {t} : SameTab(u)
      BY <2>1 DEF SameTab, BrokerInv, TypeOK
    <2>3. TabReturns(t)' /\ origin'[state'[t]].request = wanted'[t]
      BY <1>1, <2>1 DEF ResumeInv, TabReturns, TabResumes
    <2> QED
      BY <1>1, <2>1, <2>2, <2>3, FlowStepResumes
  <1> QED
    BY <1>2, <1>3

\* After the sign-in the tab goes back to what its user opened.
LEMMA CallbackSignInResumes ==
    ASSUME BrokerInv, ResumeInv, FlowsStay, OneTabEach, ~Faults,
           NEW t \in Tabs, CallbackSignIn(t)
    PROVE  ResumeInv'
  <1> DEFINE b == BrowserOf[t]
  <1>1. b \in Browsers /\ \A u \in Tabs \ {t} : BrowserOf[u] # b
    BY BrowsersAssumption DEF OneTabEach
  <1>2. /\ authz' = [authz EXCEPT ![b] = None]
        /\ upstream' = [upstream EXCEPT ![b] = None]
        /\ UNCHANGED <<wanted, origin, answers>>
    BY DEF CallbackSignIn
  <1>3. pc'[t] = "open" /\ payload'[t] = None /\ request'[t] = payload[t].returnTo
    BY DEF CallbackSignIn, BrokerInv, TypeOK
  <1>4. payload[t].returnTo = wanted[t]
    <2>1. payload[t] # None /\ payload[t].state = state[t]
      BY DEF CallbackSignIn, BrokerInv, TabOK, TabMatched, MatchedPCs
    <2> QED
      BY <2>1 DEF CallbackSignIn, ResumeInv, TabReturns, TabResumes, AtProviderPCs
  <1>5. TabResumes(t)' /\ TabReturns(t)'
    BY <1>2, <1>3, <1>4 DEF TabResumes, TabReturns, AtProviderPCs
  <1>6. \A u \in Tabs \ {t} : SameTab(u)
    BY DEF CallbackSignIn, SameTab, BrokerInv, TypeOK
  <1>7. \A u \in Tabs \ {t} : authz'[BrowserOf[u]] = authz[BrowserOf[u]]
    BY <1>1, <1>2, BrowsersAssumption DEF BrokerInv, TypeOK
  <1>8. CookieReturns(b)' /\ \A c \in Browsers \ {b} : upstream'[c] = upstream[c]
    BY <1>1, <1>2 DEF CookieReturns, BrokerInv, TypeOK
  <1>9. ResumeStep(t)
    BY <1>2, <1>5, <1>6, <1>7, <1>8 DEF ResumeStep, ResumeInv, ResumesOriginalRequest
  <1> QED
    BY <1>9, ResumeStepKeepsInv

\* Every step preserves ResumeInv, with one tab each and no faults.
LEMMA ResumeInvStep ==
    ASSUME OneTabEach, ~Faults, BrokerInv, ResumeInv, [Next]_vars
    PROVE  ResumeInv'
  <1>1. FlowsStay
    BY FlowsOnlyGrow
  <1>2. ASSUME NEW t \in Tabs, ServerStep(t) PROVE ResumeInv'
    BY <1>1, <1>2, OpenResumes, AuthorizeAnswerResumes, StartAnswerResumes,
       CallbackBeginResumes, CallbackResumes, CallbackSignInResumes
       DEF ServerStep
  <1>3. ASSUME NEW t \in Tabs, \/ \E r \in Requests : Open(t, r)
                               \/ \E p \in Providers : StartBegin(t, p)
        PROVE  ResumeInv'
    BY <1>1, <1>3, OpenResumes, StartBeginResumes
  <1>4. ASSUME NEW t \in Tabs, \/ \E a \in Accounts : ProviderSignIn(t, a)
                               \/ \E s \in States : Reopen(t, s)
                               \/ ProviderDecline(t)
        PROVE  ResumeInv'
    BY <1>1, <1>4, ProviderResumes
  <1>5. CASE \/ \E row \in Apps \X Providers : SetEnabled(row) \/ SetDisabled(row)
             \/ Tick
             \/ UNCHANGED vars
    <2>1. UNCHANGED <<cookies, locals, wanted, origin, answers>>
      BY <1>5 DEF SetEnabled, SetDisabled, Tick, vars, history
    <2> QED
      BY <2>1 DEF ResumeInv, TabResumes, TabReturns, CookieReturns, ResumesOriginalRequest,
                  cookies, locals
  <1> QED
    BY <1>2, <1>3, <1>4, <1>5 DEF Next

\* "Resume the original authorization request": in browsers with one tab each,
\* and when no cookie fails to be sealed, every code a tab brings back answers
\* the request its user opened, however often flows are started, declined,
\* overtaken and reopened, in whichever browser.
THEOREM OwnRequestResumed ==
    ASSUME OneTabEach, ~Faults
    PROVE  Spec => []ResumesOriginalRequest
  <1>1. Init => ResumeInv
    BY DEF Init, ResumeInv, TabResumes, TabReturns, CookieReturns, ResumesOriginalRequest,
           AtProviderPCs
  <1>2. BrokerInv /\ ResumeInv /\ [Next]_vars => ResumeInv'
    BY ResumeInvStep
  <1>3. ResumeInv => ResumesOriginalRequest
    BY DEF ResumeInv
  <1> QED
    BY <1>1, <1>2, <1>3, BrokerInvariant, PTL DEF Spec
=============================================================================
