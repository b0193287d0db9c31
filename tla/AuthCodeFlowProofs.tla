------------------------- MODULE AuthCodeFlowProofs -------------------------
(***************************************************************************)
(* Proofs about AuthCodeFlow for every number of handlers, codes, clients, *)
(* sessions and requests, with faults, crashes and time as they come.      *)
(*                                                                         *)
(* TypeInv tells which locals a handler has at each point, ExchangeInv who *)
(* holds a code between Consume and its outcome, and ProvenanceInv where a *)
(* code's row came from.                                                   *)
(***************************************************************************)
EXTENDS AuthCodeFlow, SessionStoreProofs, TLAPS

(***************************************************************************)
(* The types of a handler's locals at each point of its run.               *)
(***************************************************************************)
AuthorizeLocals(p) ==
    /\ pc[p] \in AuthorizePCs => areq[p] \in AuthorizeRequests
    /\ pc[p] \in {"authApp", "authCreate"} => ~UntrustedTarget(areq[p])
    /\ pc[p] = "authCreate" => user[p] \in Subjects

\* An exchange has its request, then a code, then the row it read.
TokenLocals(p) ==
    /\ pc[p] \in TokenPCs => treq[p] \in TokenRequests
    /\ pc[p] \in TokenPCs \ {"client"} => treq[p].code \in Codes
    /\ pc[p] \in TokenPCs \ {"client", "getCode"} => stored[p] \in CodeRow

LocalsType ==
    /\ pc \in [Procs -> {"idle"} \cup AuthorizePCs \cup TokenPCs]
    /\ areq \in [Procs -> AuthorizeRequests \cup {NoRequest}]
    /\ user \in [Procs -> Subjects \cup {Nobody}]
    /\ via \in [Procs -> Tokens \cup {Nobody}]
    /\ expiry \in [Procs -> Nat]
    /\ treq \in [Procs -> TokenRequests \cup {NoRequest}]
    /\ stored \in [Procs -> CodeRow \cup {NoCode}]
    /\ clock \in [Procs -> Nat]
    /\ \A p \in Procs : AuthorizeLocals(p) /\ TokenLocals(p)

TablesType ==
    /\ SessionTypeOK
    /\ codes \in [Codes -> CodeRow \cup {NoCode}]
    /\ allowed \in [Apps -> SUBSET Scopes]

HistoryType ==
    /\ redirects \in SUBSET (STRING \X STRING)
    /\ grants \in [Codes -> Seq(Token)]
    /\ spoiled \in SUBSET Codes
    /\ origin \in [Codes -> Tokens \cup {Nobody}]
    /\ signedIn \in [Tokens -> [user : Subjects, app : Apps] \cup {Nowhere}]

TypeInv == LocalsType /\ TablesType /\ HistoryType

-----------------------------------------------------------------------------
(* What the handlers build has the type of the table it goes into.         *)

\* The row authorizeHandler inserts is a row of the code table.
LEMMA NewCodeType ==
    ASSUME NEW p \in Procs, TypeInv, pc[p] = "authCreate"
    PROVE  NewCode(p) \in CodeRow
  <1>1. areq[p] \in AuthorizeRequest /\ areq[p].client \in Clients
    BY RequestsAssumption DEF TypeInv, LocalsType, AuthorizeLocals, AuthorizePCs, UntrustedTarget
  <1>2. user[p] \in Subjects /\ expiry[p] \in Nat /\ now \in Nat
    BY DEF TypeInv, LocalsType, TablesType, SessionTypeOK, AuthorizeLocals
  <1> QED
    BY <1>1, <1>2 DEF NewCode, CodeRow, AuthorizeRequest

\* The answer tokenHandler writes is a token answer.
LEMMA NewTokenType ==
    ASSUME NEW p \in Procs, TypeInv, pc[p] = "issue"
    PROVE  NewToken(p) \in Token
  <1>1. treq[p] \in TokenRequest /\ stored[p] \in CodeRow
    BY RequestsAssumption DEF TypeInv, LocalsType, TokenLocals, TokenPCs
  <1> DEFINE openid == "openid" \in stored[p].scope
  <1>2. ClientID(treq[p]) \in STRING
    BY <1>1 DEF ClientID, TokenRequest
  <1>3. (IF openid THEN stored[p].nonce ELSE Empty) \in STRING
    <2>1. stored[p].nonce \in STRING
      BY <1>1 DEF CodeRow
    <2> QED BY <2>1, EmptyAssumption
  <1>4. (IF openid THEN stored[p].createdAt ELSE 0) \in Nat
    <2>1. stored[p].createdAt \in Nat
      BY <1>1 DEF CodeRow
    <2> QED BY <2>1
  <1>5. openid \in BOOLEAN /\ (openid /\ "email" \in stored[p].scope) \in BOOLEAN
    OBVIOUS
  <1>6. stored[p].user \in Subjects /\ treq[p].redirectURI \in STRING
           /\ treq[p].verifier \in STRING
    BY <1>1 DEF CodeRow, TokenRequest
  <1> QED
    BY <1>2, <1>3, <1>4, <1>5, <1>6 DEF NewToken, Token

\* Setting consumed_at leaves a row a row.
LEMMA ConsumedCodeType ==
    ASSUME NEW c \in Codes, codes \in [Codes -> CodeRow \cup {NoCode}], codes[c] # NoCode
    PROVE  [codes EXCEPT ![c].consumed = TRUE] \in [Codes -> CodeRow \cup {NoCode}]
  <1>1. [codes[c] EXCEPT !.consumed = TRUE] \in CodeRow
    BY DEF CodeRow
  <1> QED
    BY <1>1

\* The strengthened type invariant contains the checked one.
LEMMA TypeInvImpliesTypeOK == TypeInv => TypeOK
  BY DEF TypeInv, TypeOK, LocalsType, TablesType, HistoryType

\* A handler that ends leaves well-typed locals, its own and the others'.
LEMMA FinishLocals ==
    ASSUME NEW p \in Procs, LocalsType, Finish(p)
    PROVE  LocalsType'
  <1>1. \A q \in Procs : AuthorizeLocals(q)' /\ TokenLocals(q)'
    <2> TAKE q \in Procs
    <2>1. CASE q = p
      BY <2>1 DEF LocalsType, Finish, AuthorizeLocals, TokenLocals, AuthorizePCs, TokenPCs
    <2>2. CASE q # p
      <3>1. /\ pc'[q] = pc[q] /\ areq'[q] = areq[q] /\ user'[q] = user[q]
            /\ treq'[q] = treq[q] /\ stored'[q] = stored[q]
        BY <2>2 DEF LocalsType, Finish
      <3> QED
        BY <3>1 DEF LocalsType, AuthorizeLocals, TokenLocals, UntrustedTarget, IsRedirectURIAllowed
    <2> QED BY <2>1, <2>2
  <1>2. /\ pc' \in [Procs -> {"idle"} \cup AuthorizePCs \cup TokenPCs]
        /\ areq' \in [Procs -> AuthorizeRequests \cup {NoRequest}]
        /\ user' \in [Procs -> Subjects \cup {Nobody}]
        /\ via' \in [Procs -> Tokens \cup {Nobody}]
        /\ expiry' \in [Procs -> Nat]
        /\ treq' \in [Procs -> TokenRequests \cup {NoRequest}]
        /\ stored' \in [Procs -> CodeRow \cup {NoCode}]
        /\ clock' \in [Procs -> Nat]
    BY DEF LocalsType, Finish
  <1> QED
    BY <1>1, <1>2 DEF LocalsType

\* The redirect a checked request ends in names strings.
LEMMA RedirectType ==
    ASSUME NEW p \in Procs, TypeInv, pc[p] \in AuthorizePCs, Redirect(p)
    PROVE  redirects' \in SUBSET (STRING \X STRING)
  <1>1. areq[p].client \in STRING /\ areq[p].redirectURI \in STRING
    BY RequestsAssumption DEF TypeInv, LocalsType, AuthorizeLocals, AuthorizeRequest
  <1> QED
    BY <1>1 DEF Redirect, TypeInv, HistoryType

-----------------------------------------------------------------------------
(* Every step keeps the types.                                             *)

\* A new authorize request, with whatever user the middleware found.
LEMMA AuthorizeBeginType ==
    ASSUME TypeInv, NEW p \in Procs, NEW t \in Tokens \cup {Nobody},
           NEW r \in AuthorizeRequests, AuthorizeBegin(p, t, r)
    PROVE  TypeInv'
  <1>1. LocalsType /\ TablesType /\ HistoryType
    BY DEF TypeInv
  <1>2. ContextUser(t) \in Subjects \cup {Nobody}
    BY <1>1 DEF ContextUser, Validate, Found, TablesType, SessionTypeOK, SessionRow
  <1>3. user' \in [Procs -> Subjects \cup {Nobody}] /\ via' \in [Procs -> Tokens \cup {Nobody}]
    BY <1>1, <1>2 DEF AuthorizeBegin, LocalsType
  <1>4. /\ pc' \in [Procs -> {"idle"} \cup AuthorizePCs \cup TokenPCs]
        /\ areq' \in [Procs -> AuthorizeRequests \cup {NoRequest}]
    BY <1>1 DEF AuthorizeBegin, LocalsType, AuthorizePCs
  <1>5. \A q \in Procs : AuthorizeLocals(q)' /\ TokenLocals(q)'
    <2> TAKE q \in Procs
    <2>1. CASE q = p
      BY <1>1, <2>1 DEF AuthorizeBegin, LocalsType, AuthorizeLocals, TokenLocals,
                   AuthorizePCs, TokenPCs
    <2>2. CASE q # p
      <3>1. /\ pc'[q] = pc[q] /\ areq'[q] = areq[q] /\ user'[q] = user[q]
            /\ treq'[q] = treq[q] /\ stored'[q] = stored[q]
        BY <1>1, <2>2 DEF AuthorizeBegin, LocalsType, tLocals
      <3> QED
        BY <1>1, <3>1 DEF LocalsType, AuthorizeLocals, TokenLocals, UntrustedTarget,
                          IsRedirectURIAllowed
    <2> QED BY <2>1, <2>2
  <1>6. LocalsType'
    BY <1>1, <1>3, <1>4, <1>5 DEF AuthorizeBegin, LocalsType, tLocals
  <1>7. TablesType' /\ HistoryType'
    BY <1>1 DEF AuthorizeBegin, TablesType, SessionTypeOK, HistoryType, history
  <1> QED
    BY <1>6, <1>7 DEF TypeInv

\* The client lookup of authorizeHandler and its parameter checks.
LEMMA AuthorizeClientType ==
    ASSUME TypeInv, NEW p \in Procs, AuthorizeClient(p)
    PROVE  TypeInv'
  <1>1. LocalsType /\ TablesType /\ HistoryType /\ pc[p] \in AuthorizePCs
    BY DEF TypeInv, AuthorizeClient, AuthorizePCs
  <1>2. TablesType'
    BY <1>1 DEF AuthorizeClient, TablesType, SessionTypeOK
  <1>3. CASE Finish(p) /\ UNCHANGED redirects
    BY <1>1, <1>2, <1>3, FinishLocals DEF TypeInv, AuthorizeClient, HistoryType
  <1>4. CASE Finish(p) /\ Redirect(p)
    <2>1. HistoryType'
      BY <1>1, <1>4, RedirectType DEF AuthorizeClient, HistoryType
    <2> QED
      BY <1>1, <1>2, <1>4, <2>1, FinishLocals DEF TypeInv
  <1>5. CASE /\ ~UntrustedTarget(areq[p])
             /\ pc' = [pc EXCEPT ![p] = "authApp"]
             /\ UNCHANGED <<aLocals, tLocals, redirects>>
    <2>1. \A q \in Procs : AuthorizeLocals(q)' /\ TokenLocals(q)'
      BY <1>1, <1>5 DEF LocalsType, AuthorizeLocals, TokenLocals, aLocals, tLocals,
             AuthorizePCs, TokenPCs, UntrustedTarget, IsRedirectURIAllowed
    <2>2. LocalsType'
      BY <1>1, <1>5, <2>1 DEF LocalsType, aLocals, tLocals, AuthorizePCs
    <2>3. HistoryType'
      BY <1>1, <1>5 DEF AuthorizeClient, HistoryType
    <2> QED
      BY <1>2, <2>2, <2>3 DEF TypeInv
  <1> QED
    BY <1>3, <1>4, <1>5 DEF AuthorizeClient

\* The application lookup, the scope check and the prompt.
LEMMA AuthorizeAppType ==
    ASSUME TypeInv, NEW p \in Procs, AuthorizeApp(p)
    PROVE  TypeInv'
  <1>1. LocalsType /\ TablesType /\ HistoryType /\ pc[p] = "authApp"
    BY DEF TypeInv, AuthorizeApp
  <1>2. TablesType' /\ pc[p] \in AuthorizePCs
    BY <1>1 DEF AuthorizeApp, TablesType, SessionTypeOK, AuthorizePCs
  <1>3. CASE Finish(p) /\ UNCHANGED redirects
    BY <1>1, <1>2, <1>3, FinishLocals DEF TypeInv, AuthorizeApp, HistoryType
  <1>4. CASE Finish(p) /\ Redirect(p)
    <2>1. HistoryType'
      BY <1>1, <1>2, <1>4, RedirectType DEF AuthorizeApp, HistoryType
    <2> QED
      BY <1>1, <1>2, <1>4, <2>1, FinishLocals DEF TypeInv
  <1>5. CASE /\ user[p] # Nobody
             /\ expiry' = [expiry EXCEPT ![p] = now + CodeTTL]
             /\ pc' = [pc EXCEPT ![p] = "authCreate"]
             /\ UNCHANGED <<areq, user, via, tLocals, redirects>>
    <2>1. \A q \in Procs : AuthorizeLocals(q)' /\ TokenLocals(q)'
      BY <1>1, <1>5 DEF LocalsType, AuthorizeLocals, TokenLocals, tLocals,
             AuthorizePCs, TokenPCs, UntrustedTarget, IsRedirectURIAllowed
    <2>2. now + CodeTTL \in Nat
      BY <1>1, TimeAssumption DEF TablesType, SessionTypeOK
    <2>3. LocalsType'
      BY <1>1, <1>5, <2>1, <2>2 DEF LocalsType, tLocals, AuthorizePCs
    <2>4. HistoryType'
      BY <1>1, <1>5 DEF AuthorizeApp, HistoryType
    <2> QED
      BY <1>2, <2>3, <2>4 DEF TypeInv
  <1> QED
    BY <1>3, <1>4, <1>5 DEF AuthorizeApp

\* The INSERT of the code, reported as done or as failed.
LEMMA AuthorizeCreateType ==
    ASSUME TypeInv, NEW p \in Procs, AuthorizeCreate(p)
    PROVE  TypeInv'
  <1>1. LocalsType /\ TablesType /\ HistoryType /\ pc[p] \in AuthorizePCs
    BY DEF TypeInv, AuthorizeCreate, AuthorizePCs
  <1>2. NewCode(p) \in CodeRow
    BY NewCodeType DEF AuthorizeCreate
  <1>3. codes' \in [Codes -> CodeRow \cup {NoCode}] /\ origin' \in [Codes -> Tokens \cup {Nobody}]
    BY <1>1, <1>2 DEF AuthorizeCreate, TablesType, HistoryType, LocalsType
  <1>4. TablesType' /\ HistoryType'
    BY <1>1, <1>3, RedirectType DEF AuthorizeCreate, TablesType, HistoryType, SessionTypeOK
  <1> QED
    BY <1>1, <1>4, FinishLocals DEF TypeInv, AuthorizeCreate

\* A new token request.
LEMMA TokenBeginType ==
    ASSUME TypeInv, NEW p \in Procs, NEW r \in TokenRequests, TokenBegin(p, r)
    PROVE  TypeInv'
  <1>1. LocalsType /\ TablesType /\ HistoryType
    BY DEF TypeInv
  <1>2. \A q \in Procs : AuthorizeLocals(q)' /\ TokenLocals(q)'
    BY <1>1 DEF TokenBegin, LocalsType, AuthorizeLocals, TokenLocals, aLocals,
                AuthorizePCs, TokenPCs, UntrustedTarget, IsRedirectURIAllowed
  <1>3. LocalsType'
    BY <1>1, <1>2 DEF TokenBegin, LocalsType, aLocals, TokenPCs
  <1>4. TablesType' /\ HistoryType'
    BY <1>1 DEF TokenBegin, TablesType, SessionTypeOK, HistoryType, history
  <1> QED
    BY <1>3, <1>4 DEF TypeInv

\* The parameter checks of tokenHandler and the client authentication.
LEMMA TokenClientType ==
    ASSUME TypeInv, NEW p \in Procs, TokenClient(p)
    PROVE  TypeInv'
  <1>1. LocalsType /\ TablesType /\ HistoryType /\ pc[p] = "client"
    BY DEF TypeInv, TokenClient
  <1>2. TablesType' /\ HistoryType'
    BY <1>1 DEF TokenClient, TablesType, SessionTypeOK, HistoryType, history
  <1>3. CASE Finish(p)
    BY <1>1, <1>2, <1>3, FinishLocals DEF TypeInv
  <1>4. CASE /\ ~Malformed(treq[p])
             /\ pc' = [pc EXCEPT ![p] = "getCode"]
             /\ UNCHANGED <<aLocals, tLocals>>
    <2>1. treq[p] \in TokenRequest /\ treq[p].code # Empty
      BY <1>1, <1>4, RequestsAssumption DEF Malformed, LocalsType, TokenLocals, TokenPCs
    <2>2. treq[p].code \in Codes
      BY <2>1 DEF TokenRequest
    <2>3. \A q \in Procs : AuthorizeLocals(q)' /\ TokenLocals(q)'
      BY <1>1, <1>4, <2>2 DEF LocalsType, AuthorizeLocals, TokenLocals, aLocals, tLocals,
                  AuthorizePCs, TokenPCs, UntrustedTarget, IsRedirectURIAllowed
    <2> QED
      BY <1>1, <1>2, <1>4, <2>3 DEF TypeInv, LocalsType, aLocals, tLocals, TokenPCs
  <1> QED
    BY <1>3, <1>4 DEF TokenClient

\* The read of the code row.
LEMMA GetByCodeHashType ==
    ASSUME TypeInv, NEW p \in Procs, GetByCodeHash(p)
    PROVE  TypeInv'
  <1>1. LocalsType /\ TablesType /\ HistoryType /\ pc[p] = "getCode"
    BY DEF TypeInv, GetByCodeHash
  <1>2. TablesType' /\ HistoryType'
    BY <1>1 DEF GetByCodeHash, TablesType, SessionTypeOK, HistoryType, history
  <1>3. CASE Finish(p)
    BY <1>1, <1>2, <1>3, FinishLocals DEF TypeInv
  <1>4. CASE /\ codes[treq[p].code] # NoCode
             /\ stored' = [stored EXCEPT ![p] = codes[treq[p].code]]
             /\ pc' = [pc EXCEPT ![p] = "checkCode"]
             /\ UNCHANGED <<aLocals, treq, clock>>
    <2>1. codes[treq[p].code] \in CodeRow
      BY <1>1, <1>4 DEF LocalsType, TablesType, TokenLocals, TokenPCs
    <2>2. \A q \in Procs : AuthorizeLocals(q)' /\ TokenLocals(q)'
      BY <1>1, <1>4, <2>1 DEF LocalsType, AuthorizeLocals, TokenLocals, aLocals,
                  AuthorizePCs, TokenPCs, UntrustedTarget, IsRedirectURIAllowed
    <2> QED
      BY <1>1, <1>2, <1>4, <2>1, <2>2 DEF TypeInv, LocalsType, aLocals, TokenPCs
  <1> QED
    BY <1>3, <1>4 DEF GetByCodeHash

\* The checks on the row read, and the clock Consume takes along.
LEMMA CheckCodeType ==
    ASSUME TypeInv, NEW p \in Procs, CheckCode(p)
    PROVE  TypeInv'
  <1>1. LocalsType /\ TablesType /\ HistoryType /\ pc[p] = "checkCode"
    BY DEF TypeInv, CheckCode
  <1>2. TablesType' /\ HistoryType'
    BY <1>1 DEF CheckCode, TablesType, SessionTypeOK, HistoryType, history
  <1>3. CASE Finish(p)
    BY <1>1, <1>2, <1>3, FinishLocals DEF TypeInv
  <1>4. CASE /\ clock' = [clock EXCEPT ![p] = now]
             /\ pc' = [pc EXCEPT ![p] = "consume"]
             /\ UNCHANGED <<aLocals, treq, stored>>
    <2>1. \A q \in Procs : AuthorizeLocals(q)' /\ TokenLocals(q)'
      BY <1>1, <1>4 DEF LocalsType, AuthorizeLocals, TokenLocals, aLocals,
                  AuthorizePCs, TokenPCs, UntrustedTarget, IsRedirectURIAllowed
    <2>2. now \in Nat
      BY <1>1 DEF TablesType, SessionTypeOK
    <2> QED
      BY <1>1, <1>2, <1>4, <2>1, <2>2 DEF TypeInv, LocalsType, aLocals, TokenPCs
  <1> QED
    BY <1>3, <1>4 DEF CheckCode

\* The conditional UPDATE, with its lost and its half-lost answers.
LEMMA ConsumeType ==
    ASSUME TypeInv, NEW p \in Procs, Consume(p)
    PROVE  TypeInv'
  <1>1. LocalsType /\ TablesType /\ HistoryType /\ pc[p] = "consume" /\ treq[p].code \in Codes
    BY DEF TypeInv, Consume, LocalsType, TokenLocals, TokenPCs
  <1>2. codes' \in [Codes -> CodeRow \cup {NoCode}]
    <2>1. \/ codes' = codes
          \/ /\ codes[treq[p].code] # NoCode
             /\ codes' = [codes EXCEPT ![treq[p].code].consumed = TRUE]
      BY DEF Consume, Consumable
    <2> QED
      BY <1>1, <2>1, ConsumedCodeType DEF TablesType
  <1>3. TablesType' /\ HistoryType'
    BY <1>1, <1>2 DEF Consume, TablesType, SessionTypeOK, HistoryType, history
  <1>4. CASE Finish(p)
    BY <1>1, <1>3, <1>4, FinishLocals DEF TypeInv
  <1>5. CASE /\ pc' = [pc EXCEPT ![p] = "issue"]
             /\ UNCHANGED <<aLocals, tLocals>>
    <2>1. \A q \in Procs : AuthorizeLocals(q)' /\ TokenLocals(q)'
      BY <1>1, <1>5 DEF LocalsType, AuthorizeLocals, TokenLocals, aLocals, tLocals,
                  AuthorizePCs, TokenPCs, UntrustedTarget, IsRedirectURIAllowed
    <2> QED
      BY <1>1, <1>3, <1>5, <2>1 DEF TypeInv, LocalsType, aLocals, tLocals, TokenPCs
  <1> QED
    BY <1>4, <1>5 DEF Consume

\* The part of tokenHandler after Consume.
LEMMA IssueType ==
    ASSUME TypeInv, NEW p \in Procs, Issue(p)
    PROVE  TypeInv'
  <1>1. LocalsType /\ TablesType /\ HistoryType /\ pc[p] = "issue" /\ treq[p].code \in Codes
    BY DEF TypeInv, Issue, LocalsType, TokenLocals, TokenPCs
  <1>2. NewToken(p) \in Token
    BY <1>1, NewTokenType
  <1>3. grants' \in [Codes -> Seq(Token)]
    <2> DEFINE c == treq[p].code
    <2>1. grants \in [Codes -> Seq(Token)] /\ grants[c] \in Seq(Token)
      BY <1>1 DEF HistoryType
    <2>2. Append(grants[c], NewToken(p)) \in Seq(Token)
      BY <1>2, <2>1
    <2>3. grants' = grants \/ grants' = [grants EXCEPT ![c] = Append(grants[c], NewToken(p))]
      BY DEF Issue
    <2> HIDE DEF c
    <2> QED
      BY <2>1, <2>2, <2>3
  <1>4. TablesType' /\ HistoryType'
    BY <1>1, <1>3 DEF Issue, TablesType, SessionTypeOK, HistoryType
  <1> QED
    BY <1>1, <1>4, FinishLocals DEF TypeInv, Issue

\* Steps beside the handlers touch none of their locals.
LEMMA EnvironmentType ==
    ASSUME TypeInv,
           \/ \E t \in Tokens, u \in Subjects, a \in Apps : SignIn(t, u, a)
           \/ \E a \in Apps, scopes \in ScopeChoices : UpdateApp(a, scopes)
           \/ Cleanup \/ Tick
    PROVE  TypeInv'
  <1>1. LocalsType /\ TablesType /\ HistoryType
    BY DEF TypeInv
  <1>2. UNCHANGED <<pc, aLocals, tLocals>>
    BY DEF SignIn, UpdateApp, Cleanup, Tick
  <1>3. LocalsType'
    <2>1. \A q \in Procs : AuthorizeLocals(q)' /\ TokenLocals(q)'
      BY <1>1, <1>2 DEF LocalsType, AuthorizeLocals, TokenLocals, aLocals, tLocals,
                  UntrustedTarget, IsRedirectURIAllowed
    <2> QED
      BY <1>1, <1>2, <2>1 DEF LocalsType, aLocals, tLocals
  <1>4. ASSUME NEW t \in Tokens, NEW u \in Subjects, NEW a \in Apps, SignIn(t, u, a)
        PROVE  TablesType' /\ HistoryType'
    <2>1. sessions' \in [Tokens -> SessionRow \cup {Unused, Deleted}]
      BY <1>1, <1>4, SessionTTLAssumption DEF SignIn, Create, TablesType, SessionTypeOK, SessionRow
    <2>2. signedIn' \in [Tokens -> [user : Subjects, app : Apps] \cup {Nowhere}]
      BY <1>1, <1>4 DEF SignIn, HistoryType
    <2> QED
      BY <1>1, <1>4, <2>1, <2>2 DEF SignIn, TablesType, SessionTypeOK, HistoryType
  <1>5. ASSUME NEW a \in Apps, NEW scopes \in ScopeChoices, UpdateApp(a, scopes)
        PROVE  TablesType' /\ HistoryType'
    BY <1>1, <1>5, ScopesAssumption DEF UpdateApp, TablesType, SessionTypeOK, HistoryType, history
  <1>6. ASSUME Cleanup
        PROVE  TablesType' /\ HistoryType'
    BY <1>1, <1>6 DEF Cleanup, DeleteInactive, TablesType, SessionTypeOK, HistoryType, history
  <1>7. ASSUME Tick
        PROVE  TablesType' /\ HistoryType'
    BY <1>1, <1>7 DEF Tick, TablesType, SessionTypeOK, HistoryType, history
  <1> QED
    BY <1>3, <1>4, <1>5, <1>6, <1>7 DEF TypeInv

\* A restart: only the tables survive.
LEMMA CrashType ==
    ASSUME TypeInv, Crash
    PROVE  TypeInv'
  <1>1. LocalsType'
    BY DEF Crash, LocalsType, AuthorizeLocals, TokenLocals, AuthorizePCs, TokenPCs
  <1>2. TablesType' /\ HistoryType'
    BY DEF TypeInv, Crash, TablesType, SessionTypeOK, HistoryType, history
  <1> QED
    BY <1>1, <1>2 DEF TypeInv

\* The first state is well typed.
LEMMA TypeInvInit == Init => TypeInv
  <1> SUFFICES ASSUME Init PROVE TypeInv
    OBVIOUS
  <1>1. LocalsType
    BY DEF Init, LocalsType, AuthorizeLocals, TokenLocals, AuthorizePCs, TokenPCs
  <1>2. TablesType
    BY ScopesAssumption DEF Init, TablesType, SessionTypeOK, NoSessions
  <1>3. HistoryType
    BY DEF Init, HistoryType
  <1> QED
    BY <1>1, <1>2, <1>3 DEF TypeInv

\* Every step keeps the types.
LEMMA TypeInvNext == TypeInv /\ [Next]_vars => TypeInv'
  <1> SUFFICES ASSUME TypeInv, [Next]_vars PROVE TypeInv'
    OBVIOUS
  <1>1. CASE UNCHANGED vars
    BY <1>1 DEF vars, aLocals, tLocals, history, TypeInv, LocalsType, TablesType, HistoryType,
           SessionTypeOK, AuthorizeLocals, TokenLocals, UntrustedTarget, IsRedirectURIAllowed
  <1>2. CASE Next
    BY <1>2, AuthorizeBeginType, AuthorizeClientType, AuthorizeAppType, AuthorizeCreateType,
       TokenBeginType, TokenClientType, GetByCodeHashType, CheckCodeType, ConsumeType, IssueType,
       EnvironmentType, CrashType
       DEF Next, AuthorizeStep, TokenStep
  <1> QED
    BY <1>1, <1>2

\* Every table, local and answer keeps its type (TypeOK); it takes what is
\* known of a handler's locals at each point of its run.
THEOREM TypeCorrect == Spec => []TypeOK
  <1>1. Spec => []TypeInv
    BY TypeInvInit, TypeInvNext, PTL DEF Spec
  <1> QED
    BY <1>1, TypeInvImpliesTypeOK, PTL

-----------------------------------------------------------------------------
(***************************************************************************)
(* The exchange.  What a handler holds past GetByCodeHash is the code's    *)
(* row but for consumed_at; past Consume it is the only handler there for  *)
(* its code, the code is spent, and nothing has come of it yet.            *)
(***************************************************************************)
SameGrant(a, b) ==
    /\ a.client = b.client /\ a.user = b.user /\ a.redirectURI = b.redirectURI
    /\ a.scope = b.scope /\ a.nonce = b.nonce /\ a.challenge = b.challenge

Settled(c) == grants[c] # <<>> \/ c \in spoiled

HolderInv(p) ==
    LET c == treq[p].code IN
    /\ pc[p] \in {"checkCode", "consume", "issue"} =>
          codes[c] # NoCode /\ SameGrant(stored[p], codes[c])
    /\ pc[p] \in {"consume", "issue"} => stored[p].client = ClientID(treq[p])
    /\ pc[p] = "issue" => codes[c].consumed /\ ~Settled(c)

Exclusive ==
    \A p, q \in Procs :
        (pc[p] = "issue" /\ pc[q] = "issue" /\ treq[p].code = treq[q].code) => p = q

\* The one token of a code is what its row says.
TokenOf(c, g) ==
    /\ g.client = codes[c].client /\ g.user = codes[c].user
    /\ g.redirectURI = codes[c].redirectURI
    /\ S256[g.verifier] = codes[c].challenge
    /\ g.idToken => "openid" \in codes[c].scope /\ g.nonce = codes[c].nonce

OutcomeInv(c) ==
    /\ Settled(c) => codes[c] # NoCode /\ codes[c].consumed
    /\ c \in spoiled => grants[c] = <<>>
    /\ Len(grants[c]) <= 1
    /\ grants[c] # <<>> => TokenOf(c, grants[c][1])

ExchangeInv ==
    /\ \A p \in Procs : HolderInv(p)
    /\ Exclusive
    /\ \A c \in Codes : OutcomeInv(c)

\* With no code issued there is nothing to hold or to settle.
LEMMA ExchangeInvInit == Init => ExchangeInv
  BY DEF Init, ExchangeInv, HolderInv, Exclusive, OutcomeInv, Settled

\* A handler that ends, or moves where it holds nothing, changes nothing.
LEMMA ReleaseExchange ==
    ASSUME NEW p \in Procs, TypeInv, ExchangeInv,
           pc'[p] \notin {"checkCode", "consume", "issue"},
           \A q \in Procs \ {p} :
              pc'[q] = pc[q] /\ treq'[q] = treq[q] /\ stored'[q] = stored[q],
           UNCHANGED <<codes, grants, spoiled>>
    PROVE  ExchangeInv'
  <1>1. \A q \in Procs : HolderInv(q)'
    <2> TAKE q \in Procs
    <2>1. CASE q = p
      BY <2>1 DEF HolderInv
    <2>2. CASE q # p
      BY <2>2 DEF ExchangeInv, HolderInv, Settled
    <2> QED BY <2>1, <2>2
  <1>2. Exclusive'
    BY DEF ExchangeInv, Exclusive
  <1>3. \A c \in Codes : OutcomeInv(c)'
    BY DEF ExchangeInv, OutcomeInv, Settled, TokenOf
  <1> QED
    BY <1>1, <1>2, <1>3 DEF ExchangeInv

\* A request that ends without touching a code disturbs no exchange.
LEMMA FinishExchange ==
    ASSUME NEW p \in Procs, TypeInv, ExchangeInv, Finish(p), UNCHANGED <<codes, grants, spoiled>>
    PROVE  ExchangeInv'
  <1>1. /\ pc'[p] = "idle"
        /\ \A q \in Procs \ {p} :
              pc'[q] = pc[q] /\ treq'[q] = treq[q] /\ stored'[q] = stored[q]
    BY DEF Finish, TypeInv, LocalsType
  <1> QED
    BY <1>1, ReleaseExchange

\* Authorize steps before the INSERT are no part of an exchange.
LEMMA AuthorizeExchange ==
    ASSUME TypeInv, ExchangeInv, NEW p \in Procs, AuthorizeClient(p) \/ AuthorizeApp(p)
    PROVE  ExchangeInv'
  <1>1. UNCHANGED <<codes, grants, spoiled>>
    BY DEF AuthorizeClient, AuthorizeApp
  <1>2. CASE Finish(p)
    BY <1>1, <1>2, FinishExchange
  <1>3. CASE \/ pc' = [pc EXCEPT ![p] = "authApp"] /\ UNCHANGED tLocals
             \/ pc' = [pc EXCEPT ![p] = "authCreate"] /\ UNCHANGED tLocals
    BY <1>1, <1>3, ReleaseExchange DEF TypeInv, LocalsType, tLocals
  <1> QED
    BY <1>2, <1>3 DEF AuthorizeClient, AuthorizeApp

\* New requests hold no code.
LEMMA BeginExchange ==
    ASSUME TypeInv, ExchangeInv, NEW p \in Procs,
           \/ \E t \in Tokens \cup {Nobody}, r \in AuthorizeRequests : AuthorizeBegin(p, t, r)
           \/ \E r \in TokenRequests : TokenBegin(p, r)
    PROVE  ExchangeInv'
  BY ReleaseExchange DEF AuthorizeBegin, TokenBegin, TypeInv, LocalsType, tLocals, history

\* A new code is one nobody holds and nothing has come of.
LEMMA AuthorizeCreateExchange ==
    ASSUME TypeInv, ExchangeInv, NEW p \in Procs, AuthorizeCreate(p)
    PROVE  ExchangeInv'
  <1>1. CASE UNCHANGED codes
    BY <1>1, FinishExchange DEF AuthorizeCreate
  <1>2. ASSUME NEW c \in Codes, codes[c] = NoCode,
               codes' = [codes EXCEPT ![c] = NewCode(p)]
        PROVE  ExchangeInv'
    <2>1. /\ pc'[p] = "idle"
          /\ \A q \in Procs \ {p} :
                pc'[q] = pc[q] /\ treq'[q] = treq[q] /\ stored'[q] = stored[q]
      BY DEF AuthorizeCreate, Finish, TypeInv, LocalsType
    <2>2. UNCHANGED <<grants, spoiled>> /\ codes \in [Codes -> CodeRow \cup {NoCode}]
      BY DEF AuthorizeCreate, TypeInv, TablesType
    <2>3. ~Settled(c) /\ grants[c] = <<>>
      BY <1>2 DEF ExchangeInv, OutcomeInv, Settled
    <2>4. \A q \in Procs : HolderInv(q)'
      <3> TAKE q \in Procs
      <3>1. CASE q = p
        BY <2>1, <3>1 DEF HolderInv
      <3>2. CASE q # p
        BY <1>2, <2>1, <2>2, <3>2 DEF ExchangeInv, HolderInv, Settled,
           TypeInv, LocalsType, TokenLocals, TokenPCs
      <3> QED BY <3>1, <3>2
    <2>5. Exclusive'
      BY <2>1 DEF ExchangeInv, Exclusive
    <2>6. \A d \in Codes : OutcomeInv(d)'
      BY <1>2, <2>2, <2>3 DEF ExchangeInv, OutcomeInv, Settled, TokenOf
    <2> QED
      BY <2>4, <2>5, <2>6 DEF ExchangeInv
  <1> QED
    BY <1>1, <1>2 DEF AuthorizeCreate

\* A token request that has not read a code holds none.
LEMMA TokenClientExchange ==
    ASSUME TypeInv, ExchangeInv, NEW p \in Procs, TokenClient(p)
    PROVE  ExchangeInv'
  <1>1. UNCHANGED <<codes, grants, spoiled>>
    BY DEF TokenClient, history
  <1>2. CASE Finish(p)
    BY <1>1, <1>2, FinishExchange
  <1>3. CASE pc' = [pc EXCEPT ![p] = "getCode"] /\ UNCHANGED tLocals
    BY <1>1, <1>3, ReleaseExchange DEF TypeInv, LocalsType, tLocals
  <1> QED
    BY <1>2, <1>3 DEF TokenClient

\* The row read is the row stored, or one since marked consumed.
LEMMA GetByCodeHashExchange ==
    ASSUME TypeInv, ExchangeInv, NEW p \in Procs, GetByCodeHash(p)
    PROVE  ExchangeInv'
  <1>1. UNCHANGED <<codes, grants, spoiled>>
    BY DEF GetByCodeHash, history
  <1>2. CASE Finish(p)
    BY <1>1, <1>2, FinishExchange
  <1>3. CASE /\ codes[treq[p].code] # NoCode
             /\ stored' = [stored EXCEPT ![p] = codes[treq[p].code]]
             /\ pc' = [pc EXCEPT ![p] = "checkCode"]
             /\ UNCHANGED treq
    <2>1. \A q \in Procs : HolderInv(q)'
      BY <1>1, <1>3 DEF ExchangeInv, HolderInv, Settled, SameGrant, TypeInv, LocalsType
    <2>2. Exclusive'
      BY <1>3 DEF ExchangeInv, Exclusive, TypeInv, LocalsType
    <2>3. \A c \in Codes : OutcomeInv(c)'
      BY <1>1 DEF ExchangeInv, OutcomeInv, Settled, TokenOf
    <2> QED
      BY <2>1, <2>2, <2>3 DEF ExchangeInv
  <1> QED
    BY <1>2, <1>3 DEF GetByCodeHash

\* Checking the row read changes nothing for the others.
LEMMA CheckCodeExchange ==
    ASSUME TypeInv, ExchangeInv, NEW p \in Procs, CheckCode(p)
    PROVE  ExchangeInv'
  <1>1. UNCHANGED <<codes, grants, spoiled>>
    BY DEF CheckCode, history
  <1>2. CASE Finish(p)
    BY <1>1, <1>2, FinishExchange
  <1>3. CASE /\ Redeemable(p)
             /\ pc' = [pc EXCEPT ![p] = "consume"]
             /\ UNCHANGED <<treq, stored>>
    <2>1. \A q \in Procs : HolderInv(q)'
      BY <1>1, <1>3 DEF CheckCode, Redeemable, ExchangeInv, HolderInv, Settled, TypeInv, LocalsType
    <2>2. Exclusive'
      BY <1>3 DEF ExchangeInv, Exclusive, TypeInv, LocalsType
    <2>3. \A c \in Codes : OutcomeInv(c)'
      BY <1>1 DEF ExchangeInv, OutcomeInv, Settled, TokenOf
    <2> QED
      BY <2>1, <2>2, <2>3 DEF ExchangeInv
  <1> QED
    BY <1>2, <1>3 DEF CheckCode

\* Setting consumed_at on a code that had none leaves its grant alone, and
\* nothing had come of the code before.
LEMMA SpendCode ==
    ASSUME TypeInv, ExchangeInv, NEW p \in Procs, pc[p] = "consume", Consumable(p),
           codes' = [codes EXCEPT ![treq[p].code].consumed = TRUE],
           UNCHANGED <<grants, spoiled>>
    PROVE  /\ ~Settled(treq[p].code) /\ codes'[treq[p].code].consumed
           /\ \A q \in Procs : pc[q] = "issue" => treq[q].code # treq[p].code
           /\ \A d \in Codes : codes[d] # NoCode =>
                 /\ codes'[d] # NoCode /\ SameGrant(codes[d], codes'[d])
                 /\ codes[d].consumed => codes'[d].consumed
           /\ \A d \in Codes : OutcomeInv(d)'
  <1> DEFINE c == treq[p].code
  <1>1. c \in Codes /\ codes[c] \in CodeRow /\ ~codes[c].consumed
    BY DEF TypeInv, LocalsType, TablesType, TokenLocals, TokenPCs, Consumable
  <1>2. ~Settled(c)
    BY <1>1 DEF ExchangeInv, OutcomeInv
  <1>3. \A q \in Procs : pc[q] = "issue" => treq[q].code # c
    BY <1>1 DEF ExchangeInv, HolderInv
  <1>4. codes'[c] = [codes[c] EXCEPT !.consumed = TRUE] /\ codes'[c] \in CodeRow
    BY <1>1 DEF TypeInv, TablesType, CodeRow
  <1>5. codes'[c] # NoCode /\ codes'[c].consumed /\ SameGrant(codes[c], codes'[c])
    <2>1. codes'[c] # NoCode
      BY <1>4, MarksAssumption
    <2>2. codes'[c].consumed /\ SameGrant(codes[c], codes'[c])
      BY <1>1, <1>4 DEF CodeRow, SameGrant
    <2> QED BY <2>1, <2>2
  <1>6. \A d \in Codes : d # c => codes'[d] = codes[d]
    BY DEF TypeInv, TablesType
  <1>7. \A d \in Codes : codes[d] # NoCode =>
           /\ codes'[d] # NoCode /\ SameGrant(codes[d], codes'[d])
           /\ codes[d].consumed => codes'[d].consumed
    BY <1>5, <1>6 DEF SameGrant
  <1>8. \A d \in Codes : OutcomeInv(d)'
    BY <1>2, <1>6 DEF ExchangeInv, OutcomeInv, Settled, TokenOf
  <1> QED
    BY <1>2, <1>3, <1>5, <1>7, <1>8

\* The UPDATE lets at most one request past.
LEMMA ConsumeExchange ==
    ASSUME TypeInv, ExchangeInv, NEW p \in Procs, Consume(p)
    PROVE  ExchangeInv'
  <1>1. pc[p] = "consume" /\ UNCHANGED <<grants, spoiled>>
    BY DEF Consume, history
  <1>2. CASE Finish(p) /\ UNCHANGED codes
    BY <1>1, <1>2, FinishExchange
  <1>3. CASE Consumable(p) /\ codes' = [codes EXCEPT ![treq[p].code].consumed = TRUE]
    <2> DEFINE c == treq[p].code
    <2>1. /\ ~Settled(c) /\ codes'[c].consumed
          /\ \A q \in Procs : pc[q] = "issue" => treq[q].code # c
          /\ \A d \in Codes : codes[d] # NoCode =>
                /\ codes'[d] # NoCode /\ SameGrant(codes[d], codes'[d])
                /\ codes[d].consumed => codes'[d].consumed
          /\ \A d \in Codes : OutcomeInv(d)'
      BY <1>1, <1>3, SpendCode
    <2>2. \/ pc'[p] = "idle"
          \/ pc'[p] = "issue" /\ treq'[p] = treq[p] /\ stored'[p] = stored[p]
      BY <1>1 DEF Consume, Finish, TypeInv, LocalsType, tLocals
    <2>3. \A q \in Procs \ {p} :
             pc'[q] = pc[q] /\ treq'[q] = treq[q] /\ stored'[q] = stored[q]
      BY DEF Consume, Finish, TypeInv, LocalsType, tLocals
    <2>4. \A q \in Procs : pc[q] \in {"checkCode", "consume", "issue"} => treq[q].code \in Codes
      BY DEF TypeInv, LocalsType, TokenLocals, TokenPCs
    <2>5. \A q \in Procs : HolderInv(q)'
      <3> TAKE q \in Procs
      <3>1. CASE q = p
        BY <1>1, <2>1, <2>2, <2>4, <3>1 DEF ExchangeInv, HolderInv, Settled, SameGrant
      <3>2. CASE q # p
        BY <1>1, <2>1, <2>3, <2>4, <3>2 DEF ExchangeInv, HolderInv, Settled, SameGrant
      <3> QED BY <3>1, <3>2
    <2>6. Exclusive'
      BY <2>1, <2>2, <2>3 DEF ExchangeInv, Exclusive
    <2> QED
      BY <2>1, <2>5, <2>6 DEF ExchangeInv
  <1> QED
    BY <1>2, <1>3 DEF Consume

\* The handler past Consume settles its code, and no other is there.
LEMMA IssueExchange ==
    ASSUME TypeInv, ExchangeInv, NEW p \in Procs, Issue(p)
    PROVE  ExchangeInv'
  <1>0. PICK c \in Codes : c = treq[p].code
    BY DEF Issue, TypeInv, LocalsType, TokenLocals, TokenPCs
  <1>1. pc[p] = "issue" /\ UNCHANGED codes /\ treq[p].code = c
    BY <1>0 DEF Issue
  <1>2. /\ codes[c] # NoCode /\ SameGrant(stored[p], codes[c]) /\ codes[c].consumed
        /\ stored[p].client = ClientID(treq[p])
        /\ grants[c] = <<>> /\ c \notin spoiled
    BY <1>1 DEF ExchangeInv, HolderInv, Settled
  <1>3. /\ pc'[p] = "idle"
        /\ \A q \in Procs \ {p} :
              pc'[q] = pc[q] /\ treq'[q] = treq[q] /\ stored'[q] = stored[q]
    BY DEF Issue, Finish, TypeInv, LocalsType
  <1>4. \A q \in Procs \ {p} : pc[q] = "issue" => treq[q].code # c
    BY <1>1 DEF ExchangeInv, Exclusive
  <1>5. \A d \in Codes : d # c => grants'[d] = grants[d] /\ (d \in spoiled' <=> d \in spoiled)
    BY <1>1 DEF Issue, TypeInv, HistoryType
  <1>6. \A q \in Procs : HolderInv(q)'
    <2> TAKE q \in Procs
    <2>1. CASE q = p
      BY <1>3, <2>1 DEF HolderInv
    <2>2. CASE q # p
      <3>1. pc[q] = "issue" => treq[q].code \in Codes
        BY DEF TypeInv, LocalsType, TokenLocals, TokenPCs
      <3> QED
        BY <1>1, <1>3, <1>4, <1>5, <2>2, <3>1 DEF ExchangeInv, HolderInv, Settled
    <2> QED BY <2>1, <2>2
  <1>7. Exclusive'
    BY <1>3 DEF ExchangeInv, Exclusive
  <1>8. OutcomeInv(c)'
    <2>1. CASE spoiled' = spoiled \cup {c} /\ UNCHANGED grants
      BY <1>1, <1>2, <2>1 DEF OutcomeInv, Settled
    <2>2. CASE /\ stored[p].redirectURI = treq[p].redirectURI
               /\ VerifyPKCE(stored[p].challenge, treq[p].verifier, stored[p].method)
               /\ grants' = [grants EXCEPT ![c] = Append(grants[c], NewToken(p))]
               /\ UNCHANGED spoiled
      <3>1. grants'[c] = <<NewToken(p)>>
        BY <1>1, <1>2, <2>2 DEF TypeInv, HistoryType
      <3>2. TokenOf(c, NewToken(p))
        <4>1. NewToken(p).client = codes[c].client /\ NewToken(p).user = codes[c].user
          BY <1>1, <1>2 DEF NewToken, SameGrant
        <4>2. NewToken(p).redirectURI = codes[c].redirectURI
          BY <1>1, <1>2, <2>2 DEF NewToken, SameGrant
        <4>3. S256[NewToken(p).verifier] = codes[c].challenge
          BY <1>1, <1>2, <2>2 DEF NewToken, SameGrant, VerifyPKCE
        <4>4. NewToken(p).idToken =>
                 "openid" \in codes[c].scope /\ NewToken(p).nonce = codes[c].nonce
          BY <1>1, <1>2 DEF NewToken, SameGrant
        <4> QED
          BY <4>1, <4>2, <4>3, <4>4 DEF TokenOf
      <3> QED
        BY <1>1, <1>2, <2>2, <3>1, <3>2 DEF OutcomeInv, Settled, TokenOf
    <2> QED
      BY <1>1, <2>1, <2>2 DEF Issue
  <1>9. \A d \in Codes : OutcomeInv(d)'
    BY <1>1, <1>5, <1>8 DEF ExchangeInv, OutcomeInv, Settled, TokenOf
  <1> QED
    BY <1>6, <1>7, <1>9 DEF ExchangeInv

\* Sign-ins, scope changes, the cleanup and the clock leave codes alone.
LEMMA EnvironmentExchange ==
    ASSUME ExchangeInv,
           \/ \E t \in Tokens, u \in Subjects, a \in Apps : SignIn(t, u, a)
           \/ \E a \in Apps, scopes \in ScopeChoices : UpdateApp(a, scopes)
           \/ Cleanup \/ Tick \/ UNCHANGED vars
    PROVE  ExchangeInv'
  <1>1. UNCHANGED <<pc, treq, stored, codes, grants, spoiled>>
    BY DEF SignIn, UpdateApp, Cleanup, Tick, vars, tLocals, history
  <1> QED
    BY <1>1 DEF ExchangeInv, HolderInv, Exclusive, OutcomeInv, Settled, TokenOf

\* After a restart nobody holds a code; spent codes stay spent.
LEMMA CrashExchange ==
    ASSUME ExchangeInv, Crash
    PROVE  ExchangeInv'
  <1>1. \A p \in Procs : pc'[p] = "idle"
    BY DEF Crash
  <1>2. UNCHANGED <<codes, grants, spoiled>>
    BY DEF Crash, history
  <1> QED
    BY <1>1, <1>2 DEF ExchangeInv, HolderInv, Exclusive, OutcomeInv, Settled, TokenOf

\* Every step keeps the exchange invariant.
LEMMA ExchangeInvNext == TypeInv /\ ExchangeInv /\ [Next]_vars => ExchangeInv'
  <1> SUFFICES ASSUME TypeInv, ExchangeInv, [Next]_vars PROVE ExchangeInv'
    OBVIOUS
  <1>1. CASE UNCHANGED vars
    BY <1>1, EnvironmentExchange
  <1>2. CASE Next
    BY <1>2, BeginExchange, AuthorizeExchange, AuthorizeCreateExchange, TokenClientExchange,
       GetByCodeHashExchange, CheckCodeExchange, ConsumeExchange, IssueExchange,
       EnvironmentExchange, CrashExchange
       DEF Next, AuthorizeStep, TokenStep
  <1> QED
    BY <1>1, <1>2

\* Both invariants hold in every reachable state.
LEMMA ExchangeInvariant == Spec => [](TypeInv /\ ExchangeInv)
  <1>1. Init => TypeInv /\ ExchangeInv
    BY TypeInvInit, ExchangeInvInit
  <1>2. (TypeInv /\ ExchangeInv) /\ [Next]_vars => (TypeInv /\ ExchangeInv)'
    BY TypeInvNext, ExchangeInvNext
  <1> QED
    BY <1>1, <1>2, PTL DEF Spec

\* No code is ever exchanged twice, whatever races, faults and crashes there
\* are: the conditional UPDATE of Consume lets one handler past, and that
\* handler answers once.
THEOREM ExchangedAtMostOnce == Spec => []AtMostOneExchange
  <1>1. ExchangeInv => AtMostOneExchange
    BY DEF ExchangeInv, OutcomeInv, AtMostOneExchange
  <1> QED
    BY <1>1, ExchangeInvariant, PTL

\* An exchange that fails past Consume leaves a code that is of no use to
\* anyone (the comment "Consume first" in tokenHandler).
THEOREM FailureBurnsCode == Spec => []FailedExchangeBurnsCode
  <1>1. TypeInv /\ ExchangeInv => FailedExchangeBurnsCode
    BY DEF TypeInv, HistoryType, ExchangeInv, OutcomeInv, Settled, FailedExchangeBurnsCode
  <1> QED
    BY <1>1, ExchangeInvariant, PTL

-----------------------------------------------------------------------------
(***************************************************************************)
(* The handlers implement OneTimeCode.  A step that touches the code       *)
(* table, the answers given or who is past Consume is one step of the      *)
(* abstract code; every other step leaves all of these alone.              *)
(***************************************************************************)
SameHolders ==
    \A q \in Procs : /\ pc'[q] = "issue" <=> pc[q] = "issue"
                     /\ pc[q] = "issue" => treq'[q] = treq[q]

Inserts(p, c) ==
    /\ pc[p] = "authCreate" /\ codes[c] = NoCode
    /\ codes' = [codes EXCEPT ![c] = NewCode(p)]
    /\ SameHolders /\ UNCHANGED grants

\* The UPDATE of Consume took effect, whatever the handler learns of it.
Updates(p) ==
    /\ pc[p] = "consume" /\ Consumable(p)
    /\ codes' = [codes EXCEPT ![treq[p].code].consumed = TRUE]
    /\ UNCHANGED <<grants, spoiled>>

GetsCode(p) == pc' = [pc EXCEPT ![p] = "issue"] /\ UNCHANGED treq

Answers(p) ==
    /\ pc[p] = "issue" /\ Finish(p) /\ UNCHANGED codes
    /\ \/ grants' = [grants EXCEPT ![treq[p].code] =
                        Append(grants[treq[p].code], NewToken(p))]
       \/ UNCHANGED grants

Restarts == pc' = [p \in Procs |-> "idle"] /\ UNCHANGED <<codes, grants>>

\* A request that moves or ends outside the last stretch of tokenHandler
\* leaves the holders alone.
LEMMA MovesElsewhere ==
    ASSUME TypeInv, NEW p \in Procs, pc[p] # "issue", pc'[p] # "issue",
           \A q \in Procs \ {p} : pc'[q] = pc[q] /\ treq'[q] = treq[q]
    PROVE  SameHolders
  BY DEF SameHolders

\* A request that ends elsewhere leaves the holders alone.
LEMMA EndsElsewhere ==
    ASSUME TypeInv, NEW p \in Procs, pc[p] # "issue", Finish(p)
    PROVE  SameHolders
  <1>1. pc'[p] # "issue" /\ \A q \in Procs \ {p} : pc'[q] = pc[q] /\ treq'[q] = treq[q]
    BY DEF Finish, TypeInv, LocalsType
  <1> QED
    BY <1>1, MovesElsewhere

\* A request that goes on to another point leaves the holders alone.
LEMMA GoesElsewhere ==
    ASSUME TypeInv, NEW p \in Procs, pc[p] # "issue", NEW s, s # "issue",
           pc' = [pc EXCEPT ![p] = s], UNCHANGED treq
    PROVE  SameHolders
  <1>1. pc'[p] # "issue" /\ \A q \in Procs \ {p} : pc'[q] = pc[q] /\ treq'[q] = treq[q]
    BY DEF TypeInv, LocalsType
  <1> QED
    BY <1>1, MovesElsewhere

\* What a step can do to the code table, the answers and the holders.
LEMMA StepsOnCodes ==
    ASSUME TypeInv, ExchangeInv, [Next]_vars
    PROVE  \/ SameHolders /\ UNCHANGED <<codes, grants>>
           \/ \E p \in Procs, c \in Codes : Inserts(p, c)
           \/ \E p \in Procs : Updates(p) /\ (GetsCode(p) \/ SameHolders)
           \/ \E p \in Procs : Answers(p)
           \/ Restarts
  <1>1. CASE UNCHANGED vars
    BY <1>1 DEF vars, history, tLocals, SameHolders
  <1>2. ASSUME NEW p \in Procs, AuthorizeStep(p)
        PROVE  \/ SameHolders /\ UNCHANGED <<codes, grants>>
               \/ \E c \in Codes : Inserts(p, c)
    <2>1. CASE AuthorizeClient(p)
      BY <2>1, EndsElsewhere, GoesElsewhere DEF AuthorizeClient, tLocals
    <2>2. CASE AuthorizeApp(p)
      BY <2>2, EndsElsewhere, GoesElsewhere DEF AuthorizeApp, tLocals
    <2>3. CASE AuthorizeCreate(p)
      BY <2>3, EndsElsewhere DEF AuthorizeCreate, Inserts
    <2> QED
      BY <1>2, <2>1, <2>2, <2>3 DEF AuthorizeStep
  <1>3. ASSUME NEW p \in Procs, TokenStep(p)
        PROVE  \/ SameHolders /\ UNCHANGED <<codes, grants>>
               \/ Updates(p) /\ (GetsCode(p) \/ SameHolders)
               \/ Answers(p)
    <2>1. CASE TokenClient(p)
      BY <2>1, EndsElsewhere, GoesElsewhere DEF TokenClient, tLocals, history
    <2>2. CASE GetByCodeHash(p)
      BY <2>2, EndsElsewhere, GoesElsewhere DEF GetByCodeHash, history
    <2>3. CASE CheckCode(p)
      BY <2>3, EndsElsewhere, GoesElsewhere DEF CheckCode, history
    <2>4. CASE Consume(p)
      BY <2>4, EndsElsewhere DEF Consume, Updates, GetsCode, tLocals, history
    <2>5. CASE Issue(p)
      BY <2>5 DEF Issue, Answers
    <2> QED
      BY <1>3, <2>1, <2>2, <2>3, <2>4, <2>5 DEF TokenStep
  <1>4. ASSUME NEW p \in Procs, NEW t \in Tokens \cup {Nobody}, NEW r \in AuthorizeRequests,
               AuthorizeBegin(p, t, r)
        PROVE  SameHolders /\ UNCHANGED <<codes, grants>>
    BY <1>4, GoesElsewhere DEF AuthorizeBegin, tLocals, history
  <1>5. ASSUME NEW p \in Procs, NEW r \in TokenRequests, TokenBegin(p, r)
        PROVE  SameHolders /\ UNCHANGED <<codes, grants>>
    <2>1. /\ pc[p] # "issue" /\ pc'[p] # "issue"
          /\ \A q \in Procs \ {p} : pc'[q] = pc[q] /\ treq'[q] = treq[q]
      BY <1>5 DEF TokenBegin, TypeInv, LocalsType
    <2> QED
      BY <1>5, <2>1, MovesElsewhere DEF TokenBegin, history
  <1>6. CASE \/ \E t \in Tokens, u \in Subjects, a \in Apps : SignIn(t, u, a)
             \/ \E a \in Apps, scopes \in ScopeChoices : UpdateApp(a, scopes)
             \/ Cleanup \/ Tick
    BY <1>6 DEF SignIn, UpdateApp, Cleanup, Tick, SameHolders, tLocals, history
  <1>7. CASE Crash
    BY <1>7 DEF Crash, Restarts, history
  <1> QED
    BY <1>1, <1>2, <1>3, <1>4, <1>5, <1>6, <1>7 DEF Next

\* The abstract holders are as they were when nobody came or went.
LEMMA HoldersStay ==
    ASSUME SameHolders
    PROVE  \A c \in Codes : Holders(c)' = Holders(c)
  BY DEF SameHolders, Holders

\* The empty code table is the initial state of OneTimeCode.
LEMMA RefinementInit == Init => Abstract!Init
  BY DEF Init, Abstract!Init, Phase, Bound, Holders, Given

\* A successful INSERT issues the code.
LEMMA RefinementIssue ==
    ASSUME TypeInv, ExchangeInv, NEW p \in Procs, NEW c \in Codes, Inserts(p, c)
    PROVE  Abstract!Next
  <1> DEFINE g == [client |-> areq[p].client, user |-> user[p]]
  <1>1. NewCode(p) \in CodeRow /\ NewCode(p) # NoCode
    BY NewCodeType, MarksAssumption DEF Inserts
  <1>2. NewCode(p).client = areq[p].client /\ NewCode(p).user = user[p] /\ ~NewCode(p).consumed
    BY DEF NewCode
  <1>3. g \in Grants
    BY <1>1, <1>2 DEF Grants, CodeRow
  <1>4. codes'[c] = NewCode(p) /\ \A d \in Codes : d # c => codes'[d] = codes[d]
    BY DEF Inserts, TypeInv, TablesType
  <1>5. Phase(c) = "none" /\ Phase(c)' = "live" /\ Bound(c)' = g
    BY <1>1, <1>2, <1>4 DEF Inserts, Phase, Bound, GrantOf
  <1>6. \A d \in Codes : d # c => Phase(d)' = Phase(d) /\ Bound(d)' = Bound(d)
    BY <1>4 DEF Phase, Bound
  <1>7. \A d \in Codes : Given(d)' = Given(d) /\ Holders(d)' = Holders(d)
    BY HoldersStay DEF Inserts, Given
  <1> HIDE DEF g
  <1>8. Abstract!Issue(c, g)
    BY <1>5, <1>6, <1>7 DEF Abstract!Issue
  <1> QED
    BY <1>3, <1>8 DEF Abstract!Next

\* A matching UPDATE spends the code, which nobody held: whoever sent it
\* holds the code now, or else nobody does.
LEMMA RefinementSpend ==
    ASSUME TypeInv, ExchangeInv, NEW p \in Procs, Updates(p), GetsCode(p) \/ SameHolders
    PROVE  Abstract!Next
  <1>1. PICK c \in Codes : c = treq[p].code
    BY DEF Updates, TypeInv, LocalsType, TokenLocals, TokenPCs
  <1>2. /\ codes[c] # NoCode /\ ~codes[c].consumed
        /\ codes'[c] # NoCode /\ codes'[c].consumed /\ SameGrant(codes[c], codes'[c])
        /\ \A q \in Procs : pc[q] = "issue" => treq[q].code # c
    BY <1>1, SpendCode DEF Updates, Consumable
  <1>3. \A d \in Codes : d # c => codes'[d] = codes[d]
    BY <1>1 DEF Updates, TypeInv, TablesType
  <1>4. Phase(c) = "live" /\ Phase(c)' = "spent" /\ Bound(c)' = Bound(c)
    BY <1>2 DEF Phase, Bound, GrantOf, SameGrant
  <1>5. \A d \in Codes : d # c => Phase(d)' = Phase(d) /\ Bound(d)' = Bound(d)
    BY <1>3 DEF Phase, Bound
  <1>6. \A d \in Codes : Given(d)' = Given(d)
    BY DEF Updates, Given
  <1>7. CASE SameHolders
    <2>1. Abstract!Waste(c)
      BY <1>4, <1>5, <1>6, <1>7, HoldersStay DEF Abstract!Waste
    <2> QED
      BY <2>1 DEF Abstract!Next
  <1>8. CASE GetsCode(p)
    <2>1. pc'[p] = "issue" /\ \A q \in Procs \ {p} : pc'[q] = pc[q]
      BY <1>8 DEF GetsCode, TypeInv, LocalsType
    <2>2. treq' = treq /\ pc[p] # "issue"
      BY <1>8 DEF GetsCode, Updates
    <2>3. Holders(c)' = {p}
      BY <1>1, <1>2, <2>1, <2>2 DEF Holders
    <2>4. \A d \in Codes : d # c => Holders(d)' = Holders(d)
      BY <1>1, <2>1, <2>2 DEF Holders
    <2>5. Abstract!Spend(c, p)
      BY <1>4, <1>5, <1>6, <2>3, <2>4 DEF Abstract!Spend
    <2> QED
      BY <2>5 DEF Abstract!Next
  <1> QED
    BY <1>7, <1>8

\* The one holder of a code answers, with the tokens of the grant the code
\* was issued for or with an error.
LEMMA RefinementAnswer ==
    ASSUME TypeInv, ExchangeInv, NEW p \in Procs, Answers(p)
    PROVE  Abstract!Next
  <1>1. PICK c \in Codes : c = treq[p].code
    BY DEF Answers, TypeInv, LocalsType, TokenLocals, TokenPCs
  <1>2. /\ grants[c] = <<>> /\ codes[c] # NoCode
        /\ SameGrant(stored[p], codes[c]) /\ stored[p].client = ClientID(treq[p])
    BY <1>1 DEF Answers, ExchangeInv, HolderInv, Settled
  <1>3. \A d \in Codes : Phase(d)' = Phase(d) /\ Bound(d)' = Bound(d)
    BY DEF Answers, Phase, Bound
  <1>4. /\ p \in Holders(c) /\ Holders(c)' = {}
        /\ \A d \in Codes : d # c => Holders(d)' = Holders(d)
    <2>1. pc[p] = "issue" /\ pc'[p] # "issue"
          /\ \A q \in Procs \ {p} : pc'[q] = pc[q] /\ treq'[q] = treq[q]
      BY DEF Answers, Finish, TypeInv, LocalsType
    <2>2. \A q \in Procs : pc[q] = "issue" /\ treq[q].code = c => q = p
      BY <1>1, <2>1 DEF ExchangeInv, Exclusive
    <2>3. p \in Holders(c)
      BY <1>1, <2>1 DEF Holders
    <2>4. Holders(c)' = {}
      BY <2>1, <2>2 DEF Holders
    <2>5. \A d \in Codes : d # c => Holders(d)' = Holders(d)
      BY <1>1, <2>1 DEF Holders
    <2> QED BY <2>3, <2>4, <2>5
  <1>5. CASE UNCHANGED grants
    <2>1. \A d \in Codes : Given(d)' = Given(d)
      BY <1>5 DEF Given
    <2>2. Abstract!Fail(c, p)
      BY <1>3, <1>4, <2>1 DEF Abstract!Fail
    <2> QED
      BY <2>2 DEF Abstract!Next
  <1>6. CASE grants' = [grants EXCEPT ![treq[p].code] =
                           Append(grants[treq[p].code], NewToken(p))]
    <2>1. grants'[c] = <<NewToken(p)>> /\ \A d \in Codes : d # c => grants'[d] = grants[d]
      <3>1. grants'[c] = Append(grants[c], NewToken(p))
        BY <1>1, <1>6 DEF TypeInv, HistoryType
      <3>2. \A d \in Codes : d # c => grants'[d] = grants[d]
        BY <1>1, <1>6 DEF TypeInv, HistoryType
      <3>3. Append(<<>>, NewToken(p)) = <<NewToken(p)>>
        OBVIOUS
      <3> QED BY <1>2, <3>1, <3>2, <3>3
    <2>2. GrantOf(NewToken(p)) = Bound(c)
      BY <1>2 DEF NewToken, SameGrant, GrantOf, Bound
    <2>3. Given(c) = <<>> /\ Given(c)' = <<Bound(c)>>
      <3>1. DOMAIN grants[c] = {} /\ DOMAIN grants'[c] = {1} /\ grants'[c][1] = NewToken(p)
        BY <1>2, <2>1
      <3> QED
        BY <2>2, <3>1 DEF Given
    <2>4. \A d \in Codes : d # c => Given(d)' = Given(d)
      BY <2>1 DEF Given
    <2>5. Given(c)' = Append(Given(c), Bound(c))
      BY <2>3
    <2>6. Abstract!Give(c, p)
      BY <1>3, <1>4, <2>4, <2>5 DEF Abstract!Give
    <2> QED
      BY <2>6 DEF Abstract!Next
  <1> QED
    BY <1>5, <1>6 DEF Answers

\* When the process is restarted no request holds a code any more.
LEMMA RefinementRestart ==
    ASSUME TypeInv, Restarts
    PROVE  Abstract!Next
  <1>1. \A d \in Codes : Phase(d)' = Phase(d) /\ Bound(d)' = Bound(d) /\ Given(d)' = Given(d)
    BY DEF Restarts, Phase, Bound, Given
  <1>2. \A d \in Codes : Holders(d)' = {}
    BY DEF Restarts, Holders
  <1>3. Abstract!Restart
    BY <1>1, <1>2 DEF Abstract!Restart
  <1> QED
    BY <1>3 DEF Abstract!Next

\* Every step is a step of OneTimeCode or leaves its variables alone.
LEMMA RefinementNext ==
    TypeInv /\ ExchangeInv /\ [Next]_vars => [Abstract!Next]_(Abstract!vars)
  <1> SUFFICES ASSUME TypeInv, ExchangeInv, [Next]_vars
               PROVE  [Abstract!Next]_(Abstract!vars)
    OBVIOUS
  <1>1. CASE SameHolders /\ UNCHANGED <<codes, grants>>
    BY <1>1, HoldersStay DEF Abstract!vars, Phase, Bound, Given
  <1> QED
    BY <1>1, StepsOnCodes, RefinementIssue, RefinementSpend, RefinementAnswer, RefinementRestart

\* The authorize and token handlers over the code table implement the
\* one-time code: the row is inserted for one grant; one UPDATE spends it;
\* the request behind that UPDATE is the only one ever past Consume with the
\* code; and it gives the tokens of that grant once, or none at all.
THEOREM ImplementsOneTimeCode == Spec => CodesAreOneTime
  <1>1. Spec => Abstract!Init /\ [][Abstract!Next]_(Abstract!vars)
    BY ExchangeInvariant, RefinementInit, RefinementNext, PTL DEF Spec
  <1> QED
    BY <1>1, PTL DEF CodesAreOneTime, Abstract!Spec

-----------------------------------------------------------------------------
(***************************************************************************)
(* Where a code comes from.  A session's row names the user who signed in, *)
(* an authorize request the user of the session it came with, and a code's *)
(* row what such a request, found valid and for a registered redirect URI, *)
(* asked for.  A token that has been drawn is never drawn again, so what a *)
(* code was issued through is not rewritten behind it.                     *)
(***************************************************************************)
SessionNames(t) == Found(sessions[t]) => signedIn[t].user = sessions[t].subject

\* Token t stands for a sign-in of user u.
SignedInAs(t, u) == t \in Tokens /\ sessions[t] # Unused /\ signedIn[t].user = u

\* The user of an authorization signed in, with the session its request carried,
\* and past the checks the request is valid.
RequestNames(p) ==
    /\ pc[p] \in AuthorizePCs /\ user[p] # Nobody => SignedInAs(via[p], user[p])
    /\ pc[p] \in {"authApp", "authCreate"} => ValidRequest(areq[p])

\* A code's row has a registered redirect URI, a nonce if it is for OpenID, and
\* the user of the session it was asked for with.
CodeNames(c) ==
    codes[c] # NoCode =>
        /\ codes[c].redirectURI \in ClientRow[codes[c].client].redirectURIs
        /\ "openid" \in codes[c].scope => codes[c].nonce # Empty
        /\ SignedInAs(origin[c], codes[c].user)

\* Everything a token will say goes back to a sign-in and a valid request.
ProvenanceInv ==
    /\ \A t \in Tokens : SessionNames(t)
    /\ \A p \in Procs : RequestNames(p)
    /\ \A c \in Codes : CodeNames(c)
    /\ RedirectsStayRegistered

\* What later steps may rely on: a token drawn stays drawn, and the sign-in
\* it stands for stays what it was.
SignInsStand ==
    \A t \in Tokens :
        sessions[t] # Unused => sessions'[t] # Unused /\ signedIn'[t] = signedIn[t]

\* Nobody has signed in and nothing was asked for.
LEMMA ProvenanceInit == Init => ProvenanceInv
  BY DEF Init, NoSessions, ProvenanceInv, SessionNames, Found, RequestNames, CodeNames,
         RedirectsStayRegistered, AuthorizePCs

\* Steps that leave the session table alone keep what it says.
LEMMA SessionsUnchanged ==
    ASSUME ProvenanceInv, UNCHANGED <<sessions, signedIn>>
    PROVE  SignInsStand /\ \A t \in Tokens : SessionNames(t)'
  BY DEF SignInsStand, ProvenanceInv, SessionNames, Found

\* A sign-in draws a new token; the cleanup only deletes.
LEMMA SessionSteps ==
    ASSUME TypeInv, ProvenanceInv,
           Cleanup \/ \E t \in Tokens, u \in Subjects, a \in Apps : SignIn(t, u, a)
    PROVE  SignInsStand /\ \A t \in Tokens : SessionNames(t)'
  <1>a. sessions \in [Tokens -> SessionRow \cup {Unused, Deleted}]
        /\ signedIn \in [Tokens -> [user : Subjects, app : Apps] \cup {Nowhere}]
    BY DEF TypeInv, TablesType, SessionTypeOK, HistoryType
  <1>1. CASE Cleanup
    <2>1. signedIn' = signedIn /\ \A t \in Tokens : sessions'[t] \in {sessions[t], Deleted}
      BY <1>1 DEF Cleanup, DeleteInactive, history
    <2> QED
      BY <2>1, SessionMarksAssumption DEF SignInsStand, ProvenanceInv, SessionNames, Found
  <1>2. ASSUME NEW t \in Tokens, NEW u \in Subjects, NEW a \in Apps, SignIn(t, u, a)
        PROVE  SignInsStand /\ \A s \in Tokens : SessionNames(s)'
    <2> DEFINE fresh == [subject |-> u, expiresAt |-> now + SessionTTL, revoked |-> FALSE]
    <2>1. /\ sessions[t] = Unused /\ sessions' = [sessions EXCEPT ![t] = fresh]
          /\ signedIn' = [signedIn EXCEPT ![t] = [user |-> u, app |-> a]]
      BY <1>2 DEF SignIn, Create
    <2>2. fresh.subject = u
      OBVIOUS
    <2> HIDE DEF fresh
    <2>3. \A s \in Tokens : s # t => sessions'[s] = sessions[s] /\ signedIn'[s] = signedIn[s]
      BY <1>a, <2>1
    <2>4. sessions'[t].subject = u /\ signedIn'[t].user = u
      BY <1>a, <2>1, <2>2
    <2> QED
      BY <2>1, <2>3, <2>4 DEF SignInsStand, ProvenanceInv, SessionNames
  <1> QED
    BY <1>1, <1>2

\* When one authorize request moves, it is enough to look at that request,
\* at the row it may have inserted and at where it sent the browser.
LEMMA OneRequestMoves ==
    ASSUME TypeInv, ProvenanceInv, SignInsStand, NEW p \in Procs,
           \A t \in Tokens : SessionNames(t)',
           \A q \in Procs \ {p} : /\ pc'[q] = pc[q] /\ areq'[q] = areq[q]
                                  /\ user'[q] = user[q] /\ via'[q] = via[q],
           RequestNames(p)', \A c \in Codes : CodeNames(c)', RedirectsStayRegistered'
    PROVE  ProvenanceInv'
  <1>1. ASSUME NEW q \in Procs, q # p PROVE RequestNames(q)'
    <2>1. /\ pc'[q] = pc[q] /\ areq'[q] = areq[q]
          /\ user'[q] = user[q] /\ via'[q] = via[q]
      BY <1>1
    <2>2. ValidRequest(areq[q])' <=> ValidRequest(areq[q])
      BY <2>1 DEF ValidRequest
    <2> QED
      BY <2>1, <2>2 DEF ProvenanceInv, RequestNames, SignedInAs, SignInsStand
  <1> QED
    BY <1>1 DEF ProvenanceInv

\* The rows of codes that a step leaves alone.
LEMMA CodesUnchanged ==
    ASSUME ProvenanceInv, SignInsStand, UNCHANGED <<codes, origin>>
    PROVE  \A c \in Codes : CodeNames(c)'
  BY DEF ProvenanceInv, CodeNames, SignedInAs, SignInsStand

\* Whoever sends the browser away has found the target registered.
LEMMA RedirectRegistered ==
    ASSUME ProvenanceInv, NEW p \in Procs, ~UntrustedTarget(areq[p]), Redirect(p)
    PROVE  RedirectsStayRegistered'
  BY DEF ProvenanceInv, RedirectsStayRegistered, Redirect, UntrustedTarget, IsRedirectURIAllowed

\* A handler that ends names nobody any more.
LEMMA FinishNames ==
    ASSUME TypeInv, ProvenanceInv, NEW p \in Procs, Finish(p)
    PROVE  /\ RequestNames(p)'
           /\ \A q \in Procs \ {p} : /\ pc'[q] = pc[q] /\ areq'[q] = areq[q]
                                     /\ user'[q] = user[q] /\ via'[q] = via[q]
  BY DEF Finish, TypeInv, LocalsType, RequestNames, AuthorizePCs

\* The middleware puts the user of the cookie's session into the request.
LEMMA AuthorizeBeginProvenance ==
    ASSUME TypeInv, ProvenanceInv, NEW p \in Procs, NEW t \in Tokens \cup {Nobody},
           NEW r \in AuthorizeRequests, AuthorizeBegin(p, t, r)
    PROVE  ProvenanceInv'
  <1>1. UNCHANGED <<now, sessions, codes, redirects, origin, signedIn>>
    BY DEF AuthorizeBegin, history
  <1>2. SignInsStand /\ \A s \in Tokens : SessionNames(s)'
    BY <1>1, SessionsUnchanged
  <1>3. \A q \in Procs \ {p} : /\ pc'[q] = pc[q] /\ areq'[q] = areq[q]
                               /\ user'[q] = user[q] /\ via'[q] = via[q]
    BY DEF AuthorizeBegin, TypeInv, LocalsType
  <1>4. PICK u \in {ContextUser(t), Nobody} :
           /\ user' = [user EXCEPT ![p] = u]
           /\ via' = [via EXCEPT ![p] = IF u = Nobody THEN Nobody ELSE t]
    BY DEF AuthorizeBegin
  <1>5. u # Nobody => SignedInAs(t, u)
    BY <1>4 DEF ContextUser, Validate, Found, SignedInAs, ProvenanceInv, SessionNames
  <1>6. pc'[p] = "authClient" /\ user'[p] = u /\ (u # Nobody => via'[p] = t)
    BY <1>4 DEF AuthorizeBegin, TypeInv, LocalsType
  <1>7. RequestNames(p)'
    BY <1>1, <1>5, <1>6 DEF RequestNames, SignedInAs
  <1>8. RedirectsStayRegistered'
    BY <1>1 DEF ProvenanceInv, RedirectsStayRegistered
  <1> QED
    BY <1>1, <1>2, <1>3, <1>7, <1>8, CodesUnchanged, OneRequestMoves

\* The checks of authorizeHandler: only a valid request for a registered
\* redirect URI goes on, and only such a one is answered by a redirect.
LEMMA AuthorizeCheckProvenance ==
    ASSUME TypeInv, ProvenanceInv, NEW p \in Procs, AuthorizeClient(p) \/ AuthorizeApp(p)
    PROVE  ProvenanceInv'
  <1>1. UNCHANGED <<now, sessions, codes, origin, signedIn>>
    BY DEF AuthorizeClient, AuthorizeApp
  <1>2. SignInsStand /\ \A s \in Tokens : SessionNames(s)'
    BY <1>1, SessionsUnchanged
  <1>3. \A c \in Codes : CodeNames(c)'
    BY <1>1, <1>2, CodesUnchanged
  <1>4. pc[p] = "authApp" => ~UntrustedTarget(areq[p])
    BY DEF TypeInv, LocalsType, AuthorizeLocals
  <1>5. CASE Finish(p)
    <2>1. RedirectsStayRegistered'
      <3>1. CASE UNCHANGED redirects
        BY <3>1 DEF ProvenanceInv, RedirectsStayRegistered
      <3>2. CASE ~UntrustedTarget(areq[p]) /\ Redirect(p)
        BY <3>2, RedirectRegistered
      <3> QED
        BY <1>4, <1>5, <3>1, <3>2 DEF AuthorizeClient, AuthorizeApp, aLocals
    <2> QED
      BY <1>2, <1>3, <1>5, <2>1, FinishNames, OneRequestMoves
  <1>6. CASE /\ pc' = [pc EXCEPT ![p] = "authApp"] \/ pc' = [pc EXCEPT ![p] = "authCreate"]
             /\ pc[p] \in {"authClient", "authApp"}
             /\ ValidRequest(areq[p])
             /\ UNCHANGED <<areq, user, via, redirects>>
    <2>1. \A q \in Procs \ {p} : /\ pc'[q] = pc[q] /\ areq'[q] = areq[q]
                                 /\ user'[q] = user[q] /\ via'[q] = via[q]
      BY <1>6 DEF TypeInv, LocalsType
    <2>2. RequestNames(p)'
      <3>1. ValidRequest(areq[p])'
        BY <1>6 DEF ValidRequest
      <3>2. (user[p] # Nobody => SignedInAs(via[p], user[p]))'
        BY <1>1, <1>6 DEF ProvenanceInv, RequestNames, SignedInAs, AuthorizePCs
      <3> QED
        BY <3>1, <3>2 DEF RequestNames
    <2>3. RedirectsStayRegistered'
      BY <1>6 DEF ProvenanceInv, RedirectsStayRegistered
    <2> QED
      BY <1>2, <1>3, <2>1, <2>2, <2>3, OneRequestMoves
  <1> QED
    BY <1>5, <1>6 DEF AuthorizeClient, AuthorizeApp, aLocals, ProvenanceInv, RequestNames

\* The row inserted says what the request asked for and whose it was.
LEMMA AuthorizeCreateProvenance ==
    ASSUME TypeInv, ProvenanceInv, NEW p \in Procs, AuthorizeCreate(p)
    PROVE  ProvenanceInv'
  <1>1. UNCHANGED <<now, sessions, signedIn>> /\ pc[p] = "authCreate"
    BY DEF AuthorizeCreate
  <1>2. SignInsStand /\ \A s \in Tokens : SessionNames(s)'
    BY <1>1, SessionsUnchanged
  <1>3. ~UntrustedTarget(areq[p]) /\ user[p] \in Subjects
    BY <1>1 DEF TypeInv, LocalsType, AuthorizeLocals
  <1>4. RedirectsStayRegistered'
    BY <1>3, RedirectRegistered DEF AuthorizeCreate
  <1>5. \A c \in Codes : CodeNames(c)'
    <2>1. CASE UNCHANGED <<codes, origin>>
      BY <1>2, <2>1, CodesUnchanged
    <2>2. ASSUME NEW c \in Codes, codes' = [codes EXCEPT ![c] = NewCode(p)],
                 origin' = [origin EXCEPT ![c] = via[p]]
          PROVE  \A d \in Codes : CodeNames(d)'
      <3> DEFINE new == NewCode(p)
      <3>1. /\ new.client = areq[p].client /\ new.redirectURI = areq[p].redirectURI
            /\ new.scope = areq[p].scope /\ new.nonce = areq[p].nonce /\ new.user = user[p]
        BY DEF NewCode
      <3> HIDE DEF new
      <3>2. codes'[c] = new /\ origin'[c] = via[p]
        BY <2>2 DEF new, TypeInv, TablesType, HistoryType
      <3>3. new.redirectURI \in ClientRow[new.client].redirectURIs
        BY <1>3, <3>1 DEF UntrustedTarget, IsRedirectURIAllowed
      <3>4. "openid" \in new.scope => new.nonce # Empty
        BY <1>1, <3>1 DEF ProvenanceInv, RequestNames, ValidRequest
      <3>5. SignedInAs(via[p], user[p])
        BY <1>1, <1>3, MarksAssumption DEF ProvenanceInv, RequestNames, AuthorizePCs
      <3>6. CodeNames(c)'
        BY <1>1, <3>1, <3>2, <3>3, <3>4, <3>5 DEF CodeNames, SignedInAs
      <3>7. \A d \in Codes : d # c => codes'[d] = codes[d] /\ origin'[d] = origin[d]
        BY <2>2 DEF TypeInv, TablesType, HistoryType
      <3>8. \A d \in Codes : d # c => CodeNames(d)'
        BY <1>1, <3>7 DEF ProvenanceInv, CodeNames, SignedInAs
      <3> QED
        BY <3>6, <3>8
    <2> QED
      BY <2>1, <2>2 DEF AuthorizeCreate
  <1> QED
    BY <1>2, <1>4, <1>5, FinishNames, OneRequestMoves DEF AuthorizeCreate

\* A token request leaves a code's row what it was but for consumed_at.
LEMMA TokenProvenance ==
    ASSUME TypeInv, ExchangeInv, ProvenanceInv, NEW p \in Procs,
           TokenStep(p) \/ \E r \in TokenRequests : TokenBegin(p, r)
    PROVE  ProvenanceInv'
  <1>1. UNCHANGED <<sessions, signedIn, redirects, origin>>
    BY DEF TokenBegin, TokenStep, TokenClient, GetByCodeHash, CheckCode, Consume, Issue, history
  <1>2. SignInsStand /\ \A s \in Tokens : SessionNames(s)'
    BY <1>1, SessionsUnchanged
  <1>3. RedirectsStayRegistered'
    BY <1>1 DEF ProvenanceInv, RedirectsStayRegistered
  <1>4. \A c \in Codes : CodeNames(c)'
    <2>1. CASE UNCHANGED codes
      BY <1>1, <1>2, <2>1, CodesUnchanged
    <2>2. CASE /\ pc[p] = "consume" /\ Consumable(p)
               /\ codes' = [codes EXCEPT ![treq[p].code].consumed = TRUE]
               /\ UNCHANGED <<grants, spoiled>>
      <3>1. \A d \in Codes : codes[d] # NoCode => SameGrant(codes[d], codes'[d])
        BY <2>2, SpendCode
      <3>2. \A d \in Codes : codes'[d] # NoCode => codes[d] # NoCode
        BY <2>2 DEF Consumable, TypeInv, TablesType
      <3> QED
        BY <1>1, <3>1, <3>2 DEF SameGrant, ProvenanceInv, CodeNames, SignedInAs
    <2> QED
      BY <2>1, <2>2 DEF TokenBegin, TokenStep, TokenClient, GetByCodeHash, CheckCode, Consume,
            Issue, history
  <1>5. CASE Finish(p)
    BY <1>2, <1>3, <1>4, <1>5, FinishNames, OneRequestMoves
  <1>6. CASE UNCHANGED aLocals /\ \E label \in TokenPCs : pc' = [pc EXCEPT ![p] = label]
    <2>1. \A q \in Procs \ {p} : /\ pc'[q] = pc[q] /\ areq'[q] = areq[q]
                                 /\ user'[q] = user[q] /\ via'[q] = via[q]
      BY <1>6 DEF TypeInv, LocalsType, aLocals
    <2>2. pc'[p] \in TokenPCs
      BY <1>6 DEF TypeInv, LocalsType
    <2>3. RequestNames(p)'
      BY <2>2 DEF RequestNames, AuthorizePCs, TokenPCs
    <2> QED
      BY <1>2, <1>3, <1>4, <2>1, <2>3, OneRequestMoves
  <1> QED
    BY <1>5, <1>6 DEF TokenBegin, TokenStep, TokenClient, GetByCodeHash, CheckCode, Consume,
          Issue, TokenPCs

\* Sign-ins, scope changes, the cleanup, the clock and a restart.
LEMMA EnvironmentProvenance ==
    ASSUME TypeInv, ProvenanceInv,
           \/ \E t \in Tokens, u \in Subjects, a \in Apps : SignIn(t, u, a)
           \/ \E a \in Apps, scopes \in ScopeChoices : UpdateApp(a, scopes)
           \/ Cleanup \/ Tick \/ Crash \/ UNCHANGED vars
    PROVE  ProvenanceInv'
  <1>1. UNCHANGED <<codes, origin, redirects>>
    BY DEF SignIn, UpdateApp, Cleanup, Tick, Crash, vars, history
  <1>2. SignInsStand /\ \A t \in Tokens : SessionNames(t)'
    <2>1. CASE UNCHANGED <<sessions, signedIn>>
      BY <2>1, SessionsUnchanged
    <2>2. CASE Cleanup \/ \E t \in Tokens, u \in Subjects, a \in Apps : SignIn(t, u, a)
      BY <2>2, SessionSteps
    <2> QED
      BY <2>1, <2>2 DEF UpdateApp, Tick, Crash, vars, history
  <1>3. \A c \in Codes : CodeNames(c)'
    BY <1>1, <1>2, CodesUnchanged
  <1>4. RedirectsStayRegistered'
    BY <1>1 DEF ProvenanceInv, RedirectsStayRegistered
  <1>5. \A p \in Procs : RequestNames(p)'
    <2>1. CASE UNCHANGED <<pc, areq, user, via>>
      BY <1>2, <2>1 DEF ProvenanceInv, RequestNames, SignedInAs, SignInsStand, ValidRequest
    <2>2. CASE Crash
      BY <2>2 DEF Crash, RequestNames, AuthorizePCs
    <2> QED
      BY <2>1, <2>2 DEF SignIn, UpdateApp, Cleanup, Tick, vars, aLocals
  <1> QED
    BY <1>2, <1>3, <1>4, <1>5 DEF ProvenanceInv

\* Every step keeps the provenance of sessions, requests and codes.
LEMMA ProvenanceNext == TypeInv /\ ExchangeInv /\ ProvenanceInv /\ [Next]_vars => ProvenanceInv'
  <1> SUFFICES ASSUME TypeInv, ExchangeInv, ProvenanceInv, [Next]_vars PROVE ProvenanceInv'
    OBVIOUS
  <1> QED
    BY AuthorizeBeginProvenance, AuthorizeCheckProvenance, AuthorizeCreateProvenance,
       TokenProvenance, EnvironmentProvenance DEF Next, AuthorizeStep

\* The three invariants hold together of every state the flow reaches.
LEMMA ProvenanceInvariant == Spec => [](TypeInv /\ ExchangeInv /\ ProvenanceInv)
  <1>1. TypeInv /\ ExchangeInv /\ ProvenanceInv /\ [Next]_vars => ProvenanceInv'
    BY ProvenanceNext
  <1> QED
    BY <1>1, ProvenanceInit, ExchangeInvariant, PTL DEF Spec

\* The browser is never sent anywhere but to a redirect URI registered for
\* the client: no error is redirected before authorizeHandler has checked.
THEOREM RedirectsRegistered == Spec => []RedirectsStayRegistered
  <1>1. ProvenanceInv => RedirectsStayRegistered
    BY DEF ProvenanceInv
  <1> QED
    BY <1>1, ProvenanceInvariant, PTL

\* Whatever tokens there are, the client they went to is the one that asked,
\* proved the verifier of its challenge and named its own redirect URI, the
\* user is the one who had signed in, and an ID token has the nonce asked
\* for: across every interleaving of authorize and token requests.
THEOREM TokensAsAuthorized == Spec => []TokensMatchAuthorization
  <1>1. TypeInv /\ ExchangeInv /\ ProvenanceInv => TokensMatchAuthorization
    <2> SUFFICES ASSUME TypeInv, ExchangeInv, ProvenanceInv,
                        NEW c \in Codes, NEW i \in DOMAIN grants[c]
                 PROVE  LET g == grants[c][i] IN
                        /\ codes[c] # NoCode
                        /\ g.client = codes[c].client
                        /\ g.redirectURI = codes[c].redirectURI
                        /\ g.redirectURI \in ClientRow[g.client].redirectURIs
                        /\ S256[g.verifier] = codes[c].challenge
                        /\ origin[c] \in Tokens
                        /\ g.user = signedIn[origin[c]].user
                        /\ g.idToken => g.nonce # Empty /\ g.nonce = codes[c].nonce
      BY DEF TokensMatchAuthorization
    <2>1. grants[c] \in Seq(Token) /\ Len(grants[c]) <= 1
      BY DEF TypeInv, HistoryType, ExchangeInv, OutcomeInv
    <2>2. i = 1 /\ grants[c] # <<>>
      BY <2>1
    <2>3. codes[c] # NoCode /\ TokenOf(c, grants[c][1])
      BY <2>2 DEF ExchangeInv, OutcomeInv, Settled
    <2>4. CodeNames(c)
      BY DEF ProvenanceInv
    <2> QED
      BY <2>2, <2>3, <2>4 DEF TokenOf, CodeNames, SignedInAs
  <1> QED
    BY <1>1, ProvenanceInvariant, PTL
=============================================================================
