--------------------------- MODULE AppAdminProofs ---------------------------
(***************************************************************************)
(* Proofs about AppAdmin, for any tabs, forms, ids and secrets, with       *)
(* database errors, lost answers and crashes at any point: nothing is half *)
(* registered, what a registration page has shown works, and edits add up. *)
(*                                                                         *)
(* AppInv adds to these what each handler knows while it runs (TabKnows),  *)
(* that type, method and secret of a stored client agree (ClientsAgree),   *)
(* that no two clients share a secret (OwnSecrets), and that what was      *)
(* shown is what is stored (ShownIsStored).                                *)
(***************************************************************************)
EXTENDS AppAdmin, TLAPS

\* What the handler of a tab holds: the forms it was sent; an app that is there;
\* the credentials that are stored for the client it registered.
TabKnows(p) ==
    /\ pc[p] = "register" => appForm[p] \in AppForm /\ clientForm[p] \in ClientForms
    /\ pc[p] = "create" => clientForm[p] \in ClientForms
    /\ pc[p] \in {"create", "page", "update"} =>
          target[p] \in AppIds /\ apps[target[p]] # None
    /\ pc[p] \in {"page", "update"} => page[p] \in AppRow
    /\ pc[p] = "update" => appForm[p] \in AppForm
    /\ pc[p] = "answer" => /\ clientId[p] \in ClientIds
                           /\ clients[clientId[p]] # None
                           /\ clients[clientId[p]].secret = secret[p]

\* A confidential client has a secret and a method that uses it, a public one
\* neither.
ClientsAgree ==
    \A c \in ClientIds : clients[c] # None =>
        IF clients[c].type = "confidential"
        THEN clients[c].method = "client_secret_basic" /\ clients[c].secret # None
        ELSE clients[c].secret = None

\* A secret is one client's.
OwnSecrets ==
    \A c, d \in ClientIds :
        clients[c] # None /\ clients[d] # None /\ clients[c].secret # None
            /\ clients[c].secret = clients[d].secret => c = d

\* What was shown is what is stored.
ShownIsStored ==
    \A s \in shown : clients[s[1]] # None /\ clients[s[1]].secret = s[2]

AppInv ==
    /\ TypeOK
    /\ \A p \in Procs : TabKnows(p)
    /\ ClientsAgree
    /\ OwnSecrets
    /\ ShownIsStored
    /\ NoHalfRegistration
    /\ EditsAddUp

\* Nothing is deleted, and no client is ever rewritten.
TablesGrow ==
    /\ \A a \in AppIds : apps[a] # None => apps'[a] # None
    /\ \A c \in ClientIds : clients[c] # None => clients'[c] = clients[c]

\* A step leaves a tab alone.
SameTab(p) ==
    /\ pc'[p] = pc[p] /\ target'[p] = target[p] /\ page'[p] = page[p]
    /\ appForm'[p] = appForm[p] /\ clientForm'[p] = clientForm[p]
    /\ clientId'[p] = clientId[p] /\ secret'[p] = secret[p]

\* The locals of the tabs have their types.
LocalTypeOK ==
    /\ pc \in [Procs -> {"idle", "register", "create", "page", "update", "answer"}]
    /\ target \in [Procs -> AppIds \cup {None}]
    /\ page \in [Procs -> AppRow \cup {None}]
    /\ appForm \in [Procs -> AppForm \cup {None}]
    /\ clientForm \in [Procs -> ClientForms \cup {None}]
    /\ clientId \in [Procs -> ClientIds \cup {None}]
    /\ secret \in [Procs -> Secrets \cup {None}]

\* The tables and what was noted about them satisfy the invariant.
TableTypeOK ==
    /\ apps \in [AppIds -> AppRow \cup {None}]
    /\ clients \in [ClientIds -> ClientRow \cup {None}]
    /\ shown \in SUBSET (ClientIds \X (Secrets \cup {None}))
    /\ asked \in [AppIds -> BOOLEAN \cup {None}]
    /\ intended \in [AppIds -> AppRow \cup {None}]
TableInv ==
    TableTypeOK /\ ClientsAgree /\ OwnSecrets /\ ShownIsStored /\ NoHalfRegistration
        /\ EditsAddUp

-----------------------------------------------------------------------------
(* What validation lets through, and what a step of one tab owes.          *)

\* AppInv is a fact about the tables and one about each tab.
LEMMA AppInvParts ==
    AppInv <=> LocalTypeOK /\ TableInv /\ \A p \in Procs : TabKnows(p)
  BY DEF AppInv, TableInv, TypeOK, LocalTypeOK, TableTypeOK

\* The parts of the forms operators send.
LEMMA FormParts ==
    /\ \A f \in Forms : f[1] \in AppForm /\ f[2] \in ClientForms
    /\ AppForms \subseteq AppForm
    /\ ClientForms \subseteq ClientForm
  BY FormsAssumption DEF AppForms, ClientForms

\* A form that is let through makes a row fit for the table.
LEMMA AppOfIsRow ==
    ASSUME NEW f \in AppForm, ValidApp(f)
    PROVE  AppOf(f) \in AppRow
  <1>1. f.name \in Names /\ f.firstParty \in BOOLEAN
    BY DEF AppForm, ValidApp
  <1>2. normalizeScopes(f.scopes) \in SUBSET SupportedScopes
    BY DEF ValidApp
  <1> QED
    BY <1>1, <1>2 DEF AppOf, AppRow

\* That row is what its operator wants.
LEMMA AppOfIsMeant ==
    ASSUME NEW f \in AppForm, ValidApp(f)
    PROVE  Meant(f) = AppOf(f)
  <1>1. {s \in SupportedScopes : \E x \in f.scopes : Lower[x] = s} = normalizeScopes(f.scopes)
    BY DEF ValidApp, normalizeScopes
  <1> QED
    BY <1>1 DEF Meant, AppOf

\* What GORM makes of a row fits too.
LEMMA InsertedIsRow ==
    ASSUME NEW row \in AppRow
    PROVE  Inserted(row) \in AppRow
  BY DEF Inserted, AppRow

\* A client form that is let through has safe redirect URIs, and the row built
\* from it agrees with itself.
LEMMA ClientOfIsRow ==
    ASSUME NEW g \in ClientForm, ValidClient(g), NEW a \in AppIds, NEW x \in Secrets
    PROVE  /\ ClientOf(g, a, x) \in ClientRow
           /\ ClientOf(g, a, x) # None
           /\ ClientOf(g, a, x).app = a
           /\ ClientOf(g, a, x).secret \in {x, None}
           /\ IF ClientOf(g, a, x).type = "confidential"
              THEN /\ ClientOf(g, a, x).method = "client_secret_basic"
                   /\ ClientOf(g, a, x).secret # None
              ELSE ClientOf(g, a, x).secret = None
  <1>1. g.redirects \in (SUBSET SafeURI) \ {{}}
    BY DEF ValidClient, ValidateRedirectURI, SafeURI, ClientForm
  <1>2. g.type \in {"confidential", "public"} /\ x # None
    BY NoneAssumption DEF ValidClient
  <1>3. ClientOf(g, a, x) \in ClientRow
    BY <1>1, <1>2 DEF ClientOf, ClientRow
  <1>4. ClientOf(g, a, x) # None
    BY <1>3, NoneAssumption
  <1> QED
    BY <1>2, <1>3, <1>4 DEF ClientOf

\* A tab no step touches knows what it knew.
LEMMA TabStands ==
    ASSUME AppInv, TablesGrow, NEW p \in Procs, SameTab(p)
    PROVE  TabKnows(p)'
  BY DEF AppInv, TabKnows, SameTab, TablesGrow

\* A step of one tab that keeps the tables in order and its own facts preserves
\* the invariant.
LEMMA TabStepKeepsInv ==
    ASSUME AppInv, LocalTypeOK', TableInv', TablesGrow, NEW p \in Procs, TabKnows(p)',
           \A q \in Procs \ {p} : SameTab(q)
    PROVE  AppInv'
  <1>1. \A q \in Procs : TabKnows(q)'
    BY TabStands
  <1> QED
    BY <1>1 DEF AppInv, TableInv, TypeOK, LocalTypeOK, TableTypeOK

\* A request that ends leaves its tab idle and holds nothing.
LEMMA FinishEffect ==
    ASSUME AppInv, NEW p \in Procs, Finish(p)
    PROVE  LocalTypeOK' /\ TabKnows(p)' /\ \A q \in Procs \ {p} : SameTab(q)
  <1>1. LocalTypeOK'
    BY DEF AppInv, TypeOK, Finish, LocalTypeOK
  <1>2. TabKnows(p)'
    BY DEF AppInv, TypeOK, Finish, TabKnows
  <1>3. \A q \in Procs \ {p} : SameTab(q)
    BY DEF AppInv, TypeOK, Finish, SameTab
  <1> QED
    BY <1>1, <1>2, <1>3

\* A registration that is stored holds the credentials that are in its row.
LEMMA StoredEffect ==
    ASSUME AppInv, NEW p \in Procs, NEW c \in ClientIds, NEW x \in Secrets \cup {None},
           Stored(p, c, x), clients'[c] # None, clients'[c].secret = x
    PROVE  LocalTypeOK' /\ TabKnows(p)' /\ \A q \in Procs \ {p} : SameTab(q)
  <1>1. LocalTypeOK'
    BY DEF AppInv, TypeOK, Stored, LocalTypeOK
  <1>2. TabKnows(p)'
    BY DEF AppInv, TypeOK, Stored, TabKnows
  <1>3. \A q \in Procs \ {p} : SameTab(q)
    BY DEF AppInv, TypeOK, Stored, SameTab
  <1> QED
    BY <1>1, <1>2, <1>3

\* Steps that leave the tables alone keep them in order.
LEMMA TablesStand ==
    ASSUME AppInv, UNCHANGED <<tables, shown, edits>>
    PROVE  TableInv' /\ TablesGrow
  <1>1. UNCHANGED <<apps, clients, shown, asked, intended>>
    BY DEF tables, edits
  <1>2. TableTypeOK'
    BY <1>1 DEF AppInv, TypeOK, TableTypeOK
  <1>3. ClientsAgree' /\ OwnSecrets' /\ ShownIsStored'
    BY <1>1 DEF AppInv, ClientsAgree, OwnSecrets, ShownIsStored
  <1>4. NoHalfRegistration' /\ EditsAddUp'
    BY <1>1 DEF AppInv, NoHalfRegistration, EditsAddUp
  <1> QED
    BY <1>1, <1>2, <1>3, <1>4 DEF TableInv, TablesGrow

\* The INSERT of a client with a new id and a new secret: every client still
\* agrees with itself, secrets are still each one's own, and what was shown
\* before still is what is stored.
LEMMA InsertClientEffect ==
    ASSUME AppInv, NEW c \in FreshId, NEW x \in FreshSecret, NEW g \in ClientForm,
           ValidClient(g), NEW a \in AppIds, InsertClient(c, ClientOf(g, a, x)),
           UNCHANGED shown
    PROVE  /\ clients' \in [ClientIds -> ClientRow \cup {None}]
           /\ clients'[c] = ClientOf(g, a, x) /\ c \in ClientIds
           /\ \A d \in ClientIds \ {c} : clients'[d] = clients[d]
           /\ \A d \in ClientIds : clients[d] # None => clients'[d] = clients[d]
           /\ ClientsAgree' /\ OwnSecrets' /\ ShownIsStored'
  <1> DEFINE row == ClientOf(g, a, x)
  <1>1. c \in ClientIds /\ clients[c] = None /\ x \in Secrets
    BY DEF FreshId, FreshSecret
  <1>2. /\ row \in ClientRow /\ row # None /\ row.secret \in {x, None}
        /\ IF row.type = "confidential"
           THEN row.method = "client_secret_basic" /\ row.secret # None
           ELSE row.secret = None
    BY <1>1, ClientOfIsRow
  <1>3. clients' = [clients EXCEPT ![c] = row]
    BY DEF InsertClient
  <1> HIDE DEF row
  <1>4. /\ clients' \in [ClientIds -> ClientRow \cup {None}]
        /\ clients'[c] = row
        /\ \A d \in ClientIds \ {c} : clients'[d] = clients[d]
    BY <1>1, <1>2, <1>3 DEF AppInv, TypeOK
  <1>5. ClientsAgree'
    BY <1>2, <1>4 DEF AppInv, ClientsAgree
  <1>6. \A d \in ClientIds : clients[d] # None => clients[d].secret # x
    BY DEF FreshSecret
  <1>7. OwnSecrets'
    BY <1>1, <1>2, <1>4, <1>6 DEF AppInv, OwnSecrets
  <1>8. ShownIsStored'
    <2> SUFFICES ASSUME NEW s \in shown
                 PROVE  clients'[s[1]] # None /\ clients'[s[1]].secret = s[2]
      BY DEF ShownIsStored
    <2>1. s[1] \in ClientIds /\ clients[s[1]] # None /\ clients[s[1]].secret = s[2]
      BY DEF AppInv, ShownIsStored, TypeOK
    <2> QED
      BY <1>1, <1>4, <2>1
  <1> QED
    BY <1>1, <1>4, <1>5, <1>7, <1>8 DEF row

-----------------------------------------------------------------------------
(* One lemma per action.                                                   *)

\* Empty tables, idle tabs.
LEMMA AppInvInit == Init => AppInv
  <1> SUFFICES ASSUME Init PROVE AppInv
    OBVIOUS
  <1>1. TypeOK
    BY DEF Init, TypeOK, Unset
  <1>2. \A p \in Procs : TabKnows(p)
    BY DEF Init, TabKnows
  <1>3. ClientsAgree /\ OwnSecrets /\ ShownIsStored /\ NoHalfRegistration /\ EditsAddUp
    BY DEF Init, ClientsAgree, OwnSecrets, ShownIsStored, NoHalfRegistration, EditsAddUp
  <1> QED
    BY <1>1, <1>2, <1>3 DEF AppInv

\* A request ends and the tables are as they were.
LEMMA FinishKeepsInv ==
    ASSUME AppInv, NEW p \in Procs, Finish(p), UNCHANGED <<tables, shown, edits>>
    PROVE  AppInv'
  BY FinishEffect, TablesStand, TabStepKeepsInv

\* A registration request arrives with its two forms.
LEMMA RegisterBeginKeepsInv ==
    ASSUME AppInv, NEW p \in Procs, NEW f \in Forms, RegisterBegin(p, f)
    PROVE  AppInv'
  <1>1. f[1] \in AppForm /\ f[2] \in ClientForms
    BY FormParts
  <1>2. Begin(p, "register", None, f[1], f[2])
    BY DEF RegisterBegin
  <1>3. TableInv' /\ TablesGrow
    BY <1>2, TablesStand DEF Begin
  <1>4. LocalTypeOK'
    BY <1>1, <1>2 DEF Begin, AppInv, TypeOK, LocalTypeOK
  <1>5. TabKnows(p)'
    BY <1>1, <1>2 DEF Begin, AppInv, TypeOK, TabKnows
  <1>6. \A q \in Procs \ {p} : SameTab(q)
    BY <1>2 DEF Begin, AppInv, TypeOK, SameTab
  <1> QED
    BY <1>3, <1>4, <1>5, <1>6, TabStepKeepsInv

\* A request for another client of an app that is there.
LEMMA ClientBeginKeepsInv ==
    ASSUME AppInv, NEW p \in Procs, NEW a \in AppIds, NEW g \in ClientForms,
           ClientBegin(p, a, g)
    PROVE  AppInv'
  <1>1. apps[a] # None /\ Begin(p, "create", a, None, g)
    BY DEF ClientBegin
  <1>2. TableInv' /\ TablesGrow /\ UNCHANGED apps
    BY <1>1, TablesStand DEF Begin, tables
  <1>3. LocalTypeOK'
    BY <1>1 DEF Begin, AppInv, TypeOK, LocalTypeOK
  <1>4. TabKnows(p)'
    BY <1>1, <1>2 DEF Begin, AppInv, TypeOK, TabKnows
  <1>5. \A q \in Procs \ {p} : SameTab(q)
    BY <1>1 DEF Begin, AppInv, TypeOK, SameTab
  <1> QED
    BY <1>2, <1>3, <1>4, <1>5, TabStepKeepsInv

\* The edit page shows the app as it is.
LEMMA AppEditKeepsInv ==
    ASSUME AppInv, NEW p \in Procs, NEW a \in AppIds, AppEdit(p, a)
    PROVE  AppInv'
  <1>1. TableInv' /\ TablesGrow /\ UNCHANGED apps
    BY TablesStand DEF AppEdit, tables
  <1>2. apps[a] \in AppRow
    BY DEF AppEdit, AppInv, TypeOK
  <1>3. LocalTypeOK'
    BY <1>2 DEF AppEdit, AppInv, TypeOK, LocalTypeOK
  <1>4. TabKnows(p)'
    BY <1>1, <1>2 DEF AppEdit, AppInv, TypeOK, TabKnows
  <1>5. \A q \in Procs \ {p} : SameTab(q)
    BY DEF AppEdit, AppInv, TypeOK, SameTab
  <1> QED
    BY <1>1, <1>3, <1>4, <1>5, TabStepKeepsInv

\* What an operator makes of the page of an app is a form.
LEMMA ChangesAreForms ==
    ASSUME NEW row \in AppRow
    PROVE  Changes(row) \subseteq AppForm
  <1>1. row \in AppForm
    BY LowerAssumption DEF AppRow, AppForm
  <1>2. \A f \in AppForms : f.name \in Names \cup {None} /\ f.scopes \in SUBSET Spellings
    BY FormParts DEF AppForm
  <1>3. \A n \in Names \cup {None} : [row EXCEPT !.name = n] \in AppForm
    BY <1>1 DEF AppForm
  <1>4. \A b \in BOOLEAN : [row EXCEPT !.firstParty = b] \in AppForm
    BY <1>1 DEF AppForm
  <1>5. \A x \in SUBSET Spellings : [row EXCEPT !.scopes = x] \in AppForm
    BY <1>1 DEF AppForm
  <1> QED
    BY <1>2, <1>3, <1>4, <1>5 DEF Changes

\* The operator sends the page back.
LEMMA SubmitKeepsInv ==
    ASSUME AppInv, NEW p \in Procs, Submit(p)
    PROVE  AppInv'
  <1>1. TableInv' /\ TablesGrow /\ UNCHANGED apps
    BY TablesStand DEF Submit, tables
  <1>2. pc[p] = "page" /\ page[p] \in AppRow
    BY DEF Submit, AppInv, TabKnows
  <1>3. PICK f \in AppForm : appForm' = [appForm EXCEPT ![p] = f]
    BY <1>2, ChangesAreForms DEF Submit
  <1>4. LocalTypeOK'
    BY <1>3 DEF Submit, AppInv, TypeOK, LocalTypeOK
  <1>5. TabKnows(p)'
    BY <1>1, <1>2, <1>3 DEF Submit, AppInv, TypeOK, TabKnows
  <1>6. \A q \in Procs \ {p} : SameTab(q)
    BY DEF Submit, AppInv, TypeOK, SameTab
  <1> QED
    BY <1>1, <1>4, <1>5, <1>6, TabStepKeepsInv

\* An app is stored together with its first client.
LEMMA RegisterStores ==
    ASSUME AppInv, NEW p \in Procs, NEW a \in AppIds, NEW c \in FreshId,
           NEW x \in FreshSecret, NEW f \in AppForm, NEW g \in ClientForm,
           ValidApp(f), ValidClient(g), InsertApp(a, f),
           InsertClient(c, ClientOf(g, a, x)), UNCHANGED shown,
           Stored(p, c, ClientOf(g, a, x).secret) \/ Finish(p)
    PROVE  AppInv'
  <1> DEFINE row == Inserted(AppOf(f))
             client == ClientOf(g, a, x)
  <1>1. AppOf(f) \in AppRow /\ row \in AppRow /\ f.firstParty \in BOOLEAN
    BY AppOfIsRow, InsertedIsRow DEF AppForm
  <1>2. row # None
    BY <1>1, NoneAssumption
  <1>3. /\ clients' \in [ClientIds -> ClientRow \cup {None}]
        /\ clients'[c] = client /\ c \in ClientIds
        /\ \A d \in ClientIds \ {c} : clients'[d] = clients[d]
        /\ \A d \in ClientIds : clients[d] # None => clients'[d] = clients[d]
        /\ ClientsAgree' /\ OwnSecrets' /\ ShownIsStored'
    BY InsertClientEffect
  <1>4. /\ client # None /\ client.app = a /\ client.secret \in Secrets \cup {None}
    BY ClientOfIsRow DEF FreshSecret
  <1>5. /\ apps[a] = None
        /\ apps' = [apps EXCEPT ![a] = row]
        /\ asked' = [asked EXCEPT ![a] = f.firstParty]
        /\ intended' = [intended EXCEPT ![a] = row]
    BY AppOfIsMeant DEF InsertApp
  <1> HIDE DEF row, client
  <1>6. TableTypeOK'
    BY <1>1, <1>3, <1>5 DEF TableTypeOK, AppInv, TypeOK
  <1>7. apps'[a] = row /\ \A b \in AppIds \ {a} : apps'[b] = apps[b]
    BY <1>5 DEF AppInv, TypeOK
  <1>8. NoHalfRegistration'
    <2>1. ASSUME NEW b \in AppIds, apps'[b] # None
          PROVE  \E d \in ClientIds : clients'[d] # None /\ clients'[d].app = b
      <3>1. CASE b = a
        BY <1>3, <1>4, <3>1
      <3>2. CASE b # a
        <4>1. PICK d \in ClientIds : clients[d] # None /\ clients[d].app = b
          BY <1>7, <2>1, <3>2 DEF AppInv, NoHalfRegistration
        <4> QED
          BY <1>3, <4>1
      <3> QED
        BY <3>1, <3>2
    <2>2. ASSUME NEW d \in ClientIds, clients'[d] # None
          PROVE  apps'[clients'[d].app] # None
      <3>1. CASE d = c
        BY <1>2, <1>3, <1>4, <1>7, <3>1
      <3>2. CASE d # c
        <4>1. clients'[d] = clients[d] /\ clients[d] # None
          BY <1>3, <2>2, <3>2
        <4>2. clients[d].app \in AppIds /\ apps[clients[d].app] # None
          BY <4>1 DEF AppInv, NoHalfRegistration, TypeOK, ClientRow
        <4> QED
          BY <1>2, <1>7, <4>1, <4>2
      <3> QED
        BY <3>1, <3>2
    <2> QED
      BY <2>1, <2>2 DEF NoHalfRegistration
  <1>9. EditsAddUp'
    BY <1>5 DEF EditsAddUp, AppInv, TypeOK
  <1>10. TableInv' /\ TablesGrow
    BY <1>2, <1>3, <1>6, <1>7, <1>8, <1>9 DEF TableInv, TablesGrow
  <1>11. LocalTypeOK' /\ TabKnows(p)' /\ \A q \in Procs \ {p} : SameTab(q)
    <2>1. CASE Finish(p)
      BY <2>1, FinishEffect
    <2>2. CASE Stored(p, c, client.secret)
      BY <1>3, <1>4, <2>2, StoredEffect
    <2> QED
      BY <2>1, <2>2 DEF client
  <1> QED
    BY <1>10, <1>11, TabStepKeepsInv

\* RegisterApp stores both rows, or neither.
LEMMA RegisterAppKeepsInv ==
    ASSUME AppInv, NEW p \in Procs, RegisterApp(p)
    PROVE  AppInv'
  <1>1. pc[p] = "register" /\ UNCHANGED shown
    BY DEF RegisterApp
  <1>2. appForm[p] \in AppForm /\ clientForm[p] \in ClientForm
    BY <1>1, FormParts DEF AppInv, TabKnows
  <1>3. CASE Finish(p) /\ UNCHANGED <<tables, edits>>
    BY <1>1, <1>3, FinishKeepsInv
  <1>4. CASE ~(Finish(p) /\ UNCHANGED <<tables, edits>>)
    <2>1. ValidApp(appForm[p]) /\ ValidClient(clientForm[p])
      BY <1>4 DEF RegisterApp
    <2>2. PICK a \in AppIds, c \in FreshId, x \in FreshSecret :
             LET client == ClientOf(clientForm[p], a, x)
             IN  /\ InsertApp(a, appForm[p])
                 /\ InsertClient(c, client)
                 /\ Stored(p, c, client.secret) \/ Finish(p)
      BY <1>4, Zenon DEF RegisterApp
    <2> QED
      BY <1>1, <1>2, <2>1, <2>2, RegisterStores
  <1> QED
    BY <1>3, <1>4

\* A client is added to an app that is there.
LEMMA CreateStores ==
    ASSUME AppInv, NEW p \in Procs, NEW a \in AppIds, apps[a] # None, NEW c \in FreshId,
           NEW x \in FreshSecret, NEW g \in ClientForm, ValidClient(g),
           InsertClient(c, ClientOf(g, a, x)), UNCHANGED <<apps, shown, edits>>,
           Stored(p, c, ClientOf(g, a, x).secret) \/ Finish(p)
    PROVE  AppInv'
  <1> DEFINE client == ClientOf(g, a, x)
  <1>1. /\ clients' \in [ClientIds -> ClientRow \cup {None}]
        /\ clients'[c] = client /\ c \in ClientIds
        /\ \A d \in ClientIds \ {c} : clients'[d] = clients[d]
        /\ \A d \in ClientIds : clients[d] # None => clients'[d] = clients[d]
        /\ ClientsAgree' /\ OwnSecrets' /\ ShownIsStored'
    BY InsertClientEffect
  <1>2. client # None /\ client.app = a /\ client.secret \in Secrets \cup {None}
    BY ClientOfIsRow DEF FreshSecret
  <1> HIDE DEF client
  <1>3. TableTypeOK' /\ EditsAddUp'
    BY <1>1 DEF TableTypeOK, EditsAddUp, AppInv, TypeOK, edits
  <1>4. NoHalfRegistration'
    <2>1. \A b \in AppIds : apps[b] # None =>
              \E d \in ClientIds : clients'[d] # None /\ clients'[d].app = b
      BY <1>1 DEF AppInv, NoHalfRegistration
    <2>2. \A d \in ClientIds : clients'[d] # None => apps[clients'[d].app] # None
      BY <1>1, <1>2 DEF AppInv, NoHalfRegistration
    <2> QED
      BY <2>1, <2>2 DEF NoHalfRegistration
  <1>5. TableInv' /\ TablesGrow
    BY <1>1, <1>3, <1>4 DEF TableInv, TablesGrow
  <1>6. LocalTypeOK' /\ TabKnows(p)' /\ \A q \in Procs \ {p} : SameTab(q)
    <2>1. CASE Finish(p)
      BY <2>1, FinishEffect
    <2>2. CASE Stored(p, c, client.secret)
      BY <1>1, <1>2, <2>2, StoredEffect
    <2> QED
      BY <2>1, <2>2 DEF client
  <1> QED
    BY <1>5, <1>6, TabStepKeepsInv

\* CreateClient stores the client, or nothing.
LEMMA CreateClientKeepsInv ==
    ASSUME AppInv, NEW p \in Procs, CreateClient(p)
    PROVE  AppInv'
  <1>1. pc[p] = "create" /\ UNCHANGED <<apps, shown, edits>>
    BY DEF CreateClient
  <1>2. target[p] \in AppIds /\ apps[target[p]] # None /\ clientForm[p] \in ClientForm
    BY <1>1, FormParts DEF AppInv, TabKnows
  <1>3. CASE Finish(p) /\ UNCHANGED clients
    BY <1>1, <1>3, FinishKeepsInv DEF tables
  <1>4. CASE ~(Finish(p) /\ UNCHANGED clients)
    <2>1. ValidClient(clientForm[p])
      BY <1>4 DEF CreateClient
    <2>2. PICK c \in FreshId, x \in FreshSecret :
             LET client == ClientOf(clientForm[p], target[p], x)
             IN  /\ InsertClient(c, client)
                 /\ Stored(p, c, client.secret) \/ Finish(p)
      BY <1>4, Zenon DEF CreateClient
    <2> QED
      BY <1>1, <1>2, <2>1, <2>2, CreateStores
  <1> QED
    BY <1>3, <1>4

\* The page shows what is stored.
LEMMA AnswerKeepsInv ==
    ASSUME AppInv, NEW p \in Procs, Answer(p)
    PROVE  AppInv'
  <1>1. /\ clientId[p] \in ClientIds /\ clients[clientId[p]] # None
        /\ clients[clientId[p]].secret = secret[p]
    BY DEF Answer, AppInv, TabKnows
  <1>2. UNCHANGED <<apps, clients, asked, intended>>
    BY DEF Answer, tables, edits
  <1>3. shown' = shown \cup {<<clientId[p], secret[p]>>} /\ Finish(p)
    BY DEF Answer
  <1>4. TableTypeOK'
    BY <1>1, <1>2, <1>3 DEF AppInv, TypeOK, TableTypeOK
  <1>5. ShownIsStored'
    BY <1>1, <1>2, <1>3 DEF AppInv, ShownIsStored
  <1>6. ClientsAgree' /\ OwnSecrets' /\ NoHalfRegistration' /\ EditsAddUp'
    BY <1>2 DEF AppInv, ClientsAgree, OwnSecrets, NoHalfRegistration, EditsAddUp
  <1>7. TableInv' /\ TablesGrow
    BY <1>2, <1>4, <1>5, <1>6 DEF TableInv, TablesGrow
  <1> QED
    BY <1>3, <1>7, FinishEffect, TabStepKeepsInv

\* Changes made to the row the page shows make the row that was sent.
LEMMA MergeOnCurrentPage ==
    ASSUME NEW row \in AppRow, NEW f
    PROVE  Merge(row, row, AppOf(f)) = AppOf(f)
  BY DEF Merge, AppOf

\* UpdateApp replaces the row: if the page was up to date that applies the
\* operator's changes to what was intended, and nothing else.
LEMMA UpdateStores ==
    ASSUME AppInv, NEW p \in Procs, NEW a \in AppIds, apps[a] # None, page[p] \in AppRow,
           NEW f \in AppForm, ValidApp(f), apps' = [apps EXCEPT ![a] = AppOf(f)],
           Edited(p, a, f), Finish(p), UNCHANGED <<clients, shown>>
    PROVE  AppInv'
  <1> DEFINE row == AppOf(f)
             kept == IF intended[a] = None \/ apps[a] # page[p] THEN None
                     ELSE Merge(intended[a], page[p], row)
  <1>1. row \in AppRow /\ row # None
    BY AppOfIsRow, NoneAssumption
  <1>2. kept \in {None, row}
    <2> SUFFICES ASSUME intended[a] # None, apps[a] = page[p]
                 PROVE  Merge(intended[a], page[p], row) = row
      OBVIOUS
    <2>1. intended[a] = page[p]
      BY DEF AppInv, EditsAddUp
    <2> QED
      BY <2>1, MergeOnCurrentPage
  <1>3. /\ apps' = [apps EXCEPT ![a] = row]
        /\ asked' = [asked EXCEPT ![a] = None]
        /\ intended' = [intended EXCEPT ![a] = kept]
    BY AppOfIsMeant DEF Edited
  <1> HIDE DEF row, kept
  <1>4. TableTypeOK'
    BY <1>1, <1>2, <1>3 DEF TableTypeOK, AppInv, TypeOK
  <1>5. apps'[a] = row /\ \A b \in AppIds \ {a} : apps'[b] = apps[b]
    BY <1>3 DEF AppInv, TypeOK
  <1>6. EditsAddUp'
    BY <1>2, <1>3, <1>5 DEF EditsAddUp, AppInv, TypeOK
  <1>7. NoHalfRegistration'
    <2>1. \A c \in ClientIds : clients[c] # None => clients[c].app \in AppIds
      BY DEF AppInv, TypeOK, ClientRow
    <2> QED
      BY <1>1, <1>5, <2>1 DEF AppInv, NoHalfRegistration
  <1>8. ClientsAgree' /\ OwnSecrets' /\ ShownIsStored'
    BY DEF AppInv, ClientsAgree, OwnSecrets, ShownIsStored
  <1>9. TableInv' /\ TablesGrow
    BY <1>1, <1>4, <1>5, <1>6, <1>7, <1>8 DEF TableInv, TablesGrow
  <1> QED
    BY <1>9, FinishEffect, TabStepKeepsInv

\* A page that is sent is stored, or shown again.
LEMMA UpdateAppKeepsInv ==
    ASSUME AppInv, NEW p \in Procs, UpdateApp(p)
    PROVE  AppInv'
  <1>1. pc[p] = "update" /\ Finish(p) /\ UNCHANGED <<clients, shown>>
    BY DEF UpdateApp
  <1>2. /\ target[p] \in AppIds /\ apps[target[p]] # None
        /\ page[p] \in AppRow /\ appForm[p] \in AppForm
    BY <1>1 DEF AppInv, TabKnows
  <1>3. CASE UNCHANGED <<apps, edits>>
    BY <1>1, <1>3, FinishKeepsInv DEF tables
  <1>4. CASE ~UNCHANGED <<apps, edits>>
    BY <1>1, <1>2, <1>4, UpdateStores DEF UpdateApp
  <1> QED
    BY <1>3, <1>4

\* A kill leaves the tables and the pages in the browsers.
LEMMA CrashKeepsInv ==
    ASSUME AppInv, Crash
    PROVE  AppInv'
  <1>1. TableInv' /\ UNCHANGED <<apps, clients>>
    BY TablesStand DEF Crash, tables
  <1>2. LocalTypeOK'
    BY DEF Crash, AppInv, TypeOK, LocalTypeOK, Unset
  <1>3. ASSUME NEW p \in Procs PROVE TabKnows(p)'
    <2>1. pc'[p] \in {"page", "idle"}
      BY DEF Crash
    <2>2. pc'[p] = "page" => pc[p] = "page" /\ target'[p] = target[p] /\ page'[p] = page[p]
      BY DEF Crash
    <2> QED
      BY <1>1, <2>1, <2>2 DEF AppInv, TabKnows
  <1> QED
    BY <1>1, <1>2, <1>3 DEF AppInv, TableInv, TypeOK, LocalTypeOK, TableTypeOK

-----------------------------------------------------------------------------
\* Every step of every tab, and a kill of the process, preserves AppInv.
LEMMA AppInvStep == AppInv /\ [Next]_vars => AppInv'
  <1> SUFFICES ASSUME AppInv, [Next]_vars PROVE AppInv'
    OBVIOUS
  <1>1. ASSUME NEW p \in Procs, NEW f \in Forms, RegisterBegin(p, f) PROVE AppInv'
    BY <1>1, RegisterBeginKeepsInv
  <1>2. ASSUME NEW p \in Procs, NEW a \in AppIds, NEW g \in ClientForms,
               ClientBegin(p, a, g)
        PROVE  AppInv'
    BY <1>2, ClientBeginKeepsInv
  <1>3. ASSUME NEW p \in Procs, NEW a \in AppIds, AppEdit(p, a) PROVE AppInv'
    BY <1>3, AppEditKeepsInv
  <1>4. ASSUME NEW p \in Procs, RegisterApp(p) \/ CreateClient(p) \/ Answer(p)
        PROVE  AppInv'
    BY <1>4, RegisterAppKeepsInv, CreateClientKeepsInv, AnswerKeepsInv
  <1>5. ASSUME NEW p \in Procs, Submit(p) \/ UpdateApp(p) PROVE AppInv'
    BY <1>5, SubmitKeepsInv, UpdateAppKeepsInv
  <1>6. CASE UNCHANGED vars
    <2>1. UNCHANGED <<tables, shown, edits>> /\ UNCHANGED locals
      BY <1>6 DEF vars
    <2>2. TableInv' /\ UNCHANGED <<apps, clients>>
      BY <2>1, TablesStand DEF tables
    <2>3. LocalTypeOK' /\ \A p \in Procs : TabKnows(p)'
      BY <2>1, <2>2 DEF AppInv, TypeOK, LocalTypeOK, TabKnows, locals
    <2> QED
      BY <2>2, <2>3 DEF AppInv, TableInv, TypeOK, LocalTypeOK, TableTypeOK
  <1> QED
    BY <1>1, <1>2, <1>3, <1>4, <1>5, <1>6, CrashKeepsInv DEF Next

\* AppInv holds of every state the pages and tables reach.
LEMMA AppInvariant == Spec => []AppInv
  BY AppInvInit, AppInvStep, PTL DEF Spec

\* The tables hold only valid rows, with redirect URIs fit to carry a code, and
\* the handlers keep their types.
THEOREM TypeCorrect == Spec => []TypeOK
  <1>1. AppInv => TypeOK
    BY DEF AppInv
  <1> QED
    BY <1>1, AppInvariant, PTL

\* There is no app without a client and no client without its app, whatever
\* fails, is refused or is killed on the way.
THEOREM NothingHalfRegistered == Spec => []NoHalfRegistration
  <1>1. AppInv => NoHalfRegistration
    BY DEF AppInv
  <1> QED
    BY <1>1, AppInvariant, PTL

\* The credentials every registration page has shown are accepted by the token
\* endpoint, and a confidential client's for that client only.
THEOREM ShownWorks == Spec => []ShownCredentialsWork
  <1>1. AppInv => ShownCredentialsWork
    <2> SUFFICES ASSUME AppInv, NEW s \in shown
                 PROVE  /\ clients[s[1]] # None
                        /\ Authenticates(s[1], s[2])
                        /\ \A c \in ClientIds \ {s[1]} :
                              clients[c] # None /\ clients[c].type = "confidential"
                                  => ~Authenticates(c, s[2])
      BY DEF ShownCredentialsWork
    <2>1. /\ s[1] \in ClientIds /\ clients[s[1]] # None
          /\ clients[s[1]].secret = s[2]
      BY DEF AppInv, ShownIsStored, TypeOK
    <2>2. Authenticates(s[1], s[2])
      BY <2>1 DEF Authenticates, AppInv, ClientsAgree
    <2>3. ASSUME NEW c \in ClientIds \ {s[1]}, clients[c] # None,
                 clients[c].type = "confidential"
          PROVE  ~Authenticates(c, s[2])
      BY <2>1, <2>3 DEF Authenticates, AppInv, OwnSecrets
    <2> QED
      BY <2>1, <2>2, <2>3
  <1> QED
    BY <1>1, AppInvariant, PTL

\* An app is what it was registered as with every operator's changes applied,
\* unless it was once stored from a page that was out of date.
THEOREM EditsKept == Spec => []EditsAddUp
  <1>1. AppInv => EditsAddUp
    BY DEF AppInv
  <1> QED
    BY <1>1, AppInvariant, PTL
=============================================================================
