------------------------------ MODULE AppAdmin ------------------------------
(***************************************************************************)
(* The registration of applications and their clients: the admin pages     *)
(* (internal/admin/apps.go, clients.go), AppService behind them            *)
(* (service/app_service.go) and the tables applications and oauth_clients. *)
(*                                                                         *)
(* RegisterApp checks a form, draws credentials and stores the app with    *)
(* its first client in one transaction; CreateClient adds a client.  A     *)
(* client's secret is kept as a hash and shown once, on the page that      *)
(* answers the request.  An app is edited on a page that shows all of it   *)
(* and, whenever it is sent, replaces all of it (UpdateApp), so two such   *)
(* pages open at once can undo each other.  Nothing is deleted.            *)
(*                                                                         *)
(* A redirect URI is a record of what ValidateRedirectURI asks of it.  A   *)
(* secret and its hash are one value.  Environment, post-logout URIs and   *)
(* origins are stored and read by nobody: of them a form keeps whether     *)
(* they pass their checks (rest).                                          *)
(***************************************************************************)
EXTENDS Integers, FiniteSets

CONSTANTS
    Procs,       \* browser tabs, each with one request at a time
    AppIds,      \* primary keys of applications
    ClientIds,   \* client ids that can be drawn
    Secrets,     \* client secrets that can be drawn
    Names,       \* names of apps
    Spellings,   \* scopes as they can be typed
    Lower,       \* strings.ToLower on them
    Forms,       \* registration forms operators send: <<app part, client part>>
    None,        \* no row, no id, no secret, an empty field
    DBFaults,    \* whether database calls may fail
    Crashes      \* whether the process may be killed

SupportedScopes == {"openid", "profile", "email"}

URI == [absolute : BOOLEAN, scheme : {"https", "http", "other"}, loopback : BOOLEAN,
        fragment : BOOLEAN, wildcard : BOOLEAN]
ClientForm == [type : {"confidential", "public", "other"}, redirects : SUBSET URI,
               rest : BOOLEAN]
AppForm == [name : Names \cup {None}, firstParty : BOOLEAN, scopes : SUBSET Spellings]

AppForms == {f[1] : f \in Forms}
ClientForms == {f[2] : f \in Forms}

AppRow == [name : Names, firstParty : BOOLEAN, scopes : SUBSET SupportedScopes]

\* A redirect URI fit to carry a code: nobody on the network reads it, and it
\* names one place.
SafeURI == {u \in URI : /\ u.absolute /\ ~u.fragment /\ ~u.wildcard
                        /\ u.scheme = "https" \/ (u.scheme = "http" /\ u.loopback)}
ClientRow == [app : AppIds, type : {"confidential", "public"},
              method : {"client_secret_basic", "none"},
              secret : Secrets \cup {None}, redirects : (SUBSET SafeURI) \ {{}}]

ASSUME FormsAssumption == Forms \subseteq AppForm \X ClientForm
ASSUME LowerAssumption ==
    /\ SupportedScopes \subseteq Spellings /\ DOMAIN Lower = Spellings
    /\ \A x \in SupportedScopes : Lower[x] = x
ASSUME FaultsAssumption == DBFaults \in BOOLEAN /\ Crashes \in BOOLEAN
ASSUME NoneAssumption ==
    /\ None \notin Names /\ None \notin AppIds /\ None \notin ClientIds /\ None \notin Secrets
    /\ None \notin AppForm /\ None \notin ClientForms
    /\ None \notin AppRow /\ None \notin ClientRow

VARIABLES
    apps,        \* the applications table
    clients,     \* the oauth_clients table, by client id
    pc,          \* where each tab's request is
    target,      \* the app its address names
    page,        \* the app as an edit page shows it
    appForm,     \* the app part of the form that was sent
    clientForm,  \* the client part
    clientId,    \* the client id it has drawn
    secret,      \* the secret it has drawn
    shown,       \* history: <<client id, secret>> operators have been shown
    asked,       \* history: the first-party box of an app not edited yet
    intended     \* history: each app with every change made to it since, but
                 \* None once it was stored from a page that was out of date

tables == <<apps, clients>>
locals == <<pc, target, page, appForm, clientForm, clientId, secret>>
edits == <<asked, intended>>
vars == <<tables, locals, shown, edits>>

TypeOK ==
    /\ apps \in [AppIds -> AppRow \cup {None}]
    /\ clients \in [ClientIds -> ClientRow \cup {None}]
    /\ pc \in [Procs -> {"idle", "register", "create", "page", "update", "answer"}]
    /\ target \in [Procs -> AppIds \cup {None}]
    /\ page \in [Procs -> AppRow \cup {None}]
    /\ appForm \in [Procs -> AppForm \cup {None}]
    /\ clientForm \in [Procs -> ClientForms \cup {None}]
    /\ clientId \in [Procs -> ClientIds \cup {None}]
    /\ secret \in [Procs -> Secrets \cup {None}]
    /\ shown \in SUBSET (ClientIds \X (Secrets \cup {None}))
    /\ asked \in [AppIds -> BOOLEAN \cup {None}]
    /\ intended \in [AppIds -> AppRow \cup {None}]

Unset == [p \in Procs |-> None]

Init ==
    /\ apps = [a \in AppIds |-> None]
    /\ clients = [c \in ClientIds |-> None]
    /\ pc = [p \in Procs |-> "idle"]
    /\ target = Unset
    /\ page = Unset
    /\ appForm = Unset
    /\ clientForm = Unset
    /\ clientId = Unset
    /\ secret = Unset
    /\ shown = {}
    /\ asked = [a \in AppIds |-> None]
    /\ intended = [a \in AppIds |-> None]

-----------------------------------------------------------------------------
(* Validation and construction.                                            *)

\* Faulty variant: http is good enough for any host.
ValidateSchemeOnly(u) ==
    /\ ~u.wildcard
    /\ u.absolute
    /\ ~u.fragment
    /\ u.scheme \in {"https", "http"}

\* oauth.ValidateRedirectURI
ValidateRedirectURI(u) ==
    /\ ~u.wildcard
    /\ u.absolute
    /\ ~u.fragment
    /\ u.scheme = "https" \/ (u.scheme = "http" /\ u.loopback)

\* buildClient's checks.
ValidClient(f) ==
    /\ f.type \in {"confidential", "public"}
    /\ f.redirects # {}
    /\ \A u \in f.redirects : ValidateRedirectURI(u)
    /\ f.rest

\* normalizeScopes lower-cases and drops repetitions; one scope it does not
\* know and the form is refused.
normalizeScopes(scopes) == {Lower[x] : x \in scopes}

ValidApp(f) == f.name # None /\ normalizeScopes(f.scopes) \subseteq SupportedScopes

\* The row UpdateApp writes, and the one buildRegistration asks for.
AppOf(f) ==
    [name |-> f.name, firstParty |-> f.firstParty, scopes |-> normalizeScopes(f.scopes)]

\* What the operator who sends f wants: the name and the box as they are on
\* the form, and every scope that was typed, in capitals or not.
Meant(f) ==
    [name |-> f.name, firstParty |-> f.firstParty,
     scopes |-> {s \in SupportedScopes : \E x \in f.scopes : Lower[x] = s}]

\* Faulty variant: the method is left at the column's default, "none".
ClientWithoutMethod(f, a, x) ==
    [app |-> a, type |-> f.type, method |-> "none",
     secret |-> IF f.type = "confidential" THEN x ELSE None,
     redirects |-> f.redirects]

\* buildClient: only confidential clients get a secret.  No page has a field
\* for the method, which then follows from the type.
ClientOf(f, a, x) ==
    [app |-> a, type |-> f.type,
     method |-> IF f.type = "confidential" THEN "client_secret_basic" ELSE "none",
     secret |-> IF f.type = "confidential" THEN x ELSE None,
     redirects |-> f.redirects]

\* What GORM's Create inserts: a field with its zero value is given the
\* default its tag names, and the tag of FirstParty says default:true.
Inserted(row) == [row EXCEPT !.firstParty = IF row.firstParty THEN row.firstParty ELSE TRUE]

\* authenticateTokenClient, for a client that sends x as its Basic password.
Authenticates(c, x) ==
    \/ clients[c].type # "confidential"
    \/ /\ clients[c].method = "client_secret_basic"
       /\ clients[c].secret # None /\ clients[c].secret = x

-----------------------------------------------------------------------------
\* The page is sent and the goroutine ends.
Finish(p) ==
    /\ pc' = [pc EXCEPT ![p] = "idle"]
    /\ target' = [target EXCEPT ![p] = None]
    /\ page' = [page EXCEPT ![p] = None]
    /\ appForm' = [appForm EXCEPT ![p] = None]
    /\ clientForm' = [clientForm EXCEPT ![p] = None]
    /\ clientId' = [clientId EXCEPT ![p] = None]
    /\ secret' = [secret EXCEPT ![p] = None]

\* A request; those for an app that is there have passed loadApp.
Begin(p, label, a, f, g) ==
    /\ pc[p] = "idle"
    /\ pc' = [pc EXCEPT ![p] = label]
    /\ target' = [target EXCEPT ![p] = a]
    /\ appForm' = [appForm EXCEPT ![p] = f]
    /\ clientForm' = [clientForm EXCEPT ![p] = g]
    /\ UNCHANGED <<tables, page, clientId, secret, shown, edits>>

\* generateClientID and generateClientSecret never repeat themselves.
FreshId == {c \in ClientIds : clients[c] = None /\ \A p \in Procs : clientId[p] # c}
FreshSecret ==
    {x \in Secrets : /\ \A c \in ClientIds : clients[c] = None \/ clients[c].secret # x
                     /\ \A p \in Procs : secret[p] # x
                     /\ \A s \in shown : s[2] # x}

\* Bound: ids and secrets are left for every request in flight.
IdsLeft ==
    LET busy == Cardinality({p \in Procs : pc[p] \in {"register", "create"}})
    IN  /\ busy < Cardinality(FreshId) /\ busy < Cardinality(FreshSecret)
AppIdsLeft ==
    Cardinality({p \in Procs : pc[p] = "register"})
        < Cardinality({a \in AppIds : apps[a] = None})

\* The registration is stored; the page with its credentials is still to be
\* sent.
Stored(p, c, x) ==
    /\ pc' = [pc EXCEPT ![p] = "answer"]
    /\ target' = [target EXCEPT ![p] = None]
    /\ appForm' = [appForm EXCEPT ![p] = None]
    /\ clientForm' = [clientForm EXCEPT ![p] = None]
    /\ clientId' = [clientId EXCEPT ![p] = c]
    /\ secret' = [secret EXCEPT ![p] = x]
    /\ UNCHANGED page

-----------------------------------------------------------------------------
(* POST /admin/apps                                                        *)

RegisterBegin(p, f) == IdsLeft /\ AppIdsLeft /\ Begin(p, "register", None, f[1], f[2])

\* CreateWithClient's INSERTs.
InsertApp(a, f) ==
    /\ apps[a] = None
    /\ apps' = [apps EXCEPT ![a] = Inserted(AppOf(f))]
    /\ asked' = [asked EXCEPT ![a] = f.firstParty]
    /\ intended' = [intended EXCEPT ![a] = Inserted(Meant(f))]
InsertClient(c, row) == clients' = [clients EXCEPT ![c] = row]

\* Faulty variant: the two INSERTs are not one transaction.
RegisterAppPiecemeal(p) ==
    /\ pc[p] = "register"
    /\ ValidApp(appForm[p]) /\ ValidClient(clientForm[p])
    /\ \E a \in AppIds : InsertApp(a, appForm[p])
    /\ Finish(p)
    /\ UNCHANGED <<clients, shown>>

\* A form that is wrong is shown again.  A transaction that reports an error
\* has been rolled back, or committed and its answer lost.
RegisterApp(p) ==
    LET valid == ValidApp(appForm[p]) /\ ValidClient(clientForm[p])
    IN  /\ pc[p] = "register"
        /\ \/ valid /\ \E a \in AppIds, c \in FreshId, x \in FreshSecret :
                 LET client == ClientOf(clientForm[p], a, x)
                 IN  /\ InsertApp(a, appForm[p])
                     /\ InsertClient(c, client)
                     /\ Stored(p, c, client.secret) \/ (DBFaults /\ Finish(p))
           \/ (~valid \/ DBFaults) /\ Finish(p) /\ UNCHANGED <<tables, edits>>
        /\ UNCHANGED shown

(* POST /admin/apps/{id}/clients                                           *)

ClientBegin(p, a, g) == apps[a] # None /\ IdsLeft /\ Begin(p, "create", a, None, g)

CreateClient(p) ==
    LET valid == ValidClient(clientForm[p])
    IN  /\ pc[p] = "create"
        /\ \/ valid /\ \E c \in FreshId, x \in FreshSecret :
                 LET client == ClientOf(clientForm[p], target[p], x)
                 IN  /\ InsertClient(c, client)
                     /\ Stored(p, c, client.secret) \/ (DBFaults /\ Finish(p))
           \/ (~valid \/ DBFaults) /\ Finish(p) /\ UNCHANGED clients
        /\ UNCHANGED <<apps, shown, edits>>

\* The only page that ever shows the secret.
Answer(p) ==
    /\ pc[p] = "answer"
    /\ shown' = shown \cup {<<clientId[p], secret[p]>>}
    /\ Finish(p)
    /\ UNCHANGED <<tables, edits>>

(* GET /admin/apps/{id}/edit, POST /admin/apps/{id}                        *)

\* The edit page: all of the app, as it is now.
AppEdit(p, a) ==
    /\ pc[p] = "idle"
    /\ apps[a] # None
    /\ pc' = [pc EXCEPT ![p] = "page"]
    /\ target' = [target EXCEPT ![p] = a]
    /\ page' = [page EXCEPT ![p] = apps[a]]
    /\ UNCHANGED <<tables, appForm, clientForm, clientId, secret, shown, edits>>

\* What the operator makes of it: one field is changed, or none.
Changes(row) ==
    {[row EXCEPT !.name = f.name] : f \in AppForms}
        \cup {[row EXCEPT !.firstParty = b] : b \in BOOLEAN}
        \cup {[row EXCEPT !.scopes = f.scopes] : f \in AppForms}

Submit(p) ==
    /\ pc[p] = "page"
    /\ pc' = [pc EXCEPT ![p] = "update"]
    /\ \E f \in Changes(page[p]) : appForm' = [appForm EXCEPT ![p] = f]
    /\ UNCHANGED <<tables, target, page, clientForm, clientId, secret, shown, edits>>

\* What was changed on the page is changed in row, and nothing else.
Merge(row, old, new) ==
    [name |-> IF new.name # old.name THEN new.name ELSE row.name,
     firstParty |-> IF new.firstParty # old.firstParty THEN new.firstParty ELSE row.firstParty,
     scopes |-> IF new.scopes # old.scopes THEN new.scopes ELSE row.scopes]

\* The bookkeeping of an edit of app a by p, who has sent f.
Edited(p, a, f) ==
    /\ asked' = [asked EXCEPT ![a] = None]
    /\ intended' = [intended EXCEPT ![a] =
           IF intended[a] = None \/ apps[a] # page[p] THEN None
           ELSE Merge(intended[a], page[p], Meant(f))]

\* Faulty variant: Updates without Select("*") leaves zero values out.
UpdateNonZero(p) ==
    LET row == AppOf(appForm[p])
        a == target[p]
    IN  /\ pc[p] = "update"
        /\ ValidApp(appForm[p])
        /\ apps' = [apps EXCEPT ![a] =
               [row EXCEPT !.firstParty = row.firstParty \/ apps[a].firstParty]]
        /\ Edited(p, a, appForm[p])
        /\ Finish(p)
        /\ UNCHANGED <<clients, shown>>

\* UpdateApp: every field comes from the form, every column is written.
UpdateApp(p) ==
    LET row == AppOf(appForm[p])
        a == target[p]
    IN  /\ pc[p] = "update"
        /\ \/ /\ ValidApp(appForm[p])
              /\ apps' = [apps EXCEPT ![a] = row]
              /\ Edited(p, a, appForm[p])
           \/ (~ValidApp(appForm[p]) \/ DBFaults) /\ UNCHANGED <<apps, edits>>
        /\ Finish(p)
        /\ UNCHANGED <<clients, shown>>

-----------------------------------------------------------------------------
\* The process is killed: transactions roll back, the tables stay, and so
\* do the edit pages in the browsers.
Crash ==
    LET kept(p) == pc[p] = "page"
    IN  /\ Crashes
        /\ pc' = [p \in Procs |-> IF kept(p) THEN "page" ELSE "idle"]
        /\ target' = [p \in Procs |-> IF kept(p) THEN target[p] ELSE None]
        /\ page' = [p \in Procs |-> IF kept(p) THEN page[p] ELSE None]
        /\ appForm' = Unset
        /\ clientForm' = Unset
        /\ clientId' = Unset
        /\ secret' = Unset
        /\ UNCHANGED <<tables, shown, edits>>

Next ==
    \/ \E p \in Procs, f \in Forms : RegisterBegin(p, f)
    \/ \E p \in Procs, a \in AppIds, g \in ClientForms : ClientBegin(p, a, g)
    \/ \E p \in Procs, a \in AppIds : AppEdit(p, a)
    \/ \E p \in Procs : RegisterApp(p) \/ CreateClient(p) \/ Answer(p)
    \/ \E p \in Procs : Submit(p) \/ UpdateApp(p)
    \/ Crash

Spec == Init /\ [][Next]_vars

-----------------------------------------------------------------------------
(* Properties.                                                             *)

\* "a validation or database failure leaves neither behind"
\* (CreateWithClient): no app without a client, no client without its app.
NoHalfRegistration ==
    /\ \A a \in AppIds : apps[a] # None => \E c \in ClientIds :
          clients[c] # None /\ clients[c].app = a
    /\ \A c \in ClientIds : clients[c] # None => apps[clients[c].app] # None

\* What an operator has been shown is what works: the credentials of every
\* registration page are accepted by the token endpoint, those of a
\* confidential client for that client only.
ShownCredentialsWork ==
    \A s \in shown :
        /\ clients[s[1]] # None
        /\ Authenticates(s[1], s[2])
        /\ \A c \in ClientIds \ {s[1]} :
              clients[c] # None /\ clients[c].type = "confidential" => ~Authenticates(c, s[2])

\* Nobody's edit is undone, and nothing is changed that nobody changed: an
\* app is what it was registered as with every operator's changes applied,
\* unless it was once stored from an edit page that was out of date.
EditsAddUp == \A a \in AppIds : intended[a] # None => apps[a] = intended[a]

\* The box "First-party application" of the registration form (app_new.html)
\* decides whether the app is one; left empty it makes the app what the
\* pages call "third-party" (clients.html).
RegisteredAsSubmitted ==
    \A a \in AppIds : asked[a] # None => apps[a].firstParty = asked[a]
=============================================================================
