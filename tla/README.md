# centrauth: a TLA+ verification project

centrauth is a small OpenID Connect provider written in Go. Applications send
users to `GET /authorize`; users sign in through an upstream provider (Google,
GitHub); applications exchange the resulting code at `POST /token`. An operator
configures applications, clients and providers on admin pages. This directory
models the parts of it in which requests race, answers get lost, clocks move and
processes die, checks them with TLC and proves the central ones with TLAPS.

Paths below are relative to the repository; line numbers are in `PROJECT.json`
("map").

## 1. Inventory

Everything durable is in PostgreSQL; everything else is in a handler's locals or
in the browser's cookies. Every request runs in a goroutine of its own, with no
locks in the process: only the database orders them.

| Component | State | Operations | Talks to |
|---|---|---|---|
| Authorization endpoint (`authorize.go`, `oauth/authorize.go`, `oauth/client.go`) | none; sets the `centrauth_authz` cookie | validate, prompt, issue a code, redirect an error | client, app and code tables, session middleware |
| Token endpoint (`token.go`, `oauth/pkce.go`) | none | authenticate the client, check the code, consume it, sign tokens | code, client, user tables, ID token issuer |
| Code store (`repository/code_repo.go`) | `oauth_authorization_codes` | Create, GetByCodeHash, Consume | both endpoints |
| Sessions (`session/`, `repository/*session_repo.go`, `middleware/*session.go`) | `sessions`, `operator_sessions` | Create, Validate, Revoke, RevokeAll, DeleteInactive | every handler, cleanup |
| Cleanup goroutine (`app.go`) | a ticker | DeleteInactive, hourly | both session tables |
| Setup, operator login and logout (`setup.go`, `admin/login.go`, `repository/operator_repo.go`, `service/operator_login.go`) | `operators` | count, CreateFirstOperator under an advisory lock, login, logout | operator sessions |
| Broker (`upstream_flow.go`, `upstream/upstream.go`) | the sealed `centrauth_upstream` cookie | start, callback, exchange | provider, provisioning, sessions |
| Provisioning (`service/provider_service.go`) | `users`, `user_identities` | find, link or create a user | broker |
| App, client, provider administration (`admin/`, `service/app_service.go`) | `applications`, `oauth_clients`, `identity_providers` | create, update, toggle, delete | read by both endpoints and the broker |
| Key material (`signing/keys.go`, `secrets/box.go`) | two key files | load or create | tokens, cookies, provider secrets |
| Configuration, discovery, JWKS, health, CSRF, logging, templates | none or constant | | |

What is hard here, and what makes each part correct:

* **Code flow.** Two exchanges of one code pass the same checks on rows read
  earlier; an exchange fails, or the process dies, after the code was consumed;
  an UPDATE takes effect and its answer is lost. Correct means: exchanged at most
  once, only for the client, redirect URI, verifier and user it was issued for;
  burnt by a failed exchange; no redirect to an address that is not registered.
* **Sessions.** A row is read, then judged, and revoked or deleted in between;
  the cleanup's cutoff is older than its DELETE. Correct means: revocation is
  final, nothing revives a session, cleanup spares the living and gets the dead.
* **Operator side.** Setup requests race for the only seat; logout meets a
  database error. Correct means: one operator, sessions for operators only, a
  logged-out session is dead, and nobody waits for the setup lock for ever.
* **Broker.** The whole flow lives in cookies that tabs share; callbacks come
  late, twice, or in another browser; providers are switched off meanwhile.
  Correct means: a browser is signed in only by its own flow, not by a provider
  that is off, and comes back to the request it left with, without being asked
  again.
* **Provisioning.** Two reads and a write without a transaction; only unique
  constraints decide; the address comes out of a list that may be lost. Correct
  means: one user per identity and per verified address, linking by verified
  addresses only, no user nobody can reach.
* **Administration.** Whole rows are read on one page and written from another;
  credentials are shown once. Correct means: no edit and no secret is lost to a
  concurrent one, nothing is half registered, and what is shown works.
* **Key files.** Two first starts, a read that fails, a crash while writing.
  Correct means: one key for everybody, the one on disk, for good, and secrets
  that can be read after every restart.

`PROJECT.json` ("hazards") lists these one by one, each at its line.

## 2. Modules

```
SessionStore ---+--> Sessions
  |             +--> AuthCodeFlow ---> MCAuthCodeFlow
  |             |      +-- INSTANCE OneTimeCode
  |             +--> OperatorAccess
  +--> SessionStoreProofs (lemmas for the proofs of these three)
Broker       ---> MCBroker
Provisioning ---> MCProvisioning
KeyFile      ---> ProviderAdmin
AppAdmin     ---> MCAppAdmin

Sessions, AuthCodeFlow, OperatorAccess, Broker, Provisioning, ProviderAdmin,
AppAdmin: each has a module <name>Proofs, which extends it.
```

**SessionStore** is a session table and its manager: `Create`, `Validate`,
`Revoke`, `RevokeAll`, `DeleteInactive`. User and operator sessions are two
managers with the same code over two tables, so the module serves both. A token
and its hash are one value, drawn once. It has no `Next` of its own.

**Sessions** puts a table to use: requests that look a row up and judge it in two
steps, revocations, and the cleanup goroutine, whose clock is read a step before
its DELETE runs.

**AuthCodeFlow** is both endpoints. `areq`, `treq`, `codeRow`, `clock` and so on
are the handlers' locals, one step per database call (`AuthorizeBegin`,
`AuthorizeClient`, `AuthorizeApp`, `AuthorizeCreate`; `TokenBegin`,
`TokenClient`, `GetByCodeHash`, `CheckCode`, `Consume`, `Issue`). `codes`,
`sessions` and `allowed` are tables. Requests are records of the parameters, so
that missing, wrong and foreign values all occur; the order of checks and early
returns is the code's. Around the handlers: sign-ins, session cleanup, an
operator changing an app's scopes, the clock, and crashes, which keep the tables
and lose every local. The variables `grants`, `spoiled`, `redirects`, `signedIn`
and `origin` are history that only the properties read.

**OneTimeCode** is the abstract specification: a code goes none -> live -> spent,
bound to one grant (client and user) all the way. The step that spends it makes
one request its holder; only the holder can give tokens, for that grant, and it
stops being one as it does, or as it fails or the process is restarted. An UPDATE
whose answer is lost spends the code for nobody. `AuthCodeFlow!Abstract` maps to
it: the phase is read off the row, the holders are the handlers at `issue`
(whatever let them get there), and `given` is the whole history of token answers,
so a second request past `Consume`, a second answer and a code that becomes
unspent are steps `OneTimeCode` does not have. Its mutant lets requests go on
whose UPDATE matched no row; dropping `consumed_at IS NULL` or releasing the code
after a failure violates it as well.

**OperatorAccess** is setup, login, logout and the admin pages over
`operator_sessions`. `SetupLock` ... `SetupInsert` are the transaction of
`CreateFirstOperator`; the lock is `pg_advisory_xact_lock`, and `SetupLockFails`
is a wait for it that ends in an error. A failing commit may or may not have
taken effect. A logout that meets a database error is answered like any other;
`loggedOut` holds the tokens of those that met none.

**Broker** is the sign-in of a user: prompt, start, provider, callback, resumed
request. Browsers hold three cookies (`authz`, `upstream`, `session`); tabs of
one browser share them; a request carries the cookies of the moment it is sent
(`AuthorizeBegin`, `StartBegin`, `CallbackBegin`) and is answered later. A
callback address can be opened again in any tab (`Reopen`). The provider is
external: it takes a code once, and with PKCE only from whoever has the verifier.
The verifier is drawn with the state and kept beside it, so one value stands for
both. `wanted`, `origin`, `via`, `late` and `answers` are history.

**Provisioning** is the way from an account at a provider to a local user:
`exchangeOIDC` and `exchangeGitHub` choose the address it is reported with (the
loop over GitHub's addresses is written as what it settles on), then
`ProvisionUser`, a step per query, with the unique constraints of the migrations
as guards of the inserts. `answers` and `vouched` are history.

**KeyFile** is a key file and the processes that load or create it when they
start (`main`, `NewApp`, `loadOrGenerateKey`). `os.WriteFile` is two steps, with a
file in between that no reader accepts. The signing key and the provider secret
key are handled by the same code. It has no `Next` of its own.

**ProviderAdmin** extends it with what the key is for: one row of
`identity_providers`, saved, toggled and deleted by handlers of any process, a
step per statement. A sealed secret remembers the key it was sealed with. `raced`
records that two first starts have overlapped, `typed` and `stale` what was typed
last and whether a save with a blank field has put an older value back.

**AppAdmin** is the registration of apps and clients and the editing of apps. A
form is a record of what its checks ask; the steps of a request are its arrival,
its transaction, and the page that shows the secret. An edit page stays open in
its tab, also while the server is down. `Inserted` is what GORM's `Create` makes of
a row. `shown`, `asked` and `intended` are history; `intended` is built from what
the form says (`Meant`), not from the row the service makes of it.

AuthCodeFlow and Broker meet at the session: what Broker's callback does at its
end is AuthCodeFlow's `SignIn`, and Broker keeps of `/authorize` only whether it
has a user. The identity a callback gets is an account in Broker and a report
with address and verification in Provisioning.

Definitions called "Faulty variant" are not used by any specification: each is a
plausible mistake in the definition below it, which the property it is paired
with in `PROJECT.json` ("mutants") detects.

## 3. Runs

| Run | Question | Answer |
|---|---|---|
| `sessions` | Do validation, revocation and cleanup interfere? | No: revocation is final, no revival, cleanup spares live sessions and collects dead ones (also after failed DELETEs). |
| `code_flow` | Two requests at once, faults and crashes: what happens to a code? | At most one exchange, tokens match the authorization, failures burn the code, redirects stay registered, `OneTimeCode` is implemented. |
| `code_flow_liveness` | Does every request end, every spent code get settled? | Yes, with a database that answers. |
| `code_flow_sso` | "centrauth does not offer persistent SSO across unrelated apps yet" (`docs/README.md:47`) | Violated: a session serves the clients of every app. |
| `operator` | Racing setups, logins and logouts, with faults and crashes | One operator, sessions for operators only, a logout that met no error is final, and every request that is not killed ends. |
| `broker` | Whose sign-in is it, and is a disabled provider really off? | Its own; and off, although the flow began while it was on. |
| `broker_resume` | One tab per browser: does a sign-in resume the request it began with, and is the user asked again? | It does, and is not. |
| `broker_tabs` | Does it resume that request with two tabs? | Violated: the tab opened first resumes the other's request, against `docs/README.md:45`. |
| `provisioning` | Two callbacks race, addresses change hands and verification | One user per identity and per verified address, linked only by addresses both providers vouch for, no unreachable user. |
| `providers` | Two processes on one key file, two handlers on one provider row: is the key lost, or a secret? | No process works with a key that is not on disk and no start replaces one; stored secrets stay readable; the secret typed last is the one stored. Two exceptions are named in the properties: first starts that overlapped, and a blank save overtaken by another change. |
| `apps` | Good and bad forms, edits from two tabs, faults and crashes | Nothing half registered, only safe redirect URIs stored, shown credentials work, edits add up (unless a page was out of date). |
| `apps_first_party` | Is an app stored as its form says? | Violated: the box "First-party application" left empty stores TRUE, because GORM takes `false` for "use the column's default" (`db/models.go:57`). |

### Bounds

* Two handlers at once (`Procs`), or two tabs: every race here is between two
  parties over one row, lock or cookie; a third adds no new pair. The theorems of
  section 4 hold for any number.
* One code and one session token in `code_flow`: codes do not interact, and both
  handlers can meet at the one there is. Two sessions in `sessions` and
  `operator`, so that bulk revocation and two logins differ.
* Clocks to 2 or 3, lifetimes of 1 or 2: before, at and after an expiry all occur,
  with a step between reading a clock and using it. The clock stops at `MaxTime`.
* `code_flow` has two clients of two apps (confidential and public) and requests
  that are right, wrong in one parameter, or another client's; the other runs of
  the module need only the right requests and an exchange with a wrong verifier.
* `Broker`: `StateLeft` takes up a start only while a state is left to draw, and
  with two states a flow can be superseded by another. The `broker` run uses
  GitHub, which has no PKCE: there the comparison of states is the only defence.
  `broker_resume` has both providers.
* `Provisioning`: `UserLeft` likewise; four user keys let every race create a
  user, twice over. Five descriptions of four accounts: verified, no longer
  verified, shown on the profile only, and the successor of an address; each
  GitHub list has two addresses, so that order and primary matter.
* `providers`: two keys are enough, since one is drawn only while there is no file
  and overlapping starts are two; two secrets tell a rotation from none.
* `apps`: two tabs, two apps, two clients. `IdsLeft` and `AppIdsLeft` take up a
  registration only while ids are left. Forms are right, or wrong in one field,
  each check having one that fails it; an edit changes one field or none.
* Handlers, user keys, states and accounts are symmetric where a cfg says so, only
  in runs without liveness properties.

### Fairness

`WF` on the steps of a handler that has begun: goroutines are scheduled and a
database or provider call returns. No fairness on what users, operators or the
clock do. `SF` on `SetupLock`: PostgreSQL queues lock waiters in order, so a
request is not passed over for ever; a wait that ends in an error is possible
(`SetupLockFails`) and not relied upon. `SF` on `SweepDelete`: the ticker fires
again after every failure, so a DELETE that is possible again and again runs at
last. The operator run's liveness holds with faults and crashes on (a killed
request is gone, and its lock with it); `code_flow_liveness` and `broker_resume`
switch them off, because a killed process answers nobody and settles nothing.

## 4. Proofs

Every safety invariant and every action property a passing run checks is also a
theorem `Spec => []...`, for every value of the constants: any number of
handlers, tabs, processes, rows, ids and clock values, and (unless a theorem says
otherwise) with faults and kills at any point. Each proof has an inductive
invariant, which TLC has checked on the instances of section 3 before it was
proved, one lemma per action that this action preserves it, and a last temporal
step.

**AuthCodeFlowProofs.** `TypeOK` is not inductive, since a handler between two
steps must have the locals its next step uses; `TypeInv` adds which locals are set
at which `pc` and gives `TypeCorrect`. On top of it `ExchangeInv` says who holds a
code: a process at `issue` has consumed its code and nobody has settled it
(`HolderInv`), no two processes are there with the same code (`Exclusive`), and a
code with an outcome, tokens or failure, is consumed and has no other
(`OutcomeInv`). `Consume`'s guard (a row not consumed yet) is what keeps it. It gives
`ExchangedAtMostOnce` and `FailureBurnsCode`, and makes every step of the
handlers a step or a stutter of `OneTimeCode` (`ImplementsOneTimeCode`).
`StepsOnCodes` sorts the steps: an INSERT issues, a matching UPDATE spends (nobody
can be at `issue` with a code that is not consumed, by `HolderInv`) or wastes,
an answer gives or fails, a kill is the restart; all others leave rows, answers
and holders alone (`SameHolders`). `Exclusive` is what leaves no holder behind
when the one there is answers.
`ProvenanceInv` follows a code back: a session's row names who signed in with it
(`SessionNames`), an authorization the user of the session it carried, and past
the checks a valid request (`RequestNames`), a code's row what that request asked
for (`CodeNames`). Tokens are drawn once, so a sign-in a code refers to is never
rewritten. It gives `RedirectsRegistered` and `TokensAsAuthorized`.

**SessionStoreProofs** has what the three modules over a session table share: what
each statement does to a row, that a row that was drawn only ever dies
(`StatementsOnlyKill`), and that what `Validate` refuses it refuses at every later
time (`RefusedStaysRefused`).

**SessionsProofs.** `SessionInv`: a session whose revocation has returned is dead
(`EndedIsDead`), whoever began after that has read a dead row (`LateReadsDead`), and
the cleanup's cutoff is a time that has been (`CutoffHasBeen`). It gives `TypeCorrect`, `RevokedForGood`, and the action
properties `NothingRevives` and `CleanupIsSafe`.

**OperatorAccessProofs.** `SeatInv`: at most one process is inside the
transaction and it holds the lock (`LockHeld`); one that has recounted and found
the seat free is right as long as it holds it (`SeatFree`); sessions are about to
be made only for committed operators (`SessionForOperator`). It gives
`TypeCorrect`, `OneOperator` and `OperatorSessions`. `LogoutInv` adds that a row a
request has read is still in the table or has died since (`ReadRowStands`), and
that a logged-out session is refused now and hence for ever (`LoggedOutIsSpent`,
`LateIsRefused`): `LogoutEndsSession`. Cardinalities come from
`FiniteSetTheorems`.

**ProviderAdminProofs.** `KeyInv`: unless two first starts overlapped (`raced`), at
most one process is between drawing a key and having written it, and the file
tells how far it is (`OneWriter`); whoever runs has the key on disk. So while
anything is sealed or about to be, it is with that key (`SealedWithFile`); handlers
run in running processes (`ServedByRunning`), and a save that typed a secret is
about to store that one (`SavesWhatWasTyped`). Theorems: `TypeCorrect`,
`RunsOnStoredKey`, `SecretsReadable`, `RotationIsKept`, and the action property
`KeyKept`.

**ProvisioningProofs.** `ProvisionInv`: a row tells how it came about (`RowStands`:
its user's address is the verified address it was attached by, or the synthetic
one of its own account); the tables satisfy the unique constraints (`UniqueRows`,
`UniqueAddresses`), which no read of a callback guarantees and only the inserts'
guards keep; whoever shares a user has come to it by a verified address
(`SharedIsVerified`); every sign-in answered so far went on as the user its
identity's row still names (`AnswersStand`). A synthetic address is assumed to
be one no provider vouches for. Lemmas `ExchangeReports` and
`MinIsMember` say what `exchangeGitHub` settles on for lists of any length.
Theorems: `TypeCorrect`, `IdentityWins`, `SharedByProof`, `OneUserPerAddress`,
`UsersAreReachable`.

**BrokerProofs.** The server keeps nothing of a flow, so `BrokerInv` follows the
sealed cookie: the state in a browser's cookie was drawn for that browser
(`CookieIsOwn`), what a callback carries is such a cookie (`TabCarriesOwn`), and
past the comparison of states the address names the same flow (`TabMatched`);
what was recorded of a state is never rewritten (`FlowsStay`). A callback that
began with its provider off has not passed the lookup while it stayed off
(`TabLate`). Theorems: `TypeCorrect`, `SignedInBySelf`, `DisabledAdmitsNobody`.
`ResumeInv` follows the request through address, pending-request cookie, draw and
sealed flow. It needs two hypotheses, and both are the code's: no two tabs of a
browser (run `broker_tabs` shows what happens otherwise), and no faults, because a
prompt whose cookie could not be sealed leaves an older request pending. With them
`OwnRequestResumed` holds for any number of browsers.

**AppAdminProofs.** `AppInv`: type, method and secret of a stored client agree
(`ClientsAgree`), no two clients share a secret (`OwnSecrets`), and what was shown is
what is stored (`ShownIsStored`); a handler on its way to the page holds the
credentials of its row, one on its way to an update an app that is there
(`TabKnows`). `AppOfIsMeant`: the row made of a form that is let through is what
its operator wants. `MergeOnCurrentPage`: on a page that is up to date, the operator's
changes make exactly the row that is written. Theorems: `TypeCorrect` (which
includes that only redirect URIs fit to carry a code are stored),
`NothingHalfRegistered`, `ShownWorks`, `EditsKept`.

The assumptions are the `ASSUME`s of the modules: constants have their types,
marks such as `NoCode` are not members of what they mark. TLC evaluates them on
every run.

**Only model-checked:** liveness, since fairness and `ENABLED` are outside this
prover (every request ends and spent codes are settled in the code flow, the
operator side's requests end, dead sessions are collected, a sign-in is not
repeated). What a recursive definition computes for every input
could not be proved either (the induction theorems take operators as parameters,
and RECURSIVE disables the SMT backend), so the modules use none. The three runs
that expect a violation are TLC's alone.

## 5. Not modelled

Signatures, password hashing and encryption (library computations; a sealed
cookie or secret is one only a holder of the key can have written); cookie
attributes; templates, logging, health, discovery and JWKS (no state); the CSRF
middleware (a check by the standard library); the environment variables of
`config.go` (a conversion without state); connecting and migrating the database.
`iss`, `iat`, `exp` of tokens. List and detail pages of the administration, which
only read. Repository methods that no handler calls.

Broker and Provisioning are not composed: the callback calls `ProvisionUser` once
and uses nothing but the user it returns, so their states do not interact beyond
that call, and the interleavings of either are in its own module.

What the code does not promise, and no property asks: a session survives a logout
whose UPDATE failed; two racing toggles count as one; the first GitHub sign-in
without its list of addresses makes a separate user for good; a registration
whose answer is lost leaves a client nobody has the secret of; a key file cut
short by a kill has to be removed by hand. `PROJECT.json` ("hazards") has a note
at each of these lines.

## 6. Plan

Done: all modules above, and the proofs of section 4.

Next: the two-tab case as a theorem of its own (what a callback may resume is
always a request opened in the same browser), and lemmas for what the hazards
without a property would need.
