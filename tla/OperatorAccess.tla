--------------------------- MODULE OperatorAccess ---------------------------
(***************************************************************************)
(* The operator side: first-run setup (internal/setup.go over              *)
(* operator_repo.go), password login and logout (admin/login.go over       *)
(* service/operator_login.go), and the guard in front of every /admin page *)
(* (middleware/operator_session.go), on the operator session table.        *)
(*                                                                         *)
(* Any number of setup requests can find the operators table empty at the  *)
(* same time.  CreateFirstOperator sorts them out in a transaction that    *)
(* takes an advisory lock, counts again and inserts; PostgreSQL releases   *)
(* the lock when the transaction ends, however it ends, and shows other    *)
(* transactions the row only once it is committed (external).              *)
(***************************************************************************)
EXTENDS SessionStore, FiniteSets

CONSTANTS
    Procs,       \* handler goroutines at once
    MaxTime,     \* bound: the clock stops here
    DBFaults,    \* whether database calls may fail
    Crashes,     \* whether the process may be killed and restarted
    Nobody       \* no operator, no cookie, no holder of the lock

ASSUME MaxTimeAssumption == MaxTime \in Nat
ASSUME FaultsAssumption == DBFaults \in BOOLEAN /\ Crashes \in BOOLEAN
ASSUME NobodyAssumption ==
    Nobody \notin Subjects /\ Nobody \notin Tokens /\ Nobody \notin Procs

VARIABLES
    operators,   \* the operators table: committed rows
    lock,        \* the holder of the setup advisory lock
    pc,          \* where each handler is
    who,         \* the operator a setup or login form names
    cookie,      \* the session token a request carries
    row,         \* the session row its Validate has read
    late,        \* history: its session had been logged out before it began
    loggedOut    \* history: tokens logged out without a database error

locals == <<pc, who, cookie, row, late>>
vars == <<now, sessions, operators, lock, locals, loggedOut>>

SetupPCs == {"setupCount", "setupLock", "setupRecount", "setupInsert", "setupSession"}
LoginPCs == {"loginVerify", "loginSession"}
LogoutPCs == {"logoutCheck", "logoutRevoke"}
AdminPCs == {"adminCheck", "serve"}

TypeOK ==
    /\ SessionTypeOK
    /\ operators \in SUBSET Subjects
    /\ lock \in Procs \cup {Nobody}
    /\ pc \in [Procs -> {"idle"} \cup SetupPCs \cup LoginPCs \cup LogoutPCs \cup AdminPCs]
    /\ who \in [Procs -> Subjects \cup {Nobody}]
    /\ cookie \in [Procs -> Tokens \cup {Nobody}]
    /\ row \in [Procs -> SessionRow \cup {Unused, Deleted}]
    /\ late \in [Procs -> BOOLEAN]
    /\ loggedOut \in SUBSET Tokens

Init ==
    /\ now = 0
    /\ sessions = NoSessions
    /\ operators = {}
    /\ lock = Nobody
    /\ pc = [p \in Procs |-> "idle"]
    /\ who = [p \in Procs |-> Nobody]
    /\ cookie = [p \in Procs |-> Nobody]
    /\ row = [p \in Procs |-> Unused]
    /\ late = [p \in Procs |-> FALSE]
    /\ loggedOut = {}

\* The answer is written and the goroutine ends.
Finish(p) ==
    /\ pc' = [pc EXCEPT ![p] = "idle"]
    /\ who' = [who EXCEPT ![p] = Nobody]
    /\ cookie' = [cookie EXCEPT ![p] = Nobody]
    /\ row' = [row EXCEPT ![p] = Unused]
    /\ late' = [late EXCEPT ![p] = FALSE]

\* The handler goes on to its next database call.
Goto(p, label) ==
    /\ pc' = [pc EXCEPT ![p] = label]
    /\ UNCHANGED <<who, cookie, row, late>>

\* Bound: a token is left for every request in flight that may draw one.
TokenLeft ==
    Cardinality({p \in Procs : pc[p] \in SetupPCs \cup LoginPCs})
        < Cardinality({t \in Tokens : sessions[t] = Unused})

-----------------------------------------------------------------------------
(* POST /setup.                                                            *)

SetupBegin(p, o) ==
    /\ pc[p] = "idle"
    /\ TokenLeft
    /\ pc' = [pc EXCEPT ![p] = "setupCount"]
    /\ who' = [who EXCEPT ![p] = o]
    /\ UNCHANGED <<now, sessions, operators, lock, cookie, row, late, loggedOut>>

\* The page is there for as long as there is no operator.
setupAvailable == operators = {}

\* The count, then the checks of the form, any of which may end it.
SetupCount(p) ==
    /\ pc[p] = "setupCount"
    /\ \/ Finish(p)
       \/ setupAvailable /\ Goto(p, "setupLock")
    /\ UNCHANGED <<now, sessions, operators, lock, loggedOut>>

\* CreateFirstOperator begins its transaction and waits for the lock.
SetupLock(p) ==
    /\ pc[p] = "setupLock"
    /\ lock = Nobody
    /\ lock' = p
    /\ Goto(p, "setupRecount")
    /\ UNCHANGED <<now, sessions, operators, loggedOut>>

\* The transaction cannot be begun, or the connection is lost in the queue.
SetupLockFails(p) ==
    /\ DBFaults
    /\ pc[p] = "setupLock"
    /\ Finish(p)
    /\ UNCHANGED <<now, sessions, operators, lock, loggedOut>>

\* Faulty variant: the count made before the lock is trusted.
SetupTrustsFirstCount(p) ==
    /\ pc[p] = "setupRecount"
    /\ Goto(p, "setupInsert")
    /\ UNCHANGED <<now, sessions, operators, lock, loggedOut>>

\* It counts again under the lock; ErrSeatTaken or a failure rolls back.
SetupRecount(p) ==
    /\ pc[p] = "setupRecount"
    /\ \/ /\ operators # {} \/ DBFaults
          /\ lock' = Nobody
          /\ Finish(p)
       \/ /\ operators = {}
          /\ Goto(p, "setupInsert")
          /\ UNCHANGED lock
    /\ UNCHANGED <<now, sessions, operators, loggedOut>>

\* Faulty variant: the error of the transaction is dropped.
SetupInsertIgnoresError(p) ==
    /\ pc[p] = "setupInsert"
    /\ lock' = Nobody
    /\ operators' \in {operators, operators \cup {who[p]}}
    /\ Goto(p, "setupSession")
    /\ UNCHANGED <<now, sessions, loggedOut>>

\* Faulty variant: the lock is taken for the connection, not for the
\* transaction, and the commit leaves it locked.
SetupInsertKeepsLock(p) ==
    /\ pc[p] = "setupInsert"
    /\ operators' = operators \cup {who[p]}
    /\ Goto(p, "setupSession")
    /\ UNCHANGED <<now, sessions, lock, loggedOut>>

\* It inserts and commits, which also gives the lock up.  When that reports
\* an error, the commit may have happened or not.
SetupInsert(p) ==
    /\ pc[p] = "setupInsert"
    /\ lock' = Nobody
    /\ \/ /\ operators' = operators \cup {who[p]}
          /\ Goto(p, "setupSession")
       \/ /\ DBFaults
          /\ operators' \in {operators, operators \cup {who[p]}}
          /\ Finish(p)
    /\ UNCHANGED <<now, sessions, loggedOut>>

\* Faulty variant: the session is made for an id the INSERT did not return.
SetupSessionForNobody(p) ==
    /\ pc[p] = "setupSession"
    /\ \E t \in Tokens : Create(t, Nobody)
    /\ Finish(p)
    /\ UNCHANGED <<now, operators, lock, loggedOut>>

\* The new operator is signed in; a failure leaves an operator who is not.
SetupSession(p) ==
    /\ pc[p] = "setupSession"
    /\ \/ \E t \in Tokens : Create(t, who[p])
       \/ DBFaults /\ UNCHANGED sessions
    /\ Finish(p)
    /\ UNCHANGED <<now, operators, lock, loggedOut>>

-----------------------------------------------------------------------------
(* POST /admin/auth/login, from a browser that is not signed in: one that   *)
(* is gets a redirect and nothing changes.                                  *)

LoginBegin(p, o) ==
    /\ pc[p] = "idle"
    /\ TokenLeft
    /\ pc' = [pc EXCEPT ![p] = "loginVerify"]
    /\ who' = [who EXCEPT ![p] = o]
    /\ UNCHANGED <<now, sessions, operators, lock, cookie, row, late, loggedOut>>

\* VerifyOperatorWithEmailAndPassword: whether there is such an operator is
\* the table's say, whether the password is right the form's.
LoginVerify(p) ==
    /\ pc[p] = "loginVerify"
    /\ \/ Finish(p)
       \/ who[p] \in operators /\ Goto(p, "loginSession")
    /\ UNCHANGED <<now, sessions, operators, lock, loggedOut>>

LoginSession(p) ==
    /\ pc[p] = "loginSession"
    /\ \/ \E t \in Tokens : Create(t, who[p])
       \/ DBFaults /\ UNCHANGED sessions
    /\ Finish(p)
    /\ UNCHANGED <<now, operators, lock, loggedOut>>

-----------------------------------------------------------------------------
(* POST /admin/auth/logout.                                                *)

\* The cookie's session row is read, or the read fails.
LogoutBegin(p, t) ==
    /\ pc[p] = "idle"
    /\ sessions[t] # Unused
    /\ pc' = [pc EXCEPT ![p] = "logoutCheck"]
    /\ cookie' = [cookie EXCEPT ![p] = t]
    /\ row' \in {[row EXCEPT ![p] = sessions[t]]}
                  \cup (IF DBFaults THEN {row} ELSE {})
    /\ UNCHANGED <<now, sessions, operators, lock, who, late, loggedOut>>

\* The cookie is cleared and the browser sent to the login page, whatever
\* became of the session; done says that no database call had failed.
LogoutAnswer(p, done) ==
    /\ loggedOut' = IF done THEN loggedOut \cup {cookie[p]} ELSE loggedOut
    /\ Finish(p)

\* Validate's verdict: there is nothing to revoke unless it is good.
LogoutCheck(p) ==
    /\ pc[p] = "logoutCheck"
    /\ \/ /\ Validate(row[p], now)
          /\ Goto(p, "logoutRevoke")
          /\ UNCHANGED loggedOut
       \/ /\ ~Validate(row[p], now)
          /\ LogoutAnswer(p, row[p] # Unused)
    /\ UNCHANGED <<now, sessions, operators, lock>>

\* Faulty variant: only the cookie is cleared.
LogoutRevokesNothing(p) ==
    /\ pc[p] = "logoutRevoke"
    /\ LogoutAnswer(p, TRUE)
    /\ UNCHANGED <<now, sessions, operators, lock>>

\* The error of Revoke is ignored: the answer is the same.
LogoutRevoke(p) ==
    /\ pc[p] = "logoutRevoke"
    /\ \/ Revoke(cookie[p]) /\ LogoutAnswer(p, TRUE)
       \/ DBFaults /\ UNCHANGED sessions /\ LogoutAnswer(p, FALSE)
    /\ UNCHANGED <<now, operators, lock>>

-----------------------------------------------------------------------------
(* A request for a page behind RequireOperator.                            *)

AdminBegin(p, t) ==
    /\ pc[p] = "idle"
    /\ sessions[t] # Unused
    /\ pc' = [pc EXCEPT ![p] = "adminCheck"]
    /\ cookie' = [cookie EXCEPT ![p] = t]
    /\ row' = [row EXCEPT ![p] = sessions[t]]
    /\ late' = [late EXCEPT ![p] = t \in loggedOut]
    /\ UNCHANGED <<now, sessions, operators, lock, who, loggedOut>>

\* Validate's verdict and the operator's row decide whether the page is
\* served or the browser is sent to the login page.
AdminCheck(p) ==
    LET good == Validate(row[p], now) /\ row[p].subject \in operators
    IN  /\ pc[p] = "adminCheck"
        /\ \/ good /\ Goto(p, "serve")
           \/ (~good \/ DBFaults) /\ Finish(p)
        /\ UNCHANGED <<now, sessions, operators, lock, loggedOut>>

Serve(p) ==
    /\ pc[p] = "serve"
    /\ Finish(p)
    /\ UNCHANGED <<now, sessions, operators, lock, loggedOut>>

-----------------------------------------------------------------------------
Cleanup ==
    /\ \E cutoff \in 0..now : DeleteInactive(cutoff)
    /\ UNCHANGED <<now, operators, lock, locals, loggedOut>>

Tick ==
    /\ now < MaxTime
    /\ now' = now + 1
    /\ UNCHANGED <<sessions, operators, lock, locals, loggedOut>>

\* The process is killed: its transactions roll back, the tables stay.
Crash ==
    /\ Crashes
    /\ lock' = Nobody
    /\ pc' = [p \in Procs |-> "idle"]
    /\ who' = [p \in Procs |-> Nobody]
    /\ cookie' = [p \in Procs |-> Nobody]
    /\ row' = [p \in Procs |-> Unused]
    /\ late' = [p \in Procs |-> FALSE]
    /\ UNCHANGED <<now, sessions, operators, loggedOut>>

SetupStep(p) ==
    SetupCount(p) \/ SetupLock(p) \/ SetupRecount(p) \/ SetupInsert(p) \/ SetupSession(p)
LoginStep(p) == LoginVerify(p) \/ LoginSession(p)
LogoutStep(p) == LogoutCheck(p) \/ LogoutRevoke(p)
AdminStep(p) == AdminCheck(p) \/ Serve(p)

Next ==
    \/ \E p \in Procs, o \in Subjects : SetupBegin(p, o) \/ LoginBegin(p, o)
    \/ \E p \in Procs, t \in Tokens : LogoutBegin(p, t) \/ AdminBegin(p, t)
    \/ \E p \in Procs : SetupLockFails(p)
    \/ \E p \in Procs : SetupStep(p) \/ LoginStep(p) \/ LogoutStep(p) \/ AdminStep(p)
    \/ Cleanup
    \/ Tick
    \/ Crash

Spec == Init /\ [][Next]_vars

\* Goroutines run, the database answers or reports an error, and PostgreSQL
\* grants a lock to its waiters in the order they came, so none is passed
\* over for ever.  Nobody is entitled to an error while it waits.
Fairness ==
    \A p \in Procs : /\ SF_vars(SetupLock(p))
                     /\ WF_vars(SetupStep(p))
                     /\ WF_vars(LoginStep(p) \/ LogoutStep(p) \/ AdminStep(p))

FairSpec == Spec /\ Fairness

-----------------------------------------------------------------------------
(* Properties.                                                             *)

\* There is never a second operator, though any number of setup requests
\* may have seen the table empty (the lock and the second count of
\* CreateFirstOperator).
AtMostOneOperator == Cardinality(operators) <= 1

\* Nobody has an operator session who is not an operator: a session is made
\* only after the transaction that inserts the operator has committed.
SessionsBelongToOperators ==
    \A t \in Tokens : Found(sessions[t]) => sessions[t].subject \in operators

\* Logging out ends the session: no page is served to a request that began
\* after a logout with the same cookie was answered, if the database had
\* answered that logout.  (When it had not, the handler ignores the error
\* and the session lives on behind a cleared cookie.)
LogoutIsFinal == \A p \in Procs : pc[p] = "serve" => ~late[p]

\* Every request is answered, whatever fails and whoever is killed; none
\* waits for the setup lock for ever.
RequestsAreAnswered == \A p \in Procs : pc[p] # "idle" ~> pc[p] = "idle"
=============================================================================
