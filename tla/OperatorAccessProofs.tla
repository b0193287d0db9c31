------------------------ MODULE OperatorAccessProofs ------------------------
(***************************************************************************)
(* Proofs about OperatorAccess, for any number of requests, sessions and   *)
(* would-be operators, with database errors and crashes at any point:      *)
(* there is at most one operator, only operators have sessions, and a      *)
(* logout the database answered is final.                                  *)
(*                                                                         *)
(* Neither fact is inductive by itself.  What carries them is SeatInv: the *)
(* request that is past SetupLock is the one the lock names, the one about *)
(* to insert has seen an empty table under the lock, and a request about   *)
(* to make a session does so for an operator whose row is committed.       *)
(* Finality of logout rests on LogoutInv: a row only ever dies, so the one *)
(* a logout has read is still the one in the table or a dead one is, and   *)
(* what Validate has refused it refuses for ever.                          *)
(***************************************************************************)
EXTENDS OperatorAccess, SessionStoreProofs, TLAPS, FiniteSetTheorems

\* Whoever is inside CreateFirstOperator's critical section holds the lock.
LockHeld ==
    \A p \in Procs : pc[p] \in {"setupRecount", "setupInsert"} => lock = p

\* The second count is still true when the INSERT runs.
SeatFree == \A p \in Procs : pc[p] = "setupInsert" => operators = {}

\* The table has no row or one.
OneSeat == operators = {} \/ \E o \in Subjects : operators = {o}

\* Sessions are made for committed operators.
SessionForOperator ==
    \A p \in Procs : pc[p] \in {"setupSession", "loginSession"} => who[p] \in operators

\* A setup or login request names somebody.
FormNames == \A p \in Procs : pc[p] \in SetupPCs \cup LoginPCs => who[p] \in Subjects

\* A logout request carries a cookie.
CookieSet == \A p \in Procs : pc[p] \in LogoutPCs => cookie[p] \in Tokens

SeatInv ==
    /\ TypeOK
    /\ LockHeld
    /\ SeatFree
    /\ OneSeat
    /\ SessionForOperator
    /\ FormNames
    /\ CookieSet
    /\ SessionsBelongToOperators

-----------------------------------------------------------------------------
\* The database of a first start satisfies the invariant.
LEMMA SeatInvInit == Init => SeatInv
  <1> SUFFICES ASSUME Init PROVE SeatInv
    OBVIOUS
  <1>1. TypeOK
    BY SessionMarksAssumption DEF Init, TypeOK, SessionTypeOK, NoSessions
  <1>2. LockHeld /\ SeatFree /\ OneSeat /\ SessionForOperator /\ FormNames /\ CookieSet
    BY DEF Init, LockHeld, SeatFree, OneSeat, SessionForOperator, FormNames, CookieSet,
           SetupPCs, LoginPCs, LogoutPCs
  <1>3. SessionsBelongToOperators
    BY DEF Init, SessionsBelongToOperators, NoSessions, Found
  <1> QED
    BY <1>1, <1>2, <1>3 DEF SeatInv

\* Manager.Create: the table stays well typed, and when the owner is an
\* operator the new session belongs to one.
LEMMA CreateSession ==
    ASSUME NEW t \in Tokens, NEW s \in Subjects, s \in operators,
           SessionTypeOK, SessionsBelongToOperators, Create(t, s),
           UNCHANGED <<now, operators>>
    PROVE  SessionTypeOK' /\ SessionsBelongToOperators'
  <1>1. now + SessionTTL \in Nat
    BY SessionTTLAssumption DEF SessionTypeOK
  <1>2. [subject |-> s, expiresAt |-> now + SessionTTL, revoked |-> FALSE] \in SessionRow
    BY <1>1 DEF SessionRow
  <1>3. SessionTypeOK'
    BY <1>2 DEF SessionTypeOK, Create
  <1>4. SessionsBelongToOperators'
    BY DEF SessionsBelongToOperators, Create, Found, SessionTypeOK
  <1> QED
    BY <1>3, <1>4

\* Revoking one session leaves the table well typed and every owner in place.
LEMMA RevokeSession ==
    ASSUME NEW t \in Tokens, SessionTypeOK, SessionsBelongToOperators, Revoke(t),
           UNCHANGED <<now, operators>>
    PROVE  SessionTypeOK' /\ SessionsBelongToOperators'
  <1>1. CASE Found(sessions[t])
    <2>1. sessions[t] \in SessionRow
      BY <1>1 DEF SessionTypeOK, Found
    <2>2. [sessions[t] EXCEPT !.revoked = TRUE] \in SessionRow
      BY <2>1 DEF SessionRow
    <2>3. sessions' = [sessions EXCEPT ![t] = [sessions[t] EXCEPT !.revoked = TRUE]]
      BY <1>1 DEF Revoke
    <2>4. [sessions[t] EXCEPT !.revoked = TRUE].subject = sessions[t].subject
      BY <2>1 DEF SessionRow
    <2>5. SessionTypeOK'
      BY <2>2, <2>3 DEF SessionTypeOK
    <2>6. ASSUME NEW s \in Tokens, Found(sessions'[s]) PROVE sessions'[s].subject \in operators'
      BY <1>1, <2>3, <2>4, <2>6 DEF SessionsBelongToOperators, SessionTypeOK
    <2> QED
      BY <2>5, <2>6 DEF SessionsBelongToOperators, Found
  <1>2. CASE ~Found(sessions[t])
    BY <1>2 DEF Revoke, SessionTypeOK, SessionsBelongToOperators, Found
  <1> QED
    BY <1>1, <1>2

\* So does the cleanup.
LEMMA DeleteSessions ==
    ASSUME NEW cutoff, SessionTypeOK, SessionsBelongToOperators, DeleteInactive(cutoff),
           UNCHANGED <<now, operators>>
    PROVE  SessionTypeOK' /\ SessionsBelongToOperators'
  <1>1. SessionTypeOK'
    BY DEF SessionTypeOK, DeleteInactive
  <1>2. SessionsBelongToOperators'
    BY DEF SessionsBelongToOperators, DeleteInactive, Found, SessionTypeOK
  <1> QED
    BY <1>1, <1>2

\* A step that ends a request or moves it on, and leaves tables and lock as
\* they are, keeps the session part.
LEMMA TablesUnchanged ==
    ASSUME SessionTypeOK, SessionsBelongToOperators, UNCHANGED <<now, sessions, operators>>
    PROVE  SessionTypeOK' /\ SessionsBelongToOperators'
  BY DEF SessionTypeOK, SessionsBelongToOperators, Found

-----------------------------------------------------------------------------
\* A request that ends, giving the lock up if it has it, disturbs nothing.
LEMMA FinishRequest ==
    ASSUME SeatInv, NEW p \in Procs, Finish(p),
           UNCHANGED <<now, sessions, operators, loggedOut>>,
           lock' = lock \/ (lock = p /\ lock' = Nobody)
    PROVE  SeatInv'
  <1> USE NobodyAssumption
  <1>1. TypeOK'
    BY DEF SeatInv, TypeOK, SessionTypeOK, Finish
  <1>2. \A q \in Procs : \/ q = p /\ pc'[q] = "idle"
                         \/ q # p /\ pc'[q] = pc[q] /\ who'[q] = who[q] /\ cookie'[q] = cookie[q]
    BY DEF SeatInv, TypeOK, Finish
  <1>3. LockHeld' /\ SeatFree' /\ OneSeat'
    BY <1>2 DEF SeatInv, LockHeld, SeatFree, OneSeat
  <1>4. SessionForOperator' /\ FormNames' /\ CookieSet'
    BY <1>2 DEF SeatInv, SessionForOperator, FormNames, CookieSet, SetupPCs, LoginPCs, LogoutPCs
  <1>5. SessionsBelongToOperators'
    BY TablesUnchanged DEF SeatInv, TypeOK
  <1> QED
    BY <1>1, <1>3, <1>4, <1>5 DEF SeatInv

\* What a request that moves on inside setup or login leaves as it was.
LEMMA MoveOn ==
    ASSUME SeatInv, NEW p \in Procs, pc[p] \in SetupPCs \cup LoginPCs,
           NEW label \in SetupPCs \cup LoginPCs, Goto(p, label),
           UNCHANGED <<now, sessions, operators, loggedOut>>,
           lock' \in {lock, p}
    PROVE  /\ TypeOK' /\ OneSeat' /\ FormNames' /\ CookieSet' /\ SessionsBelongToOperators'
           /\ \A q \in Procs : \/ q = p /\ pc'[q] = label /\ who'[q] = who[q]
                               \/ q # p /\ pc'[q] = pc[q] /\ who'[q] = who[q]
  <1>1. TypeOK'
    BY DEF SeatInv, TypeOK, SessionTypeOK, Goto
  <1>2. \A q \in Procs : \/ q = p /\ pc'[q] = label /\ who'[q] = who[q]
                         \/ q # p /\ pc'[q] = pc[q] /\ who'[q] = who[q]
    BY DEF SeatInv, TypeOK, Goto
  <1>3. OneSeat' /\ FormNames'
    BY <1>2 DEF SeatInv, OneSeat, FormNames
  <1>4. CookieSet'
    <2>1. label \notin LogoutPCs
      BY DEF SetupPCs, LoginPCs, LogoutPCs
    <2> QED
      BY <1>2, <2>1 DEF SeatInv, CookieSet, Goto
  <1>5. SessionsBelongToOperators'
    BY TablesUnchanged DEF SeatInv, TypeOK
  <1> QED
    BY <1>1, <1>2, <1>3, <1>4, <1>5

(* One lemma for each part of the system.                                  *)

\* POST /setup.
LEMMA SetupSteps ==
    ASSUME SeatInv, NEW p \in Procs,
           (\E o \in Subjects : SetupBegin(p, o)) \/ SetupStep(p) \/ SetupLockFails(p)
    PROVE  SeatInv'
  <1> USE NobodyAssumption
  <1> USE DEF SeatInv
  <1>1. CASE \E o \in Subjects : SetupBegin(p, o)
    BY <1>1, TablesUnchanged
       DEF SetupBegin, TypeOK, LockHeld, SeatFree, OneSeat, SessionForOperator,
           FormNames, CookieSet, SetupPCs, LoginPCs, LogoutPCs
  <1>2. CASE SetupCount(p)
    <2>1. CASE Finish(p)
      BY <1>2, <2>1, FinishRequest DEF SetupCount
    <2>2. CASE Goto(p, "setupLock")
      BY <1>2, <2>2, MoveOn DEF SetupCount, LockHeld, SeatFree, SessionForOperator, SetupPCs
    <2> QED
      BY <1>2, <2>1, <2>2 DEF SetupCount
  <1>3. CASE SetupLock(p)
    BY <1>3, MoveOn DEF SetupLock, LockHeld, SeatFree, SessionForOperator, SetupPCs
  <1>7. CASE SetupLockFails(p)
    BY <1>7, FinishRequest DEF SetupLockFails
  <1>4. CASE SetupRecount(p)
    <2>1. lock = p
      BY <1>4 DEF SetupRecount, LockHeld
    <2>2. CASE lock' = Nobody /\ Finish(p)
      BY <1>4, <2>1, <2>2, FinishRequest DEF SetupRecount
    <2>3. CASE operators = {} /\ Goto(p, "setupInsert") /\ UNCHANGED lock
      BY <1>4, <2>1, <2>3, MoveOn
         DEF SetupRecount, LockHeld, SeatFree, SessionForOperator, SetupPCs
    <2> QED
      BY <1>4, <2>2, <2>3 DEF SetupRecount
  <1>5. CASE SetupInsert(p)
    <2>1. operators = {} /\ lock = p
      BY <1>5 DEF SetupInsert, LockHeld, SeatFree
    <2>2. who[p] \in Subjects
      BY <1>5 DEF SetupInsert, FormNames, CookieSet, SetupPCs, LoginPCs, LogoutPCs
    <2>3. \A q \in Procs \ {p} : pc[q] \notin {"setupRecount", "setupInsert"}
      BY <2>1 DEF LockHeld
    <2>4. operators' = {} \/ operators' = {who[p]}
      BY <1>5, <2>1 DEF SetupInsert
    <2>5. TypeOK'
      BY <1>5, <2>2, <2>4 DEF SetupInsert, Finish, Goto, TypeOK, SessionTypeOK, SetupPCs
    <2>6. LockHeld' /\ SeatFree' /\ OneSeat' /\ SessionsBelongToOperators'
      BY <1>5, <2>1, <2>2, <2>3, <2>4
         DEF SetupInsert, Finish, Goto, TypeOK, LockHeld, SeatFree, OneSeat,
             SessionsBelongToOperators, Found
    <2>7. SessionForOperator' /\ FormNames' /\ CookieSet'
      BY <1>5, <2>1, <2>2
         DEF SetupInsert, Finish, Goto, TypeOK, SessionForOperator, FormNames, CookieSet,
             SetupPCs, LoginPCs, LogoutPCs
    <2> QED
      BY <2>5, <2>6, <2>7
  <1>6. CASE SetupSession(p)
    <2>1. who[p] \in Subjects /\ who[p] \in operators
      BY <1>6 DEF SetupSession, SessionForOperator, FormNames, CookieSet, SetupPCs
    <2>2. SessionTypeOK' /\ SessionsBelongToOperators'
      BY <1>6, <2>1, CreateSession, TablesUnchanged DEF SetupSession, TypeOK
    <2> QED
      BY <1>6, <2>2 DEF SetupSession, Finish, TypeOK, LockHeld, SeatFree, OneSeat,
            SessionForOperator, FormNames, CookieSet, SetupPCs, LoginPCs, LogoutPCs
  <1> QED
    BY <1>1, <1>2, <1>3, <1>4, <1>5, <1>6, <1>7 DEF SetupStep

\* POST /admin/auth/login.
LEMMA LoginSteps ==
    ASSUME SeatInv, NEW p \in Procs, (\E o \in Subjects : LoginBegin(p, o)) \/ LoginStep(p)
    PROVE  SeatInv'
  <1> USE DEF SeatInv
  <1>1. CASE \E o \in Subjects : LoginBegin(p, o)
    BY <1>1, TablesUnchanged DEF LoginBegin, TypeOK, LockHeld, SeatFree, OneSeat,
          SessionForOperator, FormNames, CookieSet, SetupPCs, LoginPCs, LogoutPCs
  <1>2. CASE LoginVerify(p)
    <2>1. CASE Finish(p)
      BY <1>2, <2>1, FinishRequest DEF LoginVerify
    <2>2. CASE who[p] \in operators /\ Goto(p, "loginSession")
      BY <1>2, <2>2, MoveOn DEF LoginVerify, LockHeld, SeatFree, SessionForOperator, LoginPCs
    <2> QED
      BY <1>2, <2>1, <2>2 DEF LoginVerify
  <1>3. CASE LoginSession(p)
    <2>1. who[p] \in Subjects /\ who[p] \in operators
      BY <1>3 DEF LoginSession, SessionForOperator, FormNames, LoginPCs
    <2>2. SessionTypeOK' /\ SessionsBelongToOperators'
      BY <1>3, <2>1, CreateSession, TablesUnchanged DEF LoginSession, TypeOK
    <2> QED
      BY <1>3, <2>2 DEF LoginSession, Finish, TypeOK, LockHeld, SeatFree, OneSeat,
            SessionForOperator, FormNames, CookieSet, SetupPCs, LoginPCs, LogoutPCs
  <1> QED
    BY <1>1, <1>2, <1>3 DEF LoginStep

\* POST /admin/auth/logout.
LEMMA LogoutSteps ==
    ASSUME SeatInv, NEW p \in Procs, (\E t \in Tokens : LogoutBegin(p, t)) \/ LogoutStep(p)
    PROVE  SeatInv'
  <1> USE DEF SeatInv
  <1>1. CASE \E t \in Tokens : LogoutBegin(p, t)
    <2> PICK t \in Tokens : LogoutBegin(p, t)
      BY <1>1
    <2>1. row' \in [Procs -> SessionRow \cup {Unused, Deleted}]
      BY DEF LogoutBegin, TypeOK, SessionTypeOK
    <2> QED
      BY <2>1, TablesUnchanged DEF LogoutBegin, TypeOK, LockHeld, SeatFree, OneSeat,
            SessionForOperator, FormNames, CookieSet, SetupPCs, LoginPCs, LogoutPCs
  <1>2. CASE LogoutCheck(p)
    <2>1. loggedOut' \in SUBSET Tokens
      BY <1>2 DEF LogoutCheck, LogoutAnswer, CookieSet, TypeOK, LogoutPCs
    <2> QED
      BY <1>2, <2>1, TablesUnchanged DEF LogoutCheck, LogoutAnswer, Finish, Goto, TypeOK,
            LockHeld, SeatFree, OneSeat, SessionForOperator, FormNames, CookieSet,
            SetupPCs, LoginPCs, LogoutPCs
  <1>3. CASE LogoutRevoke(p)
    <2>1. cookie[p] \in Tokens
      BY <1>3 DEF LogoutRevoke, CookieSet, LogoutPCs
    <2>2. SessionTypeOK' /\ SessionsBelongToOperators'
      BY <1>3, <2>1, RevokeSession, TablesUnchanged DEF LogoutRevoke, TypeOK
    <2> QED
      BY <1>3, <2>1, <2>2 DEF LogoutRevoke, LogoutAnswer, Finish, TypeOK, LockHeld, SeatFree,
            OneSeat, SessionForOperator, FormNames, CookieSet, SetupPCs, LoginPCs, LogoutPCs
  <1> QED
    BY <1>1, <1>2, <1>3 DEF LogoutStep

\* Requests for admin pages.
LEMMA AdminSteps ==
    ASSUME SeatInv, NEW p \in Procs, (\E t \in Tokens : AdminBegin(p, t)) \/ AdminStep(p)
    PROVE  SeatInv'
  <1> USE DEF SeatInv
  <1>1. CASE \E t \in Tokens : AdminBegin(p, t)
    <2> PICK t \in Tokens : AdminBegin(p, t)
      BY <1>1
    <2>1. row' \in [Procs -> SessionRow \cup {Unused, Deleted}]
      BY DEF AdminBegin, TypeOK, SessionTypeOK
    <2>2. late' \in [Procs -> BOOLEAN]
      <3> DEFINE b == t \in loggedOut
      <3>1. b \in BOOLEAN
        OBVIOUS
      <3>2. late' = [late EXCEPT ![p] = b]
        BY DEF AdminBegin
      <3> HIDE DEF b
      <3> QED
        BY <3>1, <3>2 DEF TypeOK
    <2> QED
      BY <2>1, <2>2, TablesUnchanged DEF AdminBegin, TypeOK, LockHeld, SeatFree, OneSeat,
            SessionForOperator, FormNames, CookieSet, SetupPCs, LoginPCs, AdminPCs, LogoutPCs
  <1>2. CASE AdminCheck(p) \/ Serve(p)
    BY <1>2, TablesUnchanged DEF AdminCheck, Serve, Finish, Goto, TypeOK, LockHeld, SeatFree,
          OneSeat, SessionForOperator, FormNames, CookieSet, SetupPCs, LoginPCs, AdminPCs,
          LogoutPCs
  <1> QED
    BY <1>1, <1>2 DEF AdminStep

\* The cleanup goroutine, the clock and a restart.
LEMMA BackgroundSteps ==
    ASSUME SeatInv, Cleanup \/ Tick \/ Crash
    PROVE  SeatInv'
  <1> USE DEF SeatInv
  <1>1. CASE Cleanup
    <2>1. SessionTypeOK' /\ SessionsBelongToOperators'
      BY <1>1, DeleteSessions DEF Cleanup, TypeOK
    <2> QED
      BY <1>1, <2>1 DEF Cleanup, locals, TypeOK, LockHeld, SeatFree, OneSeat,
            SessionForOperator, FormNames, CookieSet
  <1>2. CASE Tick
    BY <1>2 DEF Tick, locals, TypeOK, SessionTypeOK, LockHeld, SeatFree, OneSeat,
          SessionForOperator, FormNames, CookieSet, SessionsBelongToOperators, Found
  <1>3. CASE Crash
    BY <1>3, TablesUnchanged DEF Crash, TypeOK, LockHeld, SeatFree, OneSeat,
          SessionForOperator, FormNames, CookieSet, SetupPCs, LoginPCs, LogoutPCs
  <1> QED
    BY <1>1, <1>2, <1>3

\* Every step keeps the invariant.
LEMMA SeatInvNext == SeatInv /\ [Next]_vars => SeatInv'
  <1> SUFFICES ASSUME SeatInv, [Next]_vars PROVE SeatInv'
    OBVIOUS
  <1>1. CASE Next
    BY <1>1, SetupSteps, LoginSteps, LogoutSteps, AdminSteps, BackgroundSteps DEF Next
  <1>2. CASE UNCHANGED vars
    BY <1>2 DEF vars, locals, SeatInv, TypeOK, SessionTypeOK, LockHeld, SeatFree, OneSeat,
          SessionForOperator, FormNames, CookieSet, SessionsBelongToOperators, Found
  <1> QED
    BY <1>1, <1>2

\* The invariant holds in every reachable state.
LEMMA SeatInvariant == Spec => []SeatInv
  BY SeatInvInit, SeatInvNext, PTL DEF Spec

-----------------------------------------------------------------------------
\* The state of the operator side stays well typed.
THEOREM TypeCorrect == Spec => []TypeOK
  <1>1. SeatInv => TypeOK
    BY DEF SeatInv
  <1> QED
    BY <1>1, SeatInvariant, PTL

\* However many requests race for the first-run setup, and whatever fails,
\* CreateFirstOperator lets at most one operator in.
THEOREM OneOperator == Spec => []AtMostOneOperator
  <1>1. SeatInv => AtMostOneOperator
    <2> SUFFICES ASSUME OneSeat PROVE Cardinality(operators) <= 1
      BY DEF SeatInv, AtMostOneOperator
    <2>1. CASE operators = {}
      BY <2>1, FS_EmptySet
    <2>2. CASE \E o \in Subjects : operators = {o}
      BY <2>2, FS_Singleton
    <2> QED
      BY <2>1, <2>2 DEF OneSeat
  <1> QED
    BY <1>1, SeatInvariant, PTL

\* Setup and login make sessions for operators only, and what else happens to
\* the session table never hands one to somebody else.
THEOREM OperatorSessions == Spec => []SessionsBelongToOperators
  <1>1. SeatInv => SessionsBelongToOperators
    BY DEF SeatInv
  <1> QED
    BY <1>1, SeatInvariant, PTL

-----------------------------------------------------------------------------
(* Logging out.                                                            *)

\* A goroutine that waits for a request holds nothing of an earlier one.
IdleIsClean == \A p \in Procs : pc[p] = "idle" => row[p] = Unused

\* The cookie of a logout is a token that has been drawn.
LogoutNamesSession == \A p \in Procs : pc[p] \in LogoutPCs => sessions[cookie[p]] # Unused

\* The row a logout has read is still the table's, or the session is dead.
ReadRowStands ==
    \A p \in Procs :
        pc[p] = "logoutCheck" /\ row[p] # Unused =>
            sessions[cookie[p]] = row[p] \/ Dead(sessions[cookie[p]])

\* A session that has been logged out exists no more, or is refused.
Spent(t) == sessions[t] # Unused /\ ~Validate(sessions[t], now)
LoggedOutIsSpent == \A t \in loggedOut : Spent(t)

\* A request that came too late has read a row that will be refused.
LateIsRefused ==
    \A p \in Procs : pc[p] = "adminCheck" /\ late[p] => ~Validate(row[p], now)

LogoutInv ==
    /\ IdleIsClean
    /\ LogoutNamesSession
    /\ ReadRowStands
    /\ LoggedOutIsSpent
    /\ LateIsRefused
    /\ LogoutIsFinal

\* A logged-out session stays so, whatever becomes of its row.
LEMMA SpentStaysSpent ==
    ASSUME SessionTypeOK, SessionTypeOK', NEW t \in Tokens, OnlyDies(t), now <= now', Spent(t)
    PROVE  Spent(t)'
  <1>1. CASE sessions'[t] = sessions[t]
    <2>1. ~Validate(sessions[t], now')
      BY RefusedStaysRefused DEF SessionTypeOK, Spent
    <2> QED
      BY <1>1, <2>1 DEF Spent
  <1>2. CASE Dead(sessions'[t])
    BY <1>2, DeadIsRefused, SessionMarksAssumption DEF Spent, Dead
  <1> QED
    BY <1>1, <1>2 DEF OnlyDies, Spent

\* In no step does a row do anything but die, nor the clock run backwards.
LEMMA RowsOnlyDie ==
    ASSUME SeatInv, Next
    PROVE  now <= now' /\ \A t \in Tokens : OnlyDies(t)
  <1>1. SessionTypeOK /\ now \in Nat
    BY DEF SeatInv, TypeOK, SessionTypeOK
  <1>2. ASSUME NEW p \in Procs, SetupSession(p) \/ LoginSession(p)
        PROVE  now <= now' /\ \A t \in Tokens : OnlyDies(t)
    <2>1. who[p] \in Subjects
      BY <1>2 DEF SetupSession, LoginSession, SeatInv, FormNames, SetupPCs, LoginPCs
    <2> QED
      BY <1>1, <1>2, <2>1, StatementsOnlyKill DEF SetupSession, LoginSession
  <1>3. ASSUME NEW p \in Procs, LogoutRevoke(p)
        PROVE  now <= now' /\ \A t \in Tokens : OnlyDies(t)
    <2>1. cookie[p] \in Tokens
      BY <1>3 DEF LogoutRevoke, SeatInv, CookieSet, LogoutPCs
    <2>2. now' = now /\ (UNCHANGED sessions \/ \E u \in Tokens : Revoke(u))
      BY <1>3, <2>1 DEF LogoutRevoke
    <2> QED
      BY <1>1, <2>2, StatementsOnlyKill
  <1>4. CASE Cleanup
    <2>1. PICK c \in 0..now : DeleteInactive(c)
      BY <1>4 DEF Cleanup
    <2>2. c \in Nat
      BY <1>1
    <2> QED
      BY <1>1, <1>4, <2>1, <2>2, StatementsOnlyKill DEF Cleanup
  <1>5. CASE UNCHANGED sessions /\ (now' = now \/ now' = now + 1)
    BY <1>1, <1>5 DEF OnlyDies
  <1> QED
    BY <1>2, <1>3, <1>4, <1>5
       DEF Next, SetupBegin, LoginBegin, LogoutBegin, AdminBegin, SetupLockFails, SetupStep,
           LoginStep, LogoutStep, AdminStep, SetupCount, SetupLock, SetupRecount, SetupInsert,
           LoginVerify, LogoutCheck, AdminCheck, Serve, Tick, Crash

\* When one handler moves and rows only die, it is enough to look at that
\* handler and at what it adds to the logged-out tokens.
LEMMA OneHandlerMoves ==
    ASSUME SeatInv, SeatInv', LogoutInv, NEW p \in Procs,
           now <= now', \A t \in Tokens : OnlyDies(t),
           \A q \in Procs \ {p} : /\ pc'[q] = pc[q] /\ cookie'[q] = cookie[q]
                                  /\ row'[q] = row[q] /\ late'[q] = late[q],
           \A t \in loggedOut' : t \in loggedOut \/ Spent(t)',
           pc'[p] = "idle" => row'[p] = Unused,
           pc'[p] \in LogoutPCs => sessions'[cookie'[p]] # Unused,
           pc'[p] = "logoutCheck" /\ row'[p] # Unused =>
               sessions'[cookie'[p]] = row'[p] \/ Dead(sessions'[cookie'[p]]),
           pc'[p] = "adminCheck" /\ late'[p] => ~Validate(row'[p], now'),
           pc'[p] = "serve" => ~late'[p]
    PROVE  LogoutInv'
  <1>a. SessionTypeOK /\ SessionTypeOK' /\ TypeOK /\ CookieSet
    BY DEF SeatInv, TypeOK
  <1>1. IdleIsClean' /\ LogoutIsFinal'
    BY DEF LogoutInv, IdleIsClean, LogoutIsFinal
  <1>2. \A t \in Tokens : sessions[t] # Unused => sessions'[t] # Unused
    BY SessionMarksAssumption DEF OnlyDies, Dead
  <1>3. LogoutNamesSession'
    BY <1>a, <1>2 DEF LogoutInv, LogoutNamesSession, CookieSet
  <1>4. ReadRowStands'
    <2> SUFFICES ASSUME NEW q \in Procs, q # p, pc[q] = "logoutCheck", row[q] # Unused
                 PROVE  sessions'[cookie[q]] = row[q] \/ Dead(sessions'[cookie[q]])
      BY DEF ReadRowStands
    <2>1. cookie[q] \in Tokens /\ sessions[cookie[q]] # Unused
      BY <1>a DEF LogoutInv, LogoutNamesSession, CookieSet, LogoutPCs
    <2>2. sessions[cookie[q]] = row[q] \/ Dead(sessions[cookie[q]])
      BY DEF LogoutInv, ReadRowStands
    <2> QED
      BY <2>1, <2>2 DEF OnlyDies
  <1>5. LoggedOutIsSpent'
    <2> SUFFICES ASSUME NEW t \in loggedOut PROVE Spent(t)'
      BY DEF LoggedOutIsSpent
    <2>1. t \in Tokens
      BY <1>a DEF TypeOK
    <2> QED
      BY <1>a, <2>1, SpentStaysSpent DEF LogoutInv, LoggedOutIsSpent
  <1>6. LateIsRefused'
    <2> SUFFICES ASSUME NEW q \in Procs, q # p, pc[q] = "adminCheck", late[q]
                 PROVE  ~Validate(row[q], now')
      BY DEF LateIsRefused
    <2>1. row[q] \in SessionRow \cup {Unused, Deleted} /\ ~Validate(row[q], now)
      BY <1>a DEF TypeOK, LogoutInv, LateIsRefused
    <2>2. now \in Nat /\ now' \in Nat
      BY <1>a DEF SessionTypeOK
    <2> QED
      BY <2>1, <2>2, RefusedStaysRefused
  <1> QED
    BY <1>1, <1>3, <1>4, <1>5, <1>6 DEF LogoutInv

\* An answer is written, or a setup or login goes on: no session is concerned.
LEMMA OtherHandlers ==
    ASSUME SeatInv, SeatInv', LogoutInv, NEW p \in Procs,
           now <= now', \A t \in Tokens : OnlyDies(t), UNCHANGED loggedOut,
           Finish(p) \/ \E label \in SetupPCs \cup LoginPCs : Goto(p, label)
    PROVE  LogoutInv'
  <1>1. \A q \in Procs \ {p} : /\ pc'[q] = pc[q] /\ cookie'[q] = cookie[q]
                               /\ row'[q] = row[q] /\ late'[q] = late[q]
    BY DEF Finish, Goto, SeatInv, TypeOK
  <1>2. CASE Finish(p)
    <2>1. pc'[p] = "idle" /\ row'[p] = Unused
      BY <1>2 DEF Finish, SeatInv, TypeOK
    <2> QED
      BY <1>1, <2>1, OneHandlerMoves DEF LogoutPCs
  <1>3. CASE \E label \in SetupPCs \cup LoginPCs : Goto(p, label)
    <2>1. pc'[p] \in SetupPCs \cup LoginPCs
      BY <1>3 DEF Goto, SeatInv, TypeOK
    <2>2. pc'[p] \notin {"idle", "logoutCheck", "adminCheck", "serve"} /\ pc'[p] \notin LogoutPCs
      BY <2>1 DEF SetupPCs, LoginPCs, LogoutPCs
    <2> QED
      BY <1>1, <2>2, OneHandlerMoves
  <1> QED
    BY <1>2, <1>3

\* POST /admin/auth/logout.
LEMMA LogoutKeepsLogoutInv ==
    ASSUME SeatInv, SeatInv', LogoutInv, NEW p \in Procs,
           now <= now', \A t \in Tokens : OnlyDies(t),
           (\E t \in Tokens : LogoutBegin(p, t)) \/ LogoutStep(p)
    PROVE  LogoutInv'
  <1>a. TypeOK /\ SessionTypeOK /\ CookieSet
    BY DEF SeatInv, TypeOK
  <1>1. ASSUME NEW t \in Tokens, LogoutBegin(p, t) PROVE LogoutInv'
    <2>1. /\ pc'[p] = "logoutCheck" /\ cookie'[p] = t /\ sessions'[t] = sessions[t]
          /\ sessions[t] # Unused /\ UNCHANGED <<late, loggedOut>>
      BY <1>1, <1>a DEF LogoutBegin, TypeOK
    <2>2. row'[p] = sessions[t] \/ row'[p] = Unused
      BY <1>1, <1>a DEF LogoutBegin, TypeOK, LogoutInv, IdleIsClean
    <2>3. \A q \in Procs \ {p} : /\ pc'[q] = pc[q] /\ cookie'[q] = cookie[q]
                                 /\ row'[q] = row[q] /\ late'[q] = late[q]
      BY <1>1, <1>a DEF LogoutBegin, TypeOK
    <2> QED
      BY <2>1, <2>2, <2>3, OneHandlerMoves
  <1>2. CASE LogoutCheck(p)
    <2>1. CASE Goto(p, "logoutRevoke") /\ UNCHANGED loggedOut
      <3>1. \A q \in Procs \ {p} : /\ pc'[q] = pc[q] /\ cookie'[q] = cookie[q]
                                   /\ row'[q] = row[q] /\ late'[q] = late[q]
        BY <1>a, <2>1 DEF Goto, TypeOK
      <3>2. pc'[p] = "logoutRevoke" /\ sessions'[cookie'[p]] # Unused
        BY <1>2, <1>a, <2>1 DEF LogoutCheck, Goto, TypeOK, LogoutInv, LogoutNamesSession, LogoutPCs
      <3> QED
        BY <2>1, <3>1, <3>2, OneHandlerMoves
    <2>2. CASE ~Validate(row[p], now) /\ LogoutAnswer(p, row[p] # Unused)
      <3>1. \A q \in Procs \ {p} : /\ pc'[q] = pc[q] /\ cookie'[q] = cookie[q]
                                   /\ row'[q] = row[q] /\ late'[q] = late[q]
        BY <1>a, <2>2 DEF LogoutAnswer, Finish, TypeOK
      <3>2. pc'[p] = "idle" /\ row'[p] = Unused
        BY <1>a, <2>2 DEF LogoutAnswer, Finish, TypeOK
      <3>3. row[p] # Unused => Spent(cookie[p])
        BY <1>2, <2>2, DeadIsRefused
           DEF LogoutCheck, Spent, LogoutInv, ReadRowStands, LogoutNamesSession, LogoutPCs
      <3>4. \A t \in loggedOut' : t \in loggedOut \/ Spent(t)'
        <4>1. UNCHANGED <<now, sessions>>
          BY <1>2 DEF LogoutCheck
        <4> QED
          BY <2>2, <3>3, <4>1 DEF LogoutAnswer, Spent
      <3> QED
        BY <3>1, <3>2, <3>4, OneHandlerMoves DEF LogoutPCs
    <2> QED
      BY <1>2, <2>1, <2>2 DEF LogoutCheck
  <1>3. CASE LogoutRevoke(p)
    <2>1. \A q \in Procs \ {p} : /\ pc'[q] = pc[q] /\ cookie'[q] = cookie[q]
                                 /\ row'[q] = row[q] /\ late'[q] = late[q]
      BY <1>a, <1>3 DEF LogoutRevoke, LogoutAnswer, Finish, TypeOK
    <2>2. pc'[p] = "idle" /\ row'[p] = Unused
      BY <1>a, <1>3 DEF LogoutRevoke, LogoutAnswer, Finish, TypeOK
    <2>3. cookie[p] \in Tokens /\ sessions[cookie[p]] # Unused /\ now' = now
      BY <1>a, <1>3 DEF LogoutRevoke, CookieSet, LogoutInv, LogoutNamesSession, LogoutPCs
    <2>4. Revoke(cookie[p]) => Dead(sessions'[cookie[p]])
      <3>1. CASE Found(sessions[cookie[p]])
        BY <1>a, <2>3, <3>1, RevokeEffect
      <3>2. CASE ~Found(sessions[cookie[p]])
        BY <2>3, <3>2 DEF Revoke, Found, Dead
      <3> QED
        BY <3>1, <3>2
    <2>5. Revoke(cookie[p]) =>
              sessions'[cookie[p]] # Unused /\ ~Validate(sessions'[cookie[p]], now')
      BY <2>4, DeadIsRefused, SessionMarksAssumption DEF Dead
    <2>6. \A t \in loggedOut' : t \in loggedOut \/ Spent(t)'
      BY <1>3, <2>5 DEF LogoutRevoke, LogoutAnswer, Spent
    <2> QED
      BY <2>1, <2>2, <2>6, OneHandlerMoves DEF LogoutPCs
  <1> QED
    BY <1>1, <1>2, <1>3 DEF LogoutStep

\* A request for a page behind RequireOperator.
LEMMA AdminKeepsLogoutInv ==
    ASSUME SeatInv, SeatInv', LogoutInv, NEW p \in Procs,
           now <= now', \A t \in Tokens : OnlyDies(t),
           (\E t \in Tokens : AdminBegin(p, t)) \/ AdminStep(p)
    PROVE  LogoutInv'
  <1>a. TypeOK
    BY DEF SeatInv
  <1>1. ASSUME NEW t \in Tokens, AdminBegin(p, t) PROVE LogoutInv'
    <2> DEFINE b == t \in loggedOut
    <2>1. b => ~Validate(sessions[t], now)
      BY DEF LogoutInv, LoggedOutIsSpent, Spent
    <2>2. late' = [late EXCEPT ![p] = b]
      BY <1>1 DEF AdminBegin
    <2> HIDE DEF b
    <2>3. pc'[p] = "adminCheck" /\ row'[p] = sessions[t] /\ late'[p] = b
      BY <1>1, <1>a, <2>2 DEF AdminBegin, TypeOK
    <2>4. \A q \in Procs \ {p} : /\ pc'[q] = pc[q] /\ cookie'[q] = cookie[q]
                                 /\ row'[q] = row[q] /\ late'[q] = late[q]
      BY <1>1, <1>a, <2>2 DEF AdminBegin, TypeOK
    <2>5. UNCHANGED <<now, loggedOut>>
      BY <1>1 DEF AdminBegin
    <2> QED
      BY <2>1, <2>3, <2>4, <2>5, OneHandlerMoves DEF LogoutPCs
  <1>2. CASE AdminCheck(p)
    <2>1. CASE Finish(p)
      BY <1>2, <2>1, OtherHandlers DEF AdminCheck
    <2>2. CASE Validate(row[p], now) /\ Goto(p, "serve")
      <3>1. \A q \in Procs \ {p} : /\ pc'[q] = pc[q] /\ cookie'[q] = cookie[q]
                                   /\ row'[q] = row[q] /\ late'[q] = late[q]
        BY <1>a, <2>2 DEF Goto, TypeOK
      <3>2. pc'[p] = "serve" /\ ~late'[p] /\ UNCHANGED loggedOut
        BY <1>2, <1>a, <2>2 DEF AdminCheck, Goto, TypeOK, LogoutInv, LateIsRefused
      <3> QED
        BY <3>1, <3>2, OneHandlerMoves DEF LogoutPCs
    <2> QED
      BY <1>2, <2>1, <2>2 DEF AdminCheck
  <1>3. CASE Serve(p)
    BY <1>3, OtherHandlers DEF Serve
  <1> QED
    BY <1>1, <1>2, <1>3 DEF AdminStep

\* The cleanup goroutine, the clock and a restart.
LEMMA BackgroundKeepsLogoutInv ==
    ASSUME SeatInv, SeatInv', LogoutInv, now <= now', \A t \in Tokens : OnlyDies(t),
           Cleanup \/ Tick \/ Crash
    PROVE  LogoutInv'
  <1>a. SessionTypeOK /\ SessionTypeOK' /\ TypeOK /\ CookieSet
    BY DEF SeatInv, TypeOK
  <1>1. LoggedOutIsSpent'
    <2> SUFFICES ASSUME NEW t \in loggedOut PROVE Spent(t)'
      BY DEF LoggedOutIsSpent, Cleanup, Tick, Crash
    <2>1. t \in Tokens
      BY <1>a DEF TypeOK
    <2> QED
      BY <1>a, <2>1, SpentStaysSpent DEF LogoutInv, LoggedOutIsSpent
  <1>2. CASE UNCHANGED locals
    <2>1. IdleIsClean' /\ LogoutIsFinal'
      BY <1>2 DEF LogoutInv, IdleIsClean, LogoutIsFinal, locals
    <2>2. \A t \in Tokens : sessions[t] # Unused => sessions'[t] # Unused
      BY SessionMarksAssumption DEF OnlyDies, Dead
    <2>3. LogoutNamesSession'
      BY <1>2, <1>a, <2>2 DEF LogoutInv, LogoutNamesSession, CookieSet, locals
    <2>4. ReadRowStands'
      <3> SUFFICES ASSUME NEW q \in Procs, pc[q] = "logoutCheck", row[q] # Unused
                   PROVE  sessions'[cookie[q]] = row[q] \/ Dead(sessions'[cookie[q]])
        BY <1>2 DEF ReadRowStands, locals
      <3>1. cookie[q] \in Tokens /\ sessions[cookie[q]] # Unused
        BY <1>a DEF LogoutInv, LogoutNamesSession, CookieSet, LogoutPCs
      <3>2. sessions[cookie[q]] = row[q] \/ Dead(sessions[cookie[q]])
        BY DEF LogoutInv, ReadRowStands
      <3> QED
        BY <3>1, <3>2 DEF OnlyDies
    <2>5. LateIsRefused'
      <3> SUFFICES ASSUME NEW q \in Procs, pc[q] = "adminCheck", late[q]
                   PROVE  ~Validate(row[q], now')
        BY <1>2 DEF LateIsRefused, locals
      <3>1. row[q] \in SessionRow \cup {Unused, Deleted} /\ ~Validate(row[q], now)
        BY <1>a DEF TypeOK, LogoutInv, LateIsRefused
      <3>2. now \in Nat /\ now' \in Nat
        BY <1>a DEF SessionTypeOK
      <3> QED
        BY <3>1, <3>2, RefusedStaysRefused
    <2> QED
      BY <1>1, <2>1, <2>3, <2>4, <2>5 DEF LogoutInv
  <1>3. CASE Crash
    BY <1>1, <1>3 DEF Crash, LogoutInv, IdleIsClean, LogoutIsFinal, LogoutNamesSession,
          ReadRowStands, LateIsRefused, LogoutPCs
  <1> QED
    BY <1>2, <1>3 DEF Cleanup, Tick

\* On a first start nobody has logged out.
LEMMA LogoutInvInit == Init => LogoutInv
  BY DEF Init, LogoutInv, IdleIsClean, LogoutNamesSession, ReadRowStands, LoggedOutIsSpent,
         LateIsRefused, LogoutIsFinal, LogoutPCs

\* Every step keeps LogoutInv.
LEMMA LogoutInvNext == SeatInv /\ LogoutInv /\ [Next]_vars => LogoutInv'
  <1> SUFFICES ASSUME SeatInv, LogoutInv, [Next]_vars PROVE LogoutInv'
    OBVIOUS
  <1>1. SeatInv'
    BY SeatInvNext
  <1>2. CASE UNCHANGED vars
    BY <1>2 DEF vars, locals, LogoutInv, IdleIsClean, LogoutNamesSession, ReadRowStands,
          LoggedOutIsSpent, Spent, LateIsRefused, LogoutIsFinal
  <1>3. CASE Next
    <2>1. now <= now' /\ \A t \in Tokens : OnlyDies(t)
      BY <1>3, RowsOnlyDie
    <2>2. ASSUME NEW p \in Procs, NEW o \in Subjects, SetupBegin(p, o) \/ LoginBegin(p, o)
          PROVE  LogoutInv'
      <3>1. \A q \in Procs \ {p} : /\ pc'[q] = pc[q] /\ cookie'[q] = cookie[q]
                                   /\ row'[q] = row[q] /\ late'[q] = late[q]
        BY <2>2 DEF SetupBegin, LoginBegin, SeatInv, TypeOK
      <3>2. pc'[p] \in {"setupCount", "loginVerify"} /\ UNCHANGED loggedOut
        BY <2>2 DEF SetupBegin, LoginBegin, SeatInv, TypeOK
      <3> QED
        BY <1>1, <2>1, <3>1, <3>2, OneHandlerMoves DEF LogoutPCs
    <2>3. ASSUME NEW p \in Procs, SetupLockFails(p) \/ SetupStep(p) \/ LoginStep(p) PROVE LogoutInv'
      <3>1. Finish(p) \/ \E label \in SetupPCs \cup LoginPCs : Goto(p, label)
        BY <2>3 DEF SetupLockFails, SetupStep, LoginStep, SetupCount, SetupLock, SetupRecount,
              SetupInsert, SetupSession, LoginVerify, LoginSession, SetupPCs, LoginPCs
      <3>2. UNCHANGED loggedOut
        BY <2>3 DEF SetupLockFails, SetupStep, LoginStep, SetupCount, SetupLock, SetupRecount,
              SetupInsert, SetupSession, LoginVerify, LoginSession
      <3> QED
        BY <1>1, <2>1, <3>1, <3>2, OtherHandlers
    <2> QED
      BY <1>1, <1>3, <2>1, <2>2, <2>3, LogoutKeepsLogoutInv, AdminKeepsLogoutInv,
         BackgroundKeepsLogoutInv DEF Next
  <1> QED
    BY <1>2, <1>3

\* No admin page is served to a request that began after a logout with its
\* cookie was answered, if the database had answered that logout: with any
\* number of requests, expiries, cleanups and restarts between the logout's
\* read, its revocation and the later request's read.
THEOREM LogoutEndsSession == Spec => []LogoutIsFinal
  <1>1. Init => SeatInv /\ LogoutInv
    BY SeatInvInit, LogoutInvInit
  <1>2. SeatInv /\ LogoutInv /\ [Next]_vars => SeatInv' /\ LogoutInv'
    BY SeatInvNext, LogoutInvNext
  <1>3. LogoutInv => LogoutIsFinal
    BY DEF LogoutInv
  <1> QED
    BY <1>1, <1>2, <1>3, PTL DEF Spec
=============================================================================
