--------------------------- MODULE SessionsProofs ---------------------------
(***************************************************************************)
(* Proofs about Sessions, for any number of tokens, subjects and requests: *)
(* revocation is final, nothing revives a session, and the cleanup takes   *)
(* only what Validate refuses.                                             *)
(*                                                                         *)
(* RevocationIsFinal speaks of requests that have been accepted.  What     *)
(* carries it is that a revocation that has returned leaves a row that is  *)
(* dead for good, so that a request that begins later reads a dead row;    *)
(* and the cleanup is harmless because its cutoff is never ahead of the    *)
(* clock.                                                                  *)
(***************************************************************************)
EXTENDS Sessions, SessionStoreProofs, TLAPS

\* What has been revoked is dead.
EndedIsDead == \A t \in ended : Dead(sessions[t])

\* Whoever began after that has read a dead row.
LateReadsDead == \A p \in Requests : pc[p] = "check" /\ late[p] => Dead(row[p])

\* The DELETE on its way compares with a time that has been.
CutoffHasBeen == cutoff <= now

SessionInv ==
    /\ TypeOK
    /\ EndedIsDead
    /\ LateReadsDead
    /\ RevocationIsFinal
    /\ CutoffHasBeen

-----------------------------------------------------------------------------
\* An empty table satisfies the invariant.
LEMMA SessionInvInit == Init => SessionInv
  BY SessionMarksAssumption
     DEF Init, SessionInv, TypeOK, SessionTypeOK, NoSessions, NoToken, EndedIsDead,
         LateReadsDead, RevocationIsFinal, CutoffHasBeen

\* A step on the table alone, which kills rows or draws new ones, keeps what
\* the requests know.
LEMMA TableStep ==
    ASSUME SessionInv, SessionTypeOK', UNCHANGED <<now, request, cleanup>>,
           ended' \in SUBSET Tokens,
           \A t \in ended' : Dead(sessions'[t])
    PROVE  SessionInv'
  BY DEF SessionInv, request, cleanup, TypeOK, EndedIsDead, LateReadsDead,
         RevocationIsFinal, CutoffHasBeen, SessionTypeOK, Dead

\* Every step keeps the invariant.
LEMMA SessionInvNext == SessionInv /\ [Next]_vars => SessionInv'
  <1> SUFFICES ASSUME SessionInv, [Next]_vars PROVE SessionInv'
    OBVIOUS
  <1>a. TypeOK /\ SessionTypeOK /\ EndedIsDead
    BY DEF SessionInv, TypeOK
  <1>1. ASSUME NEW t \in Tokens, NEW s \in Subjects, SignIn(t, s) PROVE SessionInv'
    <2>1. ended' = ended /\ UNCHANGED <<now, request, cleanup>>
      BY <1>1 DEF SignIn
    <2>2. /\ SessionTypeOK'
          /\ \A u \in Tokens : sessions'[u] = sessions[u] \/ sessions[u] = Unused
      BY <1>1, <1>a, <2>1, CreateEffect DEF SignIn
    <2>3. \A u \in ended : sessions[u] # Unused
      BY <1>a, SessionMarksAssumption DEF EndedIsDead, Dead
    <2> QED
      BY <1>a, <2>1, <2>2, <2>3, TableStep DEF TypeOK, EndedIsDead
  <1>2. ASSUME NEW p \in Requests, NEW t \in Tokens, Lookup(p, t) PROVE SessionInv'
    <2> DEFINE b == t \in ended
    <2>1. b \in BOOLEAN /\ late' = [late EXCEPT ![p] = b]
      BY <1>2 DEF Lookup
    <2>2. b => Dead(sessions[t])
      BY <1>a DEF EndedIsDead
    <2> HIDE DEF b
    <2>3. TypeOK'
      BY <1>2, <1>a, <2>1 DEF Lookup, TypeOK, SessionTypeOK, cleanup
    <2>4. EndedIsDead' /\ CutoffHasBeen'
      BY <1>2 DEF Lookup, SessionInv, EndedIsDead, CutoffHasBeen, cleanup, Dead
    <2>5. LateReadsDead' /\ RevocationIsFinal'
      BY <1>2, <1>a, <2>1, <2>2
         DEF Lookup, SessionInv, TypeOK, LateReadsDead, RevocationIsFinal
    <2> QED
      BY <2>3, <2>4, <2>5 DEF SessionInv
  <1>3. ASSUME NEW p \in Requests, Check(p) PROVE SessionInv'
    <2>1. TypeOK'
      BY <1>3, <1>a DEF Check, TypeOK, SessionTypeOK, cleanup, NoToken
    <2>2. EndedIsDead' /\ CutoffHasBeen'
      BY <1>3 DEF Check, SessionInv, EndedIsDead, CutoffHasBeen, cleanup, Dead
    <2>3. Validate(row[p], now) => ~late[p]
      BY <1>3, DeadIsRefused DEF Check, SessionInv, LateReadsDead
    <2>4. LateReadsDead' /\ RevocationIsFinal'
      BY <1>3, <1>a, <2>3 DEF Check, SessionInv, TypeOK, LateReadsDead, RevocationIsFinal
    <2> QED
      BY <2>1, <2>2, <2>4 DEF SessionInv
  <1>4. ASSUME NEW p \in Requests, Answer(p) PROVE SessionInv'
    <2>1. TypeOK'
      BY <1>4, <1>a DEF Answer, TypeOK, SessionTypeOK, cleanup, NoToken
    <2>2. EndedIsDead' /\ CutoffHasBeen'
      BY <1>4 DEF Answer, SessionInv, EndedIsDead, CutoffHasBeen, cleanup, Dead
    <2>3. LateReadsDead' /\ RevocationIsFinal'
      BY <1>4, <1>a DEF Answer, SessionInv, TypeOK, LateReadsDead, RevocationIsFinal
    <2> QED
      BY <2>1, <2>2, <2>3 DEF SessionInv
  <1>5. ASSUME NEW t \in Tokens, SignOut(t) PROVE SessionInv'
    <2>1. ended' = ended \cup {t} /\ UNCHANGED <<now, request, cleanup>>
      BY <1>5 DEF SignOut
    <2>2. /\ SessionTypeOK' /\ Dead(sessions'[t])
          /\ \A u \in Tokens : sessions'[u] = sessions[u] \/ Dead(sessions'[u])
      BY <1>5, <1>a, <2>1, RevokeEffect DEF SignOut
    <2> QED
      BY <1>a, <2>1, <2>2, TableStep DEF TypeOK, EndedIsDead
  <1>6. ASSUME NEW s \in Subjects, SignOutEverywhere(s) PROVE SessionInv'
    <2> DEFINE owned == {t \in Tokens : Found(sessions[t]) /\ sessions[t].subject = s}
    <2>1. ended' = ended \cup owned /\ UNCHANGED <<now, request, cleanup>>
      BY <1>6 DEF SignOutEverywhere
    <2>2. /\ SessionTypeOK'
          /\ \A u \in Tokens : IF u \in owned THEN Dead(sessions'[u])
                               ELSE sessions'[u] = sessions[u]
      BY <1>6, <1>a, <2>1, RevokeAllEffect DEF SignOutEverywhere
    <2> QED
      BY <1>a, <2>1, <2>2, TableStep DEF TypeOK, EndedIsDead
  <1>7. CASE SweepBegin \/ SweepFail
    BY <1>7, <1>a DEF SweepBegin, SweepFail, SessionInv, TypeOK, SessionTypeOK, request,
          EndedIsDead, LateReadsDead, RevocationIsFinal, CutoffHasBeen, Dead
  <1>8. CASE SweepDelete
    <2>1. ended' = ended /\ cutoff \in Nat /\ now' = now
      BY <1>8, <1>a DEF SweepDelete, TypeOK
    <2>2. /\ SessionTypeOK'
          /\ \A u \in Tokens : sessions'[u] = sessions[u] \/ sessions'[u] = Deleted
      BY <1>8, <1>a, <2>1, DeleteEffect DEF SweepDelete
    <2>3. EndedIsDead'
      BY <1>a, <2>1, <2>2 DEF EndedIsDead, Dead, TypeOK
    <2> QED
      BY <1>8, <1>a, <2>2, <2>3 DEF SweepDelete, SessionInv, TypeOK, SessionTypeOK, request,
            LateReadsDead, RevocationIsFinal, CutoffHasBeen, Dead
  <1>9. CASE Tick
    BY <1>9, <1>a DEF Tick, SessionInv, TypeOK, SessionTypeOK, request, cleanup,
          EndedIsDead, LateReadsDead, RevocationIsFinal, CutoffHasBeen, Dead
  <1>10. CASE UNCHANGED vars
    BY <1>10, <1>a DEF vars, SessionInv, TypeOK, SessionTypeOK,
          EndedIsDead, LateReadsDead, RevocationIsFinal, CutoffHasBeen, Dead
  <1> QED
    BY <1>1, <1>2, <1>3, <1>4, <1>5, <1>6, <1>7, <1>8, <1>9, <1>10 DEF Next

\* The invariant holds in every reachable state.
LEMMA SessionInvariant == Spec => []SessionInv
  BY SessionInvInit, SessionInvNext, PTL DEF Spec

-----------------------------------------------------------------------------
\* The session table, the requests and the cleanup keep their types.
THEOREM TypeCorrect == Spec => []TypeOK
  <1>1. SessionInv => TypeOK
    BY DEF SessionInv
  <1> QED
    BY <1>1, SessionInvariant, PTL

\* Revocation is final: Validate never accepts a request that began after
\* the session's Revoke or RevokeAllForUser had returned, whatever cleanups,
\* sign-ins and other revocations run beside it.
THEOREM RevokedForGood == Spec => []RevocationIsFinal
  <1>1. SessionInv => RevocationIsFinal
    BY DEF SessionInv
  <1> QED
    BY <1>1, SessionInvariant, PTL

\* What one step may do to a token's row: it draws a token never drawn
\* before, kills the row, or leaves it as it is.
LEMMA RowStep ==
    ASSUME SessionInv, Next, NEW t \in Tokens
    PROVE  \/ sessions[t] = Unused
           \/ sessions'[t] = sessions[t]
           \/ Dead(sessions'[t])
  <1>a. TypeOK /\ SessionTypeOK
    BY DEF SessionInv, TypeOK
  <1>1. CASE \E u \in Tokens, s \in Subjects : SignIn(u, s)
    BY <1>1, <1>a, CreateEffect DEF SignIn
  <1>2. CASE \E u \in Tokens : SignOut(u)
    BY <1>2, <1>a, RevokeEffect DEF SignOut
  <1>3. CASE \E s \in Subjects : SignOutEverywhere(s)
    BY <1>3, <1>a, RevokeAllEffect DEF SignOutEverywhere
  <1>4. CASE SweepDelete
    <2>1. cutoff \in Nat
      BY <1>a DEF TypeOK
    <2> QED
      BY <1>4, <1>a, <2>1, DeleteEffect DEF SweepDelete, Dead
  <1>5. CASE UNCHANGED sessions
    BY <1>5
  <1> QED
    BY <1>1, <1>2, <1>3, <1>4, <1>5
       DEF Next, Lookup, Check, Answer, SweepBegin, SweepFail, Tick

\* No step of anyone makes Validate accept a session that it refused: a
\* second revocation, a bulk one, the cleanup and the clock only end sessions.
THEOREM NothingRevives == Spec => NoRevival
  <1>1. SessionInv /\ [Next]_vars =>
            [\A t \in Tokens : (sessions[t] # Unused /\ ~Validate(sessions[t], now))
                                  => ~Validate(sessions'[t], now')]_vars
    <2> SUFFICES ASSUME SessionInv, Next, NEW t \in Tokens,
                        sessions[t] # Unused, ~Validate(sessions[t], now)
                 PROVE  ~Validate(sessions'[t], now')
      OBVIOUS
    <2>a. SessionTypeOK
      BY DEF SessionInv, TypeOK
    <2>1. now' \in Nat /\ now' >= now
      BY <2>a DEF SessionTypeOK, Next, SignIn, Lookup, Check, Answer, SignOut,
            SignOutEverywhere, SweepBegin, SweepDelete, SweepFail, Tick
    <2>2. CASE Dead(sessions'[t])
      BY <2>2, DeadIsRefused
    <2>3. CASE sessions'[t] = sessions[t] /\ ~Found(sessions[t])
      BY <2>3 DEF Validate
    <2>4. CASE sessions'[t] = sessions[t] /\ Found(sessions[t])
      <3>1. sessions[t].expiresAt \in Nat
        BY <2>4, <2>a, FoundIsRow DEF SessionRow
      <3> QED
        BY <2>4, <2>a, <2>1, <3>1 DEF Validate, SessionTypeOK
    <2> QED
      BY <2>2, <2>3, <2>4, RowStep
  <1> QED
    BY <1>1, SessionInvariant, PTL DEF Spec, NoRevival

\* Only SweepDelete removes rows, and its cutoff has been: what it removes,
\* Validate already refuses.
THEOREM CleanupIsSafe == Spec => CleanupSparesLiveSessions
  <1>1. SessionInv /\ [Next]_vars =>
            [\A t \in Tokens : (Found(sessions[t]) /\ sessions'[t] = Deleted)
                                  => ~Validate(sessions[t], now)]_vars
    <2> SUFFICES ASSUME SessionInv, Next, NEW t \in Tokens,
                        Found(sessions[t]), sessions'[t] = Deleted
                 PROVE  ~Validate(sessions[t], now)
      OBVIOUS
    <2>a. SessionTypeOK /\ sessions[t] \in SessionRow /\ cutoff \in Nat /\ cutoff <= now
      BY FoundIsRow DEF SessionInv, TypeOK, CutoffHasBeen
    <2>1. CASE SweepDelete
      <3>1. Inactive(sessions[t], cutoff)
        BY <2>1, <2>a, DeleteEffect, SessionMarksAssumption DEF SweepDelete
      <3>2. sessions[t].expiresAt \in Nat /\ now \in Nat
        BY <2>a DEF SessionRow, SessionTypeOK
      <3> QED
        BY <2>a, <3>1, <3>2 DEF Inactive, Validate
    <2>2. CASE \E u \in Tokens, s \in Subjects : SignIn(u, s)
      <3>1. sessions'[t] = sessions[t]
        BY <2>2, <2>a, CreateEffect, SessionMarksAssumption DEF SignIn
      <3> QED
        BY <3>1 DEF Found
    <2>3. CASE \E u \in Tokens : SignOut(u)
      <3> PICK u \in Tokens : SignOut(u)
        BY <2>3
      <3>1. sessions' = [sessions EXCEPT ![u].revoked = TRUE]
        BY DEF SignOut, Revoke
      <3>2. sessions'[t] = sessions[t] \/ sessions'[t] = [sessions[t] EXCEPT !.revoked = TRUE]
        BY <3>1, <2>a DEF SessionTypeOK
      <3>3. [sessions[t] EXCEPT !.revoked = TRUE] \in SessionRow
        BY <2>a DEF SessionRow
      <3> QED
        BY <3>2, <3>3, SessionMarksAssumption DEF Found
    <2>4. CASE \E s \in Subjects : SignOutEverywhere(s)
      <3>2. sessions'[t] = sessions[t] \/ sessions'[t] = [sessions[t] EXCEPT !.revoked = TRUE]
        BY <2>4 DEF SignOutEverywhere, RevokeAll
      <3>3. [sessions[t] EXCEPT !.revoked = TRUE] \in SessionRow
        BY <2>a DEF SessionRow
      <3> QED
        BY <3>2, <3>3, SessionMarksAssumption DEF Found
    <2>5. CASE UNCHANGED sessions
      BY <2>5 DEF Found
    <2> QED
      BY <2>1, <2>2, <2>3, <2>4, <2>5
         DEF Next, Lookup, Check, Answer, SweepBegin, SweepFail, Tick
  <1> QED
    BY <1>1, SessionInvariant, PTL DEF Spec, CleanupSparesLiveSessions
=============================================================================
