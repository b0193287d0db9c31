------------------------- MODULE SessionStoreProofs -------------------------
(***************************************************************************)
(* Lemmas about the statements of SessionStore, for every table and clock: *)
(* what each does to the row of a token, and which rows can never be       *)
(* accepted again.  The proofs about Sessions and OperatorAccess, whose    *)
(* tables these are, rest on them.                                         *)
(***************************************************************************)
EXTENDS SessionStore, TLAPS

\* A row no clock can bring back.
Dead(r) == r = Deleted \/ (r \in SessionRow /\ r.revoked)

\* Validate refuses a dead row at any time.
LEMMA DeadIsRefused ==
    ASSUME NEW r, NEW clock, Dead(r) PROVE ~Validate(r, clock)
  BY SessionMarksAssumption DEF Dead, Validate, Found

\* A row that is found is a row.
LEMMA FoundIsRow ==
    ASSUME SessionTypeOK, NEW t \in Tokens, Found(sessions[t]) PROVE sessions[t] \in SessionRow
  BY DEF SessionTypeOK, Found

\* Create makes a row where there was none and leaves the others.
LEMMA CreateEffect ==
    ASSUME SessionTypeOK, NEW t \in Tokens, NEW s \in Subjects, Create(t, s), now' = now
    PROVE  /\ SessionTypeOK'
           /\ \A u \in Tokens : sessions'[u] = sessions[u] \/ sessions[u] = Unused
  <1>1. now + SessionTTL \in Nat
    BY SessionTTLAssumption DEF SessionTypeOK
  <1>2. [subject |-> s, expiresAt |-> now + SessionTTL, revoked |-> FALSE] \in SessionRow
    BY <1>1 DEF SessionRow
  <1> QED
    BY <1>2 DEF SessionTypeOK, Create

\* Revoke kills the row it names and leaves the others.
LEMMA RevokeEffect ==
    ASSUME SessionTypeOK, NEW t \in Tokens, Found(sessions[t]), Revoke(t), now' = now
    PROVE  /\ SessionTypeOK'
           /\ Dead(sessions'[t])
           /\ \A u \in Tokens : sessions'[u] = sessions[u] \/ Dead(sessions'[u])
  <1> DEFINE gone == [sessions[t] EXCEPT !.revoked = TRUE]
  <1>1. gone \in SessionRow /\ gone.revoked
    BY FoundIsRow DEF SessionRow
  <1>2. sessions' = [sessions EXCEPT ![t] = gone]
    BY DEF Revoke
  <1> HIDE DEF gone
  <1> QED
    BY <1>1, <1>2 DEF SessionTypeOK, Dead

\* RevokeAll kills every row of the subject and leaves the others.
LEMMA RevokeAllEffect ==
    ASSUME SessionTypeOK, NEW s \in Subjects, RevokeAll(s), now' = now
    PROVE  /\ SessionTypeOK'
           /\ \A u \in Tokens : IF Found(sessions[u]) /\ sessions[u].subject = s
                                THEN Dead(sessions'[u])
                                ELSE sessions'[u] = sessions[u]
  <1> DEFINE owned(u) == Found(sessions[u]) /\ sessions[u].subject = s
             gone(u) == [sessions[u] EXCEPT !.revoked = TRUE]
  <1>1. \A u \in Tokens : owned(u) => gone(u) \in SessionRow /\ gone(u).revoked
    BY FoundIsRow DEF SessionRow
  <1>2. sessions' = [u \in Tokens |-> IF owned(u) THEN gone(u) ELSE sessions[u]]
    BY DEF RevokeAll
  <1>3. \A u \in Tokens : IF owned(u) THEN Dead(sessions'[u]) ELSE sessions'[u] = sessions[u]
    <2> HIDE DEF owned, gone
    <2> QED
      BY <1>1, <1>2 DEF Dead
  <1>4. SessionTypeOK'
    <2> HIDE DEF owned, gone
    <2> QED
      BY <1>1, <1>2 DEF SessionTypeOK
  <1> QED
    BY <1>3, <1>4

\* DeleteInactive deletes what is inactive at its cutoff and leaves the others.
LEMMA DeleteEffect ==
    ASSUME SessionTypeOK, NEW c \in Nat, DeleteInactive(c), now' = now
    PROVE  /\ SessionTypeOK'
           /\ \A u \in Tokens : IF Inactive(sessions[u], c) THEN sessions'[u] = Deleted
                                ELSE sessions'[u] = sessions[u]
  BY DEF SessionTypeOK, DeleteInactive

\* Whatever a statement does to the row of a token that has been drawn, the
\* row stays as it is or is dead.
OnlyDies(t) == sessions[t] # Unused => sessions'[t] = sessions[t] \/ Dead(sessions'[t])

\* Create, Revoke, RevokeAll and DeleteInactive never change a row in any other
\* way than by killing it.
LEMMA StatementsOnlyKill ==
    ASSUME SessionTypeOK, NEW t \in Tokens,
           \/ UNCHANGED sessions
           \/ \E u \in Tokens, s \in Subjects : Create(u, s)
           \/ \E u \in Tokens : Revoke(u)
           \/ \E s \in Subjects : RevokeAll(s)
           \/ \E c \in Nat : DeleteInactive(c)
    PROVE  OnlyDies(t)
  <1>1. CASE UNCHANGED sessions
    BY <1>1 DEF OnlyDies
  <1>2. ASSUME NEW u \in Tokens, NEW s \in Subjects, Create(u, s) PROVE OnlyDies(t)
    BY <1>2 DEF OnlyDies, Create, SessionTypeOK
  <1>3. ASSUME NEW u \in Tokens, Revoke(u) PROVE OnlyDies(t)
    <2>1. CASE Found(sessions[u])
      <3> DEFINE gone == [sessions[u] EXCEPT !.revoked = TRUE]
      <3>1. gone \in SessionRow /\ gone.revoked
        BY <2>1, FoundIsRow DEF SessionRow
      <3>2. sessions' = [sessions EXCEPT ![u] = gone]
        BY <1>3, <2>1 DEF Revoke
      <3> HIDE DEF gone
      <3> QED
        BY <3>1, <3>2 DEF SessionTypeOK, Dead, OnlyDies
    <2>2. CASE ~Found(sessions[u])
      BY <1>3, <2>2 DEF Revoke, OnlyDies
    <2> QED
      BY <2>1, <2>2
  <1>4. ASSUME NEW s \in Subjects, RevokeAll(s) PROVE OnlyDies(t)
    <2> DEFINE gone == [sessions[t] EXCEPT !.revoked = TRUE]
    <2>1. sessions'[t] = IF Found(sessions[t]) /\ sessions[t].subject = s THEN gone ELSE sessions[t]
      BY <1>4 DEF RevokeAll
    <2>2. Found(sessions[t]) => gone \in SessionRow /\ gone.revoked
      BY FoundIsRow DEF SessionRow
    <2> HIDE DEF gone
    <2> QED
      BY <2>1, <2>2 DEF OnlyDies, Dead
  <1>5. ASSUME NEW c \in Nat, DeleteInactive(c) PROVE OnlyDies(t)
    BY <1>5 DEF DeleteInactive, OnlyDies, Dead
  <1> QED
    BY <1>1, <1>2, <1>3, <1>4, <1>5

\* A row that Validate refuses it refuses at every later time.
LEMMA RefusedStaysRefused ==
    ASSUME NEW r \in SessionRow \cup {Unused, Deleted}, NEW c \in Nat, NEW d \in Nat, c <= d,
           ~Validate(r, c)
    PROVE  ~Validate(r, d)
  BY DEF Validate, Found, SessionRow
=============================================================================
