---------------------------- MODULE SessionStore ----------------------------
(***************************************************************************)
(* The rows of a session table and the statements the session managers run *)
(* on it.  The user manager (internal/session/session.go over              *)
(* session_repo.go) and the operator manager (operator.go over             *)
(* operator_session_repo.go) are the same code over two tables, so one     *)
(* module serves both: Subjects are the users of one, the operators of the *)
(* other.                                                                  *)
(*                                                                         *)
(* A token is 32 random bytes of which the table keeps the SHA-256 hash.   *)
(* A token stands here for both: tokens are never drawn twice and hashes   *)
(* do not collide.  A token never drawn is Unused; one whose row the       *)
(* cleanup has deleted is Deleted.  Both read as "record not found".       *)
(***************************************************************************)
EXTENDS Integers

CONSTANTS
    Tokens,      \* session tokens that can be drawn
    Subjects,    \* the owners of sessions: users, or operators
    SessionTTL,  \* Config.TTL, in clock ticks
    Unused,      \* marks a token that has no row yet
    Deleted      \* marks a token whose row is gone

VARIABLES
    now,         \* the clock time.Now() reads
    sessions     \* the session table

SessionRow == [subject : Subjects, expiresAt : Nat, revoked : BOOLEAN]

ASSUME SessionTTLAssumption == SessionTTL \in Nat
ASSUME SessionMarksAssumption ==
    Unused # Deleted /\ Unused \notin SessionRow /\ Deleted \notin SessionRow

SessionTypeOK ==
    /\ now \in Nat
    /\ sessions \in [Tokens -> SessionRow \cup {Unused, Deleted}]

\* A database with no session in it.
NoSessions == [t \in Tokens |-> Unused]

\* GetByTokenHash finds a row.
Found(row) == row \notin {Unused, Deleted}

-----------------------------------------------------------------------------
\* Faulty variant: the check of RevokedAt is missing.
ValidateIgnoresRevocation(row, clock) == Found(row) /\ ~(clock > row.expiresAt)

(* Manager.Validate, after the row has been read: the clock is read last,  *)
(* and a session is still good in the very instant it expires.             *)
Validate(row, clock) == Found(row) /\ ~row.revoked /\ ~(clock > row.expiresAt)

\* Manager.Create: draw a token, insert its row.
Create(t, s) ==
    /\ sessions[t] = Unused
    /\ sessions' = [sessions EXCEPT ![t] =
            [subject |-> s, expiresAt |-> now + SessionTTL, revoked |-> FALSE]]

\* Manager.Revoke: UPDATE ... SET revoked_at WHERE id.  It matches no row,
\* and changes nothing, when the session has been deleted meanwhile.
Revoke(t) ==
    sessions' = IF Found(sessions[t])
                THEN [sessions EXCEPT ![t].revoked = TRUE]
                ELSE sessions

\* Manager.RevokeAllForUser, OperatorManager.RevokeAllForOperator.
RevokeAll(s) ==
    sessions' = [t \in Tokens |->
        IF Found(sessions[t]) /\ sessions[t].subject = s
        THEN [sessions[t] EXCEPT !.revoked = TRUE]
        ELSE sessions[t]]

\* Faulty variant: the cutoff is compared with <=.
InactiveFromExpiry(row, cutoff) == Found(row) /\ (row.expiresAt <= cutoff \/ row.revoked)

\* Faulty variant: only revoked rows past their expiry are deleted.
InactiveConjoined(row, cutoff) == Found(row) /\ row.expiresAt < cutoff /\ row.revoked

\* The condition of DeleteInactive's DELETE, for the cutoff its caller read.
Inactive(row, cutoff) == Found(row) /\ (row.expiresAt < cutoff \/ row.revoked)

\* Manager.DeleteInactive.
DeleteInactive(cutoff) ==
    sessions' = [t \in Tokens |->
        IF Inactive(sessions[t], cutoff) THEN Deleted ELSE sessions[t]]
=============================================================================
