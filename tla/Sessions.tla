------------------------------ MODULE Sessions ------------------------------
(***************************************************************************)
(* A session manager in use: requests whose middleware validates a cookie  *)
(* token, revocations, and the hourly cleanup goroutine of App.Run, all    *)
(* against the one table of SessionStore.                                  *)
(*                                                                         *)
(* Validate reads the row and only then the clock, so a session can be     *)
(* revoked, expire or be deleted between the two.  DeleteInactive reads    *)
(* the clock in Go and sends it with the DELETE, which runs later.         *)
(***************************************************************************)
EXTENDS SessionStore

CONSTANTS
    Requests,    \* requests in flight at once
    MaxTime      \* bound: the clock stops here

ASSUME MaxTimeAssumption == MaxTime \in Nat

VARIABLES
    pc,          \* where each request is: idle, check or accepted
    token,       \* the cookie token of the request
    row,         \* the row GetByTokenHash returned to it
    late,        \* history: its token's revocation had returned before it began
    sweep,       \* the cleanup goroutine: idle, or about to run its DELETE
    cutoff,      \* the clock value that DELETE carries
    ended        \* history: tokens whose revocation has returned

vars == <<now, sessions, pc, token, row, late, sweep, cutoff, ended>>
request == <<pc, token, row, late>>
cleanup == <<sweep, cutoff>>

NoToken == Unused

TypeOK ==
    /\ SessionTypeOK
    /\ pc \in [Requests -> {"idle", "check", "accepted"}]
    /\ token \in [Requests -> Tokens \cup {NoToken}]
    /\ row \in [Requests -> SessionRow \cup {Unused, Deleted}]
    /\ late \in [Requests -> BOOLEAN]
    /\ sweep \in {"idle", "delete"}
    /\ cutoff \in Nat
    /\ ended \in SUBSET Tokens

Init ==
    /\ now = 0
    /\ sessions = NoSessions
    /\ pc = [p \in Requests |-> "idle"]
    /\ token = [p \in Requests |-> NoToken]
    /\ row = [p \in Requests |-> Unused]
    /\ late = [p \in Requests |-> FALSE]
    /\ sweep = "idle"
    /\ cutoff = 0
    /\ ended = {}

-----------------------------------------------------------------------------
\* Sign-in: the manager creates a session.
SignIn(t, s) ==
    /\ Create(t, s)
    /\ UNCHANGED <<now, request, cleanup, ended>>

\* The middleware has a cookie and reads its row.
Lookup(p, t) ==
    /\ pc[p] = "idle"
    /\ pc' = [pc EXCEPT ![p] = "check"]
    /\ token' = [token EXCEPT ![p] = t]
    /\ row' = [row EXCEPT ![p] = sessions[t]]
    /\ late' = [late EXCEPT ![p] = t \in ended]
    /\ UNCHANGED <<now, sessions, cleanup, ended>>

\* Faulty variant: an accepted request extends the session by writing the
\* row it read back, whatever has happened to the row since.
CheckAndTouch(p) ==
    /\ pc[p] = "check"
    /\ Validate(row[p], now)
    /\ pc' = [pc EXCEPT ![p] = "accepted"]
    /\ sessions' = [sessions EXCEPT ![token[p]] =
                        [row[p] EXCEPT !.expiresAt = now + SessionTTL]]
    /\ UNCHANGED <<now, token, row, late, cleanup, ended>>

\* The rest of Validate, on the row read: the request goes on as the
\* session's subject, or as nobody, which ends it here.
Check(p) ==
    /\ pc[p] = "check"
    /\ IF Validate(row[p], now)
       THEN /\ pc' = [pc EXCEPT ![p] = "accepted"]
            /\ UNCHANGED <<token, row, late>>
       ELSE /\ pc' = [pc EXCEPT ![p] = "idle"]
            /\ token' = [token EXCEPT ![p] = NoToken]
            /\ row' = [row EXCEPT ![p] = Unused]
            /\ late' = [late EXCEPT ![p] = FALSE]
    /\ UNCHANGED <<now, sessions, cleanup, ended>>

\* The accepted request is answered.
Answer(p) ==
    /\ pc[p] = "accepted"
    /\ pc' = [pc EXCEPT ![p] = "idle"]
    /\ token' = [token EXCEPT ![p] = NoToken]
    /\ row' = [row EXCEPT ![p] = Unused]
    /\ late' = [late EXCEPT ![p] = FALSE]
    /\ UNCHANGED <<now, sessions, cleanup, ended>>

\* One session is revoked, as logout does.
SignOut(t) ==
    /\ Found(sessions[t])
    /\ Revoke(t)
    /\ ended' = ended \cup {t}
    /\ UNCHANGED <<now, request, cleanup>>

\* All sessions of a subject are revoked.
SignOutEverywhere(s) ==
    LET owned == {t \in Tokens : Found(sessions[t]) /\ sessions[t].subject = s}
    IN  /\ owned # {}
        /\ RevokeAll(s)
        /\ ended' = ended \cup owned
        /\ UNCHANGED <<now, request, cleanup>>

\* Faulty variant: a grace period is taken off the clock.
SweepBeginWithGrace ==
    /\ sweep = "idle"
    /\ sweep' = "delete"
    /\ cutoff' = now - SessionTTL
    /\ UNCHANGED <<now, sessions, request, ended>>

\* The ticker fires: the goroutine builds its statement with the time it is.
SweepBegin ==
    /\ sweep = "idle"
    /\ sweep' = "delete"
    /\ cutoff' = now
    /\ UNCHANGED <<now, sessions, request, ended>>

\* The DELETE runs.
SweepDelete ==
    /\ sweep = "delete"
    /\ DeleteInactive(cutoff)
    /\ sweep' = "idle"
    /\ cutoff' = 0
    /\ UNCHANGED <<now, request, ended>>

\* The DELETE fails: it is logged, and the next tick tries again.
SweepFail ==
    /\ sweep = "delete"
    /\ sweep' = "idle"
    /\ cutoff' = 0
    /\ UNCHANGED <<now, sessions, request, ended>>

Tick ==
    /\ now < MaxTime
    /\ now' = now + 1
    /\ UNCHANGED <<sessions, request, cleanup, ended>>

Next ==
    \/ \E t \in Tokens, s \in Subjects : SignIn(t, s)
    \/ \E p \in Requests, t \in Tokens : Lookup(p, t)
    \/ \E p \in Requests : Check(p) \/ Answer(p)
    \/ \E t \in Tokens : SignOut(t)
    \/ \E s \in Subjects : SignOutEverywhere(s)
    \/ SweepBegin \/ SweepDelete \/ SweepFail
    \/ Tick

Spec == Init /\ [][Next]_vars

\* The ticker keeps firing, and a database that answers a DELETE now and
\* then runs one it is sent again and again.
Fairness == WF_vars(SweepBegin) /\ SF_vars(SweepDelete)

FairSpec == Spec /\ Fairness

-----------------------------------------------------------------------------
(* Properties.                                                             *)

\* A request that began after its session's revocation had returned is never
\* accepted, whatever clock ticks and cleanups run beside it (Validate's
\* check of RevokedAt, and Revoke not losing its update).
RevocationIsFinal ==
    \A p \in Requests : pc[p] = "accepted" => ~late[p]

\* The cleanup never takes a session away from a signed-in subject: what
\* its DELETE removes is something Validate would already refuse, although
\* its cutoff was read earlier and Validate allows the instant of expiry.
CleanupSparesLiveSessions ==
    [][\A t \in Tokens :
         (Found(sessions[t]) /\ sessions'[t] = Deleted) => ~Validate(sessions[t], now)
      ]_vars

\* A session that ended stays ended: no step of anyone makes Validate accept
\* a token again that it refused before (the row is not revived by a second
\* revocation, a bulk revocation or the cleanup).
NoRevival ==
    [][\A t \in Tokens :
         (sessions[t] # Unused /\ ~Validate(sessions[t], now))
            => ~Validate(sessions'[t], now')]_vars

\* The table does not fill up with dead rows: a session that expired or was
\* revoked is in the end deleted (the OR of DeleteInactive's condition).
DeadSessionsAreCollected ==
    \A t \in Tokens :
        (Found(sessions[t]) /\ ~Validate(sessions[t], now)) ~> (sessions[t] = Deleted)
=============================================================================
