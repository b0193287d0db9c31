----------------------------- MODULE OneTimeCode -----------------------------
(***************************************************************************)
(* What an authorization code promises, whatever the handlers, the clock,  *)
(* the database and the network do: it is issued once, for one grant (the  *)
(* client it was asked for and the user who signed in); it is spent once,  *)
(* by one request, which alone holds it from then on; and the holder turns *)
(* it into the tokens of that grant once, or gives up, and nobody ever     *)
(* holds the code again.                                                   *)
(***************************************************************************)
EXTENDS Sequences

CONSTANTS
    Codes,
    Requests,   \* who can spend a code
    Grants,     \* what a code can be issued for
    NoGrant     \* marks the absence of one

VARIABLES
    phase,     \* none, live or spent
    bound,     \* the grant a code was issued for
    holders,   \* the requests that spent a code and have not ended
    given      \* the grants tokens were given for, one entry an answer

vars == <<phase, bound, holders, given>>

Init ==
    /\ phase = [c \in Codes |-> "none"]
    /\ bound = [c \in Codes |-> NoGrant]
    /\ holders = [c \in Codes |-> {}]
    /\ given = [c \in Codes |-> <<>>]

Issue(c, g) ==
    /\ phase[c] = "none"
    /\ phase' = [phase EXCEPT ![c] = "live"]
    /\ bound' = [bound EXCEPT ![c] = g]
    /\ UNCHANGED <<holders, given>>

\* Request p has the code from here on, and no other request can get it.
Spend(c, p) ==
    /\ phase[c] = "live"
    /\ phase' = [phase EXCEPT ![c] = "spent"]
    /\ holders' = [holders EXCEPT ![c] = {p}]
    /\ UNCHANGED <<bound, given>>

\* The code is spent and whoever spent it does not get to know.
Waste(c) ==
    /\ phase[c] = "live"
    /\ phase' = [phase EXCEPT ![c] = "spent"]
    /\ UNCHANGED <<bound, holders, given>>

\* The holder answers with the tokens of the grant the code was issued for.
Give(c, p) ==
    /\ p \in holders[c]
    /\ holders' = [holders EXCEPT ![c] = {}]
    /\ given' = [given EXCEPT ![c] = Append(given[c], bound[c])]
    /\ UNCHANGED <<phase, bound>>

\* The holder answers with an error.
Fail(c, p) ==
    /\ p \in holders[c]
    /\ holders' = [holders EXCEPT ![c] = {}]
    /\ UNCHANGED <<phase, bound, given>>

\* All requests end at once.
Restart ==
    /\ holders' = [c \in Codes |-> {}]
    /\ UNCHANGED <<phase, bound, given>>

Next ==
    \/ \E c \in Codes, g \in Grants : Issue(c, g)
    \/ \E c \in Codes, p \in Requests : Spend(c, p) \/ Give(c, p) \/ Fail(c, p)
    \/ \E c \in Codes : Waste(c)
    \/ Restart

Spec == Init /\ [][Next]_vars
=============================================================================
