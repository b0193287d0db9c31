--------------------------- MODULE MCProvisioning ---------------------------
(***************************************************************************)
(* A small instance of Provisioning.  One person has a Google account and  *)
(* a GitHub account (h1) under address e, which GitHub lists as verified   *)
(* only at times, beside a second address f; a second GitHub account (h2)  *)
(* shows e on its profile without having proved it; and a second Google    *)
(* account takes e over later.                                             *)
(***************************************************************************)
EXTENDS Provisioning, TLC

Google(s, e) ==
    [provider |-> "google", subject |-> s, email |-> e, verified |-> TRUE, listed |-> <<>>]
GitHub(s, e, list) ==
    [provider |-> "github", subject |-> s, email |-> e, verified |-> FALSE, listed |-> list]
Addr(e, p, v) == [email |-> e, primary |-> p, verified |-> v]

MCAccounts ==
    {Google("g1", "e"), Google("g2", "e"),
     GitHub("h1", "", <<Addr("f", FALSE, TRUE), Addr("e", TRUE, TRUE)>>),
     GitHub("h1", "", <<Addr("f", FALSE, TRUE), Addr("e", TRUE, FALSE)>>),
     GitHub("h2", "e", <<Addr("e", TRUE, FALSE), Addr("f", FALSE, TRUE)>>)}

\* An address for each account, unlike any other: its subject will do.
MCSyntheticEmail == [k \in AccountKeys |-> k[2]]

Symmetry == Permutations(Procs) \cup Permutations(Users)
=============================================================================
