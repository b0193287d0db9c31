------------------------------ MODULE MCBroker ------------------------------
(***************************************************************************)
(* Instances of Broker.                                                    *)
(***************************************************************************)
EXTENDS Broker, TLC

CONSTANTS b1, b2, t1, t2, app

\* Two browsers with a tab each, or one browser with one or two tabs.
Apart == t1 :> b1 @@ t2 :> b2
Together == [t \in Tabs |-> b1]

\* All requests are of one application.
OneApp == [r \in Requests |-> app]

Symmetry == Permutations(States) \cup Permutations(Accounts)
=============================================================================
