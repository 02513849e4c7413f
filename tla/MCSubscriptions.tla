-------------------------- MODULE MCSubscriptions --------------------------
(* Symmetry of the instances of Subscriptions.                             *)
EXTENDS Subscriptions, TLC

Symmetry == Permutations(Dest) \cup Permutations(Client)
=============================================================================
