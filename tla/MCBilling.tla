------------------------------ MODULE MCBilling ------------------------------
(* Symmetry for the runs of Billing.                                       *)
EXTENDS Billing, TLC

Symmetry ==
    Permutations(Sub) \cup Permutations(Handler) \cup Permutations(Writer)
        \cup Permutations(Activation)
=============================================================================
