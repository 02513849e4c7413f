---------------------------- MODULE MCPortfolio -----------------------------
(***************************************************************************)
(* A small instance of Portfolio for TLC.                                  *)
(***************************************************************************)
EXTENDS Portfolio, TLC

MCCurrentLimit == [p \in Plan |-> IF p = "free" THEN 1 ELSE 2]
MCLiveLimit    == [p \in Plan |-> 1]

Symmetric == Permutations(Project) \cup Permutations(Session) \cup Permutations(Branch) \cup Permutations(Repo)

=============================================================================
