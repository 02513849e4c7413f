-------------------------- MODULE MCRuntimeSecrets --------------------------
(***************************************************************************)
(* A small instance of RuntimeSecrets for TLC.                             *)
(***************************************************************************)
EXTENDS RuntimeSecrets, TLC

Symmetric == Permutations(Token)

=============================================================================
