---------------------------- MODULE MCDeployment ----------------------------
(***************************************************************************)
(* Small instances of Deployment for TLC.                                  *)
(***************************************************************************)
EXTENDS Deployment, TLC

Sessions == Permutations(Reconciler) \cup Permutations(Client)

(* What the next steps depend on.  A run whose properties do not mention   *)
(* the history variable rejected need not tell states apart by it.         *)
WithoutHistory == <<ledgerVars, githubVars, operationVars, sessionVars, deletedBy>>

=============================================================================
