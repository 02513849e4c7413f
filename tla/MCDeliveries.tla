---------------------------- MODULE MCDeliveries ----------------------------
(* Instances of Deliveries for TLC; there is no symmetry to use, because   *)
(* the run checks liveness.                                                *)
EXTENDS Deliveries
=============================================================================
