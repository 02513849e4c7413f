----------------------- MODULE MCProjectConfiguration -----------------------
(* Engines share the alias of their URL and have one of their own.         *)
EXTENDS ProjectConfiguration, TLC

CONSTANTS url, host, postgres, mysql

MCAlias == [e \in Engine |-> Key \cap (IF e = postgres THEN {url, host} ELSE {url})]

(* The evidence is finite: TLC tries all of it.                            *)
ASSUME RecoveryAssumption ==
    /\ RecordedDataIsKept
    /\ AdmittedIsDispatchable
    /\ OpinionsDiffer
    /\ AlwaysAWay

Symmetry == Permutations(Svc) \cup Permutations(Dir)
=============================================================================
