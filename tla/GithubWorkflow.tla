---------------------------- MODULE GithubWorkflow ----------------------------
(***************************************************************************)
(* What the control plane relies on outside itself: the GitHub Actions     *)
(* run of each operation, the result artifact the run publishes, the       *)
(* managed caller workflow in the user's repository, and the AWS runtime   *)
(* the runs change.  The reusable workflow runs in one concurrency group   *)
(* per project that is never cancelled in progress, so two runs never      *)
(* change the runtime at once: a run's whole effect is one step here.      *)
(***************************************************************************)
EXTENDS ReleaseLedger

VARIABLES
    run,        \* [Op -> RunState]       the run GitHub has for the operation
    artifact,   \* [Op -> ArtifactState]  what getResultArtifact would return
    deployed,   \* the operation whose release AWS runs, or NoOp
    caller      \* BOOLEAN: the managed caller workflow is in the repository

githubVars == <<run, artifact, deployed, caller>>

RunState      == {"none", "progressing", "success", "failure"}
ArtifactState == {"absent", "valid", "invalid"}

GithubTypeOK ==
    /\ run \in [Op -> RunState]
    /\ artifact \in [Op -> ArtifactState]
    /\ deployed \in Op \cup {NoOp}
    /\ caller \in BOOLEAN

GithubInit ==
    /\ run = [o \in Op |-> "none"]
    /\ artifact = [o \in Op |-> "absent"]
    /\ deployed = NoOp
    /\ caller = FALSE

(***************************************************************************)
(* A run ends.  A failed run leaves the runtime it found.  A successful    *)
(* one has changed it: a deploy or a rollback runs the operation's         *)
(* release, a destroy runs nothing.                                        *)
(***************************************************************************)
WorkflowFails(o) ==
    /\ run[o] = "progressing"
    /\ run' = [run EXCEPT ![o] = "failure"]
    /\ UNCHANGED <<artifact, deployed, caller>>

WorkflowSucceeds(o, destroys) ==
    /\ run[o] = "progressing"
    /\ run' = [run EXCEPT ![o] = "success"]
    /\ deployed' = IF destroys THEN NoOp ELSE o
    /\ UNCHANGED <<artifact, caller>>

(***************************************************************************)
(* The result artifact of a successful run becomes readable, possibly      *)
(* after the run is reported complete and possibly never.  It either       *)
(* passes the immutable evidence contract of the operation or it does not. *)
(***************************************************************************)
PublishArtifact(o, verdict) ==
    /\ run[o] = "success"
    /\ artifact[o] = "absent"
    /\ artifact' = [artifact EXCEPT ![o] = verdict]
    /\ UNCHANGED <<run, deployed, caller>>
=============================================================================
