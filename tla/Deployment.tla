----------------------------- MODULE Deployment -----------------------------
(***************************************************************************)
(* The deployment lifecycle of one project: admission of a deploy,         *)
(* rollback or destroy, its dispatch to GitHub Actions, the reconciliation *)
(* of the run's outcome, the finalization of a verified release or         *)
(* destroy, retry, and the deletion of the project.                        *)
(*                                                                         *)
(* Each operation has a dispatcher: the request that admitted it and is    *)
(* still inside RailpackDeploymentService.dispatch.  Reconcilers are calls *)
(* of reconcile (reconcileActive shares one per process and project,       *)
(* reconcileVisibleProjects and a second process share nothing); clients   *)
(* are calls of retry and rollback.  Between two awaits of the code        *)
(* anybody else may move, so every database write, remote call and         *)
(* decision that follows one is an action of its own.                      *)
(***************************************************************************)
EXTENDS GithubWorkflow

CONSTANTS
    Reconciler,     \* concurrent reconciliation calls
    Client,         \* concurrent retry and rollback requests
    PendingLimit,   \* attempts without an artifact before evidence expires
    Faults          \* the faults the environment may inject

AllFaults ==
    {"crash",              \* a process dies between two awaits
     "lost_request",       \* the dispatch POST fails and never reached GitHub
     "lost_response",      \* GitHub took the POST, DeployGuard never learns it
     "poll_failed",        \* a GitHub read or a database read throws
     "finalization_error", \* the finalization transaction rolls back
     "commit_ack_lost",    \* it commits, but the acknowledgement is lost
     "cleanup_error"}      \* project deletion fails half way

ASSUME DeploymentAssumption ==
    /\ PendingLimit \in Nat \ {0}
    /\ Reconciler \cap Client = {}
    /\ Faults \subseteq AllFaults

Session == Reconciler \cup Client

VARIABLES
    request,     \* [Op -> the immutable columns of the admitted operation]
    row,         \* [Op -> the mutable columns of project_pipeline_runs]
    dispatcher,  \* [Op -> where the operation's dispatch call is]
    secret,      \* [Op -> the runtime secret versions it materialized]
    at,          \* [Session -> program counter]
    on,          \* [Session -> the operation it works on]
    copy,        \* [Session -> its in-memory copy of that operation's row]
    deletedBy,   \* the destroy that deleted the project, or NoOp
    rejected     \* history: [Op -> the artifacts its evidence was rejected for]

sessionVars    == <<at, on, copy>>
operationVars  == <<request, row, dispatcher, secret>>
vars == <<ledgerVars, githubVars, operationVars, sessionVars, deletedBy, rejected>>

Action == {"deploy", "rollback", "destroy"}

(***************************************************************************)
(* target is the release a rollback restores, scope the generation the     *)
(* route served when a destroy was admitted (the destroy's generationId).  *)
(* The requests are kept after the project is deleted, for the properties. *)
(***************************************************************************)
Request   == [action : Action \cup {"none"}, target : Op \cup {NoOp}, scope : Op \cup {NoOp}]
NoRequest == [action |-> "none", target |-> NoOp, scope |-> NoOp]

(***************************************************************************)
(* "preparing" and "dispatching" are the status QUEUED before and after    *)
(* currentStage became workflow_dispatch.  known: the row has the          *)
(* githubWorkflowRunId.  pending: metadata.releaseEvidencePendingAttempts, *)
(* counted up to PendingLimit.  code: failureCode.                         *)
(***************************************************************************)
Status   == {"none", "preparing", "dispatching", "running", "completed", "failed"}
Active   == {"preparing", "dispatching", "running"}
Terminal == {"completed", "failed"}
Code     == {"none", "dispatch", "workflow", "contract", "finalization", "cleanup"}

Row   == [status : Status, known : BOOLEAN, pending : 0 .. PendingLimit, code : Code]
NoRow == [status |-> "none", known |-> FALSE, pending |-> 0, code |-> "none"]

DispatcherState == {"none", "preparing", "ready", "intent", "accepted",
                    "rejected", "compensated", "uncertain", "done"}
SecretState == {"none", "provisional", "withdrawn"}

SessionState ==
    {"idle", "loaded", "finalizing", "saving_failure", "saving", "backfilling",
     "deleting", "deleting_project", "retrying", "rolling_back"}

TypeOK ==
    /\ LedgerTypeOK
    /\ GithubTypeOK
    /\ request \in [Op -> Request]
    /\ row \in [Op -> Row]
    /\ dispatcher \in [Op -> DispatcherState]
    /\ secret \in [Op -> SecretState]
    /\ at \in [Session -> SessionState]
    /\ on \in [Session -> Op \cup {NoOp}]
    /\ copy \in [Session -> Row]
    /\ deletedBy \in Op \cup {NoOp}
    /\ rejected \in [Op -> SUBSET ArtifactState]

Init ==
    /\ LedgerInit
    /\ GithubInit
    /\ request = [o \in Op |-> NoRequest]
    /\ row = [o \in Op |-> NoRow]
    /\ dispatcher = [o \in Op |-> "none"]
    /\ secret = [o \in Op |-> "none"]
    /\ at = [s \in Session |-> "idle"]
    /\ on = [s \in Session |-> NoOp]
    /\ copy = [s \in Session |-> NoRow]
    /\ deletedBy = NoOp
    /\ rejected = [o \in Op |-> {}]

-----------------------------------------------------------------------------
(***************************************************************************)
(* Database writes.                                                        *)
(***************************************************************************)
ActiveOps == {o \in Op : row[o].status \in Active}

(* The project still exists: its row, and with it every table that         *)
(* references it.                                                          *)
ProjectExists == deletedBy = NoOp

(***************************************************************************)
(* repository.save(entity) writes the caller's copy over the row, whatever *)
(* the row says by now.  It is refused only when the row is gone with its  *)
(* project (the insert it turns into breaks the foreign key), or when the  *)
(* copy is active and the partial unique index                             *)
(* UQ_project_active_railpack_operation already holds another operation.   *)
(***************************************************************************)
SaveUnindexed(o, r) ==            \* mutant: no unique index on active operations
    row[o].status # "none"

SaveAccepted(o, r) ==
    /\ row[o].status # "none"
    /\ r.status \in Active => ActiveOps \subseteq {o}

Save(o, r) ==
    /\ SaveAccepted(o, r)
    /\ row' = [row EXCEPT ![o] = r]

(* A save whose error is caught and dropped.                               *)
TrySave(o, r) ==
    row' = IF SaveAccepted(o, r) THEN [row EXCEPT ![o] = r] ELSE row

Failed(r, code) == [r EXCEPT !.status = "failed", !.code = code]

-----------------------------------------------------------------------------
(***************************************************************************)
(* Admission.  One transaction under the project's advisory lock: it is    *)
(* refused while an operation is active, and inserts a QUEUED row.         *)
(***************************************************************************)
Requested(o) == request[o].action # "none"

IsNextOp(o) ==
    /\ ~Requested(o)
    /\ \A p \in Op : p < o => Requested(p)

AdmitUnchecked(o, action, target) ==   \* mutant: no look for an active operation
    /\ IsNextOp(o)
    /\ ProjectExists
    /\ request' = [request EXCEPT ![o] =
             [action |-> action, target |-> target,
              scope  |-> IF action = "destroy" THEN route ELSE NoOp]]
    /\ row' = [row EXCEPT ![o] = [NoRow EXCEPT !.status = "preparing"]]
    /\ dispatcher' = [dispatcher EXCEPT ![o] = "preparing"]
    /\ UNCHANGED <<ledgerVars, githubVars, secret, deletedBy, rejected>>

Admit(o, action, target) ==
    /\ IsNextOp(o)
    /\ ProjectExists
    /\ ActiveOps = {}
    /\ request' = [request EXCEPT ![o] =
             [action |-> action, target |-> target,
              scope  |-> IF action = "destroy" THEN route ELSE NoOp]]
    /\ row' = [row EXCEPT ![o] = [NoRow EXCEPT !.status = "preparing"]]
    /\ dispatcher' = [dispatcher EXCEPT ![o] = "preparing"]
    /\ UNCHANGED <<ledgerVars, githubVars, secret, deletedBy, rejected>>

AdmitDeploy(o)  == Admit(o, "deploy", NoOp) /\ UNCHANGED sessionVars
AdmitDestroy(o) == Admit(o, "destroy", NoOp) /\ UNCHANGED sessionVars

-----------------------------------------------------------------------------
(***************************************************************************)
(* Dispatch.  Everything up to the dispatch intent needs the operation's   *)
(* row, which each stage saves.                                            *)
(***************************************************************************)

(* authoritativeDestroyRelease: a destroy needs the verified stable        *)
(* release of the generation it was admitted against.                      *)
DestroyReleaseFound(o) ==
    /\ request[o].scope # NoOp
    /\ release[request[o].scope] = "stable"

(* ensureWorkflow (re)installs the managed caller; a deploy then           *)
(* materializes its provisional runtime secret versions.                   *)
Prepare(o) ==
    /\ dispatcher[o] = "preparing"
    /\ row[o].status # "none"
    /\ request[o].action = "destroy" => DestroyReleaseFound(o)
    /\ caller' = TRUE
    /\ secret' = [secret EXCEPT ![o] =
                     IF request[o].action = "deploy" THEN "provisional" ELSE "none"]
    /\ dispatcher' = [dispatcher EXCEPT ![o] = "ready"]
    /\ UNCHANGED <<ledgerVars, run, artifact, deployed, request, row, sessionVars,
                   deletedBy, rejected>>

(* The durable intent: currentStage workflow_dispatch, dispatchState       *)
(* dispatching, the immutable inputs.  Written before the POST.            *)
SaveIntent(o) ==
    /\ dispatcher[o] = "ready"
    /\ Save(o, [row[o] EXCEPT !.status = "dispatching"])
    /\ dispatcher' = [dispatcher EXCEPT ![o] = "intent"]
    /\ UNCHANGED <<ledgerVars, githubVars, request, secret, sessionVars, deletedBy, rejected>>

(* triggerWorkflow.  GitHub starts a run only while the repository has the *)
(* caller workflow.  The dispatcher learns the run's identity, a definite  *)
(* refusal, or nothing: a POST that threw and an accepted one whose run    *)
(* identity never showed up both count as dispatchMayHaveOccurred.  Every  *)
(* answer outside 2xx, a 500, 502 or 504 too, counts as a refusal; that no *)
(* run was started then is assumed of GitHub, not checked by the code.     *)
PostAccepted(o) ==
    /\ dispatcher[o] = "intent"
    /\ caller
    /\ run' = [run EXCEPT ![o] = "progressing"]
    /\ \/ dispatcher' = [dispatcher EXCEPT ![o] = "accepted"]
       \/ /\ "lost_response" \in Faults
          /\ dispatcher' = [dispatcher EXCEPT ![o] = "uncertain"]
    /\ UNCHANGED <<ledgerVars, artifact, deployed, caller, request, row, secret,
                   sessionVars, deletedBy, rejected>>

PostRejected(o) ==
    /\ dispatcher[o] = "intent"
    /\ dispatcher' = [dispatcher EXCEPT ![o] = "rejected"]
    /\ UNCHANGED <<ledgerVars, githubVars, request, row, secret, sessionVars,
                   deletedBy, rejected>>

PostLost(o) ==
    /\ dispatcher[o] = "intent"
    /\ "lost_request" \in Faults
    /\ dispatcher' = [dispatcher EXCEPT ![o] = "uncertain"]
    /\ UNCHANGED <<ledgerVars, githubVars, request, row, secret, sessionVars,
                   deletedBy, rejected>>

(* The dispatcher still holds the entity it saved as its intent: it never  *)
(* loaded a failureCode or a githubWorkflowRunId, so saving it leaves      *)
(* those columns alone, and writes its own metadata over the row's.        *)
DispatcherCopy(o, status) == [row[o] EXCEPT !.status = status, !.pending = 0]

(* persistAcceptedWorkflowDispatch.                                        *)
PersistAccepted(o) ==
    /\ dispatcher[o] = "accepted"
    /\ TrySave(o, [DispatcherCopy(o, "running") EXCEPT !.known = TRUE])
    /\ dispatcher' = [dispatcher EXCEPT ![o] = "done"]
    /\ UNCHANGED <<ledgerVars, githubVars, request, secret, sessionVars, deletedBy, rejected>>

PreserveAsUnsent(o) ==            \* mutant: the stage falls back before dispatch
    /\ dispatcher[o] = "uncertain"
    /\ TrySave(o, DispatcherCopy(o, "preparing"))
    /\ dispatcher' = [dispatcher EXCEPT ![o] = "done"]
    /\ UNCHANGED <<ledgerVars, githubVars, request, secret, sessionVars, deletedBy, rejected>>

(* preserveAmbiguousWorkflowDispatch.                                      *)
PreserveAmbiguous(o) ==
    /\ dispatcher[o] = "uncertain"
    /\ TrySave(o, DispatcherCopy(o, "dispatching"))
    /\ dispatcher' = [dispatcher EXCEPT ![o] = "done"]
    /\ UNCHANGED <<ledgerVars, githubVars, request, secret, sessionVars, deletedBy, rejected>>

CompensateAlways(o) ==            \* mutant: an uncertain dispatch is compensated too
    /\ dispatcher[o] \in {"preparing", "ready", "rejected", "uncertain"}
    /\ secret' = [secret EXCEPT ![o] = IF @ = "provisional" THEN "withdrawn" ELSE @]
    /\ dispatcher' = [dispatcher EXCEPT ![o] = "compensated"]
    /\ UNCHANGED <<ledgerVars, githubVars, request, row, sessionVars, deletedBy, rejected>>

(* The catch block for a dispatch that certainly did not happen: withdraw  *)
(* the provisional secrets, then record the terminal failure.              *)
Compensate(o) ==
    /\ dispatcher[o] \in {"preparing", "ready", "rejected"}
    /\ secret' = [secret EXCEPT ![o] = IF @ = "provisional" THEN "withdrawn" ELSE @]
    /\ dispatcher' = [dispatcher EXCEPT ![o] = "compensated"]
    /\ UNCHANGED <<ledgerVars, githubVars, request, row, sessionVars, deletedBy, rejected>>

RecordDispatchFailure(o) ==
    /\ dispatcher[o] = "compensated"
    /\ TrySave(o, [DispatcherCopy(o, "failed") EXCEPT !.code = "dispatch"])
    /\ dispatcher' = [dispatcher EXCEPT ![o] = "done"]
    /\ UNCHANGED <<ledgerVars, githubVars, request, secret, sessionVars, deletedBy, rejected>>

(* The process that was dispatching dies.                                  *)
DispatcherCrash(o) ==
    /\ "crash" \in Faults
    /\ dispatcher[o] \notin {"none", "done"}
    /\ dispatcher' = [dispatcher EXCEPT ![o] = "done"]
    /\ UNCHANGED <<ledgerVars, githubVars, request, row, secret, sessionVars,
                   deletedBy, rejected>>

-----------------------------------------------------------------------------
(***************************************************************************)
(* Reconciliation.  A session moves between program counters with its      *)
(* operation and its copy of the row.                                      *)
(***************************************************************************)
MoveTo(s, pc, o, r) ==
    /\ at' = [at EXCEPT ![s] = pc]
    /\ on' = [on EXCEPT ![s] = o]
    /\ copy' = [copy EXCEPT ![s] = r]

Return(s)        == MoveTo(s, "idle", NoOp, NoRow)
Continue(s, pc)  == MoveTo(s, pc, on[s], copy[s])
WithCopy(s, pc, r) == MoveTo(s, pc, on[s], r)

NothingShared == UNCHANGED <<ledgerVars, githubVars, operationVars, deletedBy>>

OnlySession(s) == NothingShared /\ UNCHANGED rejected

LoadAny(s, o) ==                  \* mutant: finished operations are reconciled too
    /\ s \in Reconciler
    /\ at[s] = "idle"
    /\ row[o].status # "none"
    /\ MoveTo(s, "loaded", o, row[o])
    /\ OnlySession(s)

(* reconcileActive and reconcileVisibleProjects read the active rows.      *)
Load(s, o) ==
    /\ s \in Reconciler
    /\ at[s] = "idle"
    /\ row[o].status \in Active
    /\ MoveTo(s, "loaded", o, row[o])
    /\ OnlySession(s)

(* reconcileTerminalWorkflowStages: a terminal row with a known run whose  *)
(* stages are incomplete is read, its stages are fetched, and the whole    *)
(* entity is saved back.                                                   *)
LoadBackfill(s, o) ==
    /\ s \in Reconciler
    /\ at[s] = "idle"
    /\ row[o].status \in Terminal
    /\ row[o].known
    /\ MoveTo(s, "backfilling", o, row[o])
    /\ OnlySession(s)

(* Without a run identity there is nothing to poll, unless the durable     *)
(* intent says the run may exist under the operation's name.               *)
NothingToPoll(s) ==
    /\ at[s] = "loaded"
    /\ ~copy[s].known
    /\ copy[s].status # "dispatching" \/ run[on[s]] = "none"
    /\ Return(s)
    /\ OnlySession(s)

RecoverIdentity(s) ==
    LET o == on[s]
        r == [copy[s] EXCEPT !.status = "running", !.known = TRUE]
    IN  /\ at[s] = "loaded"
        /\ ~copy[s].known
        /\ copy[s].status = "dispatching"
        /\ run[o] # "none"
        /\ TrySave(o, r)
        /\ IF SaveAccepted(o, r) THEN WithCopy(s, "loaded", r) ELSE Return(s)
        /\ UNCHANGED <<ledgerVars, githubVars, request, dispatcher, secret, deletedBy, rejected>>

(* getWorkflowRun and, for a successful run, getResultArtifact.            *)
ObserveProgress(s) ==
    /\ at[s] = "loaded" /\ copy[s].known
    /\ run[on[s]] = "progressing"
    /\ Continue(s, "saving")
    /\ OnlySession(s)

ObserveFailure(s) ==
    /\ at[s] = "loaded" /\ copy[s].known
    /\ run[on[s]] = "failure"
    /\ WithCopy(s, "saving_failure", Failed(copy[s], "workflow"))
    /\ OnlySession(s)

(* The release contract is broken: what the artifact was when this was     *)
(* decided is remembered for the properties.                               *)
RejectEvidence(s) ==
    /\ WithCopy(s, "saving_failure", Failed(copy[s], "contract"))
    /\ rejected' = [rejected EXCEPT ![on[s]] = @ \cup {artifact[on[s]]}]
    /\ NothingShared

ObserveUnexpectedEvidence(s) ==   \* mutant: evidence that validates is refused too
    /\ at[s] = "loaded" /\ copy[s].known
    /\ run[on[s]] = "success"
    /\ artifact[on[s]] # "absent"
    /\ RejectEvidence(s)

ObserveInvalidEvidence(s) ==
    /\ at[s] = "loaded" /\ copy[s].known
    /\ run[on[s]] = "success"
    /\ artifact[on[s]] = "invalid"
    /\ RejectEvidence(s)

(* No artifact yet.  The attempt is counted, and once PendingLimit         *)
(* attempts were made and two minutes have passed the operation fails.     *)
(* The count is capped: only its comparison with the limit matters.        *)
EvidenceMissing(s) ==
    /\ at[s] = "loaded" /\ copy[s].known
    /\ run[on[s]] = "success"
    /\ artifact[on[s]] = "absent"

CountMissingEvidence(s) ==
    /\ EvidenceMissing(s)
    /\ WithCopy(s, "saving", [copy[s] EXCEPT !.pending = IF @ < PendingLimit THEN @ + 1 ELSE @])
    /\ OnlySession(s)

EvidenceExpires(s) ==
    /\ EvidenceMissing(s)
    /\ copy[s].pending + 1 >= PendingLimit
    /\ RejectEvidence(s)

ObserveConclusion(s) ==           \* mutant: the run's success is evidence enough
    /\ at[s] = "loaded" /\ copy[s].known
    /\ run[on[s]] = "success"
    /\ Continue(s, "finalizing")
    /\ OnlySession(s)

ObserveEvidence(s) ==
    /\ at[s] = "loaded" /\ copy[s].known
    /\ run[on[s]] = "success"
    /\ artifact[on[s]] = "valid"
    /\ Continue(s, "finalizing")
    /\ OnlySession(s)

(* captureTerminalFailure saves the copy; when that throws, the error ends *)
(* the reconciliation, otherwise the entity is saved once more.            *)
SaveFailure(s) ==
    /\ at[s] = "saving_failure"
    /\ TrySave(on[s], copy[s])
    /\ IF SaveAccepted(on[s], copy[s]) THEN Continue(s, "saving") ELSE Return(s)
    /\ UNCHANGED <<ledgerVars, githubVars, request, dispatcher, secret, deletedBy, rejected>>

(* The save that ends a reconciliation, a backfill or a recorded failure.  *)
FinalSave(s) ==
    /\ at[s] \in {"saving", "backfilling"}
    /\ TrySave(on[s], copy[s])
    /\ Return(s)
    /\ UNCHANGED <<ledgerVars, githubVars, request, dispatcher, secret, deletedBy, rejected>>

(* A GitHub or database read throws: polling is best effort.               *)
PollFails(s) ==
    /\ "poll_failed" \in Faults
    /\ at[s] = "loaded"
    /\ Return(s)
    /\ OnlySession(s)

SessionCrash(s) ==
    /\ "crash" \in Faults
    /\ at[s] # "idle"
    /\ Return(s)
    /\ OnlySession(s)

-----------------------------------------------------------------------------
(***************************************************************************)
(* Finalization of a verified deploy or rollback: one transaction that     *)
(* re-reads the row, whatever its status, projects the release and         *)
(* completes the operation.  A reconciliation then saves its entity once   *)
(* more; a retry returns.                                                  *)
(***************************************************************************)
Completed(r) == [r EXCEPT !.status = "completed", !.code = "none"]

FinalizeRelease(s) ==
    LET o == on[s]
    IN  /\ at[s] = "finalizing"
        /\ request[o].action # "destroy"
        /\ row[o].status # "none"
        /\ row' = [row EXCEPT ![o] = Completed(row[o])]
        /\ Promote(o)
        /\ IF s \in Client THEN Return(s)
           ELSE WithCopy(s, "saving", Completed(row[o]))
        /\ UNCHANGED <<githubVars, request, dispatcher, secret, deletedBy, rejected>>

(* The transaction fails and rolls back, or its operation is gone:         *)
(* persistFinalizationFailure.                                             *)
FinalizationFails(s) ==
    /\ at[s] = "finalizing"
    /\ "finalization_error" \in Faults \/ row[on[s]].status = "none"
    /\ WithCopy(s, "saving", Failed(copy[s], "finalization"))
    /\ OnlySession(s)

(* The transaction commits and the connection drops: the release is LIVE,  *)
(* and the same failure is recorded over it, from the entity the           *)
(* transaction had already merged the completed row into.                  *)
FinalizationUnacknowledged(s) ==
    LET o == on[s]
    IN  /\ "commit_ack_lost" \in Faults
        /\ at[s] = "finalizing"
        /\ request[o].action # "destroy"
        /\ row[o].status # "none"
        /\ row' = [row EXCEPT ![o] = Completed(row[o])]
        /\ Promote(o)
        /\ WithCopy(s, "saving", Failed(row[o], "finalization"))
        /\ UNCHANGED <<githubVars, request, dispatcher, secret, deletedBy, rejected>>

(***************************************************************************)
(* Finalization of a verified destroy: the row is completed first, then    *)
(* ProjectDeletionService removes the external resources and deletes the   *)
(* project.                                                                *)
(***************************************************************************)
FinalizeDestroy(s) ==
    LET o == on[s]
        r == Completed(copy[s])
    IN  /\ at[s] = "finalizing"
        /\ request[o].action = "destroy"
        /\ Save(o, r)
        /\ WithCopy(s, "deleting", r)
        /\ UNCHANGED <<ledgerVars, githubVars, request, dispatcher, secret, deletedBy, rejected>>

(* SNS resources and the managed caller workflow are removed ...           *)
RemoveExternal(s) ==
    /\ at[s] = "deleting"
    /\ caller' = FALSE
    /\ Continue(s, "deleting_project")
    /\ UNCHANGED <<ledgerVars, run, artifact, deployed, operationVars, deletedBy, rejected>>

(* ... and one transaction deletes the project, which cascades over its    *)
(* operations, generations, releases and route.  It asks for the destroy's *)
(* own row, and for nothing else.                                          *)
DeleteProject(s) ==
    /\ at[s] = "deleting_project"
    /\ row[on[s]].status # "none"
    /\ row' = [o \in Op |-> NoRow]
    /\ deletedBy' = on[s]
    /\ EraseLedger
    /\ Return(s)
    /\ UNCHANGED <<githubVars, request, dispatcher, secret, rejected>>

CleanupFailsSilently(s) ==        \* mutant: the cleanup failure is not recorded
    /\ at[s] \in {"deleting", "deleting_project"}
    /\ "cleanup_error" \in Faults
          \/ (at[s] = "deleting_project" /\ row[on[s]].status = "none")
    /\ Return(s)
    /\ OnlySession(s)

(* persistDestroyCleanupFailure, after which a reconciliation saves its    *)
(* entity once more and a retry returns.                                   *)
CleanupFails(s) ==
    /\ at[s] \in {"deleting", "deleting_project"}
    /\ "cleanup_error" \in Faults
          \/ (at[s] = "deleting_project" /\ row[on[s]].status = "none")
    /\ WithCopy(s, IF s \in Client THEN "saving" ELSE "saving_failure",
                Failed(copy[s], "cleanup"))
    /\ OnlySession(s)

-----------------------------------------------------------------------------
(***************************************************************************)
(* Retry.  The latest FAILED operation is read; what happens next depends  *)
(* on that copy alone.                                                     *)
(***************************************************************************)
FailedOps == {o \in Op : row[o].status = "failed"}

LoadRetry(s, o) ==
    /\ s \in Client
    /\ at[s] = "idle"
    /\ o \in FailedOps
    /\ \A p \in FailedOps : p <= o
    /\ MoveTo(s, "retrying", o, row[o])
    /\ OnlySession(s)

AnyDestroy(s) ==                  \* mutant: the destroy's evidence is not asked for
    request[on[s]].action = "destroy"

VerifiedDestroy(s) ==
    request[on[s]].action = "destroy" /\ copy[s].code \in {"finalization", "cleanup"}

AnyRelease(s) ==                  \* mutant: nor that of a release
    request[on[s]].action # "destroy"

UnfinalizedRelease(s) ==
    request[on[s]].action # "destroy" /\ copy[s].code = "finalization"

(* A destroy whose evidence was verified only repeats the deletion; one    *)
(* that failed before its row was completed does not pass assertReady.     *)
RetryDeletion(s) ==
    /\ at[s] = "retrying"
    /\ VerifiedDestroy(s)
    /\ IF copy[s].code = "cleanup" THEN Continue(s, "deleting")
       ELSE WithCopy(s, "saving", Failed(copy[s], "cleanup"))
    /\ OnlySession(s)

(* A release that failed only in finalization is finalized again.          *)
RetryFinalization(s) ==
    /\ at[s] = "retrying"
    /\ UnfinalizedRelease(s)
    /\ Continue(s, "finalizing")
    /\ OnlySession(s)

(* Anything else is dispatched again as a new operation, when the failure  *)
(* catalogue calls the retry SAFE_NOW; a broken contract never is.         *)
AdmitRetry(s, o) ==
    /\ at[s] = "retrying"
    /\ copy[s].code \in {"dispatch", "workflow"}
    /\ Admit(o, request[on[s]].action, request[on[s]].target)
    /\ Return(s)

RetryRefused(s) ==
    /\ at[s] = "retrying"
    /\ ~VerifiedDestroy(s) /\ ~UnfinalizedRelease(s)
    /\ Return(s)
    /\ OnlySession(s)

(***************************************************************************)
(* Rollback.  The target is read before the admission transaction.         *)
(***************************************************************************)
LoadAnyRelease(s, o) ==           \* mutant: the release's status is not asked for
    /\ s \in Client
    /\ at[s] = "idle"
    /\ release[o] # "none"
    /\ MoveTo(s, "rolling_back", o, NoRow)
    /\ OnlySession(s)

LoadRollback(s, o) ==
    /\ s \in Client
    /\ at[s] = "idle"
    /\ release[o] = "rollback_target"
    /\ MoveTo(s, "rolling_back", o, NoRow)
    /\ OnlySession(s)

AdmitRollback(s, o) ==
    /\ at[s] = "rolling_back"
    /\ Admit(o, "rollback", on[s])
    /\ Return(s)

(* Another operation is active, or the release's revisions are not         *)
(* rollback safe.                                                          *)
RollbackRefused(s) ==
    /\ at[s] = "rolling_back"
    /\ Return(s)
    /\ OnlySession(s)

-----------------------------------------------------------------------------
Dispatch(o) ==
    \/ Prepare(o) \/ SaveIntent(o)
    \/ PostAccepted(o) \/ PostRejected(o) \/ PostLost(o)
    \/ PersistAccepted(o) \/ PreserveAmbiguous(o)
    \/ Compensate(o) \/ RecordDispatchFailure(o)

Reconcile(s) ==
    \/ NothingToPoll(s) \/ RecoverIdentity(s)
    \/ ObserveProgress(s) \/ ObserveFailure(s) \/ ObserveInvalidEvidence(s)
    \/ CountMissingEvidence(s) \/ EvidenceExpires(s) \/ ObserveEvidence(s)
    \/ SaveFailure(s) \/ FinalSave(s)

Finalize(s) ==
    \/ FinalizeRelease(s) \/ FinalizationFails(s) \/ FinalizationUnacknowledged(s)
    \/ FinalizeDestroy(s)
    \/ RemoveExternal(s) \/ DeleteProject(s) \/ CleanupFails(s)

Retry(s) ==
    \/ RetryDeletion(s) \/ RetryFinalization(s) \/ RetryRefused(s)
    \/ \E o \in Op : AdmitRetry(s, o)

Rollback(s) ==
    \/ RollbackRefused(s)
    \/ \E o \in Op : AdmitRollback(s, o)

Fault ==
    \/ \E o \in Op : DispatcherCrash(o)
    \/ \E s \in Session : SessionCrash(s) \/ PollFails(s)

WorkflowStep(o) ==
    /\ \/ WorkflowFails(o)
       \/ WorkflowSucceeds(o, request[o].action = "destroy")
       \/ \E verdict \in ArtifactState \ {"absent"} : PublishArtifact(o, verdict)
    /\ UNCHANGED <<ledgerVars, operationVars, sessionVars, deletedBy, rejected>>

Next ==
    \/ \E o \in Op : AdmitDeploy(o) \/ AdmitDestroy(o) \/ Dispatch(o) \/ WorkflowStep(o)
    \/ \E s \in Session, o \in Op :
          Load(s, o) \/ LoadBackfill(s, o) \/ LoadRetry(s, o) \/ LoadRollback(s, o)
    \/ \E s \in Session : Reconcile(s) \/ Finalize(s) \/ Retry(s) \/ Rollback(s)
    \/ Fault

Spec == Init /\ [][Next]_vars

-----------------------------------------------------------------------------
(***************************************************************************)
(* Safety under full concurrency.                                          *)
(***************************************************************************)

(* Two lifecycle operations of a project are never active together, not    *)
(* even through a stale save that would reopen a finished one.             *)
SingleActive == \A o, p \in ActiveOps : o = p

(* An operation is under way while its row is active, while its dispatch   *)
(* has no run yet and may change secrets, and while its run goes on.       *)
UnderWay(o) ==
    \/ row[o].status \in Active
    \/ dispatcher[o] \in {"preparing", "ready", "intent", "rejected", "compensated"}
    \/ run[o] = "progressing"

(* At most one operation of a project is under way.  The next one is kept  *)
(* out by the status of a row alone, which stale copies overwrite and      *)
(* deletion removes; yet what is changed outside the database (runtime     *)
(* secrets, the runtime in AWS) is changed for one operation at a time.    *)
OneUnderWay == \A o, p \in Op : UnderWay(o) /\ UnderWay(p) => o = p

(* A generation exists only for a deploy or rollback whose successful run  *)
(* published evidence that validated: no interleaving of retries, stale    *)
(* saves and unacknowledged commits projects anything else.                *)
LiveOnlyByEvidence ==
    \A o \in Op : generation[o] # "none" =>
        /\ request[o].action \in {"deploy", "rollback"}
        /\ run[o] = "success"
        /\ artifact[o] = "valid"

(* A row that says completed is backed by what completion promises: a      *)
(* projected generation and release, or the verified evidence of a         *)
(* destroy.                                                                *)
CompletedIsBacked ==
    \A o \in Op : row[o].status = "completed" =>
        /\ artifact[o] = "valid"
        /\ request[o].action # "destroy" => generation[o] # "none" /\ release[o] # "none"

(* The project is deleted only on behalf of a destroy that ran and whose   *)
(* evidence validated, and deletion leaves no row, release or route.       *)
DeletedByProvenDestroy ==
    deletedBy # NoOp =>
        /\ request[deletedBy].action = "destroy"
        /\ run[deletedBy] = "success"
        /\ artifact[deletedBy] = "valid"
        /\ \A o \in Op : row[o].status = "none" /\ generation[o] = "none"

(* A workflow that may be running keeps the runtime secret versions it was *)
(* dispatched with, and an operation recorded as never dispatched has no   *)
(* run.                                                                    *)
RunKeepsItsSecrets ==
    \A o \in Op : run[o] # "none" =>
        /\ secret[o] # "withdrawn"
        /\ row[o].code # "dispatch"

(* A rollback, and each retry of it, restores a release that was once      *)
(* finalized and is not the stable one: its target may have aged since it  *)
(* was read, but never becomes, or turns out to be, what is stable.        *)
RollbackGoesBack ==
    \A o \in Op : request[o].action = "rollback" =>
        LET target == request[o].target
        IN  /\ target \in Op
            /\ request[target].action # "destroy"
            /\ artifact[target] = "valid"
            /\ release[target] # "stable"

(* A failure is recorded for the reason it gives, whichever stale copy or  *)
(* overlapping call recorded it: the evidence of an operation that failed  *)
(* in finalization or cleanup had validated; a failed workflow really      *)
(* failed; and a broken contract belongs to a successful run whose         *)
(* evidence a reconciler rejected because it was invalid or never came,    *)
(* and that none ever rejected although it validated.                      *)
FailureIsTrue ==
    \A o \in Op : row[o].status = "failed" =>
        /\ row[o].code = "workflow" => run[o] = "failure"
        /\ row[o].code \in {"finalization", "cleanup"} => artifact[o] = "valid"
        /\ row[o].code = "contract" =>
              run[o] = "success" /\ rejected[o] # {} /\ "valid" \notin rejected[o]

(* A release only ever ages: stable, rollback target, superseded.  Nothing *)
(* but the deletion of the project makes one younger or removes it.        *)
ReleaseAge(status) ==
    CASE status = "none"            -> 0
      [] status = "stable"          -> 1
      [] status = "rollback_target" -> 2
      [] status = "superseded"      -> 3

ReleasesAge ==
    [][ \A o \in Op : release'[o] = "none" \/ ReleaseAge(release[o]) <= ReleaseAge(release'[o])
    ]_release

-----------------------------------------------------------------------------
(***************************************************************************)
(* Stronger promises, to those who ask for more order than the code        *)
(* enforces.  Each is broken by a lack of that order, or by a failure in   *)
(* finalization or cleanup.                                                *)
(***************************************************************************)

(* Reconciliations do not overlap, as if reconcileActive in one process    *)
(* were the only way into them; and no operation ends before the request   *)
(* that dispatched it has, whose run usually takes longer.  Reconciliation,*)
(* dispatches, retries and rollbacks still overlap.  A constraint on the   *)
(* steps of Spec.                                                          *)
Orderly ==
    /\ \A r, t \in Reconciler : at'[r] # "idle" /\ at'[t] # "idle" => r = t
    /\ \A o \in Op : row'[o].status \in Terminal => dispatcher'[o] \in {"none", "done"}

(* Nothing is admitted while a verified destroy deletes the project,       *)
(* although its row, completed, does not keep anything out any more.       *)
Undisturbed ==
    (\E s \in Session : at[s] \in {"deleting", "deleting_project"}) => UNCHANGED request

(* LIVE moves only to the release AWS runs at that moment.                 *)
LiveMovesToDeployed ==
    [][ route' # NoOp => route' = deployed ]_route

(* A finished operation keeps its outcome.                                 *)
OutcomeIsFinal ==
    [][ \A o \in Op : row[o].status \in Terminal =>
            row'[o].status \in {row[o].status, "none"} ]_row

(* The read-only stage backfill of a finished operation leaves its outcome *)
(* alone.                                                                  *)
BackfillKeepsOutcome ==
    [][ \A s \in Session :
            /\ at[s] = "backfilling" /\ at'[s] # "backfilling"
            /\ row[on[s]].status \in Terminal
            => row'[on[s]].status = row[on[s]].status ]_at

(* The project is deleted only when AWS runs nothing and no operation is   *)
(* active.                                                                 *)
DeletionFindsNothing ==
    [][ deletedBy' # NoOp => deployed = NoOp /\ ActiveOps = {} ]_deletedBy

-----------------------------------------------------------------------------
(***************************************************************************)
(* Every behaviour of the deployment lifecycle, with all its races and     *)
(* faults, is one of the lifecycle's abstract truth.                       *)
(***************************************************************************)
Proven(o) == artifact[o] = "valid"

ProvenReleases == {o \in Op : Proven(o) /\ request[o].action # "destroy"}
ProvenDestroys == {o \in Op : Proven(o) /\ request[o].action = "destroy"}

Truth == INSTANCE LifecycleTruth WITH
    Op <- Op, NoOp <- NoOp,
    open <- ActiveOps, releases <- ProvenReleases, destroys <- ProvenDestroys,
    live <- route, exists <- ProjectExists

(* The refinement: one operation open, LIVE only ever a proven release,    *)
(* deletion only by a proven destroy, once, and nothing after it.          *)
ImplementsTruth == Truth!Spec

-----------------------------------------------------------------------------
(***************************************************************************)
(* Liveness.  The requests that are inside the service go on, GitHub ends  *)
(* its runs, and users keep reading the project: every read reconciles the *)
(* active operations before it backfills finished ones, so an active       *)
(* operation is loaded again and again.  Two minutes pass eventually, so   *)
(* evidence that stays missing does expire.  Nothing makes a user deploy,  *)
(* retry or roll back.                                                     *)
(***************************************************************************)
Fairness ==
    /\ \A o \in Op :
          /\ WF_vars(Dispatch(o))
          /\ WF_vars((WorkflowFails(o) \/ WorkflowSucceeds(o, request[o].action = "destroy"))
                       /\ UNCHANGED <<ledgerVars, operationVars, sessionVars, deletedBy, rejected>>)
    /\ \A s \in Session :
          /\ WF_vars(Reconcile(s) \/ Finalize(s) \/ Retry(s) \/ Rollback(s))
          /\ SF_vars(EvidenceExpires(s))
          /\ \A o \in Op : SF_vars(Load(s, o))

FairSpec == Spec /\ Fairness

(* An operation that was dispatched does not stay active: it completes or  *)
(* fails, whatever the reconcilers overwrite in between, even when the     *)
(* dispatch response was lost.                                             *)
ActiveEventuallyEnds ==
    \A o \in Op : row[o].status \in Active ~> row[o].status \in Terminal \cup {"none"}

(* A verified destroy does not stop half way: the project goes, or the     *)
(* operation says that its cleanup failed.                                 *)
VerifiedDestroyDeletes ==
    \A o \in Op :
        row[o].status = "completed" /\ request[o].action = "destroy"
            ~> row[o].status # "completed"

=============================================================================
