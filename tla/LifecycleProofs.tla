-------------------------- MODULE LifecycleProofs --------------------------
(***************************************************************************)
(* The truth of the lifecycle: one operation is active, and one is under   *)
(* way; a row says only what happened; LIVE and deletion rest on evidence; *)
(* a workflow keeps its secrets; Deployment implements LifecycleTruth.     *)
(* Last, what holds besides where calls keep an order.                     *)
(***************************************************************************)
EXTENDS DeploymentProofs

(***************************************************************************)
(* Layer 3: what the rows and the copies of them say is true.  Stale       *)
(* copies are written over newer rows, so the invariant speaks of every    *)
(* copy a call holds, and says only things that stay true once they are.   *)
(***************************************************************************)
ClaimsEvidence(r) == r.status = "completed" \/ r.code \in {"finalization", "cleanup"}

Truthful(o, r) ==
    /\ ClaimsEvidence(r) => artifact[o] = "valid"
    /\ r.code = "workflow" => run[o] = "failure"
    /\ r.code = "contract" => run[o] = "success"
    /\ r.status = "failed" => r.code # "none"
    /\ r.code = "dispatch" => run[o] = "none" /\ dispatcher[o] = "done"
    /\ ProjectExists /\ r.status = "completed" /\ request[o].action # "destroy"
          => generation[o] # "none" /\ release[o] # "none"

RowsTellTruth == \A o \in Op : Truthful(o, row[o])

CopiesTellTruth ==
    \A s \in Session : at[s] # "idle" =>
        /\ Truthful(on[s], copy[s])
        /\ at[s] \in {"finalizing", "deleting", "deleting_project"}
              => artifact[on[s]] = "valid"
        /\ at[s] \in {"deleting", "deleting_project"}
              => request[on[s]].action = "destroy"

EvidenceNeedsRun == \A o \in Op : artifact[o] = "valid" => run[o] = "success"

(* Nothing is left of a deleted project, so nothing can be saved in it.    *)
DeletedIsEmpty ==
    ~ProjectExists =>
        /\ artifact[deletedBy] = "valid"
        /\ request[deletedBy].action = "destroy"
        /\ route = NoOp
        /\ \A o \in Op : row[o] = NoRow /\ generation[o] = "none" /\ release[o] = "none"

(* Nothing has begun for an operation that was not admitted, a dispatch    *)
(* that has not been posted has no run, and secrets are only withdrawn     *)
(* when there will be none.                                                *)
Unposted == {"none", "preparing", "ready", "intent", "rejected", "compensated"}

DispatchIsOrdered ==
    \A o \in Op :
        /\ ~Requested(o) => row[o] = NoRow /\ dispatcher[o] = "none"
        /\ dispatcher[o] \in Unposted => run[o] = "none"
        /\ secret[o] = "withdrawn" =>
              run[o] = "none" /\ dispatcher[o] \in {"compensated", "done"}

TruthInv ==
    /\ RowsTellTruth /\ CopiesTellTruth /\ EvidenceNeedsRun /\ LiveOnlyByEvidence
    /\ DeletedIsEmpty /\ DispatchIsOrdered

(* What GitHub, the dispatchers and deletion do, whoever else moves.       *)
LEMMA GithubSteps ==
  ASSUME [Next]_vars
  PROVE  \/ UNCHANGED <<run, artifact, deployed>>
         \/ \E o \in Op : PostAccepted(o) \/ WorkflowStep(o)
<1> USE DEF githubVars
<1>1. CASE UNCHANGED vars
  BY <1>1 DEF vars
<1>2. ASSUME NEW o \in Op, AdmitDeploy(o) \/ AdmitDestroy(o)
      PROVE  UNCHANGED <<run, artifact, deployed>>
  BY <1>2 DEF AdmitDeploy, AdmitDestroy, Admit
<1>3. ASSUME NEW o \in Op, Dispatch(o), ~PostAccepted(o)
      PROVE  UNCHANGED <<run, artifact, deployed>>
  BY <1>3 DEF Dispatch, Prepare, SaveIntent, PostRejected, PostLost,
              PersistAccepted, PreserveAmbiguous, Compensate,
              RecordDispatchFailure
<1>4. ASSUME NEW s \in Session, NEW o \in Op,
             Load(s, o) \/ LoadBackfill(s, o) \/ LoadRetry(s, o) \/ LoadRollback(s, o)
      PROVE  UNCHANGED <<run, artifact, deployed>>
  BY <1>4 DEF Load, LoadBackfill, LoadRetry, LoadRollback, OnlySession,
              NothingShared
<1>5. ASSUME NEW s \in Session, Reconcile(s) PROVE UNCHANGED <<run, artifact, deployed>>
  BY <1>5 DEF Reconcile, OnlySession, NothingShared, NothingToPoll,
              RecoverIdentity, ObserveProgress, ObserveFailure,
              ObserveInvalidEvidence, CountMissingEvidence, EvidenceExpires,
              RejectEvidence, ObserveEvidence, SaveFailure, FinalSave
<1>6. ASSUME NEW s \in Session, Finalize(s) PROVE UNCHANGED <<run, artifact, deployed>>
  BY <1>6 DEF Finalize, OnlySession, NothingShared, FinalizeRelease,
              FinalizationFails, FinalizationUnacknowledged, FinalizeDestroy,
              RemoveExternal, DeleteProject, CleanupFails
<1>7. ASSUME NEW s \in Session, Retry(s) \/ Rollback(s) PROVE UNCHANGED <<run, artifact, deployed>>
  BY <1>7 DEF Retry, Rollback, OnlySession, NothingShared, RetryDeletion,
              RetryFinalization, RetryRefused, RollbackRefused, AdmitRetry,
              AdmitRollback, Admit
<1>8. CASE Fault
  BY <1>8 DEF Fault, OnlySession, NothingShared, DispatcherCrash, SessionCrash,
              PollFails
<1> QED
  BY <1>1, <1>2, <1>3, <1>4, <1>5, <1>6, <1>7, <1>8 DEF Next

LEMMA DispatcherSteps ==
  ASSUME [Next]_vars
  PROVE  \/ UNCHANGED dispatcher
         \/ \E o \in Op : Dispatch(o) \/ DispatcherCrash(o)
         \/ \E o \in Op : /\ IsNextOp(o)
                          /\ dispatcher' = [dispatcher EXCEPT ![o] = "preparing"]
                          /\ row' = [row EXCEPT ![o] = [NoRow EXCEPT !.status = "preparing"]]
<1> USE DEF operationVars
<1>1. CASE UNCHANGED vars
  BY <1>1 DEF vars
<1>2. ASSUME NEW o \in Op, AdmitDeploy(o) \/ AdmitDestroy(o)
      PROVE  /\ IsNextOp(o)
             /\ dispatcher' = [dispatcher EXCEPT ![o] = "preparing"]
             /\ row' = [row EXCEPT ![o] = [NoRow EXCEPT !.status = "preparing"]]
  BY <1>2 DEF AdmitDeploy, AdmitDestroy, Admit
<1>3. ASSUME NEW o \in Op, WorkflowStep(o) PROVE UNCHANGED dispatcher
  BY <1>3 DEF WorkflowStep
<1>4. ASSUME NEW s \in Session, NEW o \in Op,
             Load(s, o) \/ LoadBackfill(s, o) \/ LoadRetry(s, o) \/ LoadRollback(s, o)
      PROVE  UNCHANGED dispatcher
  BY <1>4 DEF Load, LoadBackfill, LoadRetry, LoadRollback, OnlySession,
              NothingShared
<1>5. ASSUME NEW s \in Session, Reconcile(s) PROVE UNCHANGED dispatcher
  BY <1>5 DEF Reconcile, OnlySession, NothingShared, NothingToPoll,
              RecoverIdentity, ObserveProgress, ObserveFailure,
              ObserveInvalidEvidence, CountMissingEvidence, EvidenceExpires,
              RejectEvidence, ObserveEvidence, SaveFailure, FinalSave
<1>6. ASSUME NEW s \in Session, Finalize(s) PROVE UNCHANGED dispatcher
  BY <1>6 DEF Finalize, OnlySession, NothingShared, FinalizeRelease,
              FinalizationFails, FinalizationUnacknowledged, FinalizeDestroy,
              RemoveExternal, DeleteProject, CleanupFails
<1>7. ASSUME NEW s \in Session, Retry(s) \/ Rollback(s)
      PROVE  \/ UNCHANGED dispatcher
             \/ \E o \in Op : /\ IsNextOp(o)
                              /\ dispatcher' = [dispatcher EXCEPT ![o] = "preparing"]
                              /\ row' = [row EXCEPT ![o] = [NoRow EXCEPT !.status = "preparing"]]
  BY <1>7 DEF Retry, Rollback, OnlySession, NothingShared, RetryDeletion,
              RetryFinalization, RetryRefused, RollbackRefused, AdmitRetry,
              AdmitRollback, Admit
<1>8. ASSUME NEW s \in Session, SessionCrash(s) \/ PollFails(s) PROVE UNCHANGED dispatcher
  BY <1>8 DEF OnlySession, NothingShared, SessionCrash, PollFails
<1> QED
  BY <1>1, <1>2, <1>3, <1>4, <1>5, <1>6, <1>7, <1>8 DEF Next, Fault

LEMMA DeletionSteps ==
  ASSUME [Next]_vars
  PROVE  UNCHANGED deletedBy \/ \E s \in Session : DeleteProject(s)
<1>1. CASE UNCHANGED vars
  BY <1>1 DEF vars
<1>2. ASSUME NEW o \in Op, AdmitDeploy(o) \/ AdmitDestroy(o) \/ WorkflowStep(o)
      PROVE  UNCHANGED deletedBy
  BY <1>2 DEF AdmitDeploy, AdmitDestroy, Admit, WorkflowStep
<1>3. ASSUME NEW o \in Op, Dispatch(o) PROVE UNCHANGED deletedBy
  BY <1>3 DEF Dispatch, Prepare, SaveIntent, PostAccepted, PostRejected, PostLost,
     PersistAccepted, PreserveAmbiguous, Compensate, RecordDispatchFailure
<1>4. ASSUME NEW s \in Session, NEW o \in Op,
             Load(s, o) \/ LoadBackfill(s, o) \/ LoadRetry(s, o) \/ LoadRollback(s, o)
      PROVE  UNCHANGED deletedBy
  BY <1>4 DEF Load, LoadBackfill, LoadRetry, LoadRollback, OnlySession,
              NothingShared
<1>5. ASSUME NEW s \in Session, Reconcile(s) PROVE UNCHANGED deletedBy
  BY <1>5 DEF Reconcile, OnlySession, NothingShared, NothingToPoll,
              RecoverIdentity, ObserveProgress, ObserveFailure,
              ObserveInvalidEvidence, CountMissingEvidence, EvidenceExpires,
              RejectEvidence, ObserveEvidence, SaveFailure, FinalSave
<1>6. ASSUME NEW s \in Session, Finalize(s), ~DeleteProject(s) PROVE UNCHANGED deletedBy
  BY <1>6 DEF Finalize, OnlySession, NothingShared, FinalizeRelease,
              FinalizationFails, FinalizationUnacknowledged, FinalizeDestroy,
              RemoveExternal, CleanupFails
<1>7. ASSUME NEW s \in Session, Retry(s) \/ Rollback(s) PROVE UNCHANGED deletedBy
  BY <1>7 DEF Retry, Rollback, OnlySession, NothingShared, RetryDeletion,
              RetryFinalization, RetryRefused, RollbackRefused, AdmitRetry,
              AdmitRollback, Admit
<1>8. CASE Fault
  BY <1>8 DEF Fault, OnlySession, NothingShared, DispatcherCrash, SessionCrash,
              PollFails
<1> QED
  BY <1>1, <1>2, <1>3, <1>4, <1>5, <1>6, <1>7, <1>8 DEF Next

LEMMA Monotone ==
  ASSUME TypeInv, TruthInv, [Next]_vars, NEW o \in Op
  PROVE  /\ artifact[o] = "valid" => artifact'[o] = "valid"
         /\ run[o] \in {"success", "failure"} => run'[o] = run[o]
         /\ dispatcher[o] = "done" => dispatcher'[o] = "done"
         /\ dispatcher[o] = "done" /\ run[o] = "none" => run'[o] = "none"
         /\ Requested(o) => request'[o] = request[o]
  <1>1. /\ artifact[o] = "valid" => artifact'[o] = "valid"
        /\ run[o] \in {"success", "failure"} => run'[o] = run[o]
        /\ dispatcher[o] = "done" /\ run[o] = "none" => run'[o] = "none"
    BY GithubSteps
    DEF TypeInv, GithubTypeOK, TruthInv, DispatchIsOrdered, Unposted, PostAccepted,
        WorkflowStep, WorkflowFails, WorkflowSucceeds, PublishArtifact
  <1>2. dispatcher[o] = "done" => dispatcher'[o] = "done"
    BY DispatcherSteps
    DEF TypeInv, OperationsTyped, TruthInv, DispatchIsOrdered, IsNextOp, Dispatch,
        Prepare, SaveIntent, PostAccepted, PostRejected, PostLost, PersistAccepted,
        PreserveAmbiguous, Compensate, RecordDispatchFailure, DispatcherCrash
  <1>3. Requested(o) => request'[o] = request[o]
    BY RequestedStays DEF TypeInv
  <1> QED
    BY <1>1, <1>2, <1>3

LEMMA LedgerGrows ==
  ASSUME TypeInv, [Next]_vars, ProjectExists', NEW o \in Op
  PROVE  /\ ProjectExists
         /\ generation[o] # "none" => generation'[o] # "none"
         /\ release[o] # "none" => release'[o] # "none"
  <1>1. ProjectExists /\ ~ \E s \in Session : DeleteProject(s)
    <2>1. ASSUME NEW s \in Session, DeleteProject(s)
          PROVE  FALSE
      BY <2>1, SessionFacts, OpFacts DEF DeleteProject, ProjectExists
    <2> QED
      BY <2>1, DeletionSteps DEF ProjectExists
  <1>2. \/ UNCHANGED ledgerVars
        \/ \E p \in Op : Promote(p)
    BY <1>1, LedgerSteps
  <1> QED
    BY <1>1, <1>2
    DEF TypeInv, LedgerTypeOK, ledgerVars, Promote, MaterializeStableRelease,
        Aged, InsertStable, SupersedeTargets, DemoteStable, Restated,
        ReleaseState, GenerationState

(* What is true of an operation's copy stays true.                         *)
LEMMA TruthStays ==
  ASSUME TypeInv, TruthInv, [Next]_vars, NEW o \in Op, NEW r,
         Truthful(o, r), Requested(o) \/ r = NoRow
  PROVE  Truthful(o, r)'
  BY Monotone, LedgerGrows DEF Truthful, ClaimsEvidence, NoRow

LEMMA RowTruthStays ==
  ASSUME TypeInv, TruthInv, [Next]_vars, NEW o \in Op
  PROVE  /\ artifact[o] = "valid" => artifact'[o] = "valid"
         /\ \A r : Truthful(o, r) /\ r = row[o] => Truthful(o, r)'
  BY Monotone, TruthStays DEF TruthInv, DispatchIsOrdered

(* A save of a true copy leaves the rows true, and deleted rows deleted.   *)
LEMMA SavedRowsTellTruth ==
  ASSUME TypeInv, TruthInv, [Next]_vars, NEW o \in Op, NEW r, TrySave(o, r),
         Truthful(o, r)'
  PROVE  RowsTellTruth' /\ \A p \in Op : row[p] = NoRow => row'[p] = NoRow
  <1>1. \A p \in Op : row[p] = NoRow => row'[p] = NoRow
    <2>1. NoRow.status = "none"
      BY DEF NoRow
    <2> QED
      BY <2>1 DEF TypeInv, OperationsTyped, TrySave, SaveAccepted
  <1>2. ASSUME NEW p \in Op
        PROVE  Truthful(p, row[p])'
    <2>1. CASE row'[p] = row[p]
      <3>1. PICK q : q = row[p]
        OBVIOUS
      <3>2. Truthful(p, q)'
        BY <3>1, RowTruthStays DEF TruthInv, RowsTellTruth
      <3> QED
        BY <2>1, <3>1, <3>2 DEF Truthful, ClaimsEvidence
    <2>2. CASE row'[p] # row[p]
      <3>1. p = o /\ row'[p] = r
        BY <2>2 DEF TypeInv, OperationsTyped, TrySave
      <3> QED
        BY <3>1 DEF Truthful, ClaimsEvidence
    <2> QED
      BY <2>1, <2>2
  <1> QED
    BY <1>1, <1>2 DEF RowsTellTruth

LEMMA UnchangedRowsTellTruth ==
  ASSUME TypeInv, TruthInv, [Next]_vars, row' = row
  PROVE  RowsTellTruth'
  <1> SUFFICES ASSUME NEW p \in Op PROVE Truthful(p, row[p])'
    BY DEF RowsTellTruth
  <1>1. PICK q : q = row[p]
    OBVIOUS
  <1>2. Truthful(p, q)'
    BY <1>1, RowTruthStays DEF TruthInv, RowsTellTruth
  <1> QED
    BY <1>1, <1>2 DEF Truthful, ClaimsEvidence

(* A call that moves takes a true copy along; the others keep theirs.      *)
LEMMA OtherCopiesTellTruth ==
  ASSUME TypeInv, TruthInv, [Next]_vars, NEW s \in Session,
         at[s] # "idle", at'[s] = at[s], on'[s] = on[s], copy'[s] = copy[s]
  PROVE  /\ Truthful(on[s], copy[s])'
         /\ at'[s] \in {"finalizing", "deleting", "deleting_project"}
               => artifact'[on'[s]] = "valid"
         /\ at'[s] \in {"deleting", "deleting_project"}
               => request'[on'[s]].action = "destroy"
  <1>1. PICK o \in Op : o = on[s] /\ Requested(o)
    BY SessionFacts
  <1>2. PICK r : r = copy[s]
    OBVIOUS
  <1>3. Truthful(o, r)'
    BY <1>1, <1>2, TruthStays DEF TruthInv, CopiesTellTruth
  <1>4. Truthful(on[s], copy[s])'
    BY <1>1, <1>2, <1>3 DEF Truthful, ClaimsEvidence
  <1> QED
    BY <1>1, <1>4, Monotone DEF TruthInv, CopiesTellTruth

LEMMA MovedCopiesTellTruth ==
  ASSUME TypeInv, TruthInv, [Next]_vars, NEW s \in Session, NEW pc, NEW o, NEW r,
         MoveTo(s, pc, o, r),
         pc # "idle" =>
            /\ Truthful(o, r)'
            /\ pc \in {"finalizing", "deleting", "deleting_project"}
                  => artifact'[o] = "valid"
            /\ pc \in {"deleting", "deleting_project"}
                  => request'[o].action = "destroy"
  PROVE  CopiesTellTruth'
  <1> SUFFICES ASSUME NEW t \in Session, at'[t] # "idle"
               PROVE  /\ Truthful(on[t], copy[t])'
                      /\ at'[t] \in {"finalizing", "deleting", "deleting_project"}
                            => artifact'[on'[t]] = "valid"
                      /\ at'[t] \in {"deleting", "deleting_project"}
                            => request'[on'[t]].action = "destroy"
    BY DEF CopiesTellTruth
  <1>1. CASE t = s
    <2>1. at'[t] = pc /\ on'[t] = o /\ copy'[t] = r
      BY <1>1 DEF MoveTo, TypeInv, SessionsTyped
    <2> QED
      BY <2>1 DEF Truthful, ClaimsEvidence
  <1>2. CASE t # s
    <2>1. at'[t] = at[t] /\ on'[t] = on[t] /\ copy'[t] = copy[t]
      BY <1>2 DEF MoveTo, TypeInv, SessionsTyped
    <2> QED
      BY <2>1, OtherCopiesTellTruth
  <1> QED
    BY <1>1, <1>2

LEMMA UnmovedCopiesTellTruth ==
  ASSUME TypeInv, TruthInv, [Next]_vars, UNCHANGED sessionVars
  PROVE  CopiesTellTruth'
  BY OtherCopiesTellTruth DEF CopiesTellTruth, sessionVars

LEMMA ReturnedCopiesTellTruth ==
  ASSUME TypeInv, TruthInv, [Next]_vars, NEW s \in Session, Return(s)
  PROVE  CopiesTellTruth'
  <1>1. MoveTo(s, "idle", NoOp, NoRow)
    BY DEF Return
  <1> QED
    BY <1>1, MovedCopiesTellTruth

(* When only rows and sessions move, the rest of the invariant stands.     *)
LEMMA RestStands ==
  ASSUME TypeInv, TruthInv, RowsTellTruth', CopiesTellTruth',
         UNCHANGED <<ledgerVars, run, artifact, request, dispatcher, secret, deletedBy>>,
         \A p \in Op : row[p] = NoRow => row'[p] = NoRow
  PROVE  TruthInv'
  <1>1. EvidenceNeedsRun' /\ LiveOnlyByEvidence'
    BY DEF TruthInv, EvidenceNeedsRun, LiveOnlyByEvidence, ledgerVars
  <1>2. DeletedIsEmpty'
    BY DEF TruthInv, DeletedIsEmpty, ProjectExists, ledgerVars
  <1>3. DispatchIsOrdered'
    BY DEF TruthInv, DispatchIsOrdered, Requested
  <1> QED
    BY <1>1, <1>2, <1>3 DEF TruthInv

LEMMA LoadTruth ==
  ASSUME TypeInv, TruthInv, [Next]_vars, NEW s \in Session, NEW o \in Op,
         Load(s, o) \/ LoadBackfill(s, o) \/ LoadRetry(s, o) \/ LoadRollback(s, o)
  PROVE  TruthInv'
  <1>1. NothingShared
    BY DEF Load, LoadBackfill, LoadRetry, LoadRollback, OnlySession
  <1>2. UNCHANGED <<ledgerVars, githubVars, operationVars, deletedBy>>
    BY <1>1 DEF OnlySession, NothingShared
  <1>3. PICK pc, r : /\ MoveTo(s, pc, o, r)
                     /\ r \in {row[o], NoRow}
                     /\ pc \in {"loaded", "backfilling", "retrying", "rolling_back"}
    BY DEF Load, LoadBackfill, LoadRetry, LoadRollback
  <1>4. Truthful(o, NoRow)'
    BY DEF Truthful, ClaimsEvidence, NoRow
  <1>5. Truthful(o, r)'
    <2>1. CASE r = row[o]
      BY <2>1, RowTruthStays DEF TruthInv, RowsTellTruth
    <2>2. CASE r = NoRow
      BY <2>2, <1>4 DEF Truthful, ClaimsEvidence, NoRow
    <2> QED
      BY <1>3, <2>1, <2>2
  <1>6. CopiesTellTruth'
    BY <1>3, <1>5, MovedCopiesTellTruth
  <1> QED
    BY <1>2, <1>6, UnchangedRowsTellTruth, RestStands
    DEF githubVars, operationVars

(* The steps that observe, decide or give up, without writing anything.    *)
LEMMA LocalTruth ==
  ASSUME TypeInv, TruthInv, [Next]_vars, NEW s \in Session, NothingShared,
         \/ NothingToPoll(s) \/ ObserveProgress(s) \/ ObserveFailure(s)
         \/ ObserveInvalidEvidence(s) \/ CountMissingEvidence(s) \/ EvidenceExpires(s)
         \/ ObserveEvidence(s) \/ PollFails(s) \/ SessionCrash(s)
         \/ FinalizationFails(s) \/ CleanupFails(s)
         \/ RetryDeletion(s) \/ RetryFinalization(s) \/ RetryRefused(s)
         \/ RollbackRefused(s)
  PROVE  TruthInv'
  <1>1. UNCHANGED <<ledgerVars, githubVars, operationVars, deletedBy>>
    BY DEF OnlySession, NothingShared
  <1>2. CopiesTellTruth'
    <2>1. CASE Return(s)
      BY <2>1, ReturnedCopiesTellTruth
    <2>2. CASE at[s] # "idle" /\ ~Return(s)
      <3>1. PICK o \in Op : o = on[s]
        BY <2>2, SessionFacts
      <3>2. PICK c \in Row : c = copy[s]
        BY SessionFacts
      <3>3. /\ Truthful(o, c)
            /\ at[s] \in {"finalizing", "deleting", "deleting_project"}
                  => artifact[o] = "valid"
            /\ at[s] \in {"deleting", "deleting_project"}
                  => request[o].action = "destroy"
        BY <2>2, <3>1, <3>2 DEF TruthInv, CopiesTellTruth, Truthful, ClaimsEvidence
      <3>4. PICK pc, r : /\ MoveTo(s, pc, o, r)
                         /\ Truthful(o, r)
                         /\ pc \in {"finalizing", "deleting", "deleting_project"}
                               => artifact[o] = "valid"
                         /\ pc \in {"deleting", "deleting_project"}
                               => request[o].action = "destroy"
        <4>1. CASE ObserveProgress(s)
          BY <2>2, <3>1, <3>2, <3>3, <4>1 DEF ObserveProgress, Continue
        <4>2. CASE \E pc \in {"saving", "saving_failure"}, code \in Code :
                     /\ WithCopy(s, pc, Failed(c, code))
                     /\ code = "workflow" => run[o] = "failure"
                     /\ code = "contract" => run[o] = "success"
                     /\ code \in {"finalization", "cleanup"} => artifact[o] = "valid"
                     /\ code \notin {"dispatch", "none"}
          <5>1. PICK pc \in {"saving", "saving_failure"}, code \in Code :
                     /\ WithCopy(s, pc, Failed(c, code))
                     /\ code = "workflow" => run[o] = "failure"
                     /\ code = "contract" => run[o] = "success"
                     /\ code \in {"finalization", "cleanup"} => artifact[o] = "valid"
                     /\ code \notin {"dispatch", "none"}
            BY <4>2
          <5>2. PICK r : r = Failed(c, code)
            OBVIOUS
          <5>3. r.status = "failed" /\ r.code = code
            BY <5>2 DEF Failed, Row
          <5>4. Truthful(o, r)
            BY <5>1, <5>3 DEF Truthful, ClaimsEvidence
          <5>5. MoveTo(s, pc, o, r)
            BY <3>1, <5>1, <5>2 DEF WithCopy
          <5> QED
            BY <5>4, <5>5
        <4>3. CASE CountMissingEvidence(s)
          <5>1. PICK r : r = [c EXCEPT !.pending = IF @ < PendingLimit THEN @ + 1 ELSE @]
            OBVIOUS
          <5>2. r.status = c.status /\ r.code = c.code
            BY <5>1 DEF Row
          <5>3. MoveTo(s, "saving", o, r)
            BY <3>1, <3>2, <4>3, <5>1 DEF CountMissingEvidence, WithCopy
          <5>4. Truthful(o, r)
            BY <3>3, <5>2 DEF Truthful, ClaimsEvidence
          <5> QED
            BY <5>3, <5>4
        <4>4. CASE ObserveEvidence(s) \/ RetryFinalization(s)
          BY <2>2, <3>1, <3>2, <3>3, <4>4
          DEF ObserveEvidence, RetryFinalization, UnfinalizedRelease, Continue,
              Truthful, ClaimsEvidence
        <4>5. CASE \/ ObserveFailure(s) \/ ObserveInvalidEvidence(s) \/ EvidenceExpires(s)
                   \/ FinalizationFails(s) \/ CleanupFails(s)
          BY <3>1, <3>2, <3>3, <4>2, <4>5
          DEF ObserveFailure, ObserveInvalidEvidence, EvidenceExpires,
              RejectEvidence, EvidenceMissing, FinalizationFails, CleanupFails,
              Code
        <4>6. CASE RetryDeletion(s)
          <5>1. CASE c.code = "cleanup"
            BY <3>1, <3>2, <3>3, <4>6, <5>1
            DEF RetryDeletion, VerifiedDestroy, Continue, Truthful, ClaimsEvidence
          <5>2. CASE c.code # "cleanup"
            <6>1. artifact[o] = "valid"
              BY <3>1, <3>2, <3>3, <4>6
              DEF RetryDeletion, VerifiedDestroy, Truthful, ClaimsEvidence
            <6> QED
              BY <3>2, <4>2, <4>6, <5>2, <6>1 DEF RetryDeletion, Code
          <5> QED
            BY <5>1, <5>2
        <4> QED
          BY <2>2, <4>1, <4>3, <4>4, <4>5, <4>6
          DEF NothingToPoll, PollFails, SessionCrash, RetryRefused, RollbackRefused
      <3>5. Requested(o)
        BY <2>2, <3>1, SessionFacts
      <3>6. Truthful(o, r)'
        BY <3>4, <3>5, TruthStays
      <3> QED
        BY <1>1, <3>4, <3>6, MovedCopiesTellTruth DEF githubVars, operationVars
    <2> QED
      BY <2>1, <2>2
      DEF NothingToPoll, ObserveProgress, ObserveFailure, ObserveInvalidEvidence,
          CountMissingEvidence, EvidenceExpires, RejectEvidence, EvidenceMissing,
          ObserveEvidence, PollFails, SessionCrash, FinalizationFails,
          CleanupFails, RetryDeletion, RetryFinalization, RetryRefused,
          RollbackRefused
  <1> QED
    BY <1>1, <1>2, UnchangedRowsTellTruth, RestStands DEF githubVars, operationVars

(* The steps that write a call's own copy over the row.                    *)
LEMMA SaveTruth ==
  ASSUME TypeInv, TruthInv, [Next]_vars, NEW s \in Session,
         RecoverIdentity(s) \/ SaveFailure(s) \/ FinalSave(s) \/ FinalizeDestroy(s)
  PROVE  TruthInv'
  <1>1. /\ UNCHANGED <<ledgerVars, githubVars, request, dispatcher, secret, deletedBy>>
        /\ at[s] # "idle"
    BY DEF RecoverIdentity, SaveFailure, FinalSave, FinalizeDestroy
  <1>2. PICK o \in Op : o = on[s] /\ Requested(o)
    BY <1>1, SessionFacts
  <1>3. PICK c \in Row : c = copy[s]
    BY SessionFacts
  <1>4. /\ Truthful(o, c)
        /\ at[s] = "finalizing" => artifact[o] = "valid"
    BY <1>1, <1>2, <1>3 DEF TruthInv, CopiesTellTruth, Truthful, ClaimsEvidence
  <1>5. PICK pc, r : /\ TrySave(o, r)
                     /\ MoveTo(s, pc, o, r) \/ Return(s)
                     /\ Truthful(o, r)
                     /\ pc \in {"deleting", "deleting_project", "finalizing"} =>
                          artifact[o] = "valid" /\ request[o].action = "destroy"
    <2>1. CASE RecoverIdentity(s)
      <3>1. PICK r : r = [c EXCEPT !.status = "running", !.known = TRUE]
        OBVIOUS
      <3>2. r.status = "running" /\ r.code = c.code
        BY <3>1 DEF Row
      <3>3. Truthful(o, r)
        BY <1>4, <3>2 DEF Truthful, ClaimsEvidence
      <3>4. TrySave(o, r) /\ (MoveTo(s, "loaded", o, r) \/ Return(s))
        BY <1>2, <1>3, <2>1, <3>1 DEF RecoverIdentity, WithCopy
      <3> QED
        BY <3>3, <3>4
    <2>2. CASE SaveFailure(s) \/ FinalSave(s)
      <3>1. TrySave(o, c) /\ (MoveTo(s, "saving", o, c) \/ Return(s))
        BY <1>2, <1>3, <2>2 DEF SaveFailure, FinalSave, Continue
      <3> QED
        BY <1>4, <3>1
    <2>3. CASE FinalizeDestroy(s)
      <3>1. PICK r : r = Completed(c)
        OBVIOUS
      <3>2. r.status = "completed" /\ r.code = "none"
        BY <3>1 DEF Completed, Row
      <3>3. artifact[o] = "valid" /\ request[o].action = "destroy"
        BY <1>2, <1>4, <2>3 DEF FinalizeDestroy
      <3>4. Truthful(o, r)
        BY <3>2, <3>3 DEF Truthful, ClaimsEvidence
      <3>5. TrySave(o, r) /\ MoveTo(s, "deleting", o, r)
        BY <1>2, <1>3, <2>3, <3>1 DEF FinalizeDestroy, Save, TrySave, WithCopy
      <3> QED
        BY <3>3, <3>4, <3>5
    <2> QED
      BY <2>1, <2>2, <2>3
  <1>6. Truthful(o, r)'
    BY <1>2, <1>5, TruthStays
  <1>7. CopiesTellTruth'
    BY <1>1, <1>5, <1>6, MovedCopiesTellTruth, ReturnedCopiesTellTruth
    DEF githubVars
  <1> QED
    BY <1>1, <1>5, <1>6, <1>7, SavedRowsTellTruth, RestStands DEF githubVars

LEMMA DispatcherCopyFacts ==
  ASSUME NEW o \in Op, row[o] \in Row, NEW status \in Status
  PROVE  /\ DispatcherCopy(o, status) \in Row
         /\ DispatcherCopy(o, status).status = status
         /\ DispatcherCopy(o, status).code = row[o].code
  <1>1. DispatcherCopy(o, status) \in Row
    BY RowUpdates DEF DispatcherCopy
  <1> QED
    BY <1>1 DEF DispatcherCopy, Row

LEMMA DispatchTruth ==
  ASSUME TypeInv, TruthInv, [Next]_vars, NEW o \in Op, Dispatch(o) \/ DispatcherCrash(o)
  PROVE  TruthInv'
  <1>1. /\ UNCHANGED <<ledgerVars, artifact, request, sessionVars, deletedBy>>
        /\ dispatcher[o] # "none"
        /\ dispatcher' = [dispatcher EXCEPT ![o] = dispatcher'[o]]
    BY DEF TypeInv, OperationsTyped, githubVars, Dispatch, Prepare, SaveIntent,
           PostAccepted, PostRejected, PostLost, PersistAccepted, PreserveAmbiguous,
           Compensate, RecordDispatchFailure, DispatcherCrash
  <1>2. CopiesTellTruth'
    BY <1>1, UnmovedCopiesTellTruth
  <1>3. Requested(o) /\ row[o] \in Row
    BY <1>1 DEF TruthInv, DispatchIsOrdered, TypeInv, OperationsTyped
  <1>4. PICK q : q = row[o]
    OBVIOUS
  <1>5. Truthful(o, q)
    BY <1>4 DEF TruthInv, RowsTellTruth
  <1>6. row' = row \/ \E r : TrySave(o, r) /\ Truthful(o, r)'
    <2>1. CASE row' = row
      BY <2>1
    <2>2. CASE SaveIntent(o) \/ PersistAccepted(o) \/ PreserveAmbiguous(o)
      <3>1. PICK r : /\ TrySave(o, r)
                     /\ r.status \in Active
                     /\ r.code = q.code
        <4>1. CASE SaveIntent(o)
          <5>1. PICK r : r = [q EXCEPT !.status = "dispatching"]
            OBVIOUS
          <5>2. r.status = "dispatching" /\ r.code = q.code
            BY <1>3, <1>4, <5>1 DEF Row
          <5>3. TrySave(o, r)
            BY <1>4, <4>1, <5>1 DEF SaveIntent, Save, TrySave
          <5> QED
            BY <5>2, <5>3 DEF Active
        <4>2. CASE PersistAccepted(o)
          <5>1. PICK r : r = [DispatcherCopy(o, "running") EXCEPT !.known = TRUE]
            OBVIOUS
          <5>2. r.status = "running" /\ r.code = q.code
            BY <1>3, <1>4, <5>1, DispatcherCopyFacts DEF Status, Row
          <5> QED
            BY <4>2, <5>1, <5>2 DEF PersistAccepted, Active
        <4>3. CASE PreserveAmbiguous(o)
          BY <1>3, <1>4, <4>3, DispatcherCopyFacts DEF PreserveAmbiguous, Status,
                                                       Active
        <4> QED
          BY <2>2, <4>1, <4>2, <4>3
      <3>2. Truthful(o, r)
        BY <1>5, <3>1 DEF Truthful, ClaimsEvidence, Active
      <3> QED
        BY <1>3, <3>1, <3>2, TruthStays
    <2>3. CASE RecordDispatchFailure(o)
      <3>1. PICK r : TrySave(o, r) /\ r.status = "failed" /\ r.code = "dispatch"
        <4>1. PICK r : r = [DispatcherCopy(o, "failed") EXCEPT !.code = "dispatch"]
          OBVIOUS
        <4>2. r.status = "failed" /\ r.code = "dispatch"
          BY <1>3, <4>1, DispatcherCopyFacts DEF Status, Row
        <4> QED
          BY <2>3, <4>1, <4>2 DEF RecordDispatchFailure
      <3>2. run[o] = "none" /\ run' = run /\ dispatcher'[o] = "done"
        BY <2>3
        DEF RecordDispatchFailure, TruthInv, DispatchIsOrdered, Unposted,
            githubVars, TypeInv, OperationsTyped
      <3> QED
        BY <3>1, <3>2 DEF Truthful, ClaimsEvidence
    <2> QED
      BY <2>1, <2>2, <2>3
      DEF Dispatch, Prepare, PostAccepted, PostRejected, PostLost, Compensate,
          DispatcherCrash
  <1>7. RowsTellTruth' /\ \A p \in Op : row[p] = NoRow => row'[p] = NoRow
    BY <1>6, SavedRowsTellTruth, UnchangedRowsTellTruth
  <1>8. /\ \A p \in Op : run[p] = "success" => run'[p] = "success"
        /\ \A p \in Op \ {o} : run'[p] = run[p] /\ secret'[p] = secret[p]
        /\ run'[o] # run[o] => dispatcher[o] = "intent" /\ dispatcher'[o] \notin Unposted
        /\ secret'[o] = "withdrawn" => \/ secret[o] = "withdrawn"
                                       \/ dispatcher'[o] = "compensated"
    BY <1>1, Monotone
    DEF TypeInv, GithubTypeOK, OperationsTyped, githubVars, Unposted,
        Dispatch, Prepare, SaveIntent,
        PostAccepted, PostRejected, PostLost, PersistAccepted, PreserveAmbiguous,
        Compensate, RecordDispatchFailure, DispatcherCrash
  <1>9. EvidenceNeedsRun' /\ LiveOnlyByEvidence' /\ DeletedIsEmpty'
    BY <1>1, <1>7, <1>8
    DEF TruthInv, EvidenceNeedsRun, LiveOnlyByEvidence, DeletedIsEmpty,
        ProjectExists, ledgerVars
  <1>10. DispatchIsOrdered'
    <2> SUFFICES ASSUME NEW p \in Op
                 PROVE  /\ ~Requested(p)' => row'[p] = NoRow /\ dispatcher'[p] = "none"
                        /\ dispatcher'[p] \in Unposted => run'[p] = "none"
                        /\ secret'[p] = "withdrawn" =>
                              run'[p] = "none" /\ dispatcher'[p] \in {"compensated", "done"}
      BY DEF DispatchIsOrdered
    <2>1. CASE p # o
      BY <1>1, <1>7, <1>8, <2>1
      DEF TruthInv, DispatchIsOrdered, Requested, TypeInv, OperationsTyped
    <2>2. CASE p = o
      <3>1. Requested(o)'
        BY <1>1, <1>3 DEF Requested
      <3>2. dispatcher'[o] \in Unposted => dispatcher[o] \in Unposted /\ run'[o] = run[o]
        BY <1>8
        DEF Dispatch, Prepare, SaveIntent, PostAccepted, PostRejected, PostLost,
            PersistAccepted, PreserveAmbiguous, Compensate, RecordDispatchFailure,
            DispatcherCrash, Unposted, TypeInv, OperationsTyped
      <3>3. secret[o] = "withdrawn" =>
              run'[o] = run[o] /\ dispatcher'[o] \in {"compensated", "done"}
        BY <1>8
        DEF TruthInv, DispatchIsOrdered, Dispatch, Prepare, SaveIntent,
            PostAccepted, PostRejected, PostLost, PersistAccepted,
            PreserveAmbiguous, Compensate, RecordDispatchFailure, DispatcherCrash,
            TypeInv, OperationsTyped
      <3> QED
        BY <2>2, <3>1, <3>2, <3>3, <1>8 DEF TruthInv, DispatchIsOrdered, Unposted
    <2> QED
      BY <2>1, <2>2
  <1> QED
    BY <1>2, <1>7, <1>9, <1>10 DEF TruthInv

LEMMA AdmitTruth ==
  ASSUME TypeInv, TruthInv, [Next]_vars, NEW o \in Op, NEW action \in Action,
         NEW target \in Op \cup {NoOp}, Admit(o, action, target), CopiesTellTruth'
  PROVE  TruthInv'
  <1>1. /\ ProjectExists /\ ~Requested(o)
        /\ UNCHANGED <<ledgerVars, githubVars, secret, deletedBy>>
        /\ row' = [row EXCEPT ![o] = [NoRow EXCEPT !.status = "preparing"]]
        /\ dispatcher' = [dispatcher EXCEPT ![o] = "preparing"]
    BY DEF Admit, IsNextOp
  <1>2. RowsTellTruth'
    <2>1. PICK r : r = [NoRow EXCEPT !.status = "preparing"]
      OBVIOUS
    <2>2. r.status = "preparing" /\ r.code = "none"
      BY <2>1 DEF NoRow
    <2>3. Truthful(o, r)'
      BY <2>2 DEF Truthful, ClaimsEvidence
    <2> SUFFICES ASSUME NEW p \in Op PROVE Truthful(p, row[p])'
      BY DEF RowsTellTruth
    <2>4. CASE p = o
      <3>1. row'[p] = r
        BY <1>1, <2>1, <2>4 DEF TypeInv, OperationsTyped
      <3> QED
        BY <2>3, <2>4, <3>1 DEF Truthful, ClaimsEvidence
    <2>5. CASE p # o
      <3>1. PICK q : q = row[p] /\ q = row'[p]
        BY <1>1, <2>5 DEF TypeInv, OperationsTyped
      <3>2. Truthful(p, q)'
        BY <3>1, RowTruthStays DEF TruthInv, RowsTellTruth
      <3> QED
        BY <3>1, <3>2 DEF Truthful, ClaimsEvidence
    <2> QED
      BY <2>4, <2>5
  <1>3. EvidenceNeedsRun' /\ DeletedIsEmpty'
    BY <1>1 DEF TruthInv, EvidenceNeedsRun, DeletedIsEmpty, ProjectExists,
                githubVars
  <1>4. LiveOnlyByEvidence'
    <2>1. \A p \in Op : generation[p] # "none" => Requested(p)
      BY DEF TruthInv, LiveOnlyByEvidence, Requested
    <2> QED
      BY <1>1, <2>1, Monotone DEF TruthInv, LiveOnlyByEvidence, githubVars,
                                  ledgerVars
  <1>5. DispatchIsOrdered'
    <2>1. \A p \in Op : ~Requested(p)' => p # o /\ ~Requested(p)
      BY Monotone DEF Admit, Requested, Action, TypeInv, OperationsTyped
    <2>2. run[o] = "none" /\ dispatcher[o] = "none" /\ secret[o] # "withdrawn"
      BY <1>1 DEF TruthInv, DispatchIsOrdered, Unposted
    <2> QED
      BY <1>1, <2>1, <2>2
      DEF TruthInv, DispatchIsOrdered, Unposted, githubVars, TypeInv,
          OperationsTyped
  <1> QED
    BY <1>2, <1>3, <1>4, <1>5 DEF TruthInv

LEMMA AdmissionTruth ==
  ASSUME TypeInv, TruthInv, [Next]_vars, NEW o \in Op,
         \/ AdmitDeploy(o) \/ AdmitDestroy(o)
         \/ \E s \in Session : AdmitRetry(s, o) \/ AdmitRollback(s, o)
  PROVE  TruthInv'
  <1>1. CASE AdmitDeploy(o) \/ AdmitDestroy(o)
    BY <1>1, AdmitTruth, UnmovedCopiesTellTruth DEF AdmitDeploy, AdmitDestroy,
                                                    Action
  <1>2. ASSUME NEW s \in Session, AdmitRetry(s, o)
        PROVE  TruthInv'
    <2>1. on[s] \in Op /\ Requested(on[s]) /\ request[on[s]] \in Request
      BY <1>2, SessionFacts DEF AdmitRetry, TypeInv, OperationsTyped
    <2>2. request[on[s]].action \in Action /\ request[on[s]].target \in Op \cup {NoOp}
      BY <2>1 DEF Request, Requested
    <2> QED
      BY <1>2, <2>2, AdmitTruth, ReturnedCopiesTellTruth DEF AdmitRetry
  <1>3. ASSUME NEW s \in Session, AdmitRollback(s, o)
        PROVE  TruthInv'
    <2>1. on[s] \in Op
      BY <1>3, SessionFacts DEF AdmitRollback
    <2> QED
      BY <1>3, <2>1, AdmitTruth, ReturnedCopiesTellTruth DEF AdmitRollback, Action
  <1> QED
    BY <1>1, <1>2, <1>3

LEMMA WorkflowTruth ==
  ASSUME TypeInv, TruthInv, [Next]_vars, NEW o \in Op, WorkflowStep(o)
  PROVE  TruthInv'
  <1>1. UNCHANGED <<ledgerVars, operationVars, sessionVars, deletedBy>>
    BY DEF WorkflowStep
  <1>2. CopiesTellTruth' /\ RowsTellTruth'
    BY <1>1, UnmovedCopiesTellTruth, UnchangedRowsTellTruth DEF operationVars
  <1>3. EvidenceNeedsRun'
    BY DEF TypeInv, GithubTypeOK, TruthInv, EvidenceNeedsRun, WorkflowStep,
           WorkflowFails, WorkflowSucceeds, PublishArtifact
  <1>4. LiveOnlyByEvidence' /\ DeletedIsEmpty'
    BY <1>1, Monotone, OpFacts
    DEF TruthInv, LiveOnlyByEvidence, DeletedIsEmpty, ProjectExists, ledgerVars,
        operationVars, TypeInv, OperationsTyped
  <1>5. DispatchIsOrdered'
    <2>1. \A p \in Op : run[p] = "none" => run'[p] = "none"
      BY DEF TypeInv, GithubTypeOK, WorkflowStep, WorkflowFails, WorkflowSucceeds,
             PublishArtifact
    <2> QED
      BY <1>1, <2>1 DEF TruthInv, DispatchIsOrdered, Requested, operationVars
  <1> QED
    BY <1>2, <1>3, <1>4, <1>5 DEF TruthInv

LEMMA ReleaseTruth ==
  ASSUME TypeInv, TruthInv, [Next]_vars, NEW s \in Session,
         FinalizeRelease(s) \/ FinalizationUnacknowledged(s)
  PROVE  TruthInv'
  <1>1. /\ at[s] = "finalizing"
        /\ request[on[s]].action # "destroy"
        /\ row[on[s]].status # "none"
        /\ row' = [row EXCEPT ![on[s]] = Completed(row[on[s]])]
        /\ Promote(on[s])
        /\ UNCHANGED <<githubVars, request, dispatcher, secret, deletedBy>>
    BY DEF FinalizeRelease, FinalizationUnacknowledged
  <1>2. PICK o \in Op : o = on[s] /\ Requested(o)
    BY <1>1, SessionFacts
  <1>3. PICK r \in Row : r = row[o]
    BY DEF TypeInv, OperationsTyped
  <1>4. artifact[o] = "valid" /\ run[o] = "success"
    BY <1>1, <1>2 DEF TruthInv, CopiesTellTruth, EvidenceNeedsRun
  <1>5. PICK c \in Row, f \in Row : c = Completed(r) /\ f = Failed(r, "finalization")
    BY RowUpdates DEF Code
  <1>6. /\ c.status = "completed" /\ c.code = "none"
        /\ f.status = "failed" /\ f.code = "finalization"
    BY <1>5 DEF Completed, Failed, Row
  <1>7. /\ generation'[o] # "none"
        /\ release'[o] # "none"
        /\ \A p \in Op \ {o} : generation'[p] # "none" <=> generation[p] # "none"
    <2>1. LedgerTypeOK /\ Promote(o)
      BY <1>1, <1>2 DEF TypeInv
    <2> QED
      BY <2>1, PromotedReleases DEF Promote, LedgerTypeOK
  <1>8. Truthful(o, c)' /\ Truthful(o, f)'
    BY <1>1, <1>4, <1>6, <1>7 DEF Truthful, ClaimsEvidence, githubVars
  <1>9. CopiesTellTruth'
    <2>1. \/ Return(s)
          \/ MoveTo(s, "saving", o, c)
          \/ MoveTo(s, "saving", o, f)
      BY <1>2, <1>3, <1>5 DEF FinalizeRelease, FinalizationUnacknowledged, WithCopy
    <2> QED
      BY <1>8, <2>1, ReturnedCopiesTellTruth, MovedCopiesTellTruth
  <1>10. RowsTellTruth'
    <2> SUFFICES ASSUME NEW p \in Op PROVE Truthful(p, row[p])'
      BY DEF RowsTellTruth
    <2>1. CASE p = o
      <3>1. row'[p] = c
        BY <1>1, <1>2, <1>3, <1>5, <2>1 DEF TypeInv, OperationsTyped
      <3> QED
        BY <1>8, <2>1, <3>1 DEF Truthful, ClaimsEvidence
    <2>2. CASE p # o
      <3>1. PICK q : q = row[p] /\ q = row'[p]
        BY <1>1, <1>2, <2>2 DEF TypeInv, OperationsTyped
      <3>2. Truthful(p, q)'
        BY <3>1, RowTruthStays DEF TruthInv, RowsTellTruth
      <3> QED
        BY <3>1, <3>2 DEF Truthful, ClaimsEvidence
    <2> QED
      BY <2>1, <2>2
  <1>11. EvidenceNeedsRun' /\ LiveOnlyByEvidence'
    <2>1. request[o].action \in {"deploy", "rollback"}
      BY <1>1, <1>2 DEF Requested, TypeInv, OperationsTyped, Request, Action
    <2> QED
      BY <1>1, <1>4, <1>7, <2>1
      DEF TruthInv, EvidenceNeedsRun, LiveOnlyByEvidence, githubVars
  <1>12. DeletedIsEmpty'
    <2>1. row[o].status # "none" /\ NoRow.status = "none"
      BY <1>1, <1>2 DEF NoRow
    <2>2. ProjectExists
      BY <2>1 DEF TruthInv, DeletedIsEmpty
    <2> QED
      BY <1>1, <2>2 DEF DeletedIsEmpty, ProjectExists
  <1>13. DispatchIsOrdered'
    BY <1>1, <1>2
    DEF TruthInv, DispatchIsOrdered, Requested, githubVars, TypeInv, OperationsTyped
  <1> QED
    BY <1>9, <1>10, <1>11, <1>12, <1>13 DEF TruthInv

LEMMA DeletionTruth ==
  ASSUME TypeInv, TruthInv, [Next]_vars, NEW s \in Session,
         RemoveExternal(s) \/ DeleteProject(s)
  PROVE  TruthInv'
  <1>1. /\ at[s] \in {"deleting", "deleting_project"}
        /\ UNCHANGED <<run, artifact, request, dispatcher, secret>>
    BY DEF RemoveExternal, DeleteProject, githubVars, operationVars
  <1>2. PICK o \in Op : o = on[s] /\ Requested(o)
    BY <1>1, SessionFacts
  <1>3. PICK c : c = copy[s]
    OBVIOUS
  <1>4. Truthful(o, c) /\ artifact[o] = "valid" /\ request[o].action = "destroy"
    BY <1>1, <1>2, <1>3 DEF TruthInv, CopiesTellTruth, Truthful, ClaimsEvidence
  <1>5. CASE RemoveExternal(s)
    <2>1. UNCHANGED <<ledgerVars, row, deletedBy>> /\ MoveTo(s, "deleting_project", o, c)
      BY <1>2, <1>3, <1>5 DEF RemoveExternal, operationVars, Continue
    <2>2. CopiesTellTruth'
      BY <1>1, <1>2, <1>4, <2>1, TruthStays, MovedCopiesTellTruth
    <2> QED
      BY <1>1, <2>1, <2>2, UnchangedRowsTellTruth, RestStands
  <1>6. CASE DeleteProject(s)
    <2>1. /\ Return(s)
          /\ deletedBy' = o
          /\ row' = [p \in Op |-> NoRow]
          /\ route' = NoOp
          /\ \A p \in Op : generation'[p] = "none" /\ release'[p] = "none"
      BY <1>2, <1>6 DEF DeleteProject, EraseLedger
    <2>2. CopiesTellTruth'
      BY <2>1, ReturnedCopiesTellTruth
    <2>3. RowsTellTruth'
      BY <2>1 DEF RowsTellTruth, Truthful, ClaimsEvidence, NoRow
    <2>4. DeletedIsEmpty' /\ EvidenceNeedsRun' /\ LiveOnlyByEvidence'
      BY <1>1, <1>4, <2>1
      DEF TruthInv, DeletedIsEmpty, EvidenceNeedsRun, LiveOnlyByEvidence
    <2>5. DispatchIsOrdered'
      BY <1>1, <2>1 DEF TruthInv, DispatchIsOrdered, Requested
    <2> QED
      BY <2>2, <2>3, <2>4, <2>5 DEF TruthInv
  <1> QED
    BY <1>5, <1>6

LEMMA TruthInit == Init => TruthInv
  BY DEF Init, LedgerInit, GithubInit, TruthInv, RowsTellTruth, Truthful,
         ClaimsEvidence, NoRow, CopiesTellTruth, EvidenceNeedsRun,
         LiveOnlyByEvidence, DeletedIsEmpty, ProjectExists, DispatchIsOrdered,
         Requested, NoRequest, Unposted

LEMMA TruthNext == TypeInv /\ TruthInv /\ [Next]_vars => TruthInv'
  <1> SUFFICES ASSUME TypeInv, TruthInv, [Next]_vars PROVE TruthInv'
    OBVIOUS
  <1>1. ASSUME NEW s \in Session, Reconcile(s) \/ Finalize(s) \/ RetryDeletion(s)
                 \/ RetryFinalization(s) \/ RetryRefused(s) \/ RollbackRefused(s)
                 \/ SessionCrash(s) \/ PollFails(s)
        PROVE  TruthInv'
    <2>1. CASE RecoverIdentity(s) \/ SaveFailure(s) \/ FinalSave(s) \/ FinalizeDestroy(s)
      BY <2>1, SaveTruth
    <2>2. CASE FinalizeRelease(s) \/ FinalizationUnacknowledged(s)
      BY <2>2, ReleaseTruth
    <2>3. CASE RemoveExternal(s) \/ DeleteProject(s)
      BY <2>3, DeletionTruth
    <2>4. CASE \/ NothingToPoll(s) \/ ObserveProgress(s) \/ ObserveFailure(s)
               \/ ObserveInvalidEvidence(s) \/ CountMissingEvidence(s) \/ EvidenceExpires(s)
               \/ ObserveEvidence(s) \/ PollFails(s) \/ SessionCrash(s)
               \/ FinalizationFails(s) \/ CleanupFails(s)
               \/ RetryDeletion(s) \/ RetryFinalization(s) \/ RetryRefused(s)
               \/ RollbackRefused(s)
      <3>1. NothingShared
        BY <2>4
        DEF NothingToPoll, ObserveProgress, ObserveFailure,
            ObserveInvalidEvidence, CountMissingEvidence, EvidenceExpires,
            RejectEvidence, ObserveEvidence, PollFails, SessionCrash,
            FinalizationFails, CleanupFails, RetryDeletion, RetryFinalization,
            RetryRefused, RollbackRefused, OnlySession
      <3> QED
        BY <2>4, <3>1, LocalTruth
    <2> QED
      BY <1>1, <2>1, <2>2, <2>3, <2>4 DEF Reconcile, Finalize
  <1>2. CASE UNCHANGED vars
    <2>1. UNCHANGED <<ledgerVars, run, artifact, row, request, dispatcher, secret,
                      sessionVars, deletedBy>>
      BY <1>2 DEF vars, githubVars, operationVars
    <2> QED
      BY <2>1, UnchangedRowsTellTruth, UnmovedCopiesTellTruth, RestStands
  <1>3. CASE \E o \in Op : Dispatch(o) \/ DispatcherCrash(o)
    BY <1>3, DispatchTruth
  <1>4. CASE \E o \in Op :
               \/ AdmitDeploy(o) \/ AdmitDestroy(o)
               \/ \E s \in Session : AdmitRetry(s, o) \/ AdmitRollback(s, o)
    BY <1>4, AdmissionTruth
  <1>5. CASE \E o \in Op : WorkflowStep(o)
    BY <1>5, WorkflowTruth
  <1>6. CASE \E s \in Session, o \in Op :
               Load(s, o) \/ LoadBackfill(s, o) \/ LoadRetry(s, o) \/ LoadRollback(s, o)
    BY <1>6, LoadTruth
  <1> QED
    BY <1>1, <1>2, <1>3, <1>4, <1>5, <1>6 DEF Next, Retry, Rollback, Fault

(* Rows and copies tell the truth, through stale saves, crashes, lost      *)
(* acknowledgements and retries.                                           *)
THEOREM TruthHolds == Spec => []TruthInv
  BY TypesHold, TruthInit, TruthNext, PTL DEF Spec

(* Only a successful run with validated evidence puts a generation into    *)
(* the ledger.                                                             *)
THEOREM LiveRestsOnEvidence == Spec => []LiveOnlyByEvidence
  BY TruthHolds, PTL DEF TruthInv

(* A completed row has what completion promises, however it was written.   *)
THEOREM CompletionIsBacked == Spec => []CompletedIsBacked
  <1>1. TruthInv => CompletedIsBacked
    <2> SUFFICES ASSUME TruthInv, NEW o \in Op, row[o].status = "completed"
                 PROVE  /\ artifact[o] = "valid"
                        /\ request[o].action # "destroy" =>
                              generation[o] # "none" /\ release[o] # "none"
      BY DEF CompletedIsBacked
    <2>1. ProjectExists
      BY DEF TruthInv, DeletedIsEmpty, NoRow
    <2> QED
      BY <2>1 DEF TruthInv, RowsTellTruth, Truthful, ClaimsEvidence
  <1> QED
    BY <1>1, TruthHolds, PTL

(* The project goes only for a destroy that ran and was verified.          *)
THEOREM DeletionIsProven == Spec => []DeletedByProvenDestroy
  <1>1. TypeInv /\ TruthInv => DeletedByProvenDestroy
    BY DEF TypeInv, OperationsTyped, TruthInv, DeletedIsEmpty, EvidenceNeedsRun,
           DeletedByProvenDestroy, ProjectExists, NoRow
  <1> QED
    BY <1>1, TypesHold, TruthHolds, PTL

(* What may run keeps its secrets, and nothing that ran is recorded as     *)
(* never dispatched.                                                       *)
THEOREM RunsKeepSecrets == Spec => []RunKeepsItsSecrets
  <1>1. TruthInv => RunKeepsItsSecrets
    BY DEF TruthInv, DispatchIsOrdered, RowsTellTruth, Truthful, RunKeepsItsSecrets
  <1> QED
    BY <1>1, TruthHolds, PTL

(***************************************************************************)
(* A code of a broken contract, in a row or in any copy of one, was        *)
(* written because evidence was rejected, and evidence is only rejected    *)
(* while it does not validate.                                             *)
(***************************************************************************)
Judged(o, r) == r.code = "contract" => rejected[o] # {}

RejectionInv ==
    /\ \A o \in Op : Judged(o, row[o]) /\ "valid" \notin rejected[o]
    /\ \A s \in Session : at[s] # "idle" => Judged(on[s], copy[s])

LEMMA RejectedGrows ==
  ASSUME TypeInv, RejectedTyped, [Next]_vars, NEW o \in Op
  PROVE  /\ rejected[o] # {} => rejected'[o] # {}
         /\ "valid" \notin rejected[o] => "valid" \notin rejected'[o]
  <1>1. ASSUME NEW s \in Session, ObserveInvalidEvidence(s) \/ EvidenceExpires(s)
        PROVE  /\ rejected' = [rejected EXCEPT ![on[s]] = @ \cup {artifact[on[s]]}]
               /\ artifact[on[s]] # "valid"
    BY <1>1 DEF ObserveInvalidEvidence, EvidenceExpires, EvidenceMissing, RejectEvidence
  <1> QED
    BY <1>1, RejectionSteps DEF RejectedTyped

(* The codes of the rows come from the dispatcher, from finalization, or   *)
(* from the copy of a call that saves it.                                  *)
LEMMA SavedCodes ==
  ASSUME TypeInv, NEW p \in Op, NEW r, TrySave(p, r)
  PROVE  \A o \in Op : row'[o].code = row[o].code \/ (o = p /\ row'[o].code = r.code)
  BY DEF TrySave, TypeInv, OperationsTyped

LEMMA RowCodes ==
  ASSUME TypeInv, [Next]_vars, NEW o \in Op
  PROVE  \/ row'[o].code \in {row[o].code, "none", "dispatch"}
         \/ \E s \in Session : /\ at[s] # "idle" /\ on[s] = o
                               /\ row'[o].code = copy[s].code
  <1> DEFINE Known == row'[o].code \in {row[o].code, "none", "dispatch"}
             Copied(s) == at[s] # "idle" /\ on[s] = o /\ row'[o].code = copy[s].code
  <1>1. ASSUME NEW p \in Op, Dispatch(p) \/ DispatcherCrash(p) PROVE Known
    <2>1. row[p] \in Row
      BY DEF TypeInv, OperationsTyped
    <2>2. CASE SaveIntent(p)
      <3>1. PICK r : r = [row[p] EXCEPT !.status = "dispatching"]
        OBVIOUS
      <3>2. r.code = row[p].code
        BY <2>1, <3>1 DEF Row
      <3>3. TrySave(p, r)
        BY <2>2, <3>1 DEF SaveIntent, Save, TrySave
      <3> QED
        BY <3>2, <3>3, SavedCodes
    <2>3. CASE PersistAccepted(p)
      <3>1. PICK r : r = [DispatcherCopy(p, "running") EXCEPT !.known = TRUE]
        OBVIOUS
      <3>2. r.code = row[p].code
        BY <2>1, <3>1 DEF Row, DispatcherCopy
      <3>3. TrySave(p, r)
        BY <2>3, <3>1 DEF PersistAccepted
      <3> QED
        BY <3>2, <3>3, SavedCodes
    <2>4. CASE PreserveAmbiguous(p)
      <3>1. PICK r : r = DispatcherCopy(p, "dispatching")
        OBVIOUS
      <3>2. r.code = row[p].code
        BY <2>1, <3>1 DEF Row, DispatcherCopy
      <3>3. TrySave(p, r)
        BY <2>4, <3>1 DEF PreserveAmbiguous
      <3> QED
        BY <3>2, <3>3, SavedCodes
    <2>5. CASE RecordDispatchFailure(p)
      <3>1. PICK r : r = [DispatcherCopy(p, "failed") EXCEPT !.code = "dispatch"]
        OBVIOUS
      <3>2. r.code = "dispatch"
        BY <2>1, <3>1 DEF Row, DispatcherCopy
      <3>3. TrySave(p, r)
        BY <2>5, <3>1 DEF RecordDispatchFailure
      <3> QED
        BY <3>2, <3>3, SavedCodes
    <2> QED
      BY <1>1, <2>2, <2>3, <2>4, <2>5
      DEF Dispatch, Prepare, PostAccepted, PostRejected, PostLost, Compensate,
          DispatcherCrash
  <1>2. ASSUME NEW p \in Op, NEW action, NEW target, Admit(p, action, target) PROVE Known
    <2>1. [NoRow EXCEPT !.status = "preparing"].code = "none"
      BY DEF NoRow
    <2> QED
      BY <1>2, <2>1 DEF Admit, TypeInv, OperationsTyped
  <1>3. ASSUME NEW s \in Session, FinalizeRelease(s) \/ FinalizationUnacknowledged(s)
        PROVE  Known
    <2>1. /\ at[s] # "idle"
          /\ row' = [row EXCEPT ![on[s]] = Completed(row[on[s]])]
      BY <1>3 DEF FinalizeRelease, FinalizationUnacknowledged
    <2>2. PICK p \in Op, r \in Row : p = on[s] /\ r = row[p]
      BY <2>1, SessionFacts DEF TypeInv, OperationsTyped
    <2>3. Completed(r).code = "none"
      BY DEF Completed, Row
    <2> QED
      BY <2>1, <2>2, <2>3 DEF TypeInv, OperationsTyped
  <1>4. ASSUME NEW s \in Session, DeleteProject(s) PROVE Known
    BY <1>4 DEF DeleteProject, NoRow
  <1>5. ASSUME NEW s \in Session,
               RecoverIdentity(s) \/ SaveFailure(s) \/ FinalSave(s) \/ FinalizeDestroy(s)
        PROVE  Known \/ Copied(s)
    <2>1. at[s] # "idle"
      BY <1>5 DEF RecoverIdentity, SaveFailure, FinalSave, FinalizeDestroy
    <2>2. PICK p \in Op, c \in Row : p = on[s] /\ c = copy[s]
      BY <2>1, SessionFacts
    <2>3. PICK r : TrySave(p, r) /\ r.code \in {c.code, "none"}
      <3>1. CASE RecoverIdentity(s)
        <4>1. PICK r : r = [c EXCEPT !.status = "running", !.known = TRUE]
          OBVIOUS
        <4>2. r.code = c.code
          BY <4>1 DEF Row
        <4> QED
          BY <2>2, <3>1, <4>1, <4>2 DEF RecoverIdentity
      <3>2. CASE SaveFailure(s) \/ FinalSave(s)
        BY <2>2, <3>2 DEF SaveFailure, FinalSave
      <3>3. CASE FinalizeDestroy(s)
        <4>1. PICK r : r = Completed(c)
          OBVIOUS
        <4>2. r.code = "none"
          BY <4>1 DEF Completed, Row
        <4> QED
          BY <2>2, <3>3, <4>1, <4>2 DEF FinalizeDestroy, Save, TrySave
      <3> QED
        BY <1>5, <3>1, <3>2, <3>3
    <2> QED
      BY <2>1, <2>2, <2>3, SavedCodes
  <1>6. row' = row => Known
    OBVIOUS
  <1> HIDE DEF Known, Copied
  <1>7. Known \/ \E s \in Session : Copied(s)
    BY <1>1, <1>2, <1>3, <1>4, <1>5, <1>6
    DEF Next, vars, operationVars, OnlySession, NothingShared, Reconcile, Finalize,
        Retry, Rollback, Fault, WorkflowStep, AdmitDeploy, AdmitDestroy, AdmitRetry,
        AdmitRollback, Load, LoadBackfill, LoadRetry, LoadRollback, NothingToPoll,
        ObserveProgress, ObserveFailure, ObserveInvalidEvidence,
        CountMissingEvidence, EvidenceExpires, RejectEvidence, ObserveEvidence,
        FinalizationFails, RemoveExternal, CleanupFails, RetryDeletion,
        RetryFinalization, RetryRefused, RollbackRefused, PollFails, SessionCrash
  <1> QED
    BY <1>7 DEF Known, Copied

(* The codes of the copies come from the rows they were read from, or from *)
(* what the call decides; only a rejection makes it a broken contract.     *)
LEMMA CopyCodes ==
  ASSUME TypeInv, [Next]_vars, NEW s \in Session, at'[s] # "idle"
  PROVE  \/ copy'[s].code # "contract"
         \/ RejectEvidence(s) /\ at[s] # "idle"
         \/ at[s] # "idle" /\ on'[s] = on[s] /\ copy'[s].code = copy[s].code
         \/ on'[s] \in Op /\ copy'[s].code = row[on'[s]].code
  <1> DEFINE Goal == \/ copy'[s].code # "contract"
                     \/ RejectEvidence(s) /\ at[s] # "idle"
                     \/ at[s] # "idle" /\ on'[s] = on[s] /\ copy'[s].code = copy[s].code
                     \/ on'[s] \in Op /\ copy'[s].code = row[on'[s]].code
  <1>1. ASSUME NEW t \in Session, NEW pc, NEW o, NEW r, MoveTo(t, pc, o, r),
               t = s /\ pc # "idle" =>
                  \/ r.code # "contract"
                  \/ RejectEvidence(s) /\ at[s] # "idle"
                  \/ at[s] # "idle" /\ o = on[s] /\ r.code = copy[s].code
                  \/ o \in Op /\ r.code = row[o].code
        PROVE  Goal
    BY <1>1 DEF MoveTo, TypeInv, SessionsTyped
  <1>2. UNCHANGED sessionVars => Goal
    BY DEF sessionVars
  <1> HIDE DEF Goal
  <1>3. \A t \in Session : Return(t) => Goal
    BY <1>1 DEF Return
  <1>4. \A t \in Session : \A pc : at[t] # "idle" /\ Continue(t, pc) => Goal
    BY <1>1 DEF Continue
  <1>5. \A t \in Session : \A pc, r :
            /\ at[t] # "idle" /\ WithCopy(t, pc, r)
            /\ r.code = copy[t].code \/ r.code # "contract"
            => Goal
    BY <1>1 DEF WithCopy
  <1>6. ASSUME NEW t \in Session, NEW o \in Op,
               Load(t, o) \/ LoadBackfill(t, o) \/ LoadRetry(t, o) \/ LoadRollback(t, o)
        PROVE  Goal
    <2>1. NoRow.code # "contract"
      BY DEF NoRow
    <2> QED
      BY <1>1, <1>6, <2>1 DEF Load, LoadBackfill, LoadRetry, LoadRollback
  <1>7. ASSUME NEW t \in Session, Reconcile(t) PROVE Goal
    <2>1. PICK c \in Row : c = copy[t]
      BY SessionFacts
    <2>2. CASE ObserveInvalidEvidence(t) \/ EvidenceExpires(t)
      <3>1. RejectEvidence(t) /\ at[t] # "idle"
        BY <2>2 DEF ObserveInvalidEvidence, EvidenceExpires, EvidenceMissing
      <3> QED
        BY <1>1, <3>1 DEF RejectEvidence, WithCopy
    <2>3. CASE RecoverIdentity(t)
      <3>1. [c EXCEPT !.status = "running", !.known = TRUE].code = c.code
        BY DEF Row
      <3> QED
        BY <1>3, <1>5, <2>1, <2>3, <3>1 DEF RecoverIdentity
    <2>4. CASE ObserveFailure(t)
      <3>1. Failed(c, "workflow").code # "contract"
        BY DEF Failed, Row
      <3> QED
        BY <1>5, <2>1, <2>4, <3>1 DEF ObserveFailure
    <2>5. CASE CountMissingEvidence(t)
      <3>1. PICK r : r = [c EXCEPT !.pending = IF @ < PendingLimit THEN @ + 1 ELSE @]
        OBVIOUS
      <3>2. r.code = c.code
        BY <3>1 DEF Row
      <3> QED
        BY <1>5, <2>1, <2>5, <3>1, <3>2 DEF CountMissingEvidence, EvidenceMissing
    <2> QED
      BY <1>3, <1>4, <1>7, <2>2, <2>3, <2>4, <2>5
      DEF Reconcile, NothingToPoll, ObserveProgress, ObserveEvidence, SaveFailure,
          FinalSave
  <1>8. ASSUME NEW t \in Session, Finalize(t) PROVE Goal
    <2>1. PICK c \in Row : c = copy[t]
      BY SessionFacts
    <2>2. /\ Failed(c, "finalization").code # "contract"
          /\ Failed(c, "cleanup").code # "contract"
          /\ Completed(c).code # "contract"
      BY DEF Failed, Completed, Row
    <2>3. CASE FinalizeRelease(t) \/ FinalizationUnacknowledged(t)
      <3>1. on[t] \in Op /\ at[t] # "idle"
        BY <2>3, SessionFacts DEF FinalizeRelease, FinalizationUnacknowledged
      <3>2. PICK r \in Row : r = row[on[t]]
        BY <3>1 DEF TypeInv, OperationsTyped
      <3>3. /\ Failed(r, "finalization").code # "contract"
            /\ Completed(r).code # "contract"
        BY DEF Failed, Completed, Row
      <3> QED
        BY <1>3, <1>5, <2>3, <3>1, <3>2, <3>3
        DEF FinalizeRelease, FinalizationUnacknowledged
    <2>4. CASE FinalizationFails(t) \/ CleanupFails(t) \/ FinalizeDestroy(t)
      BY <1>5, <2>1, <2>2, <2>4 DEF FinalizationFails, CleanupFails, FinalizeDestroy
    <2> QED
      BY <1>3, <1>4, <1>8, <2>3, <2>4 DEF Finalize, RemoveExternal, DeleteProject
  <1>9. ASSUME NEW t \in Session, Retry(t) \/ Rollback(t) PROVE Goal
    <2>1. PICK c \in Row : c = copy[t]
      BY SessionFacts
    <2>2. Failed(c, "cleanup").code # "contract"
      BY DEF Failed, Row
    <2> QED
      BY <1>3, <1>4, <1>5, <1>9, <2>1, <2>2
      DEF Retry, Rollback, RetryDeletion, RetryFinalization, RetryRefused,
          RollbackRefused, AdmitRetry, AdmitRollback
  <1>10. Goal
    BY <1>2, <1>3, <1>6, <1>7, <1>8, <1>9
    DEF Next, Fault, vars, AdmitDeploy, AdmitDestroy, Dispatch, DispatcherCrash,
        WorkflowStep, PollFails, SessionCrash, Prepare, SaveIntent, PostAccepted,
        PostRejected, PostLost, PersistAccepted, PreserveAmbiguous, Compensate,
        RecordDispatchFailure
  <1> QED
    BY <1>10 DEF Goal

LEMMA RejectionNext ==
  TypeInv /\ RejectedTyped /\ RejectionInv /\ [Next]_vars => RejectionInv'
  <1> SUFFICES ASSUME TypeInv, RejectedTyped, RejectionInv, [Next]_vars
               PROVE  RejectionInv'
    OBVIOUS
  <1>1. ASSUME NEW o \in Op PROVE Judged(o, row[o])' /\ "valid" \notin rejected'[o]
    BY RowCodes, RejectedGrows DEF RejectionInv, Judged
  <1>2. ASSUME NEW s \in Session, at'[s] # "idle" PROVE Judged(on[s], copy[s])'
    <2>1. CASE RejectEvidence(s) /\ at[s] # "idle"
      <3>1. on[s] \in Op
        BY <2>1, SessionFacts
      <3> QED
        BY <2>1, <3>1
        DEF RejectEvidence, WithCopy, MoveTo, RejectedTyped, Judged, TypeInv, SessionsTyped
    <2>2. CASE at[s] # "idle" /\ on'[s] = on[s] /\ copy'[s].code = copy[s].code
      BY <2>2, SessionFacts, RejectedGrows DEF RejectionInv, Judged
    <2>3. CASE on'[s] \in Op /\ copy'[s].code = row[on'[s]].code
      BY <2>3, RejectedGrows DEF RejectionInv, Judged
    <2> QED
      BY <1>2, <2>1, <2>2, <2>3, CopyCodes DEF Judged
  <1> QED
    BY <1>1, <1>2 DEF RejectionInv

(* A recorded failure names what really happened, whichever stale copy     *)
(* recorded it: a broken contract was judged on a successful run, because  *)
(* its evidence was invalid or missing, and no evidence that validated was *)
(* ever judged so.                                                         *)
THEOREM FailuresAreTrue == Spec => []FailureIsTrue
  <1>1. TruthInv /\ RejectionInv => FailureIsTrue
    BY DEF TruthInv, RowsTellTruth, Truthful, ClaimsEvidence, RejectionInv, Judged,
           FailureIsTrue
  <1>2. Init => RejectedTyped /\ RejectionInv
    BY DEF Init, RejectedTyped, RejectionInv, Judged, NoRow
  <1> QED
    BY <1>1, <1>2, TypesHold, TruthHolds, RejectedNext, RejectionNext, PTL DEF Spec

-----------------------------------------------------------------------------
(***************************************************************************)
(* Layer 4: one active operation.                                          *)
(***************************************************************************)
LEMMA SaveKeepsSingle ==
  ASSUME TypeInv, SingleActive, NEW o \in Op, NEW r, TrySave(o, r)
  PROVE  SingleActive'
  <1>1. ActiveOps' \subseteq ActiveOps \/ ActiveOps' \subseteq {o}
    BY DEF TypeInv, OperationsTyped, TrySave, SaveAccepted, ActiveOps
  <1> QED
    BY <1>1 DEF SingleActive

(* Every way a step changes the rows.                                      *)
LEMMA RowSteps ==
  ASSUME TypeInv, [Next]_vars
  PROVE  \/ row' = row
         \/ \E o \in Op : \E r : TrySave(o, r)
         \/ \E o \in Op, action \in Action : \E target : Admit(o, action, target)
         \/ \E s \in Session : FinalizeRelease(s) \/ FinalizationUnacknowledged(s)
         \/ \E s \in Session : DeleteProject(s)
  <1>1. ASSUME NEW o \in Op, Dispatch(o) \/ DispatcherCrash(o)
        PROVE  row' = row \/ \E r : TrySave(o, r)
    BY <1>1
    DEF Dispatch, Prepare, SaveIntent, PostAccepted, PostRejected, PostLost,
        PersistAccepted, PreserveAmbiguous, Compensate, RecordDispatchFailure,
        DispatcherCrash, Save, TrySave
  <1>2. ASSUME NEW s \in Session, Reconcile(s) \/ FinalizeDestroy(s)
        PROVE  row' = row \/ \E o \in Op : \E r : TrySave(o, r)
    BY <1>2, SessionFacts
    DEF Reconcile, OnlySession, NothingShared, operationVars, NothingToPoll,
        RecoverIdentity, ObserveProgress, ObserveFailure, ObserveInvalidEvidence,
        CountMissingEvidence, EvidenceExpires, RejectEvidence, ObserveEvidence,
        SaveFailure, FinalSave, FinalizeDestroy, Save, TrySave
  <1>3. ASSUME NEW s \in Session, NEW o \in Op, AdmitRetry(s, o) \/ AdmitRollback(s, o)
        PROVE  \E action \in Action : \E target : Admit(o, action, target)
    <2>1. at[s] # "idle"
      BY <1>3 DEF AdmitRetry, AdmitRollback
    <2>2. request[on[s]].action \in Action
      BY <2>1, SessionFacts DEF TypeInv, OperationsTyped, Requested, Request
    <2> QED
      BY <1>3, <2>2 DEF AdmitRetry, AdmitRollback, Action
  <1>4. ASSUME NEW o \in Op, AdmitDeploy(o) \/ AdmitDestroy(o)
        PROVE  \E action \in Action : \E target : Admit(o, action, target)
    BY <1>4 DEF AdmitDeploy, AdmitDestroy, Action
  <1> QED
    BY <1>1, <1>2, <1>3, <1>4
    DEF Next, vars, operationVars, OnlySession, NothingShared, Finalize, Retry,
        Rollback, Fault, WorkflowStep, Load, LoadBackfill, LoadRetry,
        LoadRollback, FinalizationFails, RemoveExternal, CleanupFails,
        RetryDeletion, RetryFinalization, RetryRefused, RollbackRefused,
        PollFails, SessionCrash

LEMMA CompletedFacts ==
  ASSUME TypeInv, NEW s \in Session, FinalizeRelease(s) \/ FinalizationUnacknowledged(s)
  PROVE  /\ on[s] \in Op
         /\ row[on[s]].status # "none"
         /\ row' = [row EXCEPT ![on[s]] = Completed(row[on[s]])]
         /\ Completed(row[on[s]]).status = "completed"
  <1>1. on[s] \in Op
    BY SessionFacts DEF FinalizeRelease, FinalizationUnacknowledged
  <1> QED
    BY <1>1
    DEF FinalizeRelease, FinalizationUnacknowledged, Completed, TypeInv,
        OperationsTyped, Row

LEMMA SingleNext == TypeInv /\ SingleActive /\ [Next]_vars => SingleActive'
  <1> SUFFICES ASSUME TypeInv, SingleActive, [Next]_vars PROVE SingleActive'
    OBVIOUS
  <1>1. CASE row' = row
    BY <1>1 DEF SingleActive, ActiveOps
  <1>2. CASE \E o \in Op : \E r : TrySave(o, r)
    BY <1>2, SaveKeepsSingle
  <1>3. ASSUME NEW o \in Op, NEW action \in Action, NEW target, Admit(o, action, target)
        PROVE  SingleActive'
    BY <1>3 DEF Admit, SingleActive, ActiveOps, TypeInv, OperationsTyped
  <1>4. ASSUME NEW s \in Session, FinalizeRelease(s) \/ FinalizationUnacknowledged(s)
        PROVE  SingleActive'
    <2>1. ActiveOps' \subseteq ActiveOps
      BY <1>4, CompletedFacts DEF TypeInv, OperationsTyped, ActiveOps, Active
    <2> QED
      BY <2>1 DEF SingleActive
  <1>5. ASSUME NEW s \in Session, DeleteProject(s)
        PROVE  SingleActive'
    BY <1>5 DEF DeleteProject, SingleActive, ActiveOps, Active, NoRow
  <1> QED
    BY <1>1, <1>2, <1>3, <1>4, <1>5, RowSteps

(* Two operations of a project are never active together.                  *)
THEOREM OneActive == Spec => []SingleActive
  <1>1. Init => SingleActive
    BY DEF Init, SingleActive, ActiveOps, Active, NoRow
  <1> QED
    BY <1>1, SingleNext, TypesHold, PTL DEF Spec

-----------------------------------------------------------------------------
(***************************************************************************)
(* Layer 5: where a rollback may lead.  The target is read before the      *)
(* rollback is admitted, kept in the request, and reused by every retry,   *)
(* so the invariant follows it from the read on.                           *)
(***************************************************************************)
(* What is true of a release from the moment it is a rollback target: it   *)
(* was finalized, and only the deletion of the project takes it out of     *)
(* the history.                                                            *)
Restorable(t) ==
    /\ t \in Op
    /\ Requested(t)
    /\ request[t].action # "destroy"
    /\ artifact[t] = "valid"
    /\ release[t] # "stable"
    /\ release[t] = "none" => ~ProjectExists

ReleasesProjected == \A o \in Op : release[o] # "none" => generation[o] # "none"

RollbackInv ==
    /\ ReleasesProjected
    /\ \A o \in Op : request[o].action = "rollback" => Restorable(request[o].target)
    /\ \A s \in Session : at[s] = "rolling_back" => Restorable(on[s])

LEMMA ProjectedStays ==
  ASSUME TypeInv, ReleasesProjected, [Next]_vars
  PROVE  ReleasesProjected'
  <1>1. CASE UNCHANGED ledgerVars
    BY <1>1 DEF ledgerVars, ReleasesProjected
  <1>2. ASSUME NEW p \in Op, Promote(p)
        PROVE  ReleasesProjected'
    BY <1>2
    DEF ReleasesProjected, Promote, MaterializeStableRelease, Aged, InsertStable,
        SupersedeTargets, DemoteStable, Restated, TypeInv, LedgerTypeOK,
        ReleaseState
  <1>3. CASE EraseLedger
    BY <1>3 DEF EraseLedger, ReleasesProjected
  <1> QED
    BY <1>1, <1>2, <1>3, LedgerSteps

(* Nothing is finalized in a deleted project, and there is no way back     *)
(* from deletion.                                                          *)
LEMMA DeletionIsFinal ==
  ASSUME TypeInv, TruthInv, [Next]_vars, ~ProjectExists
  PROVE  ~ProjectExists' /\ UNCHANGED release
  <1>1. \A o \in Op : row[o].status = "none" /\ release[o] = "none"
    BY DEF TruthInv, DeletedIsEmpty, NoRow
  <1>2. ~ \E s \in Session : DeleteProject(s)
    BY <1>1, SessionFacts DEF DeleteProject
  <1>3. ~ \E s \in Session : FinalizeRelease(s) \/ FinalizationUnacknowledged(s)
    BY <1>1, SessionFacts DEF FinalizeRelease, FinalizationUnacknowledged
  <1>4. UNCHANGED ledgerVars
    BY <1>2, <1>3, ReleaseSteps
  <1> QED
    BY <1>2, <1>4, DeletionSteps DEF ProjectExists, ledgerVars

LEMMA RestorableStays ==
  ASSUME TypeInv, TruthInv, [Next]_vars, NEW t, Restorable(t)
  PROVE  Restorable(t)'
  <1>1. /\ t \in Op
        /\ request'[t] = request[t] /\ artifact'[t] = "valid"
    BY Monotone DEF Restorable
  <1>2. release'[t] # "stable" /\ (release'[t] = "none" => ~ProjectExists')
    <2>1. CASE ~ProjectExists
      BY <2>1, DeletionIsFinal DEF Restorable
    <2>2. CASE ProjectExists
      <3>1. release[t] \in {"rollback_target", "superseded"}
        BY <2>2 DEF Restorable, TypeInv, LedgerTypeOK, ReleaseState
      <3>2. CASE UNCHANGED ledgerVars
        BY <3>1, <3>2 DEF ledgerVars
      <3>3. ASSUME NEW p \in Op, Promote(p)
            PROVE  release'[t] \in {"rollback_target", "superseded"}
        BY <1>1, <3>1, <3>3 DEF Promote, MaterializeStableRelease, Aged,
                                InsertStable, SupersedeTargets, DemoteStable,
                                Restated
      <3>4. ASSUME EraseLedger, NEW s \in Session, DeleteProject(s)
            PROVE  release'[t] = "none" /\ ~ProjectExists'
        BY <1>1, <3>4, SessionFacts, OpFacts DEF EraseLedger, DeleteProject,
                                                 ProjectExists
      <3> QED
        BY <3>2, <3>3, <3>4, <3>1, LedgerSteps
    <2> QED
      BY <2>1, <2>2
  <1> QED
    BY <1>1, <1>2 DEF Restorable, Requested

(* A target is read from the releases as a rollback target.                *)
LEMMA TargetsRestorable ==
  ASSUME TypeInv, TruthInv, ReleasesProjected, NEW t \in Op,
         release[t] = "rollback_target"
  PROVE  Restorable(t)
  <1>1. generation[t] # "none"
    BY DEF ReleasesProjected
  <1> QED
    BY <1>1 DEF TruthInv, LiveOnlyByEvidence, Restorable, Requested

(* The requests that a step adds.                                          *)
LEMMA RequestSteps ==
  ASSUME TypeInv, [Next]_vars
  PROVE  \/ request' = request
         \/ \E o \in Op : \E target :
               \/ Admit(o, "deploy", target) \/ Admit(o, "destroy", target)
         \/ \E s \in Session, o \in Op :
               \/ at[s] = "rolling_back" /\ Admit(o, "rollback", on[s])
               \/ /\ at[s] = "retrying"
                  /\ Admit(o, request[on[s]].action, request[on[s]].target)
  BY ZenonT(60) DEF Next, vars, operationVars, OnlySession, NothingShared, Dispatch,
         Reconcile, Finalize, Retry, Rollback, Fault, WorkflowStep, Load,
         LoadBackfill, LoadRetry, LoadRollback, AdmitDeploy, AdmitDestroy,
         AdmitRetry, AdmitRollback, Prepare, SaveIntent, PostAccepted,
         PostRejected, PostLost, PersistAccepted, PreserveAmbiguous, Compensate,
         RecordDispatchFailure, DispatcherCrash, NothingToPoll, RecoverIdentity,
         ObserveProgress, ObserveFailure, ObserveInvalidEvidence,
         CountMissingEvidence, EvidenceExpires, RejectEvidence, ObserveEvidence,
         SaveFailure, FinalSave, PollFails, SessionCrash, FinalizeRelease,
         FinalizationFails, FinalizationUnacknowledged, FinalizeDestroy,
         RemoveExternal, DeleteProject, CleanupFails, RetryDeletion,
         RetryFinalization, RetryRefused, RollbackRefused

LEMMA RequestsKeepTargets ==
  ASSUME TypeInv, TruthInv, RollbackInv, [Next]_vars, NEW o \in Op,
         request'[o].action = "rollback"
  PROVE  Restorable(request[o].target)'
  <1>1. PICK t : t = request'[o].target
    OBVIOUS
  <1>2. Restorable(t)
    <2>1. CASE request'[o] = request[o]
      BY <1>1, <2>1 DEF RollbackInv
    <2>2. CASE request'[o] # request[o]
      <3>1. ASSUME NEW p \in Op, NEW action, NEW target, Admit(p, action, target)
            PROVE  request'[o].action = action /\ t = target
        BY <1>1, <2>2, <3>1 DEF Admit, TypeInv, OperationsTyped
      <3>2. ASSUME NEW s \in Session, at[s] = "rolling_back", NEW p \in Op,
                   Admit(p, "rollback", on[s])
            PROVE  Restorable(t)
        BY <3>1, <3>2 DEF RollbackInv
      <3>3. ASSUME NEW s \in Session, at[s] = "retrying", NEW p \in Op,
                   Admit(p, request[on[s]].action, request[on[s]].target)
            PROVE  Restorable(t)
        <4>1. request[on[s]].action = "rollback" /\ t = request[on[s]].target
          BY <3>1, <3>3
        <4> QED
          BY <3>3, <4>1, SessionFacts DEF RollbackInv
      <3> QED
        BY <2>2, <3>1, <3>2, <3>3, RequestSteps
    <2> QED
      BY <2>1, <2>2
  <1>3. Restorable(t)'
    BY <1>2, RestorableStays
  <1> QED
    BY <1>1, <1>3 DEF Restorable, Requested, ProjectExists

(* A session only gets to "rolling_back" by reading a rollback target.     *)
LEMMA SessionsReadTargets ==
  ASSUME TypeInv, [Next]_vars, NEW s \in Session, at'[s] = "rolling_back"
  PROVE  \/ at[s] = "rolling_back" /\ on'[s] = on[s]
         \/ on'[s] \in Op /\ release[on'[s]] = "rollback_target"
  <1> DEFINE Goal == \/ at[s] = "rolling_back" /\ on'[s] = on[s]
                     \/ on'[s] \in Op /\ release[on'[s]] = "rollback_target"
  <1>1. UNCHANGED sessionVars => Goal
    BY DEF sessionVars
  <1>2. ASSUME NEW t \in Session, NEW pc, NEW o, NEW r,
               pc # "rolling_back", MoveTo(t, pc, o, r)
        PROVE  Goal
    BY <1>2 DEF MoveTo, TypeInv, SessionsTyped
  <1>3. \A t \in Session : Return(t) => Goal
    BY <1>2 DEF Return
  <1>4. \A t \in Session : \A pc : pc # "rolling_back" /\ Continue(t, pc) => Goal
    BY <1>2 DEF Continue
  <1>5. \A t \in Session : \A pc, r : pc # "rolling_back" /\ WithCopy(t, pc, r) => Goal
    BY <1>2 DEF WithCopy
  <1>6. ASSUME NEW t \in Session, NEW o \in Op,
               Load(t, o) \/ LoadBackfill(t, o) \/ LoadRetry(t, o) \/ LoadRollback(t, o)
        PROVE  Goal
    <2>1. CASE Load(t, o) \/ LoadBackfill(t, o) \/ LoadRetry(t, o)
      BY <1>2, <2>1 DEF Load, LoadBackfill, LoadRetry
    <2>2. CASE LoadRollback(t, o)
      BY <2>2 DEF LoadRollback, MoveTo, TypeInv, SessionsTyped
    <2> QED
      BY <1>6, <2>1, <2>2
  <1>7. ASSUME NEW t \in Session, Reconcile(t) \/ PollFails(t) \/ SessionCrash(t)
        PROVE  Goal
    BY <1>3, <1>4, <1>5, <1>7
    DEF Reconcile, NothingToPoll, RecoverIdentity, ObserveProgress,
        ObserveFailure, ObserveInvalidEvidence, CountMissingEvidence,
        EvidenceExpires, RejectEvidence, ObserveEvidence, SaveFailure, FinalSave,
        PollFails, SessionCrash
  <1>8. ASSUME NEW t \in Session, Finalize(t)
        PROVE  Goal
    BY <1>3, <1>4, <1>5, <1>8
    DEF Finalize, FinalizeRelease, FinalizationFails, FinalizationUnacknowledged,
        FinalizeDestroy, RemoveExternal, DeleteProject, CleanupFails
  <1>9. ASSUME NEW t \in Session, Retry(t) \/ Rollback(t)
        PROVE  Goal
    BY <1>3, <1>4, <1>5, <1>9
    DEF Retry, Rollback, RetryDeletion, RetryFinalization, RetryRefused, AdmitRetry,
        AdmitRollback, RollbackRefused
  <1>10. ASSUME NEW o \in Op,
                \/ AdmitDeploy(o) \/ AdmitDestroy(o) \/ Dispatch(o) \/ WorkflowStep(o)
                \/ DispatcherCrash(o)
         PROVE  Goal
    BY <1>1, <1>10
    DEF AdmitDeploy, AdmitDestroy, Dispatch, WorkflowStep, Prepare, SaveIntent,
        PostAccepted, PostRejected, PostLost, PersistAccepted, PreserveAmbiguous,
        Compensate, RecordDispatchFailure, DispatcherCrash
  <1>11. UNCHANGED vars => Goal
    BY <1>1 DEF vars
  <1> QED
    BY <1>6, <1>7, <1>8, <1>9, <1>10, <1>11 DEF Next, Fault

LEMMA RollbackNext ==
  TypeInv /\ TruthInv /\ RollbackInv /\ [Next]_vars => RollbackInv'
  <1> SUFFICES ASSUME TypeInv, TruthInv, RollbackInv, [Next]_vars
               PROVE  RollbackInv'
    OBVIOUS
  <1>1. ReleasesProjected'
    BY ProjectedStays DEF RollbackInv
  <1>2. ASSUME NEW s \in Session, at'[s] = "rolling_back"
        PROVE  Restorable(on[s])'
    <2>1. PICK t : t = on'[s]
      OBVIOUS
    <2>2. Restorable(t)
      BY <1>2, <2>1, SessionsReadTargets, TargetsRestorable DEF RollbackInv
    <2>3. Restorable(t)'
      BY <2>2, RestorableStays
    <2> QED
      BY <2>1, <2>3 DEF Restorable, Requested, ProjectExists
  <1> QED
    BY <1>1, <1>2, RequestsKeepTargets DEF RollbackInv

LEMMA RollbackInit == Init => RollbackInv
  BY DEF Init, LedgerInit, RollbackInv, ReleasesProjected, NoRequest

(* A rollback, and each retry of it, restores a release that was finalized *)
(* and is not the stable one, whatever was deployed, retried or deleted    *)
(* since the target was read.                                              *)
THEOREM RollbacksGoBack == Spec => []RollbackGoesBack
  <1>1. Spec => []RollbackInv
    BY RollbackInit, RollbackNext, TypesHold, TruthHolds, PTL DEF Spec
  <1>2. RollbackInv => RollbackGoesBack
    BY DEF RollbackInv, RollbackGoesBack, Restorable
  <1> QED
    BY <1>1, <1>2, PTL

-----------------------------------------------------------------------------
(***************************************************************************)
(* Deployment implements LifecycleTruth: with open = the active            *)
(* operations, releases and destroys = the proven ones, live = the route,  *)
(* every step of the lifecycle is a step of the truth or leaves it alone.  *)
(***************************************************************************)
Inv == TypeInv /\ TruthInv /\ SingleActive

LEMMA InvHolds == Spec => []Inv
  BY TypesHold, TruthHolds, OneActive, PTL DEF Inv

(* What the abstraction sees of a step that proves nothing and admits      *)
(* nothing.                                                                *)
LEMMA ProofsStay ==
  ASSUME UNCHANGED <<artifact, request>>
  PROVE  ProvenReleases' = ProvenReleases /\ ProvenDestroys' = ProvenDestroys
  BY DEF ProvenReleases, ProvenDestroys, Proven

(* A save opens a finished operation again, closes an active one, or       *)
(* changes nothing the truth can see.                                      *)
LEMMA SaveRefines ==
  ASSUME Inv, NEW o \in Op, NEW r, TrySave(o, r),
         UNCHANGED <<artifact, request, route, deletedBy>>
  PROVE  [Truth!Next]_(Truth!truthVars)
  <1>1. /\ ProvenReleases' = ProvenReleases /\ ProvenDestroys' = ProvenDestroys
        /\ ProjectExists' = ProjectExists
    BY ProofsStay DEF ProjectExists
  <1>2. CASE ActiveOps' = ActiveOps
    BY <1>1, <1>2 DEF Truth!truthVars
  <1>3. CASE ActiveOps' # ActiveOps
    <2>1. /\ row[o].status # "none"
          /\ row' = [row EXCEPT ![o] = r]
          /\ r.status \in Active => ActiveOps \subseteq {o}
      BY <1>3 DEF TrySave, SaveAccepted, ActiveOps
    <2>2. ProjectExists
      BY <2>1 DEF Inv, TruthInv, DeletedIsEmpty, NoRow
    <2>3. /\ \A p \in Op \ {o} : p \in ActiveOps' <=> p \in ActiveOps
          /\ o \in ActiveOps' <=> r.status \in Active
      BY <2>1 DEF ActiveOps, Inv, TypeInv, OperationsTyped
    <2>4. ActiveOps \subseteq Op /\ ActiveOps' \subseteq Op
      BY DEF ActiveOps
    <2>5. CASE r.status \in Active
      <3>1. ActiveOps = {} /\ ActiveOps' = {o}
        BY <1>3, <2>1, <2>3, <2>4, <2>5
      <3> QED
        BY <1>1, <2>2, <3>1 DEF Truth!Next, Truth!Open
    <2>6. CASE r.status \notin Active
      <3>1. o \in ActiveOps /\ o \notin ActiveOps'
        BY <1>3, <2>3, <2>4, <2>6
      <3>2. ActiveOps = {o} /\ ActiveOps' = {}
        BY <2>3, <2>4, <3>1 DEF Inv, SingleActive
      <3> QED
        BY <1>1, <3>2 DEF Truth!Next, Truth!Close
    <2> QED
      BY <2>5, <2>6
  <1> QED
    BY <1>2, <1>3

LEMMA AdmitRefines ==
  ASSUME Inv, NEW o \in Op, NEW action \in Action, NEW target, Admit(o, action, target)
  PROVE  [Truth!Next]_(Truth!truthVars)
  <1>1. /\ ProjectExists /\ ActiveOps = {} /\ ~Requested(o)
        /\ UNCHANGED <<artifact, route, deletedBy>>
        /\ row' = [row EXCEPT ![o] = [NoRow EXCEPT !.status = "preparing"]]
        /\ \A p \in Op \ {o} : request'[p] = request[p]
    BY DEF Admit, IsNextOp, ledgerVars, githubVars, Inv, TypeInv, OperationsTyped
  <1>2. artifact[o] # "valid"
    BY <1>1
    DEF Inv, TruthInv, EvidenceNeedsRun, DispatchIsOrdered, Unposted
  <1>3. ProvenReleases' = ProvenReleases /\ ProvenDestroys' = ProvenDestroys
    BY <1>1, <1>2 DEF ProvenReleases, ProvenDestroys, Proven
  <1>4. ActiveOps' = {o}
    BY <1>1 DEF ActiveOps, Active, NoRow, Inv, TypeInv, OperationsTyped
  <1> QED
    BY <1>1, <1>3, <1>4 DEF Truth!Next, Truth!Open, ProjectExists

LEMMA ReleaseRefines ==
  ASSUME Inv, NEW s \in Session, FinalizeRelease(s) \/ FinalizationUnacknowledged(s)
  PROVE  [Truth!Next]_(Truth!truthVars)
  <1>1. PICK o \in Op : o = on[s]
    BY CompletedFacts DEF Inv
  <1>2. /\ row[o].status # "none"
        /\ row' = [row EXCEPT ![o] = Completed(row[o])]
        /\ Completed(row[o]).status = "completed"
    BY <1>1, CompletedFacts DEF Inv
  <1>3. /\ at[s] = "finalizing"
        /\ request[o].action # "destroy"
        /\ route' = o
        /\ UNCHANGED <<artifact, request, deletedBy>>
    BY <1>1 DEF FinalizeRelease, FinalizationUnacknowledged, Promote, githubVars
  <1>4. o \in ProvenReleases
    BY <1>1, <1>3 DEF Inv, TruthInv, CopiesTellTruth, ProvenReleases, Proven
  <1>5. ProjectExists
    BY <1>2 DEF Inv, TruthInv, DeletedIsEmpty, NoRow
  <1>6. ActiveOps' = ActiveOps \ {o}
    BY <1>2 DEF ActiveOps, Active, Inv, TypeInv, OperationsTyped
  <1> QED
    BY <1>3, <1>4, <1>5, <1>6, ProofsStay
    DEF Truth!Next, Truth!GoLive, ProjectExists

LEMMA DeleteRefines ==
  ASSUME Inv, NEW s \in Session, DeleteProject(s)
  PROVE  [Truth!Next]_(Truth!truthVars)
  <1>1. PICK o \in Op : o = on[s]
    BY SessionFacts DEF DeleteProject, Inv
  <1>2. /\ at[s] = "deleting_project"
        /\ row[o].status # "none"
        /\ row' = [p \in Op |-> NoRow]
        /\ deletedBy' = o
        /\ route' = NoOp
        /\ UNCHANGED <<artifact, request>>
    BY <1>1 DEF DeleteProject, EraseLedger, githubVars
  <1>3. ProjectExists /\ ~ProjectExists'
    BY <1>2, OpFacts DEF Inv, TruthInv, DeletedIsEmpty, NoRow, ProjectExists
  <1>4. o \in ProvenDestroys
    BY <1>1, <1>2 DEF Inv, TruthInv, CopiesTellTruth, ProvenDestroys, Proven
  <1>5. ActiveOps' = {}
    BY <1>2 DEF ActiveOps, Active, NoRow
  <1>6. ProjectExists \in BOOLEAN /\ ProjectExists' \in BOOLEAN
    BY DEF ProjectExists
  <1> QED
    BY <1>2, <1>3, <1>4, <1>5, <1>6, ProofsStay DEF Truth!Next, Truth!Delete

LEMMA WorkflowRefines ==
  ASSUME Inv, NEW o \in Op, WorkflowStep(o)
  PROVE  [Truth!Next]_(Truth!truthVars)
  <1>1. UNCHANGED <<row, request, route, deletedBy>>
    BY DEF WorkflowStep, operationVars, ledgerVars
  <1>2. ActiveOps' = ActiveOps /\ ProjectExists' = ProjectExists
    BY <1>1 DEF ActiveOps, ProjectExists
  <1>3. CASE artifact' = artifact
    BY <1>1, <1>2, <1>3, ProofsStay DEF Truth!truthVars
  <1>4. CASE artifact' # artifact
    <2>1. PICK verdict \in ArtifactState : /\ artifact[o] = "absent"
                                           /\ artifact' = [artifact EXCEPT ![o] = verdict]
      BY <1>4 DEF WorkflowStep, WorkflowFails, WorkflowSucceeds, PublishArtifact
    <2>2. artifact \in [Op -> ArtifactState]
      BY DEF Inv, TypeInv, GithubTypeOK
    <2>3. CASE verdict = "valid"
      <3>1. /\ o \notin ProvenReleases \cup ProvenDestroys
            /\ \/ ProvenReleases' = ProvenReleases \cup {o} /\ ProvenDestroys' = ProvenDestroys
               \/ ProvenDestroys' = ProvenDestroys \cup {o} /\ ProvenReleases' = ProvenReleases
        BY <1>1, <2>1, <2>2, <2>3 DEF ProvenReleases, ProvenDestroys, Proven
      <3> QED
        BY <1>1, <1>2, <3>1 DEF Truth!Next, Truth!Prove
    <2>4. CASE verdict # "valid"
      <3>1. ProvenReleases' = ProvenReleases /\ ProvenDestroys' = ProvenDestroys
        BY <1>1, <2>1, <2>2, <2>4 DEF ProvenReleases, ProvenDestroys, Proven
      <3> QED
        BY <1>1, <1>2, <3>1 DEF Truth!truthVars
    <2> QED
      BY <2>3, <2>4
  <1> QED
    BY <1>3, <1>4

(* Every step that is none of the above only moves what the truth does     *)
(* not see, or saves a row.                                                *)
LEMMA OtherSteps ==
  ASSUME Inv, [Next]_vars
  PROVE  \/ /\ UNCHANGED <<artifact, request, route, deletedBy>>
            /\ row' = row \/ \E o \in Op : \E r : TrySave(o, r)
         \/ \E o \in Op, action \in Action : \E target : Admit(o, action, target)
         \/ \E s \in Session : FinalizeRelease(s) \/ FinalizationUnacknowledged(s)
         \/ \E s \in Session : DeleteProject(s)
         \/ \E o \in Op : WorkflowStep(o)
  <1> SUFFICES ASSUME ~ \E o \in Op, action \in Action : \E target : Admit(o, action, target),
                      ~ \E s \in Session : FinalizeRelease(s) \/ FinalizationUnacknowledged(s),
                      ~ \E s \in Session : DeleteProject(s),
                      ~ \E o \in Op : WorkflowStep(o)
               PROVE  /\ UNCHANGED <<artifact, request, route, deletedBy>>
                      /\ row' = row \/ \E o \in Op : \E r : TrySave(o, r)
    OBVIOUS
  <1>1. row' = row \/ \E o \in Op : \E r : TrySave(o, r)
    BY RowSteps DEF Inv
  <1>2. ASSUME NEW s \in Session, NEW o \in Op, AdmitRetry(s, o) \/ AdmitRollback(s, o)
        PROVE  FALSE
    <2>1. request[on[s]].action \in Action
      BY <1>2, SessionFacts
      DEF AdmitRetry, AdmitRollback, Inv, TypeInv, OperationsTyped, Requested,
          Request
    <2> QED
      BY <1>2, <2>1 DEF AdmitRetry, AdmitRollback, Action
  <1>3. ASSUME NEW o \in Op, AdmitDeploy(o) \/ AdmitDestroy(o)
        PROVE  FALSE
    BY <1>3 DEF AdmitDeploy, AdmitDestroy, Action
  <1>4. UNCHANGED <<artifact, request, route, deletedBy>>
    BY <1>2, <1>3, ZenonT(60)
    DEF Next, vars, githubVars, ledgerVars, operationVars, OnlySession,
        NothingShared, Dispatch, Reconcile, Finalize, Retry, Rollback, Fault,
        Load, LoadBackfill, LoadRetry, LoadRollback, Prepare, SaveIntent,
        PostAccepted, PostRejected, PostLost, PersistAccepted, PreserveAmbiguous,
        Compensate, RecordDispatchFailure, DispatcherCrash, NothingToPoll,
        RecoverIdentity, ObserveProgress, ObserveFailure, ObserveInvalidEvidence,
        CountMissingEvidence, EvidenceExpires, RejectEvidence, ObserveEvidence,
        SaveFailure, FinalSave, PollFails, SessionCrash, FinalizationFails,
        FinalizeDestroy, RemoveExternal, CleanupFails, RetryDeletion,
        RetryFinalization, RetryRefused, RollbackRefused
  <1> QED
    BY <1>1, <1>4

LEMMA StepRefines == Inv /\ [Next]_vars => [Truth!Next]_(Truth!truthVars)
  <1> SUFFICES ASSUME Inv, [Next]_vars PROVE [Truth!Next]_(Truth!truthVars)
    OBVIOUS
  <1>1. CASE /\ UNCHANGED <<artifact, request, route, deletedBy>>
             /\ row' = row
    BY <1>1, ProofsStay DEF Truth!truthVars, ActiveOps, ProjectExists
  <1>2. CASE /\ UNCHANGED <<artifact, request, route, deletedBy>>
             /\ \E o \in Op : \E r : TrySave(o, r)
    BY <1>2, SaveRefines
  <1> QED
    BY <1>1, <1>2, OtherSteps, AdmitRefines, ReleaseRefines, DeleteRefines,
       WorkflowRefines

LEMMA InitRefines == Init => Truth!Init
  BY DEF Init, Truth!Init, LedgerInit, GithubInit, ActiveOps, Active, NoRow,
         ProvenReleases, ProvenDestroys, Proven, ProjectExists

(* The deployment lifecycle, with every race and fault of the model,       *)
(* implements the abstract truth.                                          *)
THEOREM Refinement == Spec => ImplementsTruth
  BY InvHolds, StepRefines, InitRefines, PTL DEF Spec, ImplementsTruth, Truth!Spec


-----------------------------------------------------------------------------
(***************************************************************************)
(* Layer 6: one operation under way, in the database, in a dispatch and at *)
(* GitHub.  A row that may be written over never loses its operation while *)
(* the project exists, and it is not finished before the run is.           *)
(***************************************************************************)
CopiesHeld ==
    \A s \in Session : at[s] \notin {"idle", "rolling_back"} => copy[s].status # "none"

UnderWayInv ==
    /\ CopiesHeld
    /\ ProjectExists => \A o \in Op : UnderWay(o) => row[o].status \in Active
    /\ OneUnderWay

LEMMA MovedCopyHeld ==
  ASSUME TypeInv, CopiesHeld, NEW s \in Session, NEW pc, NEW o, NEW r, MoveTo(s, pc, o, r),
         pc \notin {"idle", "rolling_back"} => r.status # "none"
  PROVE  CopiesHeld'
  BY DEF CopiesHeld, MoveTo, TypeInv, SessionsTyped

LEMMA ReturnedCopiesHeld ==
  ASSUME TypeInv, CopiesHeld, NEW s \in Session, Return(s)
  PROVE  CopiesHeld'
  BY DEF CopiesHeld, Return, MoveTo, TypeInv, SessionsTyped

LEMMA HeldUnchanged ==
  ASSUME CopiesHeld, UNCHANGED sessionVars
  PROVE  CopiesHeld'
  BY DEF CopiesHeld, sessionVars

(* The copy with which a call moves on is the copy it had, a changed form  *)
(* of it, or the row that was found.                                       *)
LEMMA CopyUpdates ==
  ASSUME NEW r \in Row
  PROVE  /\ \A code : Failed(r, code).status = "failed"
         /\ Completed(r).status = "completed"
         /\ [r EXCEPT !.status = "running", !.known = TRUE].status = "running"
         /\ [r EXCEPT !.pending = IF @ < PendingLimit THEN @ + 1 ELSE @].status = r.status
  BY DEF Failed, Completed, Row

LEMMA HeldNext ==
  ASSUME TypeInv, CopiesHeld, [Next]_vars
  PROVE  CopiesHeld'
  <1>1. ASSUME NEW s \in Session, NEW pc, NEW r, WithCopy(s, pc, r), r.status # "none"
        PROVE  CopiesHeld'
    BY <1>1, MovedCopyHeld DEF WithCopy
  <1>2. ASSUME NEW s \in Session, NEW pc, Continue(s, pc),
               at[s] \notin {"idle", "rolling_back"}
        PROVE  CopiesHeld'
    BY <1>1, <1>2, SessionFacts DEF CopiesHeld
  <1>3. ASSUME NEW s \in Session, NEW o \in Op,
               Load(s, o) \/ LoadBackfill(s, o) \/ LoadRetry(s, o) \/ LoadRollback(s, o)
        PROVE  CopiesHeld'
    <2>1. PICK pc, r : /\ MoveTo(s, pc, o, r)
                       /\ pc = "rolling_back" \/ r.status # "none"
      BY <1>3
      DEF Load, LoadBackfill, LoadRetry, LoadRollback, Active, Terminal, FailedOps
    <2> QED
      BY <2>1, MovedCopyHeld
  <1>4. ASSUME NEW s \in Session, Reconcile(s) PROVE CopiesHeld'
    <2>1. copy[s] \in Row
      BY SessionFacts
    <2>2. CASE RecoverIdentity(s)
      BY <1>1, <2>1, <2>2, ReturnedCopiesHeld, CopyUpdates DEF RecoverIdentity
    <2>3. CASE ObserveProgress(s) \/ ObserveEvidence(s) \/ SaveFailure(s)
      BY <1>2, <2>3, ReturnedCopiesHeld DEF ObserveProgress, ObserveEvidence,
                                            SaveFailure
    <2>4. CASE ObserveFailure(s) \/ ObserveInvalidEvidence(s) \/ EvidenceExpires(s)
      BY <1>1, <2>1, <2>4, CopyUpdates
      DEF ObserveFailure, ObserveInvalidEvidence, EvidenceExpires, RejectEvidence
    <2>5. CASE CountMissingEvidence(s)
      <3>1. copy[s].status # "none"
        BY <2>5 DEF CountMissingEvidence, EvidenceMissing, CopiesHeld
      <3>2. PICK r : r = [copy[s] EXCEPT !.pending = IF @ < PendingLimit THEN @ + 1 ELSE @]
        OBVIOUS
      <3>3. r.status # "none"
        BY <2>1, <3>1, <3>2 DEF Row
      <3> QED
        BY <1>1, <2>5, <3>2, <3>3 DEF CountMissingEvidence
    <2> QED
      BY <1>4, <2>2, <2>3, <2>4, <2>5, ReturnedCopiesHeld
      DEF Reconcile, NothingToPoll, FinalSave
  <1>5. ASSUME NEW s \in Session, Finalize(s) PROVE CopiesHeld'
    <2>1. copy[s] \in Row
      BY SessionFacts
    <2>2. CASE FinalizeRelease(s) \/ FinalizationUnacknowledged(s)
      <3>1. row[on[s]] \in Row
        BY <2>2, CompletedFacts DEF TypeInv, OperationsTyped
      <3> QED
        BY <1>1, <2>2, <3>1, ReturnedCopiesHeld, CopyUpdates
        DEF FinalizeRelease, FinalizationUnacknowledged
    <2>3. CASE FinalizationFails(s) \/ FinalizeDestroy(s) \/ CleanupFails(s)
      BY <1>1, <2>1, <2>3, CopyUpdates DEF FinalizationFails, FinalizeDestroy,
                                           CleanupFails
    <2>4. CASE RemoveExternal(s)
      BY <1>2, <2>4 DEF RemoveExternal
    <2>5. CASE DeleteProject(s)
      BY <2>5, ReturnedCopiesHeld DEF DeleteProject
    <2> QED
      BY <1>5, <2>2, <2>3, <2>4, <2>5 DEF Finalize
  <1>6. ASSUME NEW s \in Session, Retry(s) \/ Rollback(s) PROVE CopiesHeld'
    <2>1. copy[s] \in Row
      BY SessionFacts
    <2> QED
      BY <1>1, <1>2, <1>6, <2>1, ReturnedCopiesHeld, CopyUpdates
      DEF Retry, Rollback, RetryDeletion, RetryFinalization, RetryRefused,
          RollbackRefused, AdmitRetry, AdmitRollback
  <1>7. CASE UNCHANGED sessionVars
    BY <1>7, HeldUnchanged
  <1> QED
    BY <1>3, <1>4, <1>5, <1>6, <1>7, ReturnedCopiesHeld
    DEF Next, Fault, vars, AdmitDeploy, AdmitDestroy, Dispatch, DispatcherCrash,
        WorkflowStep, PollFails, SessionCrash, Prepare, SaveIntent, PostAccepted,
        PostRejected, PostLost, PersistAccepted, PreserveAmbiguous, Compensate,
        RecordDispatchFailure

(* Only deletion takes the row of an operation away.                       *)
LEMMA RowsRemain ==
  ASSUME TypeInv, TruthInv, CopiesHeld, [Next]_vars, ProjectExists', NEW o \in Op,
         row[o].status # "none"
  PROVE  row'[o].status # "none"
  <1>1. ASSUME NEW p \in Op, NEW r, TrySave(p, r), r.status # "none"
        PROVE  row'[o].status # "none"
    BY <1>1 DEF TrySave, TypeInv, OperationsTyped
  <1>2. ASSUME NEW p \in Op, Dispatch(p) \/ DispatcherCrash(p)
        PROVE  row'[o].status # "none"
    <2>1. row[p] \in Row
      BY DEF TypeInv, OperationsTyped
    <2>2. CASE row' = row
      BY <2>2
    <2>3. CASE SaveIntent(p)
      <3>1. [row[p] EXCEPT !.status = "dispatching"].status # "none"
        BY <2>1 DEF Row
      <3> QED
        BY <1>1, <2>3, <3>1 DEF SaveIntent, Save, TrySave
    <2>4. CASE PersistAccepted(p)
      <3>1. [DispatcherCopy(p, "running") EXCEPT !.known = TRUE].status # "none"
        BY <2>1, DispatcherCopyFacts DEF Status, Row
      <3> QED
        BY <1>1, <2>4, <3>1 DEF PersistAccepted
    <2>5. CASE PreserveAmbiguous(p)
      BY <1>1, <2>1, <2>5, DispatcherCopyFacts DEF PreserveAmbiguous, Status
    <2>6. CASE RecordDispatchFailure(p)
      <3>1. [DispatcherCopy(p, "failed") EXCEPT !.code = "dispatch"].status # "none"
        BY <2>1, DispatcherCopyFacts DEF Status, Row
      <3> QED
        BY <1>1, <2>6, <3>1 DEF RecordDispatchFailure
    <2> QED
      BY <1>2, <2>2, <2>3, <2>4, <2>5, <2>6
      DEF Dispatch, DispatcherCrash, Prepare, PostAccepted, PostRejected, PostLost,
          Compensate
  <1>3. ASSUME NEW s \in Session, Reconcile(s) \/ Finalize(s)
        PROVE  row'[o].status # "none"
    <2>1. copy[s] \in Row /\ (at[s] # "idle" => on[s] \in Op)
      BY SessionFacts
    <2>2. CASE row' = row
      BY <2>2
    <2>3. CASE RecoverIdentity(s)
      BY <1>1, <2>1, <2>3, CopyUpdates DEF RecoverIdentity
    <2>4. CASE SaveFailure(s) \/ FinalSave(s)
      BY <1>1, <2>1, <2>4 DEF SaveFailure, FinalSave, CopiesHeld
    <2>5. CASE FinalizeRelease(s) \/ FinalizationUnacknowledged(s)
      BY <2>5, CompletedFacts DEF TypeInv, OperationsTyped
    <2>6. CASE FinalizeDestroy(s)
      BY <1>1, <2>1, <2>6, CopyUpdates DEF FinalizeDestroy, Save, TrySave
    <2>7. CASE DeleteProject(s)
      BY <2>1, <2>7, OpFacts DEF DeleteProject, ProjectExists
    <2> QED
      BY <1>3, <2>2, <2>3, <2>4, <2>5, <2>6, <2>7
      DEF Reconcile, Finalize, OnlySession, NothingShared, operationVars,
          NothingToPoll, ObserveProgress, ObserveFailure, ObserveInvalidEvidence,
          CountMissingEvidence, EvidenceExpires, RejectEvidence, ObserveEvidence,
          FinalizationFails, RemoveExternal, CleanupFails
  <1>4. ASSUME NEW p \in Op, NEW action, NEW target, Admit(p, action, target)
        PROVE  row'[o].status # "none"
    BY <1>4 DEF Admit, NoRow, TypeInv, OperationsTyped
  <1> QED
    BY <1>2, <1>3, <1>4
    DEF Next, Fault, vars, operationVars, OnlySession, NothingShared,
        WorkflowStep, AdmitDeploy, AdmitDestroy, Load, LoadBackfill, LoadRetry,
        LoadRollback, Retry, Rollback, RetryDeletion, RetryFinalization,
        RetryRefused, RollbackRefused, AdmitRetry, AdmitRollback, PollFails,
        SessionCrash
(* An operation whose dispatch or run is still going on is neither         *)
(* completed nor failed: the rows tell the truth.                          *)
UnderWayIsUnfinished ==
    \A o \in Op : UnderWay(o) /\ row[o].status # "none" => row[o].status \in Active

LEMMA TruthIsUnfinished == TypeInv /\ TruthInv => UnderWayIsUnfinished
  <1> SUFFICES ASSUME TypeInv, TruthInv, NEW o \in Op, UnderWay(o), row[o].status # "none"
               PROVE  row[o].status \in Active
    BY DEF UnderWayIsUnfinished
  <1>1. row[o] \in Row /\ run[o] \in RunState
    BY DEF TypeInv, OperationsTyped, GithubTypeOK
  <1>2. Truthful(o, row[o])
    BY DEF TruthInv, RowsTellTruth
  <1>3. /\ dispatcher[o] \in Unposted => run[o] = "none"
        /\ artifact[o] = "valid" => run[o] = "success"
    BY DEF TruthInv, DispatchIsOrdered, EvidenceNeedsRun
  <1>4. row[o].status # "completed"
    BY <1>2, <1>3 DEF Truthful, ClaimsEvidence, UnderWay, Unposted, Active
  <1>5. row[o].status # "failed"
    BY <1>1, <1>2, <1>3 DEF Truthful, ClaimsEvidence, UnderWay, Unposted, Active,
                            Row, Code
  <1> QED
    BY <1>1, <1>4, <1>5 DEF Row, Status, Active

LEMMA TruthIsUnfinishedNext == TypeInv' /\ TruthInv' => UnderWayIsUnfinished'
  BY TruthIsUnfinished, PTL

(* Nothing gets under way but by its admission, or by a stale save that    *)
(* makes its row active.                                                   *)
LEMMA UnderWaySteps ==
  ASSUME TypeInv, [Next]_vars, NEW o \in Op, UnderWay(o)'
  PROVE  UnderWay(o) \/ row'[o].status \in Active
  <1> DEFINE Sending == {"preparing", "ready", "intent", "rejected", "compensated"}
  <1>1. CASE dispatcher'[o] \in Sending /\ dispatcher[o] \notin Sending
    <2>1. ASSUME NEW p \in Op, Dispatch(p) \/ DispatcherCrash(p)
          PROVE  FALSE
      BY <1>1, <2>1
      DEF TypeInv, OperationsTyped, Dispatch, DispatcherCrash, Prepare,
          SaveIntent, PostAccepted, PostRejected, PostLost, PersistAccepted,
          PreserveAmbiguous, Compensate, RecordDispatchFailure
    <2>2. PICK p \in Op : /\ dispatcher' = [dispatcher EXCEPT ![p] = "preparing"]
                          /\ row' = [row EXCEPT ![p] = [NoRow EXCEPT !.status = "preparing"]]
      BY <1>1, <2>1, DispatcherSteps
    <2>3. p = o
      BY <1>1, <2>2 DEF TypeInv, OperationsTyped
    <2> QED
      BY <2>2, <2>3 DEF TypeInv, OperationsTyped, NoRow, Active
  <1>2. CASE run'[o] = "progressing" /\ run[o] # "progressing"
    <2>1. PostAccepted(o)
      BY <1>2, GithubSteps
      DEF PostAccepted, WorkflowStep, WorkflowFails, WorkflowSucceeds,
          PublishArtifact, TypeInv, GithubTypeOK
    <2> QED
      BY <2>1 DEF PostAccepted, UnderWay
  <1> QED
    BY <1>1, <1>2 DEF UnderWay

LEMMA UnderWayNext ==
  ASSUME Inv, UnderWayInv, [Next]_vars
  PROVE  UnderWayInv'
  <1>1. TypeInv' /\ TruthInv' /\ SingleActive'
    BY TypeNext, TruthNext, SingleNext DEF Inv
  <1>2. CopiesHeld'
    BY HeldNext DEF Inv, UnderWayInv
  <1>3. CASE ProjectExists'
    <2>1. ProjectExists
      BY <1>3, DeletionIsFinal DEF Inv
    <2>2. ASSUME NEW o \in Op, UnderWay(o)'
          PROVE  row'[o].status \in Active
      <3>1. CASE UnderWay(o)
        <4>1. row[o].status # "none"
          BY <2>1, <3>1 DEF UnderWayInv, Active
        <4>2. row'[o].status # "none"
          BY <1>3, <4>1, RowsRemain DEF Inv, UnderWayInv
        <4> QED
          BY <1>1, <2>2, <4>2, TruthIsUnfinishedNext DEF UnderWayIsUnfinished
      <3> QED
        BY <2>2, <3>1, UnderWaySteps DEF Inv
    <2>3. OneUnderWay'
      BY <1>1, <2>2 DEF OneUnderWay, SingleActive, ActiveOps
    <2> QED
      BY <1>2, <2>2, <2>3 DEF UnderWayInv
  <1>4. CASE ~ProjectExists'
    <2>1. \A o \in Op : row'[o].status \notin Active
      BY <1>1, <1>4 DEF TruthInv, DeletedIsEmpty, NoRow, Active
    <2>2. \A o \in Op : UnderWay(o)' => UnderWay(o)
      BY <2>1, UnderWaySteps DEF Inv
    <2>3. OneUnderWay'
      BY <2>2 DEF UnderWayInv, OneUnderWay
    <2> QED
      BY <1>2, <1>4, <2>3 DEF UnderWayInv
  <1> QED
    BY <1>3, <1>4

LEMMA UnderWayInit == Init => UnderWayInv
  BY DEF Init, GithubInit, UnderWayInv, CopiesHeld, UnderWay, OneUnderWay, NoRow,
         Active

(* One operation at a time in the database, in a dispatch and at GitHub,   *)
(* whatever is overwritten, lost, retried or deleted.                      *)
THEOREM OneAtATime == Spec => []OneUnderWay
  <1>1. Inv /\ UnderWayInv /\ [Next]_vars => UnderWayInv'
    BY UnderWayNext
  <1>2. UnderWayInv => OneUnderWay
    BY DEF UnderWayInv
  <1> QED
    BY <1>1, <1>2, UnderWayInit, InvHolds, PTL DEF Spec

-----------------------------------------------------------------------------
(***************************************************************************)
(* Layer 7: order.  Where reconciliations do not overlap, no operation     *)
(* ends before its dispatch and nothing fails in finalization or cleanup,  *)
(* a call knows the outcome of the row it works on, and AWS runs what the  *)
(* last successful run left.                                               *)
(***************************************************************************)
LateFaults == {"finalization_error", "commit_ack_lost", "cleanup_error"}
LateCodes  == {"finalization", "cleanup"}

(* What AWS runs after a successful run of the operation.                  *)
Leaves(o) == IF request[o].action = "destroy" THEN NoOp ELSE o

(* Its dispatch is over, and no run came of it.                            *)
Refused(o) == run[o] = "none" /\ dispatcher[o] = "done"

ReconcilesAlone == \A r, t \in Reconciler : at[r] # "idle" /\ at[t] # "idle" => r = t

DispatchesFirst == \A o \in Op : row[o].status \in Terminal => dispatcher[o] \in {"none", "done"}

OrderlyOps ==
    \A o \in Op :
        /\ row[o].code \notin LateCodes
        /\ row[o].known \/ dispatcher[o] = "accepted" => run[o] # "none"
        /\ release[o] # "none" => row[o].status = "completed"
        /\ row[o].status \in Active /\ run[o] = "success" => deployed = Leaves(o)

(* What call s, at pc, knows of its operation o and its copy r.  A refused *)
(* dispatch is the one way in which a loaded operation ends under a        *)
(* reconciliation, and there is nothing to poll then.                      *)
OrderlyCall(s, pc, o, r) ==
    /\ r.code \notin LateCodes
    /\ r.known => run[o] # "none"
    /\ s \in Client => pc \in {"retrying", "rolling_back"}
    /\ pc = "loaded" => r.status \in Active /\ (row[o].status \in Active \/ Refused(o))
    /\ pc \in {"finalizing", "saving_failure"} => row[o].status \in Active
    /\ pc = "finalizing" => run[o] = "success"
    /\ pc = "saving_failure" => r.status = "failed" /\ run[o] \in {"success", "failure"}
    /\ pc = "saving" =>
          \/ r.status \in Active /\ row[o].status \in Active /\ run[o] # "none"
          \/ r.status \in Terminal /\ r.status = row[o].status
    /\ pc = "backfilling" => r.status \in Terminal /\ r.status = row[o].status
    /\ pc \in {"deleting", "deleting_project"} => row[o].status = "completed"

OrderlyCalls == \A s \in Session : at[s] # "idle" => OrderlyCall(s, at[s], on[s], copy[s])

OrderlyProject == OrderlyOps /\ OrderlyCalls /\ RouteIsStable

OrderlyInv ==
    /\ ReconcilesAlone /\ DispatchesFirst
    /\ ProjectExists => OrderlyProject

(* What a step does to the outcomes.                                       *)
OutcomesStay ==
    \A o \in Op : row[o].status \in Terminal => row'[o].status \in {row[o].status, "none"}

(* A step of an orderly behaviour in a project that exists, and its result.*)
OrderlyStep ==
    /\ Inv /\ UnderWayInv /\ OrderlyProject
    /\ ReconcilesAlone /\ DispatchesFirst /\ DispatchesFirst'
    /\ [Next]_vars
    /\ ProjectExists

OrderlyResult == OrderlyProject' /\ OutcomesStay

(* A change of its row that does not surprise a call.                      *)
CallKept(s, o) ==
    \/ s \in Client
    \/ row'[o].status = row[o].status
    \/ /\ row[o].status \in Active
       /\ \/ row'[o].status \in Active
          \/ run[o] = "none" /\ run'[o] = "none" /\ dispatcher'[o] = "done"

LEMMA RunsStay ==
  ASSUME Inv, [Next]_vars, NEW o \in Op
  PROVE  /\ run[o] # "none" => run'[o] # "none"
         /\ run[o] \in {"success", "failure"} => run'[o] = run[o]
         /\ Refused(o) => Refused(o)'
  <1>1. run[o] # "none" => run'[o] # "none"
    BY GithubSteps
    DEF Inv, TypeInv, GithubTypeOK, PostAccepted, WorkflowStep, WorkflowFails,
        WorkflowSucceeds, PublishArtifact
  <1> QED
    BY <1>1, Monotone DEF Inv, Refused

LEMMA KeptCall ==
  ASSUME Inv, OrderlyCalls, [Next]_vars, NEW t \in Session, at[t] # "idle",
         at'[t] = at[t], on'[t] = on[t], copy'[t] = copy[t], CallKept(t, on[t])
  PROVE  OrderlyCall(t, at[t], on[t], copy[t])'
  <1>1. PICK o \in Op : o = on[t]
    BY SessionFacts DEF Inv
  <1>2. PICK r, pc : r = copy[t] /\ pc = at[t]
    OBVIOUS
  <1>3. OrderlyCall(t, pc, o, r)
    BY <1>1, <1>2 DEF OrderlyCalls
  <1>4. /\ run[o] # "none" => run'[o] # "none"
        /\ run[o] \in {"success", "failure"} => run'[o] = run[o]
        /\ Refused(o) => Refused(o)'
    BY RunsStay
  <1>5. /\ r.code \notin LateCodes
        /\ r.known => run'[o] # "none"
        /\ t \in Client => pc \in {"retrying", "rolling_back"}
        /\ pc = "loaded" => r.status \in Active /\ (row'[o].status \in Active \/ Refused(o)')
        /\ pc \in {"finalizing", "saving_failure"} => row'[o].status \in Active
        /\ pc = "finalizing" => run'[o] = "success"
        /\ pc = "saving_failure" => r.status = "failed" /\ run'[o] \in {"success", "failure"}
    BY <1>1, <1>3, <1>4 DEF OrderlyCall, CallKept, Refused
  <1>6. /\ pc = "saving" =>
             \/ r.status \in Active /\ row'[o].status \in Active /\ run'[o] # "none"
             \/ r.status \in Terminal /\ r.status = row'[o].status
        /\ pc = "backfilling" => r.status \in Terminal /\ r.status = row'[o].status
        /\ pc \in {"deleting", "deleting_project"} => row'[o].status = "completed"
    BY <1>1, <1>3, <1>4 DEF OrderlyCall, CallKept, Active, Terminal
  <1> QED
    BY <1>1, <1>2, <1>5, <1>6 DEF OrderlyCall

(* One call moves and knows what it should at its new place; the others    *)
(* are not surprised.                                                      *)
LEMMA MovedCall ==
  ASSUME OrderlyStep, NEW s \in Session, NEW pc, NEW o, NEW r, MoveTo(s, pc, o, r),
         pc # "idle" => OrderlyCall(s, pc, o, r)',
         \A t \in Session \ {s} : at[t] # "idle" => CallKept(t, on[t])
  PROVE  OrderlyCalls'
  <1> SUFFICES ASSUME NEW t \in Session, at'[t] # "idle"
               PROVE  OrderlyCall(t, at[t], on[t], copy[t])'
    BY DEF OrderlyCalls
  <1>1. CASE t = s
    <2>1. at'[t] = pc /\ on'[t] = o /\ copy'[t] = r
      BY <1>1 DEF MoveTo, OrderlyStep, Inv, TypeInv, SessionsTyped
    <2> QED
      BY <1>1, <2>1 DEF OrderlyCall
  <1>2. CASE t # s
    <2>1. at'[t] = at[t] /\ on'[t] = on[t] /\ copy'[t] = copy[t]
      BY <1>2 DEF MoveTo, OrderlyStep, Inv, TypeInv, SessionsTyped
    <2> QED
      BY <1>2, <2>1, KeptCall DEF OrderlyStep, OrderlyProject
  <1> QED
    BY <1>1, <1>2

LEMMA ReturnedCall ==
  ASSUME OrderlyStep, NEW s \in Session, Return(s),
         \A t \in Session \ {s} : at[t] # "idle" => CallKept(t, on[t])
  PROVE  OrderlyCalls'
  <1>1. MoveTo(s, "idle", NoOp, NoRow)
    BY DEF Return
  <1> QED
    BY <1>1, MovedCall

LEMMA UnmovedCalls ==
  ASSUME OrderlyStep, UNCHANGED sessionVars,
         \A t \in Session : at[t] # "idle" => CallKept(t, on[t])
  PROVE  OrderlyCalls'
  BY KeptCall DEF OrderlyCalls, OrderlyStep, OrderlyProject, sessionVars

(* A run that goes on belongs to the active operation, and so does what    *)
(* AWS runs when it ends.                                                  *)
LEMMA OrderlyWorkflow ==
  ASSUME OrderlyStep, NEW o \in Op, WorkflowStep(o)
  PROVE  OrderlyResult
  <1>1. UNCHANGED <<ledgerVars, operationVars, sessionVars, deletedBy>>
    BY DEF WorkflowStep
  <1>2. /\ \A p \in Op \ {o} : run'[p] = run[p]
        /\ run[o] # "none" => run'[o] # "none"
        /\ run'[o] # run[o] => run[o] = "progressing"
        /\ run'[o] # run[o] /\ run'[o] = "success" => deployed' = Leaves(o)
        /\ deployed' # deployed => run[o] = "progressing" /\ deployed' = Leaves(o)
    BY DEF WorkflowStep, WorkflowFails, WorkflowSucceeds, PublishArtifact, Leaves,
           OrderlyStep, Inv, TypeInv, GithubTypeOK
  <1>3. run[o] = "progressing" => row[o].status \in Active
    BY DEF OrderlyStep, UnderWayInv, UnderWay
  <1>4. \A p \in Op : row[p].status \in Active /\ row[o].status \in Active => p = o
    BY DEF OrderlyStep, Inv, SingleActive, ActiveOps
  <1>5. OrderlyOps'
    <2> SUFFICES ASSUME NEW p \in Op
                 PROVE  /\ row[p].known \/ dispatcher[p] = "accepted" => run'[p] # "none"
                        /\ row[p].status \in Active /\ run'[p] = "success" =>
                              deployed' = Leaves(p)
      BY <1>1
      DEF OrderlyStep, OrderlyProject, OrderlyOps, Leaves, ledgerVars, operationVars
    <2>1. CASE p = o
      BY <1>2, <2>1 DEF OrderlyStep, OrderlyProject, OrderlyOps
    <2>2. CASE p # o
      BY <1>2, <1>3, <1>4, <2>2 DEF OrderlyStep, OrderlyProject, OrderlyOps
    <2> QED
      BY <2>1, <2>2
  <1>6. OrderlyCalls'
    BY <1>1, UnmovedCalls DEF CallKept, operationVars
  <1> QED
    BY <1>1, <1>5, <1>6
    DEF OrderlyResult, OrderlyStep, OrderlyProject, RouteIsStable, OutcomesStay,
        ledgerVars, operationVars

(* What a dispatch does to its row: while it lasts the row is active, and  *)
(* it stays so or fails without ever having had a run.                     *)
LEMMA DispatchedRow ==
  ASSUME Inv, NEW o \in Op, Dispatch(o) \/ DispatcherCrash(o)
  PROVE  /\ dispatcher[o] \notin {"none", "done"}
         /\ UNCHANGED <<ledgerVars, deployed, request, sessionVars>>
         /\ \A p \in Op \ {o} :
               row'[p] = row[p] /\ dispatcher'[p] = dispatcher[p] /\ run'[p] = run[p]
         /\ run'[o] # run[o] => run'[o] = "progressing" /\ row' = row
         /\ dispatcher'[o] = "accepted" => dispatcher[o] = "accepted" \/ run'[o] # "none"
         /\ \/ row' = row
            \/ /\ row'[o].code \in {row[o].code, "dispatch"}
               /\ row'[o].known => row[o].known \/ dispatcher[o] = "accepted"
               /\ row'[o].status \in Active \/ (run[o] = "none" /\ Refused(o)')
  <1>1. /\ row[o] \in Row /\ row \in [Op -> Row] /\ dispatcher \in [Op -> DispatcherState]
        /\ run \in [Op -> RunState]
        /\ dispatcher[o] = "compensated" => run[o] = "none"
    BY DEF Inv, TypeInv, OperationsTyped, GithubTypeOK, TruthInv,
           DispatchIsOrdered, Unposted
  <1>2. /\ dispatcher[o] \notin {"none", "done"}
        /\ UNCHANGED <<ledgerVars, deployed, request, sessionVars>>
        /\ \A p \in Op \ {o} :
              row'[p] = row[p] /\ dispatcher'[p] = dispatcher[p] /\ run'[p] = run[p]
        /\ run'[o] # run[o] => run'[o] = "progressing" /\ row' = row
        /\ dispatcher'[o] = "accepted" => dispatcher[o] = "accepted" \/ run'[o] # "none"
    BY <1>1
    DEF Dispatch, Prepare, SaveIntent, PostAccepted, PostRejected, PostLost,
        PersistAccepted, PreserveAmbiguous, Compensate, RecordDispatchFailure,
        DispatcherCrash, githubVars, Save, TrySave
  <1>3. ASSUME row' # row
        PROVE  /\ row'[o].code \in {row[o].code, "dispatch"}
               /\ row'[o].known => row[o].known \/ dispatcher[o] = "accepted"
               /\ row'[o].status \in Active \/ (run[o] = "none" /\ Refused(o)')
    <2>1. CASE SaveIntent(o)
      <3>1. PICK r : r = [row[o] EXCEPT !.status = "dispatching"]
        OBVIOUS
      <3>2. r.status = "dispatching" /\ r.code = row[o].code /\ (r.known => row[o].known)
        BY <1>1, <3>1 DEF Row
      <3>3. row'[o] = r
        BY <1>1, <2>1, <3>1 DEF SaveIntent, Save
      <3>4. row'[o].status \in Active
        BY <3>2, <3>3 DEF Active
      <3>5. row'[o].code = row[o].code /\ (row'[o].known => row[o].known)
        BY <3>2, <3>3
      <3> QED
        BY <3>4, <3>5
    <2>2. CASE PersistAccepted(o)
      <3>1. PICK r : r = [DispatcherCopy(o, "running") EXCEPT !.known = TRUE]
        OBVIOUS
      <3>2. r.status = "running" /\ r.code = row[o].code
        BY <1>1, <3>1, DispatcherCopyFacts DEF Status, Row
      <3>3. row'[o] = r
        BY <1>1, <1>3, <2>2, <3>1 DEF PersistAccepted, TrySave
      <3>4. row'[o].status \in Active
        BY <3>2, <3>3 DEF Active
      <3>5. row'[o].code = row[o].code /\ dispatcher[o] = "accepted"
        BY <2>2, <3>2, <3>3 DEF PersistAccepted
      <3> QED
        BY <3>4, <3>5
    <2>3. CASE PreserveAmbiguous(o)
      <3>1. PICK r : r = DispatcherCopy(o, "dispatching")
        OBVIOUS
      <3>2. r.status = "dispatching" /\ r.code = row[o].code /\ (r.known => row[o].known)
        BY <1>1, <3>1 DEF DispatcherCopy, Row
      <3>3. row'[o] = r
        BY <1>1, <1>3, <2>3, <3>1 DEF PreserveAmbiguous, TrySave
      <3>4. row'[o].status \in Active
        BY <3>2, <3>3 DEF Active
      <3>5. row'[o].code = row[o].code /\ (row'[o].known => row[o].known)
        BY <3>2, <3>3
      <3> QED
        BY <3>4, <3>5
    <2>4. CASE RecordDispatchFailure(o)
      <3>1. PICK d : d = DispatcherCopy(o, "failed")
        OBVIOUS
      <3>2. d \in Row /\ d.known = row[o].known
        BY <1>1, <3>1, DispatcherCopyFacts DEF DispatcherCopy, Status, Row
      <3>3. PICK r : r = [d EXCEPT !.code = "dispatch"]
        OBVIOUS
      <3>4. r.code = "dispatch" /\ r.known = row[o].known
        BY <3>2, <3>3 DEF Row
      <3>5. row'[o] = r
        BY <1>1, <1>3, <2>4, <3>1, <3>3 DEF RecordDispatchFailure, TrySave
      <3>6. Refused(o)' /\ run[o] = "none"
        BY <1>1, <2>4 DEF RecordDispatchFailure, githubVars, Refused
      <3> QED
        BY <3>4, <3>5, <3>6
    <2> QED
      BY <1>3, <2>1, <2>2, <2>3, <2>4
      DEF Dispatch, Prepare, PostAccepted, PostRejected, PostLost, Compensate,
          DispatcherCrash
  <1> QED
    BY <1>2, <1>3

LEMMA OrderlyDispatch ==
  ASSUME OrderlyStep, NEW o \in Op, Dispatch(o) \/ DispatcherCrash(o)
  PROVE  OrderlyResult
  <1>1. /\ dispatcher[o] \notin {"none", "done"}
        /\ UNCHANGED <<ledgerVars, deployed, request, sessionVars>>
        /\ \A p \in Op \ {o} :
              row'[p] = row[p] /\ dispatcher'[p] = dispatcher[p] /\ run'[p] = run[p]
        /\ run'[o] # run[o] => run'[o] = "progressing" /\ row' = row
        /\ dispatcher'[o] = "accepted" => dispatcher[o] = "accepted" \/ run'[o] # "none"
        /\ \/ row' = row
           \/ /\ row'[o].code \in {row[o].code, "dispatch"}
              /\ row'[o].known => row[o].known \/ dispatcher[o] = "accepted"
              /\ row'[o].status \in Active \/ (run[o] = "none" /\ Refused(o)')
    BY DispatchedRow DEF OrderlyStep
  <1>2. row[o].status \notin Terminal
    BY <1>1 DEF OrderlyStep, DispatchesFirst
  <1>3. row' = row \/ row[o].status \in Active
    <2>1. ASSUME row' # row PROVE row[o].status # "none"
      <3>1. \E p \in Op : row'[p] # row[p]
        BY <1>1, <2>1
        DEF OrderlyStep, Inv, TypeInv, OperationsTyped, Dispatch, Prepare,
            SaveIntent, PostAccepted, PostRejected, PostLost, PersistAccepted,
            PreserveAmbiguous, Compensate, RecordDispatchFailure, DispatcherCrash,
            Save, TrySave
      <3> QED
        BY <2>1
        DEF Dispatch, Prepare, SaveIntent, PostAccepted, PostRejected, PostLost,
            PersistAccepted, PreserveAmbiguous, Compensate, RecordDispatchFailure,
            DispatcherCrash, Save, TrySave, SaveAccepted
    <2>2. row[o].status \in Status
      BY DEF OrderlyStep, Inv, TypeInv, OperationsTyped, Row
    <2> QED
      BY <1>2, <2>1, <2>2 DEF Status, Active, Terminal
  <1>4. /\ row'[o].code \notin LateCodes
        /\ row'[o].known \/ dispatcher'[o] = "accepted" => run'[o] # "none"
        /\ release[o] # "none" => row'[o].status = "completed"
        /\ row'[o].status \in Active /\ run'[o] = "success" =>
              row[o].status \in Active /\ run[o] = "success"
    <2>1. run[o] # "none" => run'[o] # "none"
      BY RunsStay DEF OrderlyStep
    <2>2. /\ row[o].code \notin LateCodes
          /\ row[o].known \/ dispatcher[o] = "accepted" => run[o] # "none"
          /\ release[o] # "none" => row[o].status = "completed"
      BY DEF OrderlyStep, OrderlyProject, OrderlyOps
    <2>3. release[o] = "none"
      BY <1>2, <2>2 DEF Terminal
    <2>4. row'[o].code \notin LateCodes
      BY <1>1, <2>2 DEF LateCodes
    <2>5. row'[o].known \/ dispatcher'[o] = "accepted" => run'[o] # "none"
      BY <1>1, <2>1, <2>2
    <2> QED
      BY <1>1, <1>3, <2>3, <2>4, <2>5 DEF Active
  <1>5. OrderlyOps'
    <2> SUFFICES ASSUME NEW p \in Op
                 PROVE  /\ row'[p].code \notin LateCodes
                        /\ row'[p].known \/ dispatcher'[p] = "accepted" => run'[p] # "none"
                        /\ release[p] # "none" => row'[p].status = "completed"
                        /\ row'[p].status \in Active /\ run'[p] = "success" =>
                              deployed = Leaves(p)
      BY <1>1 DEF OrderlyOps, Leaves, ledgerVars
    <2>1. CASE p = o
      BY <1>4, <2>1 DEF OrderlyStep, OrderlyProject, OrderlyOps
    <2>2. CASE p # o
      BY <1>1, <2>2 DEF OrderlyStep, OrderlyProject, OrderlyOps
    <2> QED
      BY <2>1, <2>2
  <1>6. OrderlyCalls'
    <2>1. ASSUME NEW t \in Session, at[t] # "idle" PROVE CallKept(t, on[t])
      <3>1. on[t] \in Op
        BY <2>1, SessionFacts DEF OrderlyStep, Inv
      <3>2. CASE on[t] = o
        BY <1>1, <1>3, <3>2 DEF CallKept, Refused
      <3>3. CASE on[t] # o
        BY <1>1, <3>1, <3>3 DEF CallKept
      <3> QED
        BY <3>2, <3>3
    <2> QED
      BY <1>1, <2>1, UnmovedCalls
  <1>7. OutcomesStay
    BY <1>1, <1>2 DEF OutcomesStay
  <1> QED
    BY <1>1, <1>5, <1>6, <1>7
    DEF OrderlyResult, OrderlyStep, OrderlyProject, RouteIsStable, ledgerVars

(* A new operation starts when no other is active, with no run, and no     *)
(* call knows of it.                                                       *)
LEMMA OrderlyAdmit ==
  ASSUME OrderlyStep, NEW o \in Op, NEW action, NEW target, Admit(o, action, target),
         UNCHANGED sessionVars \/ \E s \in Session : Return(s)
  PROVE  OrderlyResult
  <1>1. /\ ~Requested(o) /\ ActiveOps = {}
        /\ row'[o] = [NoRow EXCEPT !.status = "preparing"]
        /\ dispatcher'[o] = "preparing"
        /\ \A p \in Op \ {o} : /\ row'[p] = row[p] /\ dispatcher'[p] = dispatcher[p]
                               /\ request'[p] = request[p]
        /\ UNCHANGED <<ledgerVars, run, deployed>>
    BY DEF Admit, IsNextOp, githubVars, OrderlyStep, Inv, TypeInv, OperationsTyped
  <1>2. /\ row'[o].status = "preparing" /\ row'[o].code = "none" /\ row'[o].known = FALSE
        /\ run[o] = "none" /\ release[o] = "none"
        /\ row[o].status = "none"
    BY <1>1
    DEF NoRow, OrderlyStep, Inv, TypeInv, OperationsTyped, TruthInv,
        DispatchIsOrdered, Unposted
  <1>3. ASSUME NEW t \in Session, at[t] # "idle" PROVE CallKept(t, on[t])
    <2>1. on[t] \in Op \ {o}
      BY <1>1, <1>3, SessionFacts DEF OrderlyStep, Inv
    <2> QED
      BY <1>1, <2>1 DEF CallKept
  <1>4. OrderlyCalls'
    BY <1>3, UnmovedCalls, ReturnedCall
  <1>5. OrderlyOps'
    <2> SUFFICES ASSUME NEW p \in Op
                 PROVE  /\ row'[p].code \notin LateCodes
                        /\ row'[p].known \/ dispatcher'[p] = "accepted" => run[p] # "none"
                        /\ release[p] # "none" => row'[p].status = "completed"
                        /\ row'[p].status \in Active /\ run[p] = "success" =>
                              deployed = Leaves(p)'
      BY <1>1 DEF OrderlyOps, ledgerVars
    <2>1. CASE p = o
      BY <1>1, <1>2, <2>1 DEF LateCodes
    <2>2. CASE p # o
      <3>1. row[p].status \notin Active
        BY <1>1 DEF ActiveOps
      <3> QED
        BY <1>1, <2>2, <3>1 DEF OrderlyStep, OrderlyProject, OrderlyOps
    <2> QED
      BY <2>1, <2>2
  <1>6. OutcomesStay
    BY <1>1, <1>2 DEF OutcomesStay, Terminal
  <1> QED
    BY <1>1, <1>4, <1>5, <1>6
    DEF OrderlyResult, OrderlyStep, OrderlyProject, RouteIsStable, ledgerVars

(* Where only sessions move.                                               *)
LEMMA OrderlyStands ==
  ASSUME OrderlyStep, UNCHANGED <<ledgerVars, githubVars, operationVars, deletedBy>>,
         OrderlyCalls'
  PROVE  OrderlyResult
  BY DEF OrderlyResult, OrderlyStep, OrderlyProject, OrderlyOps, Leaves,
         RouteIsStable, OutcomesStay, ledgerVars, githubVars, operationVars

LEMMA OrderlyLoad ==
  ASSUME OrderlyStep, NEW s \in Session, NEW o \in Op,
         Load(s, o) \/ LoadBackfill(s, o) \/ LoadRetry(s, o) \/ LoadRollback(s, o)
  PROVE  OrderlyResult
  <1>1. UNCHANGED <<ledgerVars, githubVars, operationVars, deletedBy>>
    BY DEF Load, LoadBackfill, LoadRetry, LoadRollback, OnlySession, NothingShared
  <1>2. UNCHANGED <<row, run, dispatcher>>
    BY <1>1 DEF operationVars, githubVars
  <1>3. PICK pc, r : /\ MoveTo(s, pc, o, r)
                     /\ pc \in {"loaded", "backfilling", "retrying", "rolling_back"}
                     /\ r = IF pc = "rolling_back" THEN NoRow ELSE row[o]
                     /\ s \in Client => pc \in {"retrying", "rolling_back"}
                     /\ pc = "loaded" => row[o].status \in Active
                     /\ pc = "backfilling" => row[o].status \in Terminal
    BY DeploymentAssumption DEF Load, LoadBackfill, LoadRetry, LoadRollback
  <1>4. r.code \notin LateCodes /\ (r.known => run[o] # "none")
    <2>1. CASE pc = "rolling_back"
      BY <1>3, <2>1 DEF NoRow, LateCodes
    <2>2. CASE pc # "rolling_back"
      BY <1>3, <2>2 DEF OrderlyStep, OrderlyProject, OrderlyOps
    <2> QED
      BY <2>1, <2>2
  <1>5. OrderlyCall(s, pc, o, r)
    BY <1>3, <1>4 DEF OrderlyCall
  <1>6. OrderlyCall(s, pc, o, r)'
    BY <1>2, <1>5 DEF OrderlyCall, Refused
  <1>7. \A t \in Session : CallKept(t, on[t])
    BY <1>2 DEF CallKept
  <1>8. OrderlyCalls'
    BY <1>3, <1>6, <1>7, MovedCall
  <1> QED
    BY <1>1, <1>8, OrderlyStands

(* What a call knows when it moves, and who could be surprised by what a   *)
(* reconciliation then does: nobody.                                       *)
LEMMA CallKnows ==
  ASSUME OrderlyStep, NEW s \in Session, at[s] # "idle"
  PROVE  /\ on[s] \in Op /\ copy[s] \in Row /\ row[on[s]] \in Row
         /\ OrderlyCall(s, at[s], on[s], copy[s])
         /\ row[on[s]].status \in Active =>
               /\ ActiveOps = {on[s]}
               /\ row[on[s]].status # "none"
               /\ release[on[s]] = "none"
         /\ s \notin Client =>
               \A t \in Session \ {s} : at[t] # "idle" => CallKept(t, on[t])
  <1>1. on[s] \in Op /\ copy[s] \in Row /\ row[on[s]] \in Row
    BY SessionFacts DEF OrderlyStep, Inv, TypeInv, OperationsTyped
  <1>2. OrderlyCall(s, at[s], on[s], copy[s])
    BY DEF OrderlyStep, OrderlyProject, OrderlyCalls
  <1>3. ASSUME row[on[s]].status \in Active
        PROVE  /\ ActiveOps = {on[s]}
               /\ row[on[s]].status # "none"
               /\ release[on[s]] = "none"
    BY <1>1, <1>3
    DEF OrderlyStep, Inv, SingleActive, ActiveOps, OrderlyProject, OrderlyOps,
        Active
  <1>4. s \notin Client => \A t \in Session \ {s} : at[t] # "idle" => CallKept(t, on[t])
    BY DEF OrderlyStep, ReconcilesAlone, Session, CallKept
  <1> QED
    BY <1>1, <1>2, <1>3, <1>4

(* Where a call observes, decides or gives up: without late faults nothing *)
(* fails after the evidence was verified, so there is nothing to repeat.   *)
LEMMA OrderlyLocal ==
  ASSUME LateFaults \cap Faults = {},
         OrderlyStep, NEW s \in Session, NothingShared,
         \/ NothingToPoll(s) \/ ObserveProgress(s) \/ ObserveFailure(s)
         \/ ObserveInvalidEvidence(s) \/ CountMissingEvidence(s) \/ EvidenceExpires(s)
         \/ ObserveEvidence(s) \/ PollFails(s) \/ SessionCrash(s)
         \/ FinalizationFails(s) \/ CleanupFails(s)
         \/ RetryDeletion(s) \/ RetryFinalization(s) \/ RetryRefused(s)
         \/ RollbackRefused(s)
  PROVE  OrderlyResult
  <1>1. UNCHANGED <<ledgerVars, githubVars, operationVars, deletedBy>>
    BY DEF OnlySession, NothingShared
  <1>2. UNCHANGED <<row, run, dispatcher>>
    BY <1>1 DEF githubVars, operationVars
  <1>3. at[s] # "idle"
    BY DEF NothingToPoll, ObserveProgress, ObserveFailure, ObserveInvalidEvidence,
           CountMissingEvidence, EvidenceExpires, RejectEvidence, EvidenceMissing,
           ObserveEvidence, PollFails, SessionCrash, FinalizationFails,
           CleanupFails, RetryDeletion, RetryFinalization, RetryRefused,
           RollbackRefused
  <1>4. PICK o \in Op, c \in Row : o = on[s] /\ c = copy[s]
    BY <1>3, CallKnows
  <1>5. OrderlyCall(s, at[s], o, c)
    BY <1>3, <1>4, CallKnows
  <1>6. ~FinalizationFails(s) /\ ~CleanupFails(s) /\ ~RetryDeletion(s) /\ ~RetryFinalization(s)
    BY <1>4, <1>5
    DEF FinalizationFails, CleanupFails, RetryDeletion, RetryFinalization,
        VerifiedDestroy, UnfinalizedRelease, OrderlyCall, LateCodes, LateFaults,
        Active
  <1>7. at[s] = "loaded" /\ c.known =>
           /\ s \notin Client /\ c.code \notin LateCodes
           /\ c.status \in Active /\ row[o].status \in Active /\ run[o] # "none"
    BY <1>5 DEF OrderlyCall, Refused
  <1>8. \/ Return(s)
        \/ \E pc, r : MoveTo(s, pc, o, r) /\ OrderlyCall(s, pc, o, r)
    <2>1. CASE ObserveProgress(s) \/ ObserveEvidence(s)
      <3>1. PICK pc \in {"saving", "finalizing"} :
                /\ MoveTo(s, pc, o, c)
                /\ pc = "finalizing" => run[o] = "success"
        BY <1>4, <2>1 DEF ObserveProgress, ObserveEvidence, Continue
      <3>2. at[s] = "loaded" /\ c.known
        BY <1>4, <2>1 DEF ObserveProgress, ObserveEvidence
      <3>3. OrderlyCall(s, pc, o, c)
        BY <1>7, <3>1, <3>2 DEF OrderlyCall
      <3> QED
        BY <3>1, <3>3
    <2>2. CASE CountMissingEvidence(s)
      <3>1. PICK r : r = [c EXCEPT !.pending = IF @ < PendingLimit THEN @ + 1 ELSE @]
        OBVIOUS
      <3>2. r.status = c.status /\ r.code = c.code
        BY <3>1 DEF Row
      <3>3. MoveTo(s, "saving", o, r) /\ at[s] = "loaded" /\ c.known
        BY <1>4, <2>2, <3>1 DEF CountMissingEvidence, EvidenceMissing, WithCopy
      <3>4. OrderlyCall(s, "saving", o, r)
        BY <1>7, <3>2, <3>3 DEF OrderlyCall
      <3> QED
        BY <3>3, <3>4
    <2>3. CASE ObserveFailure(s) \/ ObserveInvalidEvidence(s) \/ EvidenceExpires(s)
      <3>1. PICK code \in {"workflow", "contract"} :
                /\ WithCopy(s, "saving_failure", Failed(c, code))
                /\ run[o] \in {"success", "failure"}
                /\ at[s] = "loaded" /\ c.known
        BY <1>4, <2>3
        DEF ObserveFailure, ObserveInvalidEvidence, EvidenceExpires,
            RejectEvidence, EvidenceMissing
      <3>2. PICK r : r = Failed(c, code)
        OBVIOUS
      <3>3. r.status = "failed" /\ r.code = code
        BY <3>2 DEF Failed, Row
      <3>4. MoveTo(s, "saving_failure", o, r)
        BY <1>4, <3>1, <3>2 DEF WithCopy
      <3>5. OrderlyCall(s, "saving_failure", o, r)
        BY <1>7, <3>1, <3>3 DEF OrderlyCall, LateCodes
      <3> QED
        BY <3>4, <3>5
    <2> QED
      BY <1>6, <2>1, <2>2, <2>3
      DEF NothingToPoll, PollFails, SessionCrash, RetryRefused, RollbackRefused
  <1>9. \A t \in Session : CallKept(t, on[t])
    BY <1>2 DEF CallKept
  <1>10. OrderlyCalls'
    <2>1. CASE Return(s)
      BY <1>9, <2>1, ReturnedCall
    <2>2. CASE \E pc, r : MoveTo(s, pc, o, r) /\ OrderlyCall(s, pc, o, r)
      <3>1. PICK pc, r : MoveTo(s, pc, o, r) /\ OrderlyCall(s, pc, o, r)
        BY <2>2
      <3>2. OrderlyCall(s, pc, o, r)'
        BY <1>2, <3>1 DEF OrderlyCall, Refused
      <3> QED
        BY <1>9, <3>1, <3>2, MovedCall
    <2> QED
      BY <1>8, <2>1, <2>2
  <1> QED
    BY <1>1, <1>10, OrderlyStands

(* A reconciliation's save meets the row it knows: it keeps its status, or *)
(* closes the active operation for a run that ended.                       *)
LEMMA OrderlyRowSaved ==
  ASSUME OrderlyStep, NEW s \in Session, at[s] # "idle", NEW o \in Op, o = on[s],
         NEW r \in Row,
         row' = [row EXCEPT ![o] = r] \/ row' = row,
         r.code \notin LateCodes, r.known => run[o] # "none",
         \/ r.status = row[o].status
         \/ row[o].status \in Active,
         UNCHANGED <<ledgerVars, githubVars, request, dispatcher>>
  PROVE  OrderlyOps' /\ RouteIsStable' /\ OutcomesStay
  <1>1. row[o].status \in Active => release[o] = "none"
    BY CallKnows
  <1>2. UNCHANGED <<release, route, run, deployed>>
    BY DEF ledgerVars, githubVars
  <1>3. /\ \A p \in Op \ {o} : row'[p] = row[p]
        /\ row'[o] = r \/ row'[o] = row[o]
    BY DEF OrderlyStep, Inv, TypeInv, OperationsTyped
  <1>4. OrderlyOps'
    <2> SUFFICES ASSUME NEW p \in Op
                 PROVE  /\ row'[p].code \notin LateCodes
                        /\ row'[p].known \/ dispatcher[p] = "accepted" => run[p] # "none"
                        /\ release[p] # "none" => row'[p].status = "completed"
                        /\ row'[p].status \in Active /\ run[p] = "success" =>
                              deployed = Leaves(p)
      BY <1>2 DEF OrderlyOps, Leaves
    <2>1. CASE p # o \/ row'[p] = row[p]
      BY <1>3, <2>1 DEF OrderlyStep, OrderlyProject, OrderlyOps
    <2>2. CASE p = o /\ row'[p] = r
      <3>1. /\ dispatcher[p] = "accepted" => run[p] # "none"
            /\ release[p] # "none" => row[p].status = "completed"
            /\ row[p].status \in Active /\ run[p] = "success" => deployed = Leaves(p)
        BY DEF OrderlyStep, OrderlyProject, OrderlyOps
      <3>2. row'[p].known => run[p] # "none"
        BY <2>2
      <3> QED
        BY <1>1, <2>2, <3>1, <3>2
    <2> QED
      BY <1>3, <2>1, <2>2
  <1>5. OutcomesStay
    BY <1>3 DEF OutcomesStay, Active, Terminal
  <1> QED
    BY <1>2, <1>4, <1>5 DEF OrderlyStep, OrderlyProject, RouteIsStable

LEMMA OrderlySave ==
  ASSUME OrderlyStep, NEW s \in Session,
         RecoverIdentity(s) \/ SaveFailure(s) \/ FinalSave(s) \/ FinalizeDestroy(s)
  PROVE  OrderlyResult
  <1>1. /\ UNCHANGED <<ledgerVars, githubVars, request, dispatcher, secret, deletedBy>>
        /\ at[s] # "idle"
    BY DEF RecoverIdentity, SaveFailure, FinalSave, FinalizeDestroy
  <1>2. PICK o \in Op, c \in Row : o = on[s] /\ c = copy[s]
    BY <1>1, CallKnows
  <1>3. /\ OrderlyCall(s, at[s], o, c)
        /\ c.code \notin LateCodes /\ (c.known => run[o] # "none")
        /\ row[o].status \in Active => ActiveOps = {o} /\ row[o].status # "none"
    BY <1>1, <1>2, CallKnows DEF OrderlyCall
  <1>4. /\ s \notin Client
        /\ \A t \in Session \ {s} : at[t] # "idle" => CallKept(t, on[t])
    <2>1. s \notin Client
      BY <1>3
      DEF OrderlyCall, RecoverIdentity, SaveFailure, FinalSave, FinalizeDestroy
    <2> QED
      BY <1>1, <2>1, CallKnows
  <1>5. /\ row \in [Op -> Row]
        /\ UNCHANGED <<run, dispatcher, deployed>>
    BY <1>1 DEF OrderlyStep, Inv, TypeInv, OperationsTyped, githubVars
  <1>6. CASE RecoverIdentity(s)
    <2>1. PICK r \in Row : r = [c EXCEPT !.status = "running", !.known = TRUE]
      BY RowUpdates DEF Status
    <2>2. r.status = "running" /\ r.code = c.code
      BY <2>1 DEF Row
    <2>3. at[s] = "loaded" /\ run[o] # "none" /\ row[o].status \in Active
      BY <1>2, <1>3, <1>6 DEF RecoverIdentity, OrderlyCall, Refused
    <2>4. row' = [row EXCEPT ![o] = r] /\ MoveTo(s, "loaded", o, r)
      BY <1>2, <1>3, <1>6, <2>1, <2>3
      DEF RecoverIdentity, TrySave, SaveAccepted, WithCopy
    <2>5. OrderlyOps' /\ RouteIsStable' /\ OutcomesStay
      BY <1>1, <1>2, <1>3, <2>2, <2>3, <2>4, OrderlyRowSaved
    <2>6. OrderlyCall(s, "loaded", o, r)'
      <3>1. row'[o] = r
        BY <1>5, <2>4
      <3> QED
        BY <1>3, <1>4, <1>5, <2>2, <2>3, <3>1 DEF OrderlyCall, Active
    <2> QED
      BY <1>4, <2>4, <2>5, <2>6, MovedCall DEF OrderlyResult, OrderlyProject
  <1>7. CASE SaveFailure(s)
    <2>1. /\ at[s] = "saving_failure" /\ row[o].status \in Active
          /\ c.status = "failed"
      BY <1>3, <1>7 DEF SaveFailure, OrderlyCall
    <2>2. row' = [row EXCEPT ![o] = c] /\ MoveTo(s, "saving", o, c)
      BY <1>2, <1>3, <1>7, <2>1
      DEF SaveFailure, TrySave, SaveAccepted, Continue, Active
    <2>3. OrderlyOps' /\ RouteIsStable' /\ OutcomesStay
      BY <1>1, <1>2, <1>3, <2>1, <2>2, OrderlyRowSaved
    <2>4. OrderlyCall(s, "saving", o, c)'
      <3>1. row'[o] = c
        BY <1>5, <2>2
      <3> QED
        BY <1>3, <1>4, <1>5, <2>1, <3>1 DEF OrderlyCall, Terminal
    <2> QED
      BY <1>4, <2>2, <2>3, <2>4, MovedCall DEF OrderlyResult, OrderlyProject
  <1>8. CASE FinalSave(s)
    <2>1. c.status = row[o].status \/ row[o].status \in Active
      BY <1>3, <1>8 DEF FinalSave, OrderlyCall
    <2>2. row' = [row EXCEPT ![o] = c] \/ row' = row
      BY <1>2, <1>8 DEF FinalSave, TrySave
    <2>3. OrderlyOps' /\ RouteIsStable' /\ OutcomesStay
      BY <1>1, <1>2, <1>3, <2>1, <2>2, OrderlyRowSaved
    <2> QED
      BY <1>4, <1>8, <2>3, ReturnedCall DEF FinalSave, OrderlyResult, OrderlyProject
  <1>9. CASE FinalizeDestroy(s)
    <2>1. PICK r \in Row : r = Completed(c)
      BY RowUpdates
    <2>2. r.status = "completed" /\ r.code = "none" /\ (r.known => c.known)
      BY <2>1 DEF Completed, Row
    <2>3. at[s] = "finalizing" /\ row[o].status \in Active
      BY <1>2, <1>3, <1>9 DEF FinalizeDestroy, OrderlyCall
    <2>4. row' = [row EXCEPT ![o] = r] /\ MoveTo(s, "deleting", o, r)
      BY <1>2, <1>9, <2>1 DEF FinalizeDestroy, Save, WithCopy
    <2>5. r.code \notin LateCodes /\ (r.known => run[o] # "none")
      BY <1>3, <2>2 DEF LateCodes
    <2>6. OrderlyOps' /\ RouteIsStable' /\ OutcomesStay
      BY <1>1, <1>2, <2>3, <2>4, <2>5, OrderlyRowSaved
    <2>7. OrderlyCall(s, "deleting", o, r)'
      <3>1. row'[o] = r
        BY <1>5, <2>4
      <3> QED
        BY <1>4, <1>5, <2>2, <2>5, <3>1 DEF OrderlyCall
    <2> QED
      BY <1>4, <2>4, <2>6, <2>7, MovedCall DEF OrderlyResult, OrderlyProject
  <1> QED
    BY <1>6, <1>7, <1>8, <1>9

(* A release is finalized by its first and only finalization, while AWS    *)
(* runs it: it becomes the stable release and the one the route serves.    *)
LEMMA OrderlyRelease ==
  ASSUME OrderlyStep, NEW s \in Session, FinalizeRelease(s)
  PROVE  OrderlyResult /\ route' = deployed
  <1>1. PICK o \in Op : o = on[s]
    BY CallKnows DEF FinalizeRelease
  <1>2. /\ at[s] = "finalizing"
        /\ request[o].action # "destroy"
        /\ row' = [row EXCEPT ![o] = Completed(row[o])]
        /\ Promote(o)
        /\ UNCHANGED <<githubVars, request, dispatcher, secret, deletedBy>>
    BY <1>1 DEF FinalizeRelease
  <1>3. /\ OrderlyCall(s, at[s], o, copy[s])
        /\ row[o] \in Row
    BY <1>1, <1>2, CallKnows
  <1>4. /\ row[o].status \in Active /\ run[o] = "success"
        /\ release[o] = "none"
        /\ s \notin Client
        /\ \A t \in Session \ {s} : at[t] # "idle" => CallKept(t, on[t])
    BY <1>1, <1>2, <1>3, CallKnows DEF OrderlyCall
  <1>5. deployed = o
    BY <1>2, <1>4 DEF OrderlyStep, OrderlyProject, OrderlyOps, Leaves
  <1>6. PICK c \in Row : c = Completed(row[o])
    BY <1>3, RowUpdates
  <1>7. c.status = "completed" /\ c.code = "none" /\ (c.known => row[o].known)
    BY <1>3, <1>6 DEF Completed, Row
  <1>8. /\ row'[o] = c /\ \A p \in Op \ {o} : row'[p] = row[p]
        /\ UNCHANGED <<run, deployed, request, dispatcher>>
    BY <1>2, <1>6 DEF githubVars, OrderlyStep, Inv, TypeInv, OperationsTyped
  <1>9. /\ route' = o
        /\ release'[o] = "stable"
        /\ \A p \in Op \ {o} : release'[p] # "none" => release[p] # "none"
    BY <1>2, <1>4 DEF Promote, MaterializeStableRelease, Aged, InsertStable,
                      SupersedeTargets, DemoteStable, Restated
  <1>10. OrderlyOps'
    <2> SUFFICES ASSUME NEW p \in Op
                 PROVE  /\ row'[p].code \notin LateCodes
                        /\ row'[p].known \/ dispatcher[p] = "accepted" => run[p] # "none"
                        /\ release'[p] # "none" => row'[p].status = "completed"
                        /\ row'[p].status \in Active /\ run[p] = "success" =>
                              deployed = Leaves(p)
      BY <1>8 DEF OrderlyOps, Leaves
    <2>1. CASE p = o
      BY <1>4, <1>7, <1>8, <2>1 DEF LateCodes, Active
    <2>2. CASE p # o
      BY <1>8, <1>9, <2>2 DEF OrderlyStep, OrderlyProject, OrderlyOps
    <2> QED
      BY <2>1, <2>2
  <1>11. OrderlyCalls'
    <2>1. OrderlyCall(s, "saving", o, c)'
      BY <1>4, <1>7, <1>8 DEF OrderlyCall, LateCodes, Terminal
    <2>2. MoveTo(s, "saving", o, c)
      BY <1>1, <1>4, <1>6 DEF FinalizeRelease, WithCopy
    <2> QED
      BY <1>4, <2>1, <2>2, MovedCall
  <1>12. OutcomesStay
    BY <1>4, <1>8 DEF OutcomesStay, Active, Terminal
  <1> QED
    BY <1>5, <1>9, <1>10, <1>11, <1>12 DEF OrderlyResult, OrderlyProject,
                                           RouteIsStable

LEMMA OrderlyRemoval ==
  ASSUME OrderlyStep, NEW s \in Session, RemoveExternal(s)
  PROVE  OrderlyResult
  <1>1. PICK o \in Op, c \in Row : o = on[s] /\ c = copy[s]
    BY CallKnows DEF RemoveExternal
  <1>2. OrderlyCall(s, "deleting", o, c)
    BY <1>1, CallKnows DEF RemoveExternal
  <1>3. /\ UNCHANGED <<ledgerVars, operationVars, run, deployed>>
        /\ MoveTo(s, "deleting_project", o, c)
    BY <1>1 DEF RemoveExternal, Continue
  <1>4. UNCHANGED <<row, request, dispatcher>>
    BY <1>3 DEF operationVars
  <1>5. OrderlyCall(s, "deleting_project", o, c)'
    BY <1>2, <1>3, <1>4 DEF OrderlyCall
  <1>6. \A t \in Session : CallKept(t, on[t])
    BY <1>4 DEF CallKept
  <1>7. OrderlyCalls'
    BY <1>3, <1>5, <1>6, MovedCall
  <1> QED
    BY <1>3, <1>4, <1>7
    DEF OrderlyResult, OrderlyStep, OrderlyProject, OrderlyOps, Leaves,
        RouteIsStable, OutcomesStay, ledgerVars

(* The order is kept, an outcome stays, and the only step that moves the   *)
(* route to a release moves it to the one AWS runs.                        *)
LEMMA OrderlyNext ==
  ASSUME LateFaults \cap Faults = {},
         Inv, UnderWayInv, OrderlyInv, [Next]_vars, [Orderly]_vars
  PROVE  /\ OrderlyInv' /\ OutcomesStay
         /\ route' # route /\ route' # NoOp => route' = deployed
  <1>1. ReconcilesAlone' /\ DispatchesFirst'
    BY DEF OrderlyInv, Orderly, ReconcilesAlone, DispatchesFirst, vars,
           operationVars, sessionVars
  <1>2. CASE ~ProjectExists
    <2>1. ~ProjectExists'
      BY <1>2, DeletionIsFinal DEF Inv
    <2>2. \A o \in Op : row[o].status = "none"
      BY <1>2 DEF Inv, TruthInv, DeletedIsEmpty, NoRow
    <2>3. UNCHANGED ledgerVars \/ EraseLedger
      BY <2>2, ReleaseSteps, SessionFacts
      DEF Inv, FinalizeRelease, FinalizationUnacknowledged, DeleteProject
    <2> QED
      BY <1>1, <2>1, <2>2, <2>3
      DEF OrderlyInv, OutcomesStay, Terminal, EraseLedger, ledgerVars
  <1>3. CASE ProjectExists /\ \E s \in Session : DeleteProject(s)
    <2>1. ~ProjectExists' /\ EraseLedger /\ \A o \in Op : row'[o] = NoRow
      BY <1>3, SessionFacts, OpFacts DEF DeleteProject, ProjectExists, Inv
    <2> QED
      BY <1>1, <2>1 DEF OrderlyInv, OutcomesStay, NoRow, EraseLedger
  <1>4. CASE ProjectExists /\ ~ \E s \in Session : DeleteProject(s)
    <2>1. OrderlyStep
      BY <1>1, <1>4 DEF OrderlyStep, OrderlyInv
    <2>2. ~ \E s \in Session : FinalizationUnacknowledged(s)
      BY DEF FinalizationUnacknowledged, LateFaults
    <2>3. ASSUME NEW s \in Session,
                 \/ Reconcile(s) \/ Finalize(s) \/ RetryDeletion(s)
                 \/ RetryFinalization(s) \/ RetryRefused(s) \/ RollbackRefused(s)
                 \/ SessionCrash(s) \/ PollFails(s)
          PROVE  OrderlyResult
      <3>1. CASE RecoverIdentity(s) \/ SaveFailure(s) \/ FinalSave(s) \/ FinalizeDestroy(s)
        BY <2>1, <3>1, OrderlySave
      <3>2. CASE FinalizeRelease(s)
        BY <2>1, <3>2, OrderlyRelease
      <3>3. CASE RemoveExternal(s)
        BY <2>1, <3>3, OrderlyRemoval
      <3>4. CASE \/ NothingToPoll(s) \/ ObserveProgress(s) \/ ObserveFailure(s)
                 \/ ObserveInvalidEvidence(s) \/ CountMissingEvidence(s) \/ EvidenceExpires(s)
                 \/ ObserveEvidence(s) \/ PollFails(s) \/ SessionCrash(s)
                 \/ FinalizationFails(s) \/ CleanupFails(s)
                 \/ RetryDeletion(s) \/ RetryFinalization(s) \/ RetryRefused(s)
                 \/ RollbackRefused(s)
        <4>1. NothingShared
          BY <3>4
          DEF NothingToPoll, ObserveProgress, ObserveFailure,
              ObserveInvalidEvidence, CountMissingEvidence, EvidenceExpires,
              RejectEvidence, ObserveEvidence, PollFails, SessionCrash,
              FinalizationFails, CleanupFails, RetryDeletion, RetryFinalization,
              RetryRefused, RollbackRefused, OnlySession
        <4> QED
          BY <2>1, <3>4, <4>1, OrderlyLocal
      <3> QED
        BY <1>4, <2>2, <2>3, <3>1, <3>2, <3>3, <3>4 DEF Reconcile, Finalize
    <2>4. ASSUME UNCHANGED vars PROVE OrderlyResult
      <3>1. UNCHANGED <<ledgerVars, githubVars, operationVars, sessionVars, deletedBy>>
        BY <2>4 DEF vars
      <3>2. OrderlyCalls'
        BY <2>1, <3>1, UnmovedCalls DEF CallKept, operationVars
      <3> QED
        BY <2>1, <3>1, <3>2, OrderlyStands
    <2>5. ASSUME NEW o \in Op, Dispatch(o) \/ DispatcherCrash(o) PROVE OrderlyResult
      BY <2>1, <2>5, OrderlyDispatch
    <2>6. ASSUME NEW o \in Op,
                 \/ AdmitDeploy(o) \/ AdmitDestroy(o)
                 \/ \E s \in Session : AdmitRetry(s, o) \/ AdmitRollback(s, o)
          PROVE  OrderlyResult
      BY <2>1, <2>6, OrderlyAdmit DEF AdmitDeploy, AdmitDestroy, AdmitRetry,
                                      AdmitRollback
    <2>7. ASSUME NEW o \in Op, WorkflowStep(o) PROVE OrderlyResult
      BY <2>1, <2>7, OrderlyWorkflow
    <2>8. ASSUME NEW s \in Session, NEW o \in Op,
                 Load(s, o) \/ LoadBackfill(s, o) \/ LoadRetry(s, o) \/ LoadRollback(s, o)
          PROVE  OrderlyResult
      BY <2>1, <2>8, OrderlyLoad
    <2>9. OrderlyResult
      BY <2>3, <2>4, <2>5, <2>6, <2>7, <2>8 DEF Next, Retry, Rollback, Fault
    <2>10. route' # route => route' = deployed
      <3>1. UNCHANGED ledgerVars \/ \E s \in Session : FinalizeRelease(s)
        BY <1>4, <2>2, ReleaseSteps
      <3> QED
        BY <2>1, <3>1, OrderlyRelease DEF ledgerVars
    <2> QED
      BY <1>1, <2>9, <2>10 DEF OrderlyInv, OrderlyResult
  <1> QED
    BY <1>2, <1>3, <1>4

(* While a destroy deletes its project nothing is active and AWS runs      *)
(* nothing, where nothing is admitted meanwhile.                           *)
Deletes(s) == at[s] \in {"deleting", "deleting_project"}

DeletingInv ==
    ProjectExists => \A s \in Session : Deletes(s) => ActiveOps = {} /\ deployed = NoOp

(* The ways to begin the deletion of the project.                          *)
LEMMA DeletesSteps ==
  ASSUME TypeInv, [Next]_vars, NEW s \in Session, Deletes(s)'
  PROVE  \/ Deletes(s)
         \/ FinalizeDestroy(s)
         \/ RetryDeletion(s) /\ copy[s].code = "cleanup"
  <1> DEFINE Goal == \/ Deletes(s)
                     \/ FinalizeDestroy(s)
                     \/ RetryDeletion(s) /\ copy[s].code = "cleanup"
  <1>1. UNCHANGED sessionVars => Goal
    BY DEF sessionVars, Deletes
  <1>2. ASSUME NEW t \in Session, NEW pc, NEW o, NEW r,
               \/ pc \notin {"deleting", "deleting_project"}
               \/ Deletes(t)
               \/ FinalizeDestroy(t)
               \/ RetryDeletion(t) /\ copy[t].code = "cleanup",
               MoveTo(t, pc, o, r)
        PROVE  Goal
    BY <1>2 DEF MoveTo, Deletes, TypeInv, SessionsTyped
  <1>3. \A t \in Session : Return(t) => Goal
    BY <1>2 DEF Return
  <1>4. ASSUME NEW t \in Session, NEW pc,
               pc \notin {"deleting", "deleting_project"} \/ Deletes(t)
        PROVE  Continue(t, pc) => Goal
    BY <1>2, <1>4 DEF Continue
  <1>5. \A t \in Session : \A pc, r :
            pc \notin {"deleting", "deleting_project"} /\ WithCopy(t, pc, r) => Goal
    BY <1>2 DEF WithCopy
  <1>6. ASSUME NEW t \in Session, NEW o \in Op,
               Load(t, o) \/ LoadBackfill(t, o) \/ LoadRetry(t, o) \/ LoadRollback(t, o)
        PROVE  Goal
    BY <1>2, <1>6 DEF Load, LoadBackfill, LoadRetry, LoadRollback
  <1>7. ASSUME NEW t \in Session, Reconcile(t) \/ PollFails(t) \/ SessionCrash(t)
        PROVE  Goal
    BY <1>3, <1>4, <1>5, <1>7
    DEF Reconcile, NothingToPoll, RecoverIdentity, ObserveProgress,
        ObserveFailure, ObserveInvalidEvidence, CountMissingEvidence,
        EvidenceExpires, RejectEvidence, ObserveEvidence, SaveFailure, FinalSave,
        PollFails, SessionCrash
  <1>8. ASSUME NEW t \in Session, Finalize(t)
        PROVE  Goal
    <2>1. CASE FinalizeDestroy(t)
      BY <1>2, <2>1 DEF FinalizeDestroy, WithCopy
    <2>2. CASE RemoveExternal(t)
      BY <1>4, <2>2 DEF RemoveExternal, Deletes
    <2> QED
      BY <1>3, <1>5, <1>8, <2>1, <2>2
      DEF Finalize, FinalizeRelease, FinalizationFails, FinalizationUnacknowledged,
          DeleteProject, CleanupFails
  <1>9. ASSUME NEW t \in Session, Retry(t) \/ Rollback(t)
        PROVE  Goal
    <2>1. CASE RetryDeletion(t)
      <3>1. CASE copy[t].code = "cleanup"
        BY <1>2, <2>1, <3>1 DEF RetryDeletion, Continue
      <3>2. CASE copy[t].code # "cleanup"
        BY <1>5, <2>1, <3>2 DEF RetryDeletion
      <3> QED
        BY <3>1, <3>2
    <2> QED
      BY <1>3, <1>4, <1>9, <2>1
      DEF Retry, Rollback, RetryFinalization, RetryRefused, AdmitRetry,
          AdmitRollback, RollbackRefused
  <1>10. ASSUME NEW o \in Op,
                \/ AdmitDeploy(o) \/ AdmitDestroy(o) \/ Dispatch(o) \/ WorkflowStep(o)
                \/ DispatcherCrash(o)
         PROVE  Goal
    BY <1>1, <1>10
    DEF AdmitDeploy, AdmitDestroy, Dispatch, WorkflowStep, Prepare, SaveIntent,
        PostAccepted, PostRejected, PostLost, PersistAccepted, PreserveAmbiguous,
        Compensate, RecordDispatchFailure, DispatcherCrash
  <1>11. UNCHANGED vars => Goal
    BY <1>1 DEF vars
  <1> QED
    BY <1>6, <1>7, <1>8, <1>9, <1>10, <1>11 DEF Next, Fault

LEMMA DeletingNext ==
  ASSUME LateFaults \cap Faults = {},
         Inv, UnderWayInv, OrderlyInv, DeletingInv,
         [Next]_vars, [Orderly]_vars, [Undisturbed]_vars
  PROVE  DeletingInv'
  <1> SUFFICES ASSUME ProjectExists', NEW s \in Session, Deletes(s)'
               PROVE  ActiveOps' = {} /\ deployed' = NoOp
    BY DEF DeletingInv
  <1>1. ProjectExists /\ OrderlyProject
    BY DeletionIsFinal DEF Inv, OrderlyInv
  <1>2. ASSUME RetryDeletion(s), copy[s].code = "cleanup"
        PROVE  FALSE
    <2>1. at[s] = "retrying"
      BY <1>2 DEF RetryDeletion
    <2>2. OrderlyCall(s, at[s], on[s], copy[s])
      BY <1>1, <2>1 DEF OrderlyProject, OrderlyCalls
    <2> QED
      BY <1>2, <2>2 DEF OrderlyCall, LateCodes
  <1>3. CASE Deletes(s)
    <2>1. ActiveOps = {} /\ deployed = NoOp
      BY <1>1, <1>3 DEF DeletingInv
    <2>2. request' = request
      BY <1>3 DEF Undisturbed, Deletes, vars, operationVars
    <2>3. ASSUME NEW o \in Op, NEW action \in Action, NEW target, Admit(o, action, target)
          PROVE  FALSE
      <3>1. request'[o].action = action /\ request[o].action = "none"
        BY <2>3 DEF Admit, IsNextOp, Requested, Inv, TypeInv, OperationsTyped
      <3> QED
        BY <2>2, <3>1 DEF Action
    <2>4. ASSUME NEW o \in Op PROVE row'[o].status \notin Active
      <3>1. row[o].status \in {"none"} \cup Terminal
        BY <2>1
        DEF ActiveOps, Inv, TypeInv, OperationsTyped, Row, Status, Active, Terminal
      <3>2. CASE row[o].status \in Terminal
        BY <3>2, OrderlyNext DEF OutcomesStay, Terminal, Active
      <3>3. CASE row[o].status = "none"
        <4>1. CASE \E p \in Op : \E r : TrySave(p, r)
          BY <3>3, <4>1
          DEF TrySave, SaveAccepted, Inv, TypeInv, OperationsTyped, Active
        <4>2. CASE \E t \in Session : FinalizeRelease(t) \/ FinalizationUnacknowledged(t)
          <5>1. PICK t \in Session : FinalizeRelease(t) \/ FinalizationUnacknowledged(t)
            BY <4>2
          <5>2. on[t] \in Op /\ on[t] # o
            BY <3>3, <5>1, SessionFacts
            DEF FinalizeRelease, FinalizationUnacknowledged, Inv
          <5>3. row' = [row EXCEPT ![on[t]] = Completed(row[on[t]])]
            BY <5>1 DEF FinalizeRelease, FinalizationUnacknowledged
          <5> QED
            BY <3>3, <5>2, <5>3 DEF Inv, TypeInv, OperationsTyped, Active
        <4>3. CASE \E t \in Session : DeleteProject(t)
          BY <4>3 DEF DeleteProject, NoRow, Active
        <4> QED
          BY <2>3, <3>3, <4>1, <4>2, <4>3, RowSteps DEF Inv, Active
      <3> QED
        BY <3>1, <3>2, <3>3
    <2>5. deployed' = deployed
      <3>1. \A o \in Op : run[o] # "progressing"
        BY <1>1, <2>1 DEF UnderWayInv, UnderWay, ActiveOps
      <3> QED
        BY <3>1, GithubSteps
        DEF PostAccepted, WorkflowStep, WorkflowFails, WorkflowSucceeds,
            PublishArtifact
    <2> QED
      BY <2>1, <2>4, <2>5 DEF ActiveOps
  <1>4. CASE FinalizeDestroy(s)
    <2>1. PICK o \in Op : o = on[s]
      BY <1>4, SessionFacts DEF FinalizeDestroy, Inv
    <2>2. /\ at[s] = "finalizing" /\ request[o].action = "destroy"
          /\ row' = [row EXCEPT ![o] = Completed(copy[s])]
          /\ UNCHANGED <<githubVars, request>>
      BY <1>4, <2>1 DEF FinalizeDestroy, Save
    <2>3. OrderlyCall(s, "finalizing", o, copy[s])
      BY <1>1, <2>1, <2>2 DEF OrderlyProject, OrderlyCalls
    <2>4. row[o].status \in Active /\ run[o] = "success"
      BY <2>3 DEF OrderlyCall
    <2>5. deployed' = NoOp
      BY <1>1, <2>2, <2>4 DEF OrderlyProject, OrderlyOps, Leaves, githubVars
    <2>6. row'[o].status = "completed" /\ \A p \in Op \ {o} : row'[p] = row[p]
      <3>1. PICK c \in Row : c = copy[s]
        BY SessionFacts DEF Inv
      <3>2. Completed(c).status = "completed"
        BY DEF Completed, Row
      <3> QED
        BY <2>2, <3>1, <3>2 DEF Inv, TypeInv, OperationsTyped
    <2>7. ActiveOps' = {}
      BY <2>4, <2>6 DEF Inv, SingleActive, ActiveOps, Active
    <2> QED
      BY <2>5, <2>7
  <1> QED
    BY <1>2, <1>3, <1>4, DeletesSteps DEF Inv

LEMMA OrderlyInit == Init => OrderlyInv /\ DeletingInv
  BY DEF Init, LedgerInit, GithubInit, OrderlyInv, ReconcilesAlone,
         DispatchesFirst, OrderlyProject, OrderlyOps, OrderlyCalls, RouteIsStable,
         DeletingInv, Deletes, NoRow, LateCodes, Active, Terminal, Session

(* What the run with order kept checks, for every number of operations,    *)
(* reconcilers and clients: the invariant holds in every behaviour whose   *)
(* steps keep to it.                                                       *)
LEMMA OrderlyHolds ==
  ASSUME LateFaults \cap Faults = {}
  PROVE  Spec /\ [][Orderly]_vars => [](Inv /\ UnderWayInv /\ OrderlyInv)
  <1>1. Inv /\ UnderWayInv /\ OrderlyInv /\ [Next]_vars /\ [Orderly]_vars => OrderlyInv'
    BY OrderlyNext
  <1>2. Inv /\ UnderWayInv /\ [Next]_vars => UnderWayInv'
    BY UnderWayNext
  <1> QED
    BY <1>1, <1>2, OrderlyInit, UnderWayInit, InvHolds, PTL DEF Spec

(* The generation the route serves is the one the stable release names,    *)
(* however clients and dispatches overlap with the reconciliation.         *)
THEOREM RouteServesStable ==
  ASSUME LateFaults \cap Faults = {}
  PROVE  Spec /\ [][Orderly]_vars => []RouteIsStable
  <1>1. Inv /\ OrderlyInv => RouteIsStable
    <2>1. ProjectExists /\ OrderlyInv => RouteIsStable
      BY DEF OrderlyInv, OrderlyProject
    <2>2. ~ProjectExists /\ Inv => RouteIsStable
      BY DEF Inv, TypeInv, LedgerTypeOK, TruthInv, DeletedIsEmpty, RouteIsStable
    <2> QED
      BY <2>1, <2>2
  <1> QED
    BY <1>1, OrderlyHolds, PTL

(* LIVE moves only to the release AWS runs at that moment.                 *)
THEOREM LiveFollowsRuntime ==
  ASSUME LateFaults \cap Faults = {}
  PROVE  Spec /\ [][Orderly]_vars => LiveMovesToDeployed
  <1>1. Inv /\ UnderWayInv /\ OrderlyInv /\ [Next]_vars /\ [Orderly]_vars =>
           [route' # NoOp => route' = deployed]_route
    BY OrderlyNext
  <1> QED
    BY <1>1, OrderlyHolds, PTL DEF Spec, LiveMovesToDeployed

(* A finished operation keeps its outcome until its project is deleted.    *)
THEOREM OutcomesAreFinal ==
  ASSUME LateFaults \cap Faults = {}
  PROVE  Spec /\ [][Orderly]_vars => OutcomeIsFinal
  <1>1. Inv /\ UnderWayInv /\ OrderlyInv /\ [Next]_vars /\ [Orderly]_vars =>
           [\A o \in Op : row[o].status \in Terminal =>
               row'[o].status \in {row[o].status, "none"}]_row
    BY OrderlyNext DEF OutcomesStay
  <1> QED
    BY <1>1, OrderlyHolds, PTL DEF Spec, OutcomeIsFinal

(* The project is deleted only when AWS runs nothing and no operation is   *)
(* active.                                                                 *)
THEOREM DeletionLeavesNothing ==
  ASSUME LateFaults \cap Faults = {}
  PROVE  Spec /\ [][Orderly]_vars /\ [][Undisturbed]_vars => DeletionFindsNothing
  <1>1. /\ Inv /\ UnderWayInv /\ OrderlyInv /\ DeletingInv
        /\ [Next]_vars /\ [Orderly]_vars /\ [Undisturbed]_vars
        => DeletingInv'
    BY DeletingNext
  <1>2. Inv /\ DeletingInv /\ [Next]_vars =>
           [deletedBy' # NoOp => deployed = NoOp /\ ActiveOps = {}]_deletedBy
    <2> SUFFICES ASSUME Inv, DeletingInv, NEW s \in Session, DeleteProject(s)
                 PROVE  deployed = NoOp /\ ActiveOps = {}
      BY DeletionSteps
    <2>1. ProjectExists
      BY SessionFacts DEF DeleteProject, Inv, TruthInv, DeletedIsEmpty, NoRow
    <2> QED
      BY <2>1 DEF DeletingInv, Deletes, DeleteProject
  <1> QED
    BY <1>1, <1>2, OrderlyInit, OrderlyHolds, PTL DEF Spec, DeletionFindsNothing
=============================================================================
