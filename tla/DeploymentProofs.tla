-------------------------- MODULE DeploymentProofs --------------------------
(***************************************************************************)
(* The inductive invariant of Deployment, in layers, the safety theorems   *)
(* that follow from it, and the refinement of LifecycleTruth, for every    *)
(* number of operations, every set of reconcilers and clients, every       *)
(* evidence limit and every set of faults.                                 *)
(***************************************************************************)
EXTENDS Deployment, TLAPS

(***************************************************************************)
(* Layer 1: types.  Nothing exists for an operation that was never         *)
(* admitted, and a session inside the service works on an admitted         *)
(* operation.                                                              *)
(***************************************************************************)
OperationsTyped ==
    /\ request \in [Op -> Request]
    /\ row \in [Op -> Row]
    /\ dispatcher \in [Op -> DispatcherState]
    /\ secret \in [Op -> SecretState]
    /\ deletedBy \in Op \cup {NoOp}
    /\ \A o \in Op : ~Requested(o) => row[o].status = "none" /\ release[o] = "none"

SessionsTyped ==
    /\ at \in [Session -> SessionState]
    /\ on \in [Session -> Op \cup {NoOp}]
    /\ copy \in [Session -> Row]
    /\ \A s \in Session : at[s] # "idle" => on[s] \in Op /\ Requested(on[s])

TypeInv == LedgerTypeOK /\ GithubTypeOK /\ OperationsTyped /\ SessionsTyped

LEMMA OpFacts == NoOp \notin Op /\ Op \subseteq Nat
  BY MaxOpAssumption DEF Op, NoOp

(* The history variable is typed apart: nothing else depends on it.        *)
RejectedTyped == rejected \in [Op -> SUBSET ArtifactState]

LEMMA TypeInvTypeOK == TypeInv /\ RejectedTyped => TypeOK
  BY DEF TypeInv, RejectedTyped, TypeOK, OperationsTyped, SessionsTyped

LEMMA NoRowIsRow == NoRow \in Row /\ NoRequest \in Request
  BY DeploymentAssumption
  DEF NoRow, Row, Status, Code, NoRequest, Request, Action

LEMMA TypeInit == Init => TypeInv
  <1> SUFFICES ASSUME Init PROVE TypeInv
    OBVIOUS
  <1>1. LedgerTypeOK /\ GithubTypeOK
    BY DEF Init, LedgerInit, GithubInit, LedgerTypeOK, GithubTypeOK,
           GenerationState, ReleaseState, RunState, ArtifactState
  <1>2. OperationsTyped
    BY NoRowIsRow
    DEF Init, OperationsTyped, LedgerInit, NoRow, DispatcherState, SecretState
  <1>3. SessionsTyped
    BY NoRowIsRow DEF Init, SessionsTyped, SessionState
  <1> QED
    BY <1>1, <1>2, <1>3 DEF TypeInv

(* Every copy the code builds from a row is a row again.                   *)
LEMMA RowUpdates ==
  ASSUME NEW r \in Row
  PROVE  /\ \A code \in Code : Failed(r, code) \in Row
         /\ Completed(r) \in Row
         /\ \A status \in Status : [r EXCEPT !.status = status] \in Row
         /\ \A status \in Status : [r EXCEPT !.status = status, !.pending = 0] \in Row
         /\ \A known \in BOOLEAN : [r EXCEPT !.known = known] \in Row
         /\ \A status \in Status : [r EXCEPT !.status = status, !.known = TRUE] \in Row
         /\ [r EXCEPT !.pending = IF @ < PendingLimit THEN @ + 1 ELSE @] \in Row
  <1>1. 0 \in 0 .. PendingLimit /\ PendingLimit \in Nat
    BY DeploymentAssumption
  <1>2. /\ \A code \in Code : Failed(r, code) \in Row
        /\ Completed(r) \in Row
    BY DEF Failed, Completed, Row, Status, Code
  <1>3. /\ \A status \in Status : [r EXCEPT !.status = status] \in Row
        /\ \A known \in BOOLEAN : [r EXCEPT !.known = known] \in Row
        /\ \A status \in Status : [r EXCEPT !.status = status, !.known = TRUE] \in Row
    BY DEF Row
  <1>4. \A status \in Status : [r EXCEPT !.status = status, !.pending = 0] \in Row
    BY <1>1 DEF Row
  <1>5. [r EXCEPT !.pending = IF @ < PendingLimit THEN @ + 1 ELSE @] \in Row
    BY <1>1 DEF Row
  <1> QED
    BY <1>2, <1>3, <1>4, <1>5

(* A save keeps the rows typed and never brings back a row that is gone.   *)
LEMMA TrySaveTyped ==
  ASSUME row \in [Op -> Row], NEW o \in Op, NEW r \in Row, TrySave(o, r)
  PROVE  /\ row' \in [Op -> Row]
         /\ \A p \in Op : row[p].status = "none" => row'[p].status = "none"
  BY DEF TrySave, SaveAccepted

LEMMA MoveTyped ==
  ASSUME SessionsTyped, NEW s \in Session,
         NEW pc \in SessionState, NEW o \in Op \cup {NoOp}, NEW r \in Row,
         MoveTo(s, pc, o, r),
         \A p \in Op : Requested(p) => Requested(p)',
         pc # "idle" => o \in Op /\ Requested(o)
  PROVE  SessionsTyped'
  BY DEF SessionsTyped, MoveTo, Requested

LEMMA ReturnTyped ==
  ASSUME SessionsTyped, NEW s \in Session, Return(s),
         \A p \in Op : Requested(p) => Requested(p)'
  PROVE  SessionsTyped'
  <1>1. MoveTo(s, "idle", NoOp, NoRow)
    BY DEF Return
  <1> QED
    BY <1>1, NoRowIsRow, MoveTyped DEF SessionState

LEMMA RowSaved ==
  ASSUME OperationsTyped, NEW o \in Op, NEW r \in Row, TrySave(o, r),
         dispatcher' \in [Op -> DispatcherState],
         UNCHANGED <<ledgerVars, request, secret, deletedBy>>
  PROVE  OperationsTyped'
  <1>1. /\ row' \in [Op -> Row]
        /\ \A p \in Op : row[p].status = "none" => row'[p].status = "none"
    BY TrySaveTyped DEF OperationsTyped
  <1> QED
    BY <1>1 DEF OperationsTyped, Requested, ledgerVars

LEMMA SessionsUnchanged ==
  ASSUME SessionsTyped, UNCHANGED sessionVars,
         \A p \in Op : Requested(p) => Requested(p)'
  PROVE  SessionsTyped'
  BY DEF SessionsTyped, sessionVars

LEMMA DispatchTyped ==
  ASSUME TypeInv, NEW o \in Op, Dispatch(o) \/ DispatcherCrash(o)
  PROVE  TypeInv'
  <1> USE DEF TypeInv
  <1>0. /\ row[o] \in Row
        /\ \A p \in Op, x \in DispatcherState :
              [dispatcher EXCEPT ![p] = x] \in [Op -> DispatcherState]
    BY DEF OperationsTyped
  <1>1. UNCHANGED <<ledgerVars, request, sessionVars, deletedBy>>
    BY DEF Dispatch, Prepare, SaveIntent, PostAccepted, PostRejected, PostLost,
           PersistAccepted, PreserveAmbiguous, Compensate, RecordDispatchFailure,
           DispatcherCrash
  <1>2. LedgerTypeOK' /\ SessionsTyped'
    BY <1>1, SessionsUnchanged DEF LedgerTypeOK, ledgerVars, Requested
  <1>3. GithubTypeOK'
    BY DEF GithubTypeOK, githubVars, RunState,
           Dispatch, Prepare, SaveIntent, PostAccepted, PostRejected, PostLost,
           PersistAccepted, PreserveAmbiguous, Compensate, RecordDispatchFailure,
           DispatcherCrash
  <1>4. OperationsTyped'
    <2>1. CASE \/ Prepare(o) \/ PostAccepted(o) \/ PostRejected(o) \/ PostLost(o)
               \/ Compensate(o) \/ DispatcherCrash(o)
      <3>1. dispatcher' \in [Op -> DispatcherState] /\ secret' \in [Op -> SecretState]
        BY <2>1 DEF OperationsTyped, DispatcherState, SecretState, Prepare,
                    PostAccepted, PostRejected, PostLost, Compensate,
                    DispatcherCrash
      <3>2. row' = row
        BY <2>1 DEF Prepare, PostAccepted, PostRejected, PostLost, Compensate,
                    DispatcherCrash
      <3> QED
        BY <1>1, <3>1, <3>2 DEF OperationsTyped, Requested, ledgerVars
    <2>2. CASE SaveIntent(o)
      <3>1. TrySave(o, [row[o] EXCEPT !.status = "dispatching"])
        BY <2>2 DEF SaveIntent, Save, TrySave
      <3>2. [row[o] EXCEPT !.status = "dispatching"] \in Row
        BY <1>0, RowUpdates DEF Status
      <3> QED
        BY <1>0, <1>1, <2>2, <3>1, <3>2, RowSaved DEF SaveIntent, DispatcherState
    <2>3. CASE PersistAccepted(o)
      <3> DEFINE r == [DispatcherCopy(o, "running") EXCEPT !.known = TRUE]
      <3>1. r \in Row
        <4>1. DispatcherCopy(o, "running") \in Row
          BY <1>0, RowUpdates DEF DispatcherCopy, Status
        <4> QED
          BY <4>1, RowUpdates
      <3>2. TrySave(o, r) /\ dispatcher' \in [Op -> DispatcherState] /\ secret' = secret
        BY <1>0, <2>3 DEF PersistAccepted, DispatcherState
      <3> HIDE DEF r
      <3> QED
        BY <1>1, <3>1, <3>2, RowSaved
    <2>4. CASE PreserveAmbiguous(o)
      <3> DEFINE r == DispatcherCopy(o, "dispatching")
      <3>1. r \in Row
        BY <1>0, RowUpdates DEF DispatcherCopy, Status
      <3>2. TrySave(o, r) /\ dispatcher' \in [Op -> DispatcherState] /\ secret' = secret
        BY <1>0, <2>4 DEF PreserveAmbiguous, DispatcherState
      <3> HIDE DEF r
      <3> QED
        BY <1>1, <3>1, <3>2, RowSaved
    <2>5. CASE RecordDispatchFailure(o)
      <3> DEFINE r == [DispatcherCopy(o, "failed") EXCEPT !.code = "dispatch"]
      <3>1. r \in Row
        <4>1. DispatcherCopy(o, "failed") \in Row
          BY <1>0, RowUpdates DEF DispatcherCopy, Status
        <4> QED
          BY <4>1 DEF Row, Code
      <3>2. TrySave(o, r) /\ dispatcher' \in [Op -> DispatcherState] /\ secret' = secret
        BY <1>0, <2>5 DEF RecordDispatchFailure, DispatcherState
      <3> HIDE DEF r
      <3> QED
        BY <1>1, <3>1, <3>2, RowSaved
    <2> QED
      BY <2>1, <2>2, <2>3, <2>4, <2>5 DEF Dispatch
  <1> QED
    BY <1>2, <1>3, <1>4

(* Steps that only move a session leave everything else typed.             *)
LEMMA OnlySessionTyped ==
  ASSUME TypeInv, NEW s \in Session, NothingShared, SessionsTyped'
  PROVE  TypeInv'
  BY DEF TypeInv, OnlySession, NothingShared, LedgerTypeOK, GithubTypeOK,
         OperationsTyped, Requested, ledgerVars, githubVars, operationVars

LEMMA RequestedStays ==
  ASSUME OperationsTyped, [Next]_vars
  PROVE  \A p \in Op : Requested(p) => request'[p] = request[p]
  <1>1. ASSUME NEW o \in Op, NEW action \in Action, NEW target, Admit(o, action, target)
        PROVE  \A p \in Op : Requested(p) => request'[p] = request[p]
    BY <1>1 DEF Admit, IsNextOp, OperationsTyped
  <1>2. \/ request' = request
        \/ \E o \in Op : AdmitDeploy(o) \/ AdmitDestroy(o)
        \/ \E s \in Session, o \in Op : AdmitRetry(s, o) \/ AdmitRollback(s, o)
    BY ZenonT(60) DEF Next, vars, operationVars, OnlySession, NothingShared, Dispatch,
           Reconcile, Finalize, Retry, Rollback, Fault, WorkflowStep, Load,
           LoadBackfill, LoadRetry, LoadRollback, Prepare, SaveIntent,
           PostAccepted, PostRejected, PostLost, PersistAccepted,
           PreserveAmbiguous, Compensate, RecordDispatchFailure, DispatcherCrash,
           NothingToPoll, RecoverIdentity, ObserveProgress, ObserveFailure,
           ObserveInvalidEvidence, CountMissingEvidence, EvidenceExpires,
           RejectEvidence, ObserveEvidence, SaveFailure, FinalSave, PollFails,
           SessionCrash, FinalizeRelease, FinalizationFails,
           FinalizationUnacknowledged, FinalizeDestroy, RemoveExternal,
           DeleteProject, CleanupFails, RetryDeletion, RetryFinalization,
           RetryRefused, RollbackRefused
  <1>3. ASSUME NEW o \in Op, AdmitDeploy(o) \/ AdmitDestroy(o)
        PROVE  \A p \in Op : Requested(p) => request'[p] = request[p]
    BY <1>1, <1>3 DEF AdmitDeploy, AdmitDestroy, Action
  <1>4. ASSUME NEW s \in Session, NEW o \in Op, AdmitRollback(s, o)
        PROVE  \A p \in Op : Requested(p) => request'[p] = request[p]
    BY <1>1, <1>4 DEF AdmitRollback, Action
  <1>5. ASSUME NEW s \in Session, NEW o \in Op, AdmitRetry(s, o)
        PROVE  \A p \in Op : Requested(p) => request'[p] = request[p]
    BY <1>5 DEF AdmitRetry, Admit, IsNextOp, OperationsTyped
  <1> QED
    BY <1>2, <1>3, <1>4, <1>5

LEMMA AdmitTyped ==
  ASSUME TypeInv, NEW o \in Op, NEW action \in Action, NEW target \in Op \cup {NoOp},
         Admit(o, action, target)
  PROVE  /\ LedgerTypeOK' /\ GithubTypeOK' /\ OperationsTyped'
         /\ \A p \in Op : Requested(p) => Requested(p)'
  <1>1. LedgerTypeOK' /\ GithubTypeOK'
    BY DEF TypeInv, Admit, LedgerTypeOK, GithubTypeOK, ledgerVars, githubVars
  <1>2. [action |-> action, target |-> target,
         scope  |-> IF action = "destroy" THEN route ELSE NoOp] \in Request
    BY DEF TypeInv, LedgerTypeOK, Request
  <1>3. [NoRow EXCEPT !.status = "preparing"] \in Row
    BY NoRowIsRow, RowUpdates DEF Status
  <1>4. request' \in [Op -> Request] /\ row' \in [Op -> Row]
    BY <1>2, <1>3 DEF TypeInv, OperationsTyped, Admit
  <1>5. /\ dispatcher' \in [Op -> DispatcherState]
        /\ UNCHANGED <<secret, release, deletedBy>>
    BY DEF TypeInv, OperationsTyped, Admit, DispatcherState, ledgerVars
  <1>6. /\ Requested(o)'
        /\ \A p \in Op : Requested(p) => Requested(p)'
        /\ \A p \in Op \ {o} : Requested(p)' = Requested(p) /\ row'[p] = row[p]
    BY DEF TypeInv, OperationsTyped, Admit, Requested, Action
  <1> QED
    BY <1>1, <1>4, <1>5, <1>6 DEF TypeInv, OperationsTyped

LEMMA LoadTyped ==
  ASSUME TypeInv, NEW s \in Session, NEW o \in Op,
         Load(s, o) \/ LoadBackfill(s, o) \/ LoadRetry(s, o) \/ LoadRollback(s, o)
  PROVE  TypeInv'
  <1>1. Requested(o)
    BY DEF TypeInv, OperationsTyped, Load, LoadBackfill, LoadRetry, LoadRollback,
           Active, Terminal, FailedOps
  <1>2. NothingShared /\ request' = request
    BY DEF Load, LoadBackfill, LoadRetry, LoadRollback, OnlySession,
           NothingShared, operationVars
  <1>3. PICK pc \in SessionState, r \in Row : MoveTo(s, pc, o, r)
    <2>1. row[o] \in Row /\ NoRow \in Row
      BY NoRowIsRow DEF TypeInv, OperationsTyped
    <2> QED
      BY <2>1 DEF Load, LoadBackfill, LoadRetry, LoadRollback, SessionState
  <1>4. SessionsTyped'
    BY <1>1, <1>2, <1>3, MoveTyped DEF TypeInv, Requested
  <1> QED
    BY <1>2, <1>4, OnlySessionTyped

(* A session that goes on with its operation stays typed.                  *)
LEMMA WithCopyTyped ==
  ASSUME TypeInv, NEW s \in Session, at[s] # "idle", NEW pc \in SessionState,
         NEW r \in Row, WithCopy(s, pc, r), request' = request
  PROVE  SessionsTyped'
  <1>1. on[s] \in Op /\ Requested(on[s])
    BY DEF TypeInv, SessionsTyped
  <1>2. MoveTo(s, pc, on[s], r)
    BY DEF WithCopy
  <1> QED
    BY <1>1, <1>2, MoveTyped DEF TypeInv, Requested

LEMMA SessionFacts ==
  ASSUME TypeInv, NEW s \in Session
  PROVE  /\ copy[s] \in Row
         /\ at[s] # "idle" => on[s] \in Op /\ Requested(on[s])
         /\ \A pc : Continue(s, pc) <=> WithCopy(s, pc, copy[s])
  BY DEF TypeInv, SessionsTyped, Continue, WithCopy

(* The steps of a call that only change what the call itself knows.        *)
LEMMA LocalStepTyped ==
  ASSUME TypeInv, NEW s \in Session, NothingShared,
         \/ NothingToPoll(s) \/ ObserveProgress(s) \/ ObserveFailure(s)
         \/ ObserveInvalidEvidence(s) \/ CountMissingEvidence(s) \/ EvidenceExpires(s)
         \/ ObserveEvidence(s) \/ PollFails(s) \/ SessionCrash(s)
         \/ FinalizationFails(s) \/ CleanupFails(s)
         \/ RetryDeletion(s) \/ RetryFinalization(s) \/ RetryRefused(s)
         \/ RollbackRefused(s)
  PROVE  TypeInv'
  <1>1. request' = request
    BY DEF OnlySession, NothingShared, operationVars
  <1>2. \/ Return(s)
        \/ at[s] # "idle" /\ \E pc \in SessionState, r \in Row : WithCopy(s, pc, r)
    <2>1. /\ copy[s] \in Row
          /\ \A code \in Code : Failed(copy[s], code) \in Row
          /\ [copy[s] EXCEPT !.pending = IF @ < PendingLimit THEN @ + 1 ELSE @] \in Row
      BY SessionFacts, RowUpdates
    <2> QED
      BY <2>1, SessionFacts
      DEF NothingToPoll, ObserveProgress, ObserveFailure, ObserveInvalidEvidence,
          CountMissingEvidence, EvidenceMissing, EvidenceExpires, RejectEvidence,
          ObserveEvidence, PollFails, SessionCrash, FinalizationFails,
          CleanupFails, RetryDeletion, RetryFinalization, RetryRefused,
          RollbackRefused, SessionState, Code
  <1>3. SessionsTyped'
    BY <1>1, <1>2, WithCopyTyped, ReturnTyped DEF TypeInv, Requested
  <1> QED
    BY <1>3, OnlySessionTyped

(* The steps of a call that save its copy of the row.                      *)
LEMMA SaveStepTyped ==
  ASSUME TypeInv, NEW s \in Session,
         RecoverIdentity(s) \/ SaveFailure(s) \/ FinalSave(s) \/ FinalizeDestroy(s)
  PROVE  TypeInv'
  <1>1. /\ UNCHANGED <<ledgerVars, githubVars, request, dispatcher, secret, deletedBy>>
        /\ at[s] # "idle"
    BY DEF RecoverIdentity, SaveFailure, FinalSave, FinalizeDestroy
  <1>2. copy[s] \in Row /\ on[s] \in Op /\ Requested(on[s])
    BY <1>1, SessionFacts
  <1>3. PICK r \in Row : /\ TrySave(on[s], r)
                         /\ Return(s) \/ \E pc \in SessionState : WithCopy(s, pc, r)
    <2>1. CASE RecoverIdentity(s)
      <3>1. [copy[s] EXCEPT !.status = "running", !.known = TRUE] \in Row
        BY <1>2, RowUpdates DEF Status
      <3> QED
        BY <2>1, <3>1 DEF RecoverIdentity, SessionState
    <2>2. CASE SaveFailure(s) \/ FinalSave(s)
      BY <1>2, <2>2, SessionFacts DEF SaveFailure, FinalSave, SessionState
    <2>3. CASE FinalizeDestroy(s)
      <3>1. Completed(copy[s]) \in Row
        BY <1>2, RowUpdates
      <3> QED
        BY <2>3, <3>1 DEF FinalizeDestroy, Save, TrySave, SessionState
    <2> QED
      BY <2>1, <2>2, <2>3
  <1>4. OperationsTyped'
    BY <1>1, <1>2, <1>3, RowSaved DEF TypeInv, OperationsTyped
  <1>5. SessionsTyped'
    BY <1>1, <1>3, WithCopyTyped, ReturnTyped DEF TypeInv, Requested
  <1>6. LedgerTypeOK' /\ GithubTypeOK'
    BY <1>1 DEF TypeInv, LedgerTypeOK, GithubTypeOK, ledgerVars, githubVars
  <1> QED
    BY <1>4, <1>5, <1>6 DEF TypeInv

(* What promoting an operation does to each release.                       *)
LEMMA PromotedReleases ==
  ASSUME LedgerTypeOK, NEW o \in Op, Promote(o)
  PROVE  \/ release[o] # "none" /\ release' = release
         \/ /\ release[o] = "none"
            /\ release' = [p \in Op |->
                  IF p = o THEN "stable"
                  ELSE IF release[p] = "rollback_target" THEN "superseded"
                  ELSE IF release[p] = "stable" THEN "rollback_target"
                  ELSE release[p]]
  BY DEF LedgerTypeOK, Promote, MaterializeStableRelease, Aged, InsertStable,
         SupersedeTargets, DemoteStable, Restated

LEMMA PromoteTyped ==
  ASSUME LedgerTypeOK, NEW o \in Op, Promote(o)
  PROVE  /\ LedgerTypeOK'
         /\ \A p \in Op : p # o /\ release[p] = "none" => release'[p] = "none"
  BY PromotedReleases DEF LedgerTypeOK, Promote, GenerationState, ReleaseState

(* Finalizing a release, acknowledged or not.                              *)
LEMMA ReleaseStepTyped ==
  ASSUME TypeInv, NEW s \in Session, FinalizeRelease(s) \/ FinalizationUnacknowledged(s)
  PROVE  TypeInv'
  <1>1. /\ at[s] # "idle"
        /\ row[on[s]].status # "none"
        /\ row' = [row EXCEPT ![on[s]] = Completed(row[on[s]])]
        /\ Promote(on[s])
        /\ UNCHANGED <<githubVars, request, dispatcher, secret, deletedBy>>
    BY DEF FinalizeRelease, FinalizationUnacknowledged
  <1>2. on[s] \in Op /\ Requested(on[s])
    BY <1>1, SessionFacts
  <1>3. /\ row[on[s]] \in Row
        /\ Completed(row[on[s]]) \in Row
        /\ Failed(row[on[s]], "finalization") \in Row
    BY <1>2, RowUpdates DEF TypeInv, OperationsTyped, Code
  <1>4. LedgerTypeOK' /\ GithubTypeOK'
    BY <1>1, <1>2, PromoteTyped DEF TypeInv, GithubTypeOK, githubVars
  <1>5. OperationsTyped'
    BY <1>1, <1>2, <1>3, PromoteTyped DEF TypeInv, OperationsTyped, Requested
  <1>6. Return(s) \/ \E r \in Row : WithCopy(s, "saving", r)
    BY <1>3 DEF FinalizeRelease, FinalizationUnacknowledged
  <1>7. SessionsTyped'
    BY <1>1, <1>6, WithCopyTyped, ReturnTyped DEF TypeInv, Requested, SessionState
  <1> QED
    BY <1>4, <1>5, <1>7 DEF TypeInv

LEMMA DeletionStepTyped ==
  ASSUME TypeInv, NEW s \in Session, RemoveExternal(s) \/ DeleteProject(s)
  PROVE  TypeInv'
  <1>1. CASE RemoveExternal(s)
    <2>1. SessionsTyped'
      BY <1>1, SessionFacts, WithCopyTyped
      DEF RemoveExternal, operationVars, SessionState
    <2> QED
      BY <1>1, <2>1
      DEF TypeInv, RemoveExternal, LedgerTypeOK, GithubTypeOK, OperationsTyped,
          Requested, ledgerVars, operationVars
  <1>2. CASE DeleteProject(s)
    <2>1. on[s] \in Op
      BY <1>2, SessionFacts DEF DeleteProject
    <2>2. SessionsTyped'
      BY <1>2, ReturnTyped DEF TypeInv, DeleteProject, Requested
    <2>3. OperationsTyped'
      BY <1>2, <2>1, NoRowIsRow
      DEF TypeInv, DeleteProject, EraseLedger, OperationsTyped, NoRow
    <2>4. LedgerTypeOK' /\ GithubTypeOK'
      BY <1>2
      DEF TypeInv, DeleteProject, EraseLedger, LedgerTypeOK, GithubTypeOK,
          githubVars, GenerationState, ReleaseState
    <2> QED
      BY <2>2, <2>3, <2>4 DEF TypeInv
  <1> QED
    BY <1>1, <1>2

LEMMA AdmissionStepTyped ==
  ASSUME TypeInv, NEW o \in Op,
         \/ AdmitDeploy(o) \/ AdmitDestroy(o)
         \/ \E s \in Session : AdmitRetry(s, o) \/ AdmitRollback(s, o)
  PROVE  TypeInv'
  <1>1. CASE AdmitDeploy(o) \/ AdmitDestroy(o)
    BY <1>1, AdmitTyped, SessionsUnchanged DEF TypeInv, AdmitDeploy, AdmitDestroy,
                                               Action
  <1>2. ASSUME NEW s \in Session, AdmitRetry(s, o)
        PROVE  TypeInv'
    <2>1. on[s] \in Op /\ Requested(on[s]) /\ request[on[s]] \in Request
      BY <1>2, SessionFacts DEF AdmitRetry, TypeInv, OperationsTyped
    <2>2. request[on[s]].action \in Action /\ request[on[s]].target \in Op \cup {NoOp}
      BY <2>1 DEF Request, Requested
    <2> QED
      BY <1>2, <2>2, AdmitTyped, ReturnTyped DEF TypeInv, AdmitRetry
  <1>3. ASSUME NEW s \in Session, AdmitRollback(s, o)
        PROVE  TypeInv'
    <2>1. on[s] \in Op
      BY <1>3, SessionFacts DEF AdmitRollback
    <2> QED
      BY <1>3, <2>1, AdmitTyped, ReturnTyped DEF TypeInv, AdmitRollback, Action
  <1> QED
    BY <1>1, <1>2, <1>3

LEMMA WorkflowStepTyped ==
  ASSUME TypeInv, NEW o \in Op, WorkflowStep(o)
  PROVE  TypeInv'
  <1>1. UNCHANGED <<ledgerVars, operationVars, sessionVars, deletedBy>>
    BY DEF WorkflowStep
  <1>2. LedgerTypeOK' /\ OperationsTyped' /\ SessionsTyped'
    BY <1>1
    DEF TypeInv, LedgerTypeOK, OperationsTyped, SessionsTyped, Requested,
        ledgerVars, operationVars, sessionVars
  <1>3. GithubTypeOK'
    BY DEF TypeInv, GithubTypeOK, WorkflowStep, WorkflowFails, WorkflowSucceeds,
           PublishArtifact, RunState, ArtifactState
  <1> QED
    BY <1>2, <1>3 DEF TypeInv

LEMMA TypeNext == TypeInv /\ [Next]_vars => TypeInv'
  <1> SUFFICES ASSUME TypeInv, [Next]_vars PROVE TypeInv'
    OBVIOUS
  <1>1. ASSUME NEW s \in Session, Reconcile(s) \/ Finalize(s) \/ RetryDeletion(s)
                 \/ RetryFinalization(s) \/ RetryRefused(s) \/ RollbackRefused(s)
                 \/ SessionCrash(s) \/ PollFails(s)
        PROVE  TypeInv'
    <2>1. CASE RecoverIdentity(s) \/ SaveFailure(s) \/ FinalSave(s) \/ FinalizeDestroy(s)
      BY <2>1, SaveStepTyped
    <2>2. CASE FinalizeRelease(s) \/ FinalizationUnacknowledged(s)
      BY <2>2, ReleaseStepTyped
    <2>3. CASE RemoveExternal(s) \/ DeleteProject(s)
      BY <2>3, DeletionStepTyped
    <2>4. CASE \/ NothingToPoll(s) \/ ObserveProgress(s) \/ ObserveFailure(s)
               \/ ObserveInvalidEvidence(s) \/ CountMissingEvidence(s) \/ EvidenceExpires(s)
               \/ ObserveEvidence(s) \/ PollFails(s) \/ SessionCrash(s)
               \/ FinalizationFails(s) \/ CleanupFails(s)
               \/ RetryDeletion(s) \/ RetryFinalization(s) \/ RetryRefused(s)
               \/ RollbackRefused(s)
      <3>1. NothingShared
        BY <2>4
        DEF NothingToPoll, ObserveProgress, ObserveFailure,
            ObserveInvalidEvidence, CountMissingEvidence, EvidenceExpires,
            RejectEvidence, ObserveEvidence, PollFails, SessionCrash,
            FinalizationFails, CleanupFails, RetryDeletion, RetryFinalization,
            RetryRefused, RollbackRefused, OnlySession
      <3> QED
        BY <2>4, <3>1, LocalStepTyped
    <2> QED
      BY <1>1, <2>1, <2>2, <2>3, <2>4 DEF Reconcile, Finalize
  <1>2. CASE UNCHANGED vars
    BY <1>2
    DEF TypeInv, LedgerTypeOK, GithubTypeOK, OperationsTyped, SessionsTyped,
        Requested, vars, ledgerVars, githubVars, operationVars, sessionVars
  <1>3. CASE \E o \in Op : Dispatch(o) \/ DispatcherCrash(o)
    BY <1>3, DispatchTyped
  <1>4. CASE \E o \in Op :
               \/ AdmitDeploy(o) \/ AdmitDestroy(o)
               \/ \E s \in Session : AdmitRetry(s, o) \/ AdmitRollback(s, o)
    BY <1>4, AdmissionStepTyped
  <1>5. CASE \E o \in Op : WorkflowStep(o)
    BY <1>5, WorkflowStepTyped
  <1>6. CASE \E s \in Session, o \in Op :
               Load(s, o) \/ LoadBackfill(s, o) \/ LoadRetry(s, o) \/ LoadRollback(s, o)
    BY <1>6, LoadTyped
  <1> QED
    BY <1>1, <1>2, <1>3, <1>4, <1>5, <1>6 DEF Next, Retry, Rollback, Fault

(* The type invariant, with what makes it inductive.                       *)
THEOREM TypesHold == Spec => []TypeInv
  BY TypeInit, TypeNext, PTL DEF Spec

(* Evidence is rejected by two steps, and by no other.                     *)
LEMMA RejectionSteps ==
  ASSUME [Next]_vars
  PROVE  \/ UNCHANGED rejected
         \/ \E s \in Session : ObserveInvalidEvidence(s) \/ EvidenceExpires(s)
  BY ZenonT(60) DEF Next, vars, OnlySession, NothingShared, Dispatch, Reconcile, Finalize,
         Retry, Rollback, Fault, WorkflowStep, Admit, AdmitDeploy, AdmitDestroy,
         AdmitRetry, AdmitRollback, Load, LoadBackfill, LoadRetry, LoadRollback,
         Prepare, SaveIntent, PostAccepted, PostRejected, PostLost,
         PersistAccepted, PreserveAmbiguous, Compensate, RecordDispatchFailure,
         DispatcherCrash, NothingToPoll, RecoverIdentity, ObserveProgress,
         ObserveFailure, CountMissingEvidence, ObserveEvidence, SaveFailure,
         FinalSave, PollFails, SessionCrash, FinalizeRelease, FinalizationFails,
         FinalizationUnacknowledged, FinalizeDestroy, RemoveExternal,
         DeleteProject, CleanupFails, RetryDeletion, RetryFinalization,
         RetryRefused, RollbackRefused

LEMMA RejectedNext == TypeInv /\ RejectedTyped /\ [Next]_vars => RejectedTyped'
  <1> SUFFICES ASSUME TypeInv, RejectedTyped, [Next]_vars PROVE RejectedTyped'
    OBVIOUS
  <1>1. ASSUME NEW s \in Session, ObserveInvalidEvidence(s) \/ EvidenceExpires(s)
        PROVE  RejectedTyped'
    <2>1. /\ rejected' = [rejected EXCEPT ![on[s]] = @ \cup {artifact[on[s]]}]
          /\ at[s] # "idle"
      BY <1>1 DEF ObserveInvalidEvidence, EvidenceExpires, EvidenceMissing,
                  RejectEvidence
    <2>2. on[s] \in Op /\ artifact[on[s]] \in ArtifactState
      BY <2>1, SessionFacts DEF TypeInv, GithubTypeOK
    <2> QED
      BY <2>1, <2>2 DEF RejectedTyped
  <1> QED
    BY <1>1, RejectionSteps DEF RejectedTyped

(* Type correctness of the whole lifecycle, the bound on the evidence      *)
(* attempts included.                                                      *)
THEOREM TypeCorrect == Spec => []TypeOK
  <1>1. Init => RejectedTyped
    BY DEF Init, RejectedTyped
  <1> QED
    BY <1>1, TypesHold, RejectedNext, TypeInvTypeOK, PTL DEF Spec

-----------------------------------------------------------------------------
(***************************************************************************)
(* Layer 2: the ledger.  It moves only when a release is promoted or the   *)
(* project is deleted.                                                     *)
(***************************************************************************)
LedgerInv == RouteIsSoleLive /\ ReleaseHistoryIsLinear

LEMMA ReleaseSteps ==
  ASSUME [Next]_vars
  PROVE  \/ UNCHANGED ledgerVars
         \/ \E s \in Session : FinalizeRelease(s) \/ FinalizationUnacknowledged(s)
         \/ \E s \in Session : DeleteProject(s)
  BY ZenonT(60) DEF Next, vars, OnlySession, NothingShared, Dispatch, Reconcile, Finalize,
         Retry, Rollback, Fault, WorkflowStep, Admit, AdmitDeploy, AdmitDestroy,
         AdmitRetry, AdmitRollback, Load, LoadBackfill, LoadRetry, LoadRollback,
         Prepare, SaveIntent, PostAccepted, PostRejected, PostLost,
         PersistAccepted, PreserveAmbiguous, Compensate, RecordDispatchFailure,
         DispatcherCrash, NothingToPoll, RecoverIdentity, ObserveProgress,
         ObserveFailure, ObserveInvalidEvidence, CountMissingEvidence,
         EvidenceExpires, RejectEvidence, ObserveEvidence, SaveFailure, FinalSave,
         PollFails, SessionCrash, FinalizationFails, FinalizeDestroy,
         RemoveExternal, CleanupFails, RetryDeletion, RetryFinalization,
         RetryRefused, RollbackRefused

LEMMA LedgerSteps ==
  ASSUME TypeInv, [Next]_vars
  PROVE  \/ UNCHANGED ledgerVars
         \/ \E o \in Op : Promote(o)
         \/ EraseLedger /\ \E s \in Session : DeleteProject(s)
  <1>1. ASSUME NEW s \in Session, FinalizeRelease(s) \/ FinalizationUnacknowledged(s)
        PROVE  \E o \in Op : Promote(o)
    BY <1>1, SessionFacts DEF FinalizeRelease, FinalizationUnacknowledged
  <1> QED
    BY <1>1, ReleaseSteps DEF DeleteProject

LEMMA PromoteKeepsLedger ==
  ASSUME LedgerTypeOK, LedgerInv, NEW o \in Op, Promote(o)
  PROVE  LedgerInv'
  <1>1. /\ \A p \in Op : generation'[p] = "live" <=> p = o
        /\ route' = o
    BY DEF LedgerTypeOK, Promote
  <1>2. RouteIsSoleLive'
    BY <1>1, OpFacts DEF RouteIsSoleLive
  <1>3. ReleaseHistoryIsLinear'
    <2>1. CASE release' = release
      BY <2>1 DEF LedgerInv, ReleaseHistoryIsLinear
    <2>2. CASE release[o] = "none" /\ release' # release
      <3>1. \A p \in Op : release'[p] =
                  IF p = o THEN "stable"
                  ELSE IF release[p] = "rollback_target" THEN "superseded"
                  ELSE IF release[p] = "stable" THEN "rollback_target"
                  ELSE release[p]
        BY <2>2, PromotedReleases
      <3>2. \A p \in Op : /\ release'[p] = "stable" <=> p = o
                          /\ release'[p] = "rollback_target" <=>
                                p # o /\ release[p] = "stable"
                          /\ release'[p] = "superseded" =>
                                release[p] \in {"rollback_target", "superseded"}
        BY <2>2, <3>1 DEF LedgerTypeOK, ReleaseState
      <3>3. ASSUME NEW p \in Op, release'[p] = "superseded"
            PROVE  \E q \in Op : release'[q] = "rollback_target"
        <4>1. PICK q \in Op : release[q] = "stable"
          BY <3>2, <3>3 DEF LedgerInv, ReleaseHistoryIsLinear
        <4> QED
          BY <2>2, <3>2, <4>1
      <3>4. \E p \in Op : release'[p] = "stable"
        BY <3>2
      <3>5. \A p, q \in Op : /\ release'[p] = "stable" /\ release'[q] = "stable" => p = q
                             /\ release'[p] = "rollback_target"
                                  /\ release'[q] = "rollback_target" => p = q
        BY <3>2 DEF LedgerInv, ReleaseHistoryIsLinear
      <3> QED
        BY <3>3, <3>4, <3>5 DEF ReleaseHistoryIsLinear
    <2> QED
      BY <2>1, <2>2, PromotedReleases
  <1> QED
    BY <1>2, <1>3 DEF LedgerInv

LEMMA LedgerInit0 == Init => LedgerInv
  BY OpFacts DEF Init, LedgerInit, LedgerInv, RouteIsSoleLive,
                 ReleaseHistoryIsLinear

LEMMA LedgerNext == TypeInv /\ LedgerInv /\ [Next]_vars => LedgerInv'
  <1> SUFFICES ASSUME TypeInv, LedgerInv, [Next]_vars PROVE LedgerInv'
    OBVIOUS
  <1>1. CASE UNCHANGED ledgerVars
    BY <1>1 DEF ledgerVars, LedgerInv, RouteIsSoleLive, ReleaseHistoryIsLinear
  <1>2. CASE \E o \in Op : Promote(o)
    BY <1>2, PromoteKeepsLedger DEF TypeInv
  <1>3. CASE EraseLedger
    BY <1>3, OpFacts
    DEF EraseLedger, LedgerInv, RouteIsSoleLive, ReleaseHistoryIsLinear
  <1> QED
    BY <1>1, <1>2, <1>3, LedgerSteps

(* The shape of the ledger: what is LIVE, stable, and to be rolled back to.*)
THEOREM LedgerHolds == Spec => []LedgerInv
  BY TypesHold, LedgerInit0, LedgerNext, PTL DEF Spec

(* The generations marked LIVE are exactly the one the route serves,       *)
(* through every race of finalizations, retries and deletion.              *)
THEOREM SoleLive == Spec => []RouteIsSoleLive
  BY LedgerHolds, PTL DEF LedgerInv

(* One stable release, one rollback target behind it, superseded releases  *)
(* only behind a rollback target: materialization keeps the ledger's shape *)
(* in whatever order operations are finalized.                             *)
THEOREM LinearHistory == Spec => []ReleaseHistoryIsLinear
  BY LedgerHolds, PTL DEF LedgerInv

(* A release never becomes younger.                                        *)
THEOREM OnlyAges == Spec => ReleasesAge
  <1>1. TypeInv /\ [Next]_vars =>
          [\A o \in Op : release'[o] = "none"
                          \/ ReleaseAge(release[o]) <= ReleaseAge(release'[o])]_release
    <2> SUFFICES ASSUME TypeInv, [Next]_vars, NEW o \in Op, release' # release
                 PROVE  release'[o] = "none"
                          \/ ReleaseAge(release[o]) <= ReleaseAge(release'[o])
      OBVIOUS
    <2>1. CASE EraseLedger
      BY <2>1 DEF EraseLedger
    <2>2. ASSUME NEW p \in Op, Promote(p)
          PROVE  ReleaseAge(release[o]) <= ReleaseAge(release'[o])
      <3>1. release[o] \in ReleaseState
        BY DEF TypeInv, LedgerTypeOK
      <3> QED
        BY <2>2, <3>1, PromotedReleases DEF TypeInv, ReleaseAge, ReleaseState
    <2>3. CASE UNCHANGED ledgerVars
      BY <2>3 DEF ledgerVars
    <2> QED
      BY <2>1, <2>2, <2>3, LedgerSteps
  <1> QED
    BY <1>1, TypesHold, PTL DEF Spec, ReleasesAge
=============================================================================
