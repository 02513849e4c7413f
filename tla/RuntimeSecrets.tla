--------------------------- MODULE RuntimeSecrets ---------------------------
(***************************************************************************)
(* The runtime secrets of one project environment in AWS Secrets Manager:  *)
(* one secret per service, one version per configuration.  The dispatcher  *)
(* of a deployment materializes the version of every service before it     *)
(* asks GitHub for a run, and takes its changes back when no run can exist.*)
(* A release pins versions by id, so older releases keep reading theirs.   *)
(*                                                                         *)
(* Operations follow one another, as Deployment shows (OneUnderWay).       *)
(* Rollbacks materialize nothing and read versions pinned before.          *)
(***************************************************************************)
EXTENDS Integers

CONSTANTS
    Services,   \* number of services, in the order of their rows
    Token,      \* version ids: hashes of a service's configuration
    NoToken,
    MaxOp       \* operations admitted

Service == 1 .. Services

ASSUME SecretsAssumption ==
    /\ Services \in Nat
    /\ NoToken \notin Token
    /\ MaxOp \in Nat

VARIABLES
    secret,     \* [Service -> the secret in AWS]
    operation,  \* the operation under way
    change,     \* [Service -> the provisional change it has recorded]
    pins,       \* [Service -> versions a run or a release may read]
    before,     \* [Service -> AWSCURRENT when the operation was admitted]
    doubtful,   \* services with a call of the operation that had no answer
    ops         \* operations admitted so far

secretVars == <<secret, pins>>
ghostVars  == <<before, doubtful, ops>>
vars       == <<secret, operation, change, pins, before, doubtful, ops>>

-----------------------------------------------------------------------------
Stages == {"idle", "materializing", "ready", "compensating", "refused", "destroying"}

Secret == [state : {"none", "active", "pending"},
           current : Token \cup {NoToken}, previous : Token \cup {NoToken},
           versions : SUBSET Token]

Operation == [at : Stages, config : [Service -> Token \cup {NoToken}], next : 0 .. Services + 1]

Change == [kind : {"none", "created", "activated"}, previous : Token \cup {NoToken}]

NoSecret == [state |-> "none", current |-> NoToken, previous |-> NoToken, versions |-> {}]
NoChange == [kind |-> "none", previous |-> NoToken]
NoConfig == [s \in Service |-> NoToken]

TypeOK ==
    /\ secret \in [Service -> Secret]
    /\ operation \in Operation
    /\ change \in [Service -> Change]
    /\ pins \in [Service -> SUBSET Token]
    /\ before \in [Service -> Token \cup {NoToken}]
    /\ doubtful \subseteq Service
    /\ ops \in 0 .. MaxOp

Current == [s \in Service |-> secret[s].current]

Init ==
    /\ secret = [s \in Service |-> NoSecret]
    /\ operation = [at |-> "idle", config |-> NoConfig, next |-> 1]
    /\ change = [s \in Service |-> NoChange]
    /\ pins = [s \in Service |-> {}]
    /\ before = NoConfig
    /\ doubtful = {}
    /\ ops = 0

-----------------------------------------------------------------------------
(***************************************************************************)
(* Secrets Manager, as the port calls it: what one secret becomes.         *)
(***************************************************************************)
Created(t) == [state |-> "active", current |-> t, previous |-> NoToken, versions |-> {t}]

(* UpdateSecretVersionStage moves AWSCURRENT, and AWSPREVIOUS after it.    *)
CanMove(x, to, from) == x.state = "active" /\ x.current = from /\ to \in x.versions
Moved(x, to) == [x EXCEPT !.current = to, !.previous = x.current]

(* PutSecretValue ignores a token that the secret already has a version of.*)
PutInto(x, t) ==
    IF t \in x.versions THEN x
    ELSE [x EXCEPT !.current = t, !.previous = x.current, !.versions = @ \cup {t}]

(* A described secret lists the versions that carry a stage.               *)
Labelled(x) == {x.current, x.previous} \ {NoToken}

(* A secret an operator scheduled for deletion.                            *)
ScheduleDeletion(s) ==
    /\ secret[s].state = "active"
    /\ secret' = [secret EXCEPT ![s].state = "pending"]
    /\ UNCHANGED <<operation, change, pins, ghostVars>>

-----------------------------------------------------------------------------
(***************************************************************************)
(* Deployment: materialize, service by service.  A call has an answer, or  *)
(* it is done and its answer is lost, or it fails (MaterializationFails).  *)
(***************************************************************************)
AdmitDeploy(config) ==
    /\ operation.at = "idle"
    /\ ops < MaxOp
    /\ operation' = [at |-> "materializing", config |-> config, next |-> 1]
    /\ change' = [s \in Service |-> NoChange]
    /\ before' = Current
    /\ doubtful' = {}
    /\ ops' = ops + 1
    /\ UNCHANGED secretVars

Materializing(s) == operation.at = "materializing" /\ operation.next = s

(* The change of s is answered and recorded, or lost and not recorded.     *)
Answered(s, x, c) ==
    /\ secret' = [secret EXCEPT ![s] = x]
    /\ \/ /\ operation' = [operation EXCEPT !.next = s + 1]
          /\ change' = [change EXCEPT ![s] = c]
          /\ UNCHANGED doubtful
       \/ /\ operation' = [operation EXCEPT !.at = "compensating", !.next = Services]
          /\ doubtful' = doubtful \cup {s}
          /\ UNCHANGED change
    /\ UNCHANGED <<pins, before, ops>>

NothingToChange(s) ==
    /\ Materializing(s)
    /\ \/ operation.config[s] = NoToken
       \/ secret[s].state = "active" /\ secret[s].current = operation.config[s]
    /\ operation' = [operation EXCEPT !.next = s + 1]
    /\ UNCHANGED <<secretVars, change, ghostVars>>

CreateOrRestore(s) ==             \* mutant: a restored secret counts as created
    /\ Materializing(s)
    /\ operation.config[s] # NoToken
    /\ \/ /\ secret[s].state = "none"
          /\ Answered(s, Created(operation.config[s]), [NoChange EXCEPT !.kind = "created"])
       \/ /\ secret[s].state = "pending"
          /\ Answered(s, [PutInto(secret[s], operation.config[s]) EXCEPT !.state = "active"],
                      [NoChange EXCEPT !.kind = "created"])

CreateSecret(s) ==
    /\ Materializing(s)
    /\ operation.config[s] # NoToken
    /\ secret[s].state = "none"
    /\ Answered(s, Created(operation.config[s]), [NoChange EXCEPT !.kind = "created"])

(* The materialization goes on when the secret is seen active again.       *)
RestoreSecret(s) ==
    /\ Materializing(s)
    /\ operation.config[s] # NoToken
    /\ secret[s].state = "pending"
    /\ secret' = [secret EXCEPT ![s].state = "active"]
    /\ UNCHANGED <<operation, change, pins, ghostVars>>

ActivateRecorded(s, previous) ==
    /\ Materializing(s)
    /\ secret[s].state = "active"
    /\ LET t == operation.config[s]
       IN  /\ t \notin {NoToken, secret[s].current}
           /\ Answered(s, IF t \in Labelled(secret[s]) THEN Moved(secret[s], t)
                                                       ELSE PutInto(secret[s], t),
                       [kind |-> "activated", previous |-> previous])

ActivateOverPrevious(s) ==        \* mutant: records the version staged AWSPREVIOUS
    ActivateRecorded(s, secret[s].previous)

ActivateVersion(s) == ActivateRecorded(s, secret[s].current)

-----------------------------------------------------------------------------
(***************************************************************************)
(* The end of the dispatch.                                                *)
(***************************************************************************)
Materialized ==
    /\ Materializing(Services + 1)
    /\ operation' = [operation EXCEPT !.at = "ready"]
    /\ UNCHANGED <<secretVars, change, ghostVars>>

(* A failing call, revision, input or dispatch that GitHub refused.        *)
DispatchFails ==
    /\ operation.at \in {"materializing", "ready"}
    /\ operation' = [operation EXCEPT !.at = "compensating", !.next = Services]
    /\ UNCHANGED <<secretVars, change, ghostVars>>

Idle == [at |-> "idle", config |-> NoConfig, next |-> 1]

(* GitHub accepted the run, or may have: nothing is taken back.            *)
Dispatched ==
    /\ operation.at = "ready"
    /\ operation' = Idle
    /\ pins' = [s \in Service |-> pins[s] \cup ({operation.config[s]} \ {NoToken})]
    /\ UNCHANGED <<secret, change, ghostVars>>

(***************************************************************************)
(* compensate: the recorded changes, last first; what fails is counted and *)
(* the next one is tried.                                                  *)
(***************************************************************************)
Compensating(s) == operation.at = "compensating" /\ operation.next = s

TakenBack(s) ==
    IF change[s].kind = "created" THEN NoSecret
    ELSE Moved(secret[s], change[s].previous)

CanTakeBack(s) ==
    \/ change[s].kind = "created" /\ secret[s].state # "none"
    \/ change[s].kind = "activated" /\ CanMove(secret[s], change[s].previous, operation.config[s])

TakeBack(s) ==
    /\ Compensating(s)
    /\ CanTakeBack(s)
    /\ secret' = [secret EXCEPT ![s] = TakenBack(s)]
    /\ operation' = [operation EXCEPT !.next = s - 1]
    /\ UNCHANGED <<change, pins, ghostVars>>

(* Nothing recorded, or the version is not AWSCURRENT: nothing to do.      *)
NothingToTakeBack(s) ==
    /\ Compensating(s)
    /\ \/ change[s].kind = "none"
       \/ change[s].kind = "activated" /\ secret[s].current # operation.config[s]
    /\ operation' = [operation EXCEPT !.next = s - 1]
    /\ UNCHANGED <<secretVars, change, ghostVars>>

TakingBackFails(s) ==
    /\ Compensating(s)
    /\ change[s].kind # "none"
    /\ operation' = [operation EXCEPT !.next = s - 1]
    /\ doubtful' = doubtful \cup {s}
    /\ UNCHANGED <<secretVars, change, before, ops>>

Compensated ==
    /\ Compensating(0)
    /\ operation' = [operation EXCEPT !.at = "refused"]
    /\ UNCHANGED <<secretVars, change, ghostVars>>

CaptureFailure ==
    /\ operation.at = "refused"
    /\ operation' = Idle
    /\ UNCHANGED <<secretVars, change, ghostVars>>

-----------------------------------------------------------------------------
(***************************************************************************)
(* The run of a destroy: once Terraform has stopped the tasks it deletes   *)
(* the secrets of the destroyed services one by one, and may stop anywhere.*)
(***************************************************************************)
AdmitDestroy ==
    /\ operation.at = "idle"
    /\ ops < MaxOp
    /\ operation' = [Idle EXCEPT !.at = "destroying"]
    /\ ops' = ops + 1
    /\ UNCHANGED <<secretVars, change, before, doubtful>>

DeleteSecret(s) ==
    /\ operation.at = "destroying"
    /\ secret[s].state # "none"
    /\ secret' = [secret EXCEPT ![s] = NoSecret]
    /\ pins' = [pins EXCEPT ![s] = {}]
    /\ UNCHANGED <<operation, change, ghostVars>>

DestroyEnds ==
    /\ operation.at = "destroying"
    /\ operation' = Idle
    /\ UNCHANGED <<secretVars, change, ghostVars>>

(* The process dies: the operation stays where it is (Deployment's crash), *)
(* so no other one follows.                                                *)
Next ==
    \/ \E config \in [Service -> Token \cup {NoToken}] : AdmitDeploy(config)
    \/ \E s \in Service :
          \/ NothingToChange(s) \/ CreateSecret(s) \/ RestoreSecret(s) \/ ActivateVersion(s)
          \/ TakeBack(s) \/ NothingToTakeBack(s) \/ TakingBackFails(s)
          \/ DeleteSecret(s) \/ ScheduleDeletion(s)
    \/ Materialized \/ DispatchFails \/ Dispatched
    \/ Compensated \/ CaptureFailure
    \/ AdmitDestroy \/ DestroyEnds

Spec == Init /\ [][Next]_vars

-----------------------------------------------------------------------------
(***************************************************************************)
(* Safety.                                                                 *)
(***************************************************************************)

(* A version that a dispatched run or a release may read by its id stays,  *)
(* whatever later operations change and take back, until a destroy run     *)
(* deletes the secret.                                                     *)
PinnedVersionsExist == \A s \in Service : pins[s] \subseteq secret[s].versions

(* A deployment that was refused leaves the current version of a service   *)
(* as it found it (or no secret, if there was none), but for the services  *)
(* whose calls failed or lost their answer.                                *)
RefusalRestores ==
    operation.at = "refused" =>
        \A s \in Service \ doubtful : secret[s].current = before[s]

=============================================================================
