------------------------ MODULE ProjectConfiguration ------------------------
(***************************************************************************)
(* The configuration of one project (its deployable services, entry point, *)
(* environment variables and managed database) while its owner edits it    *)
(* and deployments of it are admitted, prepared and finalized.             *)
(*                                                                         *)
(* Edits and admissions are transactions under the project's configuration *)
(* lock and therefore atomic to one another.  A finalization and the reset *)
(* of a lost database write the database tier under other locks or none:   *)
(* these writes, and the owner's own, are split in the read of the row and *)
(* the save of the entity.  Only the names of environment variables matter *)
(* here, and of these the ones a managed database would claim.             *)
(***************************************************************************)
EXTENDS Integers, FiniteSets, DatabaseRecovery

CONSTANTS
    Svc,       \* identities of deployable services, never used twice
    NoSvc,
    Dir,       \* service directories
    Key,       \* names of environment variables
    Engine,    \* database engines
    NoEngine,
    Alias,     \* [Engine -> the names its connection is passed under]
    MaxOp,     \* deployments and rollbacks admitted
    MaxEdit    \* edits of the owner

ASSUME ConfigurationAssumption ==
    /\ NoSvc \notin Svc
    /\ NoEngine \notin Engine
    /\ Dir \cap {"absent", "removed", "none"} = {}
    /\ Alias \in [Engine -> SUBSET Key]
    /\ MaxOp \in Nat
    /\ MaxEdit \in Nat

Op == 1 .. MaxOp

VARIABLES
    place,     \* [Svc -> its service directory]
    port,      \* [Svc -> the directory its port was resolved in]
    entry,     \* applicationEntryPointServiceId
    env,       \* [Svc -> its active variables]
    tier,      \* the row of project_database_tiers
    pending,   \* [Writer -> the tier it read and the one it will save]
    phase,     \* [Op -> how far the operation is]
    admitted,  \* the configuration captured by the active operation
    report,    \* what it knows of the tier since its reconciliation
    built,     \* services with a build-target revision
    release,   \* [Op -> the runtime configuration it dispatched]
    overlapped, \* some two writers of the tier overlapped
    edits      \* edits made so far

configVars    == <<place, port, entry, env, edits>>
tierVars      == <<tier, pending, overlapped>>
operationVars == <<phase, admitted, report, built, release>>
vars == <<configVars, tierVars, operationVars>>

(***************************************************************************)
(* engine is NoEngine unless the provider is MANAGED.  ready: the status   *)
(* is READY, with the storage and secret identities of its runtime.        *)
(***************************************************************************)
Place  == Dir \cup {"absent", "removed"}
Tier   == [engine : Engine \cup {NoEngine}, attached : Svc \cup {NoSvc}, ready : BOOLEAN]
NoTier == [engine |-> NoEngine, attached |-> NoSvc, ready |-> FALSE]

Writer  == {"edit", "promotion", "reset"}
Write   == [mine : Tier, found : Tier, by : 0 .. MaxOp]
NoWrite == [mine |-> NoTier, found |-> NoTier, by |-> -1]

Phase  == {"none", "admitted", "resolved", "sealed", "dispatched",
           "stranded", "released", "failed"}
Active == {"admitted", "resolved", "sealed", "dispatched"}

Configuration == [place : [Svc -> Place], env : [Svc -> SUBSET Key],
                  entry : Svc \cup {NoSvc}, tier : Tier]
NoConfiguration == [place |-> [s \in Svc |-> "absent"], env |-> [s \in Svc |-> {}],
                    entry |-> NoSvc, tier |-> NoTier]

(* keys: the variables of the service the database is attached to.         *)
Release   == [services : SUBSET Svc, entry : Svc \cup {NoSvc}, keys : SUBSET Key,
              engine : Engine \cup {NoEngine}, attached : Svc \cup {NoSvc}]
NoRelease == [services |-> {}, entry |-> NoSvc, keys |-> {},
              engine |-> NoEngine, attached |-> NoSvc]

Deployable(places) == {s \in Svc : places[s] \in Dir}
Services == Deployable(place)

TypeOK ==
    /\ place \in [Svc -> Place]
    /\ port \in [Svc -> Dir \cup {"none"}]
    /\ entry \in Svc
    /\ env \in [Svc -> SUBSET Key]
    /\ tier \in Tier
    /\ pending \in [Writer -> Write \cup {NoWrite}]
    /\ phase \in [Op -> Phase]
    /\ admitted \in Configuration
    /\ report \in {"none", "current", "stale"}
    /\ built \subseteq Svc
    /\ release \in [Op -> Release]
    /\ overlapped \in BOOLEAN
    /\ edits \in 0 .. MaxEdit

(* createProject: some services, one of them the entry point.              *)
Init ==
    /\ place \in [Svc -> Dir \cup {"absent"}]
    /\ port = [s \in Svc |-> "none"]
    /\ entry \in Services
    /\ env = [s \in Svc |-> {}]
    /\ tier = NoTier
    /\ pending = [w \in Writer |-> NoWrite]
    /\ phase = [o \in Op |-> "none"]
    /\ admitted = NoConfiguration
    /\ report = "none"
    /\ built = {}
    /\ release = [o \in Op |-> NoRelease]
    /\ overlapped = FALSE
    /\ edits = 0

-----------------------------------------------------------------------------
(***************************************************************************)
(* Edits under the configuration lock, which only an edit of the tier      *)
(* holds across steps.                                                     *)
(***************************************************************************)
Unlocked == pending["edit"] = NoWrite

Edit ==
    /\ Unlocked
    /\ edits < MaxEdit
    /\ edits' = edits + 1

ActiveOps == {o \in Op : phase[o] \in Active}

CreateService(s, d) ==
    /\ Edit
    /\ place[s] = "absent"
    /\ place' = [place EXCEPT ![s] = d]
    /\ UNCHANGED <<port, entry, env, tierVars, operationVars>>

(* updateDeployableService; names and positions are left out.              *)
MoveService(s, d) ==
    /\ Edit
    /\ place[s] \in Dir \ {d}
    /\ place' = [place EXCEPT ![s] = d]
    /\ port' = [port EXCEPT ![s] = "none"]
    /\ UNCHANGED <<entry, env, tierVars, operationVars>>

HasHistory(s) ==                  \* mutant: build targets are forgotten with the operation
    \E o \in Op : phase[o] = "released" /\ s \in release[o].services

(***************************************************************************)
(* The code asks for a revision of a released generation; the foreign key  *)
(* FK_build_target_service also keeps the services of every operation that *)
(* got as far as its build targets.                                        *)
(***************************************************************************)
HasRevision(s) ==
    \/ s \in built
    \/ \E o \in Op : phase[o] = "released" /\ s \in release[o].services

RemovableWhenUnattached(s) ==     \* mutant: the entry point is not asked for
    /\ ActiveOps = {}
    /\ Cardinality(Services) > 1
    /\ tier.attached # s

Removable(s) ==
    /\ ActiveOps = {}
    /\ Cardinality(Services) > 1
    /\ entry # s
    /\ tier.attached # s

DeleteService(s) ==
    /\ Edit
    /\ s \in Services
    /\ Removable(s)
    /\ ~HasRevision(s)
    /\ place' = [place EXCEPT ![s] = "removed"]
    /\ port' = [port EXCEPT ![s] = "none"]
    /\ env' = [env EXCEPT ![s] = {}]
    /\ UNCHANGED <<entry, tierVars, operationVars>>

(* updateProject.                                                          *)
SelectEntryPoint(s) ==
    /\ Edit
    /\ s \in Services \ {entry}
    /\ entry' = s
    /\ UNCHANGED <<place, port, env, tierVars, operationVars>>

(* updateRepository and updateBranch forget the resolved ports.            *)
ChangeSource ==
    /\ Edit
    /\ port # [s \in Svc |-> "none"]
    /\ port' = [s \in Svc |-> "none"]
    /\ UNCHANGED <<place, entry, env, tierVars, operationVars>>

-----------------------------------------------------------------------------
(***************************************************************************)
(* Environment variables.  A managed database owns the aliases of its      *)
(* engine on the service it is attached to.                                *)
(***************************************************************************)
AliasesOf(engine) == IF engine \in Engine THEN Alias[engine] ELSE {}

NothingOwned(s) == {}             \* mutant: the attached database is not asked for

Owned(s) == IF tier.attached = s THEN AliasesOf(tier.engine) ELSE {}

(* createEnvVar, and bulkUpsertEnvVars, which ignores the owned names.     *)
UpsertEnv(s, keys) ==
    /\ Edit
    /\ s \in Services
    /\ keys \cap Owned(s) = {}
    /\ ~(keys \subseteq env[s])
    /\ env' = [env EXCEPT ![s] = @ \cup keys]
    /\ UNCHANGED <<place, port, entry, tierVars, operationVars>>

(* updateEnvVar under a new name.                                          *)
RenameEnv(s, old, new) ==
    /\ Edit
    /\ old \in env[s]
    /\ new \notin env[s] \cup Owned(s)
    /\ env' = [env EXCEPT ![s] = (@ \ {old}) \cup {new}]
    /\ UNCHANGED <<place, port, entry, tierVars, operationVars>>

DeleteEnv(s, key) ==
    /\ Edit
    /\ key \in env[s]
    /\ env' = [env EXCEPT ![s] = @ \ {key}]
    /\ UNCHANGED <<place, port, entry, tierVars, operationVars>>

-----------------------------------------------------------------------------
(***************************************************************************)
(* Writes of the tier.  save() reads the row again and updates the columns *)
(* in which the entity differs from what it found: either the row of now,  *)
(* or, when another commit slips in between, the row the writer had read.  *)
(***************************************************************************)
Column(mine, found, now) == IF mine # found THEN mine ELSE now

Merged(w) ==
    [engine   |-> Column(w.mine.engine, w.found.engine, tier.engine),
     attached |-> Column(w.mine.attached, w.found.attached, tier.attached),
     ready    |-> Column(w.mine.ready, w.found.ready, tier.ready)]

BeginWrite(w, mine, by) ==
    /\ pending[w] = NoWrite
    /\ pending' = [pending EXCEPT ![w] = [mine |-> mine, found |-> tier, by |-> by]]
    /\ overlapped' = (overlapped \/ \E v \in Writer : pending[v] # NoWrite)
    /\ UNCHANGED tier

(* The report a dispatcher holds is stale once updatedAt has moved.        *)
Outdated(row) == IF report = "current" /\ row # tier THEN "stale" ELSE report

CommitWrite(w) ==
    /\ pending[w] # NoWrite
    /\ tier' \in {pending[w].mine, Merged(pending[w])}
    /\ pending' = [pending EXCEPT ![w] = NoWrite]
    /\ UNCHANGED overlapped

Established == tier.engine # NoEngine /\ tier.ready

KeepsAnyEngine(engine) == TRUE    \* mutant: the engine of an established database may change

KeepsEngine(engine) == Established => engine = tier.engine

Attachable(engine, s) ==
    /\ s \in Services
    /\ env[s] \cap Alias[engine] = {}

(* DatabaseTierService.update with provider MANAGED, and with NONE.        *)
BeginManagedTier(engine, s) ==
    /\ Edit
    /\ Attachable(engine, s)
    /\ KeepsEngine(engine)
    /\ BeginWrite("edit", [engine |-> engine, attached |-> s, ready |-> Established], 0)
    /\ UNCHANGED <<place, port, entry, env, operationVars>>

BeginNoTier ==
    /\ Edit
    /\ tier.engine # NoEngine
    /\ KeepsEngine(NoEngine)
    /\ BeginWrite("edit", NoTier, 0)
    /\ UNCHANGED <<place, port, entry, env, operationVars>>

CommitTierEdit ==
    /\ CommitWrite("edit")
    /\ report' = Outdated(tier')
    /\ UNCHANGED <<configVars, phase, admitted, built, release>>

-----------------------------------------------------------------------------
(***************************************************************************)
(* Operations.                                                             *)
(***************************************************************************)
IsNextOp(o) ==
    /\ phase[o] = "none"
    /\ \A p \in Op : p < o => phase[p] # "none"
    /\ ActiveOps = {}

(* admitLifecycleOperation with captureAdmittedConfiguration.              *)
AdmitDeploy(o) ==
    /\ Unlocked
    /\ IsNextOp(o)
    /\ entry \in Services
    /\ phase' = [phase EXCEPT ![o] = "admitted"]
    /\ admitted' = [place |-> place, env |-> env, entry |-> entry, tier |-> tier]
    /\ report' = "none"
    /\ UNCHANGED <<configVars, tierVars, built, release>>

(* A rollback takes the configuration of the release it restores.          *)
AdmitRollback(o, target) ==
    /\ Unlocked
    /\ IsNextOp(o)
    /\ phase[target] = "released"
    /\ entry \in release[target].services
    /\ phase' = [phase EXCEPT ![o] = "dispatched"]
    /\ release' = [release EXCEPT ![o] = [release[target] EXCEPT !.entry = entry]]
    /\ UNCHANGED <<configVars, tierVars, admitted, report, built>>

(* The build targets are persisted, then the reconciliation of the managed *)
(* database reads the tier.                                                *)
Resolve(o) ==
    /\ phase[o] = "admitted"
    /\ phase' = [phase EXCEPT ![o] = "resolved"]
    /\ built' = built \cup Deployable(admitted.place)
    /\ report' = "current"
    /\ UNCHANGED <<configVars, tierVars, admitted, release>>

(* The owner asked to start afresh, and the report allows it: see          *)
(* DatabaseRecovery.                                                       *)
BeginReset(o) ==
    /\ phase[o] = "resolved"
    /\ report = "current"
    /\ [managed |-> tier.engine # NoEngine, expected |-> tier.ready] \in ResettableTiers
    /\ BeginWrite("reset", [tier EXCEPT !.ready = FALSE], o)
    /\ UNCHANGED <<configVars, operationVars>>

CommitReset ==
    /\ CommitWrite("reset")
    /\ report' = Outdated(tier')
    /\ UNCHANGED <<configVars, phase, admitted, built, release>>

SealById(s) ==                 \* mutant: the directory is not compared
    s \in Services \cap Deployable(admitted.place)

StillThere(s) ==
    /\ s \in Services
    /\ place[s] = admitted.place[s]

(* sealResolvedDeploymentConfiguration.                                    *)
Seal(o) ==
    /\ Unlocked
    /\ phase[o] = "resolved"
    /\ pending["reset"] = NoWrite
    /\ phase' = [phase EXCEPT ![o] = "sealed"]
    /\ port' = [s \in Svc |-> IF StillThere(s) THEN admitted.place[s] ELSE port[s]]
    /\ UNCHANGED <<place, entry, env, edits, tierVars, admitted, report, built, release>>

AdmittedRelease ==
    LET db == admitted.tier
    IN  [services |-> Deployable(admitted.place), entry |-> admitted.entry,
         keys |-> IF db.attached \in Svc THEN admitted.env[db.attached] ELSE {},
         engine |-> db.engine, attached |-> db.attached]

(* What the dispatcher captured ends with its request.                     *)
Forget ==
    /\ admitted' = NoConfiguration
    /\ report' = "none"

Consistent(r) ==
    /\ r.attached \in r.services \cup {NoSvc}
    /\ r.keys \cap AliasesOf(r.engine) = {}

(* runtimeConfiguration, and the dispatch of the workflow.                 *)
Dispatch(o) ==
    /\ phase[o] = "sealed"
    /\ Consistent(AdmittedRelease)
    /\ phase' = [phase EXCEPT ![o] = "dispatched"]
    /\ release' = [release EXCEPT ![o] = AdmittedRelease]
    /\ Forget
    /\ UNCHANGED <<configVars, tierVars, built>>

(* Any stage of the dispatch fails, or the workflow does.                  *)
Fail(o) ==
    /\ phase[o] \in Active
    /\ pending["reset"] = NoWrite
    /\ \A w \in Writer : pending[w].by # o
    /\ phase' = [phase EXCEPT ![o] = "failed"]
    /\ Forget
    /\ UNCHANGED <<configVars, tierVars, built, release>>

-----------------------------------------------------------------------------
(***************************************************************************)
(* Finalization of a verified release, at once or by a later retry.        *)
(***************************************************************************)
HasDatabase(o) == release[o].attached # NoSvc

BeginPromotion(o) ==
    /\ phase[o] \in {"dispatched", "stranded"}
    /\ HasDatabase(o) => tier.engine = release[o].engine
    /\ BeginWrite("promotion",
                  IF HasDatabase(o)
                  THEN [engine |-> tier.engine, attached |-> release[o].attached, ready |-> TRUE]
                  ELSE tier, o)
    /\ UNCHANGED <<configVars, operationVars>>

CommitPromotion ==
    LET o == pending["promotion"].by
    IN  /\ pending["promotion"] # NoWrite
        /\ IF HasDatabase(o) THEN CommitWrite("promotion")
           ELSE /\ pending' = [pending EXCEPT !["promotion"] = NoWrite]
                /\ UNCHANGED <<tier, overlapped>>
        /\ phase' = [phase EXCEPT ![o] = "released"]
        /\ report' = Outdated(tier')
        /\ UNCHANGED <<configVars, admitted, built, release>>

(* The engine was changed meanwhile, or the transaction fails.             *)
FailPromotion(o) ==
    /\ phase[o] \in {"dispatched", "stranded"}
    /\ pending["promotion"].by \in {-1, o}
    /\ phase' = [phase EXCEPT ![o] = "stranded"]
    /\ pending' = [pending EXCEPT !["promotion"] = NoWrite]
    /\ UNCHANGED <<configVars, tier, overlapped, admitted, report, built, release>>

-----------------------------------------------------------------------------
EditService(s) ==
    \/ \E d \in Dir : CreateService(s, d) \/ MoveService(s, d)
    \/ DeleteService(s)
    \/ SelectEntryPoint(s)

EditEnv(s) ==
    \/ \E keys \in SUBSET Key : UpsertEnv(s, keys)
    \/ \E old, new \in Key : RenameEnv(s, old, new)
    \/ \E key \in Key : DeleteEnv(s, key)

EditTier ==
    \/ \E engine \in Engine, s \in Svc : BeginManagedTier(engine, s)
    \/ BeginNoTier
    \/ CommitTierEdit

Operate(o) ==
    \/ AdmitDeploy(o)
    \/ \E target \in Op : AdmitRollback(o, target)
    \/ Resolve(o)
    \/ BeginReset(o)
    \/ Seal(o)
    \/ Dispatch(o)
    \/ Fail(o)
    \/ BeginPromotion(o)
    \/ FailPromotion(o)

Next ==
    \/ \E s \in Svc : EditService(s) \/ EditEnv(s)
    \/ ChangeSource
    \/ EditTier
    \/ \E o \in Op : Operate(o)
    \/ CommitReset
    \/ CommitPromotion

Spec == Init /\ [][Next]_vars

-----------------------------------------------------------------------------
(***************************************************************************)
(* Properties.                                                             *)
(***************************************************************************)

(* The services of a release that may still be promoted or rolled back to  *)
(* exist: what a deployment names is never removed under it, neither while *)
(* it runs nor between its failed finalization and the retry.              *)
ReleasedServicesExist ==
    \A o \in Op : phase[o] \in {"dispatched", "stranded", "released"} =>
        release[o].services \subseteq Services

(* The entry point is a service of the project, and that of a release one  *)
(* of its own: an application URL is never lost to an edit.                *)
EntryPointServed ==
    /\ entry \in Services
    /\ \A o \in Op : phase[o] \in {"dispatched", "stranded", "released"} =>
        release[o].entry \in release[o].services

(* A persisted port was resolved in the directory its service has now,     *)
(* although the resolution ran on a configuration captured earlier.        *)
PortOfItsDirectory ==
    \A s \in Svc : port[s] # "none" => port[s] = place[s]

(* The aliases of the attached database and the variables of its service   *)
(* come in conflict by no edit: only a save of a release's own attachment  *)
(* may do that, or one that overlapped it.                                 *)
Conflict ==
    \E s \in Svc : tier.attached = s /\ env[s] \cap AliasesOf(tier.engine) # {}

EditsKeepOwnership ==
    [][~Conflict /\ Conflict' => \/ pending["promotion"] # NoWrite /\ pending'["promotion"] = NoWrite
                                 \/ overlapped]_vars

(* Until two writers overlap, an established database keeps its engine and *)
(* its identity unless the owner resets it.                                *)
DatabaseKept ==
    [][Established /\ ~overlapped =>
          \/ tier'.engine = tier.engine /\ tier'.ready
          \/ tier'.engine = tier.engine /\ pending["reset"] # NoWrite]_vars
=============================================================================
