--------------------- MODULE ProjectConfigurationProofs ---------------------
(***************************************************************************)
(* The properties of ProjectConfiguration, for every set of services,      *)
(* variables and engines and any number of operations and edits.           *)
(*                                                                         *)
(* Two invariants carry them.  ServiceInv follows the services from the    *)
(* admitted configuration through the build targets to the release; TierInv*)
(* says what a writer of the database tier holds until another overlaps it.*)
(* The end is about DatabaseRecovery, whose operators have no state.       *)
(***************************************************************************)
EXTENDS ProjectConfiguration, TLAPS

-----------------------------------------------------------------------------
(***************************************************************************)
(* What the writes of the tier do.                                         *)
(***************************************************************************)
LEMMA BeginFacts ==
    ASSUME TypeOK, NEW w \in Writer, NEW mine \in Tier, NEW by \in 0 .. MaxOp,
           BeginWrite(w, mine, by)
    PROVE  /\ pending' \in [Writer -> Write \cup {NoWrite}]
           /\ pending[w] = NoWrite /\ pending'[w] # NoWrite
           /\ pending'[w].mine = mine /\ pending'[w].found = tier /\ pending'[w].by = by
           /\ \A v \in Writer \ {w} : pending'[v] = pending[v]
           /\ overlapped' \in BOOLEAN /\ (overlapped => overlapped')
           /\ ~overlapped' => \A v \in Writer : pending[v] = NoWrite
           /\ tier' = tier
<1> DEFINE new == [mine |-> mine, found |-> tier, by |-> by]
           other == \E v \in Writer : pending[v] # NoWrite
<1>1. new \in Write
  BY DEF TypeOK, Write
<1>2. new # NoWrite
  BY ConfigurationAssumption DEF NoWrite
<1>3. pending[w] = NoWrite /\ pending' = [pending EXCEPT ![w] = new] /\ tier' = tier
  BY DEF BeginWrite
<1>4. overlapped' = (overlapped \/ other)
  BY DEF BeginWrite
<1>5. overlapped \in BOOLEAN /\ other \in BOOLEAN
  BY DEF TypeOK
<1>6. /\ pending' \in [Writer -> Write \cup {NoWrite}] /\ pending'[w] = new
      /\ \A v \in Writer \ {w} : pending'[v] = pending[v]
  <2> HIDE DEF new
  <2> QED
    BY <1>1, <1>3 DEF TypeOK
<1>7. overlapped' \in BOOLEAN /\ (overlapped => overlapped') /\ (other => overlapped')
  <2> HIDE DEF other
  <2> QED
    BY <1>4, <1>5
<1> QED
  BY <1>2, <1>3, <1>6, <1>7

LEMMA CommitFacts ==
    ASSUME TypeOK, NEW w \in Writer, CommitWrite(w)
    PROVE  /\ pending' \in [Writer -> Write \cup {NoWrite}]
           /\ pending[w] \in Write /\ pending'[w] = NoWrite
           /\ \A v \in Writer \ {w} : pending'[v] = pending[v]
           /\ tier' \in Tier
           /\ pending[w].found = tier => tier' = pending[w].mine
           /\ overlapped' = overlapped
<1>1. pending[w] \in Write /\ pending' = [pending EXCEPT ![w] = NoWrite] /\ overlapped' = overlapped
  BY DEF CommitWrite, TypeOK
<1>2. pending[w].mine \in Tier /\ pending[w].found \in Tier /\ tier \in Tier
  BY <1>1 DEF Write, TypeOK
<1>3. Merged(pending[w]) \in Tier
  BY <1>2 DEF Merged, Column, Tier
<1>4. pending[w].found = tier => Merged(pending[w]) = pending[w].mine
  BY <1>2 DEF Merged, Column, Tier
<1>5. tier' \in {pending[w].mine, Merged(pending[w])}
  BY DEF CommitWrite
<1> QED
  BY <1>1, <1>2, <1>3, <1>4, <1>5 DEF TypeOK

LEMMA NoTierTyped == NoTier \in Tier /\ NoTier.attached = NoSvc /\ NoTier.engine = NoEngine
  BY DEF NoTier, Tier

(* The tier that an edit or a promotion writes.                            *)
LEMMA WrittenTyped ==
    ASSUME TypeOK
    PROVE  /\ \A engine \in Engine, s \in Svc :
                [engine |-> engine, attached |-> s, ready |-> Established] \in Tier
           /\ \A o \in Op :
                [engine |-> tier.engine, attached |-> release[o].attached, ready |-> TRUE] \in Tier
<1>1. Established \in BOOLEAN
  BY DEF TypeOK, Tier, Established
<1>2. \A b \in BOOLEAN, engine \in Engine, s \in Svc :
         [engine |-> engine, attached |-> s, ready |-> b] \in Tier
  BY DEF Tier
<1>3. \A o \in Op : release[o].attached \in Svc \cup {NoSvc}
  BY DEF TypeOK, Release
<1> QED
  BY <1>1, <1>2, <1>3 DEF TypeOK, Tier

-----------------------------------------------------------------------------
(***************************************************************************)
(* Types.                                                                  *)
(***************************************************************************)

(* The writer of a promotion is that of an operation that may still be     *)
(* promoted.                                                               *)
PromotionPlaced ==
    pending["promotion"] # NoWrite =>
        /\ pending["promotion"].by \in Op
        /\ phase[pending["promotion"].by] \in {"dispatched", "stranded"}

TypeInv == TypeOK /\ PromotionPlaced

LEMMA EditTyped == TypeOK /\ Edit => edits' \in 0 .. MaxEdit
  BY ConfigurationAssumption DEF TypeOK, Edit

LEMMA EditServiceTyped ==
    ASSUME TypeInv, NEW s \in Svc, EditService(s)
    PROVE  TypeInv'
<1>1. edits' \in 0 .. MaxEdit
  BY EditTyped DEF EditService, CreateService, MoveService, DeleteService, SelectEntryPoint, TypeInv
<1>2. UNCHANGED <<tier, pending, overlapped, phase, admitted, report, built, release>>
  BY DEF EditService, CreateService, MoveService, DeleteService, SelectEntryPoint, tierVars,
     operationVars
<1>3. CASE \E d \in Dir : CreateService(s, d) \/ MoveService(s, d)
  BY <1>1, <1>2, <1>3 DEF CreateService, MoveService, TypeInv, TypeOK, PromotionPlaced, Place
<1>4. CASE DeleteService(s)
  BY <1>1, <1>2, <1>4 DEF DeleteService, TypeInv, TypeOK, PromotionPlaced, Place
<1>5. CASE SelectEntryPoint(s)
  BY <1>1, <1>2, <1>5 DEF SelectEntryPoint, TypeInv, TypeOK, PromotionPlaced
<1> QED
  BY <1>3, <1>4, <1>5 DEF EditService

LEMMA EditEnvTyped ==
    ASSUME TypeInv, NEW s \in Svc, EditEnv(s)
    PROVE  TypeInv'
<1>1. edits' \in 0 .. MaxEdit
  BY EditTyped DEF EditEnv, UpsertEnv, RenameEnv, DeleteEnv, TypeInv
<1>2. UNCHANGED <<place, port, entry, tier, pending, overlapped, phase, admitted, report, built, release>>
  BY DEF EditEnv, UpsertEnv, RenameEnv, DeleteEnv, tierVars, operationVars
<1>3. \E keys \in SUBSET Key : env' = [env EXCEPT ![s] = keys]
  BY DEF EditEnv, UpsertEnv, RenameEnv, DeleteEnv, TypeInv, TypeOK
<1> QED
  BY <1>1, <1>2, <1>3 DEF TypeInv, TypeOK, PromotionPlaced

LEMMA OutdatedTyped ==
    ASSUME TypeOK, report' = Outdated(tier') PROVE report' \in {"none", "current", "stale"}
  BY DEF TypeOK, Outdated

LEMMA EditTierTyped ==
    ASSUME TypeInv, EditTier
    PROVE  TypeInv'
<1>1. ASSUME NEW engine \in Engine, NEW s \in Svc, BeginManagedTier(engine, s) PROVE TypeInv'
  <2> DEFINE mine == [engine |-> engine, attached |-> s, ready |-> Established]
  <2>1. mine \in Tier
    BY WrittenTyped DEF TypeInv
  <2>2. /\ BeginWrite("edit", mine, 0) /\ edits' \in 0 .. MaxEdit
        /\ UNCHANGED <<place, port, entry, env, phase, admitted, report, built, release>>
    BY <1>1, EditTyped DEF BeginManagedTier, operationVars, TypeInv
  <2> HIDE DEF mine
  <2>3. 0 \in 0 .. MaxOp /\ "edit" \in Writer
    BY ConfigurationAssumption DEF Writer
  <2> QED
    BY <2>1, <2>2, <2>3, BeginFacts DEF TypeInv, TypeOK, PromotionPlaced, Writer
<1>2. CASE BeginNoTier
  <2>1. /\ BeginWrite("edit", NoTier, 0) /\ edits' \in 0 .. MaxEdit
        /\ UNCHANGED <<place, port, entry, env, phase, admitted, report, built, release>>
    BY <1>2, EditTyped DEF BeginNoTier, operationVars, TypeInv
  <2>2. 0 \in 0 .. MaxOp /\ "edit" \in Writer
    BY ConfigurationAssumption DEF Writer
  <2> QED
    BY <2>1, <2>2, NoTierTyped, BeginFacts DEF TypeInv, TypeOK, PromotionPlaced, Writer
<1>3. CASE CommitTierEdit
  <2>1. /\ CommitWrite("edit") /\ report' = Outdated(tier')
        /\ UNCHANGED <<place, port, entry, env, edits, phase, admitted, built, release>>
    BY <1>3 DEF CommitTierEdit, configVars
  <2>2. "edit" \in Writer
    BY DEF Writer
  <2> QED
    BY <2>1, <2>2, CommitFacts, OutdatedTyped DEF TypeInv, TypeOK, PromotionPlaced, Writer
<1> QED
  BY <1>1, <1>2, <1>3 DEF EditTier

LEMMA ReleaseTyped == TypeOK => AdmittedRelease \in Release
<1> SUFFICES ASSUME TypeOK PROVE AdmittedRelease \in Release
  OBVIOUS
<1>1. /\ Deployable(admitted.place) \subseteq Svc /\ admitted.entry \in Svc \cup {NoSvc}
      /\ admitted.tier.engine \in Engine \cup {NoEngine}
      /\ admitted.tier.attached \in Svc \cup {NoSvc}
      /\ admitted.tier.attached \in Svc => admitted.env[admitted.tier.attached] \subseteq Key
  BY DEF TypeOK, Configuration, Tier, Deployable
<1> QED
  BY <1>1 DEF AdmittedRelease, Release

LEMMA ForgetTyped == NoConfiguration \in Configuration
  BY NoTierTyped DEF NoConfiguration, Configuration, Place

LEMMA OperateTyped ==
    ASSUME TypeInv, NEW o \in Op, Operate(o)
    PROVE  TypeInv'
<1> DEFINE kept == UNCHANGED <<place, entry, env, edits, tier, pending, overlapped>>
           at(ph) == phase' = [phase EXCEPT ![o] = ph]
<1>1. CASE AdmitDeploy(o)
  <2>1. kept /\ at("admitted") /\ report' = "none" /\ UNCHANGED <<port, built, release>>
    BY <1>1 DEF AdmitDeploy, configVars, tierVars
  <2>2. admitted' \in Configuration
    BY <1>1 DEF AdmitDeploy, Configuration, TypeInv, TypeOK
  <2>3. phase[o] = "none"
    BY <1>1 DEF AdmitDeploy, IsNextOp
  <2> QED
    BY <2>1, <2>2, <2>3 DEF TypeInv, TypeOK, PromotionPlaced, Phase
<1>2. ASSUME NEW target \in Op, AdmitRollback(o, target) PROVE TypeInv'
  <2>1. kept /\ at("dispatched") /\ UNCHANGED <<port, admitted, report, built>>
    BY <1>2 DEF AdmitRollback, configVars, tierVars
  <2>2. release' = [release EXCEPT ![o] = [release[target] EXCEPT !.entry = entry]]
    BY <1>2 DEF AdmitRollback
  <2>3. [release[target] EXCEPT !.entry = entry] \in Release
    BY DEF TypeInv, TypeOK, Release
  <2> QED
    BY <2>1, <2>2, <2>3 DEF TypeInv, TypeOK, PromotionPlaced, Phase
<1>3. CASE Resolve(o)
  <2>1. kept /\ at("resolved") /\ report' = "current" /\ UNCHANGED <<port, admitted, release>>
    BY <1>3 DEF Resolve, configVars, tierVars
  <2>2. phase[o] = "admitted" /\ built' \subseteq Svc
    BY <1>3 DEF Resolve, TypeInv, TypeOK, Deployable
  <2> QED
    BY <2>1, <2>2 DEF TypeInv, TypeOK, PromotionPlaced, Phase
<1>4. CASE BeginReset(o)
  <2>1. /\ BeginWrite("reset", [tier EXCEPT !.ready = FALSE], o)
        /\ UNCHANGED <<place, port, entry, env, edits, phase, admitted, report, built, release>>
    BY <1>4 DEF BeginReset, configVars, operationVars
  <2>2. o \in 0 .. MaxOp /\ "reset" \in Writer
    BY ConfigurationAssumption DEF Op, Writer
  <2>3. [tier EXCEPT !.ready = FALSE] \in Tier
    BY DEF TypeInv, TypeOK, Tier
  <2> QED
    BY <2>1, <2>2, <2>3, BeginFacts DEF TypeInv, TypeOK, PromotionPlaced, Writer
<1>5. CASE Seal(o)
  <2>1. kept /\ at("sealed") /\ UNCHANGED <<admitted, report, built, release>>
    BY <1>5 DEF Seal, tierVars
  <2>2. port' \in [Svc -> Dir \cup {"none"}]
    BY <1>5 DEF Seal, StillThere, Services, Deployable, TypeInv, TypeOK
  <2>3. phase[o] = "resolved"
    BY <1>5 DEF Seal
  <2> QED
    BY <2>1, <2>2, <2>3 DEF TypeInv, TypeOK, PromotionPlaced, Phase
<1>6. CASE Dispatch(o)
  <2>1. /\ kept /\ at("dispatched") /\ UNCHANGED <<port, built>>
        /\ release' = [release EXCEPT ![o] = AdmittedRelease]
        /\ admitted' = NoConfiguration /\ report' = "none"
    BY <1>6 DEF Dispatch, Forget, configVars, tierVars
  <2> QED
    BY <2>1, ReleaseTyped, ForgetTyped DEF TypeInv, TypeOK, PromotionPlaced, Phase
<1>7. CASE Fail(o)
  <2>1. /\ kept /\ at("failed") /\ UNCHANGED <<port, built, release>>
        /\ admitted' = NoConfiguration /\ report' = "none"
        /\ pending["promotion"].by # o
    BY <1>7 DEF Fail, Forget, configVars, tierVars, Writer
  <2> QED
    BY <2>1, ForgetTyped DEF TypeInv, TypeOK, PromotionPlaced, Phase
<1>8. CASE BeginPromotion(o)
  <2> DEFINE mine == IF HasDatabase(o)
                     THEN [engine |-> tier.engine, attached |-> release[o].attached, ready |-> TRUE]
                     ELSE tier
  <2>1. /\ BeginWrite("promotion", mine, o) /\ phase[o] \in {"dispatched", "stranded"}
        /\ UNCHANGED <<place, port, entry, env, edits, phase, admitted, report, built, release>>
    BY <1>8 DEF BeginPromotion, configVars, operationVars
  <2>2. o \in 0 .. MaxOp /\ "promotion" \in Writer /\ mine \in Tier
    BY ConfigurationAssumption, WrittenTyped DEF Op, Writer, TypeInv, TypeOK
  <2> HIDE DEF mine
  <2> QED
    BY <2>1, <2>2, BeginFacts DEF TypeInv, TypeOK, PromotionPlaced
<1>9. CASE FailPromotion(o)
  <2>1. /\ at("stranded") /\ pending' = [pending EXCEPT !["promotion"] = NoWrite]
        /\ UNCHANGED <<place, port, entry, env, edits, tier, overlapped, admitted, report, built, release>>
    BY <1>9 DEF FailPromotion, configVars
  <2> QED
    BY <2>1 DEF TypeInv, TypeOK, PromotionPlaced, Phase, Writer
<1> QED
  BY <1>1, <1>2, <1>3, <1>4, <1>5, <1>6, <1>7, <1>8, <1>9 DEF Operate

LEMMA TypeNext == TypeInv /\ [Next]_vars => TypeInv'
<1> SUFFICES ASSUME TypeInv, [Next]_vars PROVE TypeInv'
  OBVIOUS
<1>0. CASE UNCHANGED vars
  BY <1>0 DEF vars, configVars, tierVars, operationVars, TypeInv, TypeOK, PromotionPlaced
<1>1. CASE ChangeSource
  <2>1. /\ edits' \in 0 .. MaxEdit /\ port' = [s \in Svc |-> "none"]
        /\ UNCHANGED <<place, entry, env, tier, pending, overlapped, phase, admitted, report, built, release>>
    BY <1>1, EditTyped DEF ChangeSource, tierVars, operationVars, TypeInv
  <2> QED
    BY <2>1 DEF TypeInv, TypeOK, PromotionPlaced
<1>2. CASE CommitReset
  <2>1. /\ CommitWrite("reset") /\ report' = Outdated(tier') /\ "reset" \in Writer
        /\ UNCHANGED <<place, port, entry, env, edits, phase, admitted, built, release>>
    BY <1>2 DEF CommitReset, configVars, Writer
  <2> QED
    BY <2>1, CommitFacts, OutdatedTyped DEF TypeInv, TypeOK, PromotionPlaced, Writer
<1>3. CASE CommitPromotion
  <2> DEFINE o == pending["promotion"].by
  <2>1. /\ pending["promotion"] # NoWrite
        /\ CommitWrite("promotion") \/ (pending' = [pending EXCEPT !["promotion"] = NoWrite]
                                        /\ UNCHANGED <<tier, overlapped>>)
        /\ phase' = [phase EXCEPT ![o] = "released"] /\ report' = Outdated(tier')
        /\ UNCHANGED <<place, port, entry, env, edits, admitted, built, release>>
    BY <1>3 DEF CommitPromotion, configVars
  <2>2. "promotion" \in Writer
    BY DEF Writer
  <2>3. /\ pending' \in [Writer -> Write \cup {NoWrite}] /\ pending'["promotion"] = NoWrite
        /\ tier' \in Tier /\ overlapped' = overlapped
    BY <2>1, <2>2, CommitFacts DEF TypeInv, TypeOK
  <2> QED
    BY <2>1, <2>3, OutdatedTyped DEF TypeInv, TypeOK, PromotionPlaced, Phase
<1> QED
  BY <1>0, <1>1, <1>2, <1>3, EditServiceTyped, EditEnvTyped, EditTierTyped, OperateTyped DEF Next

-----------------------------------------------------------------------------
(***************************************************************************)
(* The services of releases.                                               *)
(***************************************************************************)
Prepared == {"admitted", "resolved", "sealed"}
Held     == {"dispatched", "stranded", "released"}

ServicesKept ==
    /\ entry \in Services
    /\ \A o, p \in Op : phase[o] \in Active /\ phase[p] \in Active => o = p
    /\ built \subseteq Services
    /\ \A o \in Op : phase[o] \in Prepared =>
          /\ Deployable(admitted.place) \subseteq Services
          /\ admitted.entry \in Deployable(admitted.place)
          /\ phase[o] # "admitted" => Deployable(admitted.place) \subseteq built
    /\ \A o \in Op : phase[o] \in Held =>
          release[o].services \subseteq built /\ release[o].entry \in release[o].services

ServiceInv == ServicesKept /\ PortOfItsDirectory

(* A step that has nothing to do with services, ports or phases.           *)
ServicesAlone == UNCHANGED <<place, port, entry, phase, admitted, built, release>>

LEMMA ServiceSteps ==
    ASSUME [Next]_vars
    PROVE  \/ ServicesAlone
           \/ \E s \in Svc : EditService(s)
           \/ ChangeSource
           \/ \E o \in Op : \/ AdmitDeploy(o) \/ (\E target \in Op : AdmitRollback(o, target))
                             \/ Resolve(o) \/ Seal(o) \/ Dispatch(o) \/ Fail(o) \/ FailPromotion(o)
           \/ CommitPromotion
<1>1. ASSUME NEW s \in Svc, EditEnv(s) PROVE ServicesAlone
  BY <1>1 DEF EditEnv, UpsertEnv, RenameEnv, DeleteEnv, operationVars, ServicesAlone
<1>2. CASE EditTier
  BY <1>2 DEF EditTier, BeginManagedTier, BeginNoTier, CommitTierEdit, configVars, operationVars,
     ServicesAlone
<1>3. ASSUME NEW o \in Op, BeginReset(o) \/ BeginPromotion(o) PROVE ServicesAlone
  BY <1>3 DEF BeginReset, BeginPromotion, configVars, operationVars, ServicesAlone
<1>4. CASE CommitReset \/ UNCHANGED vars
  BY <1>4 DEF CommitReset, vars, configVars, operationVars, ServicesAlone
<1> QED
  BY <1>1, <1>2, <1>3, <1>4 DEF Next, Operate

LEMMA EditServiceKeeps ==
    ASSUME TypeInv, ServiceInv, NEW s \in Svc, EditService(s)
    PROVE  ServiceInv'
<1>1. UNCHANGED <<phase, admitted, built, release>>
  BY DEF EditService, CreateService, MoveService, DeleteService, SelectEntryPoint, operationVars
<1>2. ASSUME NEW d \in Dir, CreateService(s, d) PROVE ServiceInv'
  <2>1. /\ place[s] = "absent" /\ place' = [place EXCEPT ![s] = d] /\ UNCHANGED <<port, entry>>
    BY <1>2 DEF CreateService
  <2>2. /\ place' [s] = d /\ \A t \in Svc \ {s} : place'[t] = place[t]
    BY <2>1 DEF TypeInv, TypeOK
  <2>3. Services \subseteq Services'
    BY <2>2 DEF Services, Deployable
  <2>4. ServicesKept'
    BY <1>1, <2>1, <2>3 DEF ServiceInv, ServicesKept, Deployable
  <2>5. port[s] = "none"
    BY <2>1, ConfigurationAssumption DEF ServiceInv, PortOfItsDirectory, TypeInv, TypeOK
  <2> QED
    BY <2>1, <2>2, <2>4, <2>5 DEF ServiceInv, PortOfItsDirectory
<1>3. ASSUME NEW d \in Dir, MoveService(s, d) PROVE ServiceInv'
  <2>1. /\ place[s] \in Dir /\ place' = [place EXCEPT ![s] = d]
        /\ port' = [port EXCEPT ![s] = "none"] /\ UNCHANGED entry
    BY <1>3 DEF MoveService
  <2>2. /\ place'[s] = d /\ port'[s] = "none"
        /\ \A t \in Svc \ {s} : place'[t] = place[t] /\ port'[t] = port[t]
    BY <2>1 DEF TypeInv, TypeOK
  <2>3. Services' = Services
    BY <2>1, <2>2 DEF Services, Deployable
  <2>4. ServicesKept'
    BY <1>1, <2>1, <2>3 DEF ServiceInv, ServicesKept, Deployable
  <2> QED
    BY <2>2, <2>4 DEF ServiceInv, PortOfItsDirectory
<1>4. CASE DeleteService(s)
  <2>1. /\ place' = [place EXCEPT ![s] = "removed"]
        /\ port' = [port EXCEPT ![s] = "none"] /\ UNCHANGED entry
        /\ ActiveOps = {} /\ entry # s /\ s \notin built
    BY <1>4 DEF DeleteService, Removable, HasRevision
  <2>2. /\ place'[s] = "removed" /\ port'[s] = "none"
        /\ \A t \in Svc \ {s} : place'[t] = place[t] /\ port'[t] = port[t]
    BY <2>1 DEF TypeInv, TypeOK
  <2>3. Services \ {s} \subseteq Services'
    BY <2>2 DEF Services, Deployable
  <2>4. \A o \in Op : phase[o] \notin Active
    BY <2>1 DEF ActiveOps
  <2>5. ServicesKept'
    BY <1>1, <2>1, <2>3, <2>4 DEF ServiceInv, ServicesKept, Prepared, Active
  <2> QED
    BY <2>2, <2>5 DEF ServiceInv, PortOfItsDirectory
<1>5. CASE SelectEntryPoint(s)
  <2>1. entry' = s /\ s \in Services /\ UNCHANGED <<place, port>>
    BY <1>5 DEF SelectEntryPoint
  <2> QED
    BY <1>1, <2>1 DEF ServiceInv, ServicesKept, PortOfItsDirectory, Services, Deployable
<1> QED
  BY <1>2, <1>3, <1>4, <1>5 DEF EditService

LEMMA OperationKeeps ==
    ASSUME TypeInv, ServiceInv, NEW o \in Op,
           \/ AdmitDeploy(o) \/ (\E target \in Op : AdmitRollback(o, target))
           \/ Resolve(o) \/ Seal(o) \/ Dispatch(o) \/ Fail(o) \/ FailPromotion(o)
    PROVE  ServiceInv'
<1> DEFINE at(ph) == phase'[o] = ph /\ \A p \in Op \ {o} : phase'[p] = phase[p]
<1>0. \A ph \in Phase : phase' = [phase EXCEPT ![o] = ph] => at(ph)
  BY DEF TypeInv, TypeOK
<1>1. CASE AdmitDeploy(o)
  <2>1. /\ at("admitted") /\ UNCHANGED <<place, port, entry, built, release>>
        /\ admitted'.place = place /\ admitted'.entry = entry
        /\ \A p \in Op : phase[p] \notin Active
    BY <1>0, <1>1 DEF AdmitDeploy, IsNextOp, ActiveOps, configVars, Phase
  <2> QED
    BY <2>1 DEF ServiceInv, ServicesKept, PortOfItsDirectory, Services, Prepared, Active, Held
<1>2. ASSUME NEW target \in Op, AdmitRollback(o, target) PROVE ServiceInv'
  <2>1. /\ at("dispatched") /\ UNCHANGED <<place, port, entry, built, admitted>>
        /\ \A p \in Op : phase[p] \notin Active
        /\ phase[target] = "released" /\ entry \in release[target].services
    BY <1>0, <1>2 DEF AdmitRollback, IsNextOp, ActiveOps, configVars, Phase
  <2>2. /\ release'[o].services = release[target].services /\ release'[o].entry = entry
        /\ \A p \in Op \ {o} : release'[p] = release[p]
    BY <1>2 DEF AdmitRollback, TypeInv, TypeOK, Release
  <2> QED
    BY <2>1, <2>2 DEF ServiceInv, ServicesKept, PortOfItsDirectory, Services, Prepared, Active, Held
<1>3. CASE Resolve(o)
  <2>1. /\ at("resolved") /\ UNCHANGED <<place, port, entry, admitted, release>>
        /\ phase[o] = "admitted" /\ built' = built \cup Deployable(admitted.place)
    BY <1>0, <1>3 DEF Resolve, configVars, Phase
  <2>2. UNCHANGED Deployable(admitted.place) /\ UNCHANGED Services
    BY <2>1 DEF Services, Deployable
  <2>3. Deployable(admitted.place) \subseteq Services
    BY <2>1 DEF ServiceInv, ServicesKept, Prepared
  <2> QED
    BY <2>1, <2>2, <2>3 DEF ServiceInv, ServicesKept, PortOfItsDirectory, Prepared, Active, Held
<1>4. CASE Seal(o)
  <2>1. /\ at("sealed") /\ UNCHANGED <<place, entry, admitted, built, release>>
        /\ phase[o] = "resolved"
        /\ port' = [s \in Svc |-> IF StillThere(s) THEN admitted.place[s] ELSE port[s]]
    BY <1>0, <1>4 DEF Seal, Phase
  <2>2. UNCHANGED Deployable(admitted.place) /\ UNCHANGED Services
    BY <2>1 DEF Services, Deployable
  <2>3. PortOfItsDirectory'
    BY <2>1 DEF ServiceInv, PortOfItsDirectory, StillThere
  <2> QED
    BY <2>1, <2>2, <2>3 DEF ServiceInv, ServicesKept, Prepared, Active, Held
<1>5. CASE Dispatch(o)
  <2>1. /\ at("dispatched") /\ UNCHANGED <<place, port, entry, built>>
        /\ phase[o] = "sealed"
        /\ release' = [release EXCEPT ![o] = AdmittedRelease]
    BY <1>0, <1>5 DEF Dispatch, configVars, Phase
  <2>2. /\ release'[o].services = Deployable(admitted.place) /\ release'[o].entry = admitted.entry
        /\ \A p \in Op \ {o} : release'[p] = release[p]
    BY <2>1 DEF AdmittedRelease, TypeInv, TypeOK
  <2>3. \A p \in Op \ {o} : phase[p] \notin Active
    BY <2>1 DEF ServiceInv, ServicesKept, Active
  <2>4. UNCHANGED Services
    BY <2>1 DEF Services, Deployable
  <2> QED
    BY <2>1, <2>2, <2>3, <2>4 DEF ServiceInv, ServicesKept, PortOfItsDirectory, Prepared, Active, Held
<1>6. CASE Fail(o)
  <2>1. /\ at("failed") /\ UNCHANGED <<place, port, entry, built, release>> /\ phase[o] \in Active
    BY <1>0, <1>6 DEF Fail, configVars, Phase
  <2>2. \A p \in Op \ {o} : phase[p] \notin Active
    BY <2>1 DEF ServiceInv, ServicesKept
  <2> QED
    BY <2>1, <2>2 DEF ServiceInv, ServicesKept, PortOfItsDirectory, Services, Deployable, Prepared,
       Active, Held
<1>7. CASE FailPromotion(o)
  <2>1. /\ at("stranded") /\ UNCHANGED <<place, port, entry, admitted, built, release>>
        /\ phase[o] \in {"dispatched", "stranded"}
    BY <1>0, <1>7 DEF FailPromotion, configVars, Phase
  <2> QED
    BY <2>1 DEF ServiceInv, ServicesKept, PortOfItsDirectory, Services, Deployable, Prepared,
       Active, Held
<1> QED
  BY <1>1, <1>2, <1>3, <1>4, <1>5, <1>6, <1>7

LEMMA ServiceNext == TypeInv /\ ServiceInv /\ [Next]_vars => ServiceInv'
<1> SUFFICES ASSUME TypeInv, ServiceInv, [Next]_vars PROVE ServiceInv'
  OBVIOUS
<1>1. CASE ServicesAlone
  BY <1>1 DEF ServicesAlone, ServiceInv, ServicesKept, PortOfItsDirectory, Services, Deployable
<1>2. CASE ChangeSource
  BY <1>2 DEF ChangeSource, operationVars, ServiceInv, ServicesKept, PortOfItsDirectory, Services,
     Deployable
<1>3. CASE CommitPromotion
  <2> DEFINE o == pending["promotion"].by
  <2>1. o \in Op /\ phase[o] \in {"dispatched", "stranded"}
    BY <1>3 DEF CommitPromotion, TypeInv, PromotionPlaced
  <2>2. /\ phase' = [phase EXCEPT ![o] = "released"]
        /\ UNCHANGED <<place, port, entry, admitted, built, release>>
    BY <1>3 DEF CommitPromotion, configVars
  <2>3. phase'[o] = "released" /\ \A p \in Op \ {o} : phase'[p] = phase[p]
    BY <2>1, <2>2 DEF TypeInv, TypeOK
  <2> HIDE DEF o
  <2> QED
    BY <2>1, <2>2, <2>3 DEF ServiceInv, ServicesKept, PortOfItsDirectory, Services, Deployable,
       Prepared, Active, Held
<1> QED
  BY <1>1, <1>2, <1>3, ServiceSteps, EditServiceKeeps, OperationKeeps

-----------------------------------------------------------------------------
(***************************************************************************)
(* The writers of the database tier.  Until two of them overlap, each holds*)
(* the tier of now, and what it will save keeps the engine.                *)
(***************************************************************************)
Mine(w) == pending[w].mine

OneWriter ==
    ~overlapped => \A w \in Writer : pending[w] # NoWrite =>
        /\ pending[w].found = tier
        /\ \A v \in Writer : pending[v] # NoWrite => v = w

WritersKeep ==
    ~overlapped =>
        /\ pending["edit"] # NoWrite /\ Established =>
              Mine("edit").engine = tier.engine /\ Mine("edit").ready
        /\ pending["promotion"] # NoWrite /\ HasDatabase(pending["promotion"].by) =>
              Mine("promotion").engine = tier.engine /\ Mine("promotion").ready
        /\ pending["reset"] # NoWrite =>
              Mine("reset").engine = tier.engine /\ Mine("reset").attached = tier.attached

(* An edit holds the lock that every edit of a variable takes.             *)
EditOwns ==
    pending["edit"] # NoWrite =>
        \A s \in Svc : Mine("edit").attached = s =>
            env[s] \cap AliasesOf(Mine("edit").engine) = {}

TierInv == OneWriter /\ WritersKeep /\ EditOwns

LEMMA TierStill ==
    ASSUME TierInv, UNCHANGED <<tier, pending, overlapped>>,
           pending["edit"] # NoWrite => env' = env,
           pending["promotion"] # NoWrite =>
               release'[pending["promotion"].by] = release[pending["promotion"].by]
    PROVE  TierInv'
<1>1. OneWriter'
  BY DEF TierInv, OneWriter
<1>2. WritersKeep'
  BY DEF TierInv, WritersKeep, Mine, Established, HasDatabase
<1>3. EditOwns'
  BY DEF TierInv, EditOwns, Mine, AliasesOf
<1> QED
  BY <1>1, <1>2, <1>3 DEF TierInv

LEMMA TierBegun ==
    ASSUME TypeOK, TierInv, NEW w \in Writer, NEW mine \in Tier, NEW by \in 0 .. MaxOp,
           BeginWrite(w, mine, by), UNCHANGED <<env, release>>,
           w = "edit" =>
               /\ Established => mine.engine = tier.engine /\ mine.ready
               /\ \A s \in Svc : mine.attached = s => env[s] \cap AliasesOf(mine.engine) = {},
           w = "promotion" /\ HasDatabase(by) => mine.engine = tier.engine /\ mine.ready,
           w = "reset" => mine.engine = tier.engine /\ mine.attached = tier.attached
    PROVE  TierInv'
<1>1. /\ pending[w] = NoWrite /\ pending'[w] # NoWrite
      /\ pending'[w].mine = mine /\ pending'[w].found = tier /\ pending'[w].by = by
      /\ \A v \in Writer \ {w} : pending'[v] = pending[v]
      /\ ~overlapped' => \A v \in Writer : pending[v] = NoWrite
      /\ tier' = tier
  BY BeginFacts
<1>2. OneWriter'
  BY <1>1 DEF OneWriter
<1>3. ASSUME ~overlapped' PROVE \A v \in Writer \ {w} : pending'[v] = NoWrite
  BY <1>1, <1>3
<1>4. WritersKeep'
  BY <1>1, <1>3 DEF WritersKeep, Mine, Established, HasDatabase, Writer
<1>5. EditOwns'
  BY <1>1 DEF TierInv, EditOwns, Mine, AliasesOf, Writer
<1> QED
  BY <1>2, <1>4, <1>5 DEF TierInv

LEMMA TierEnded ==
    ASSUME TierInv, NEW w \in Writer, pending[w] # NoWrite, pending'[w] = NoWrite,
           \A v \in Writer \ {w} : pending'[v] = pending[v],
           UNCHANGED <<overlapped, env>>
    PROVE  TierInv'
<1>1. ASSUME ~overlapped PROVE \A v \in Writer : pending'[v] = NoWrite
  BY <1>1 DEF TierInv, OneWriter
<1>2. OneWriter' /\ WritersKeep'
  BY <1>1 DEF OneWriter, WritersKeep, Writer
<1>3. EditOwns'
  BY DEF TierInv, EditOwns, Mine, AliasesOf, Writer
<1> QED
  BY <1>2, <1>3 DEF TierInv

LEMMA EditTierKeeps ==
    ASSUME TypeInv, TierInv, EditTier
    PROVE  TierInv'
<1>1. ASSUME NEW engine \in Engine, NEW s \in Svc, BeginManagedTier(engine, s) PROVE TierInv'
  <2> DEFINE mine == [engine |-> engine, attached |-> s, ready |-> Established]
  <2>1. mine \in Tier /\ 0 \in 0 .. MaxOp /\ "edit" \in Writer
    BY WrittenTyped, ConfigurationAssumption DEF Writer, TypeInv
  <2>2. /\ BeginWrite("edit", mine, 0) /\ UNCHANGED <<env, release>>
        /\ env[s] \cap AliasesOf(engine) = {}
        /\ Established => engine = tier.engine
    BY <1>1 DEF BeginManagedTier, Attachable, KeepsEngine, AliasesOf, operationVars
  <2>3. mine.engine = engine /\ mine.attached = s /\ (Established => mine.ready)
    OBVIOUS
  <2> HIDE DEF mine
  <2>4. /\ Established => mine.engine = tier.engine /\ mine.ready
        /\ \A t \in Svc : mine.attached = t => env[t] \cap AliasesOf(mine.engine) = {}
    BY <2>2, <2>3
  <2>5. TypeOK
    BY DEF TypeInv
  <2> QED
    BY <2>1, <2>2, <2>4, <2>5, TierBegun
<1>2. CASE BeginNoTier
  <2>1. /\ BeginWrite("edit", NoTier, 0) /\ UNCHANGED <<env, release>> /\ ~Established
    BY <1>2, ConfigurationAssumption DEF BeginNoTier, KeepsEngine, Established, operationVars
  <2>2. NoTier \in Tier /\ 0 \in 0 .. MaxOp /\ "edit" \in Writer
    BY NoTierTyped, ConfigurationAssumption DEF Writer
  <2>3. \A s \in Svc : NoTier.attached # s
    BY NoTierTyped, ConfigurationAssumption
  <2> QED
    BY <2>1, <2>2, <2>3, TierBegun DEF TypeInv
<1>3. CASE CommitTierEdit
  <2>1. CommitWrite("edit") /\ env' = env /\ "edit" \in Writer /\ pending["edit"] # NoWrite
    BY <1>3 DEF CommitTierEdit, CommitWrite, configVars, Writer
  <2> QED
    BY <2>1, CommitFacts, TierEnded DEF TypeInv
<1> QED
  BY <1>1, <1>2, <1>3 DEF EditTier

LEMMA OperateKeepsTier ==
    ASSUME TypeInv, TierInv, NEW o \in Op, Operate(o)
    PROVE  TierInv'
<1>1. CASE AdmitDeploy(o) \/ Resolve(o) \/ Seal(o) \/ Fail(o)
  <2>1. UNCHANGED <<tier, pending, overlapped, env, release>>
    BY <1>1 DEF AdmitDeploy, Resolve, Seal, Fail, configVars, tierVars
  <2> QED
    BY <2>1, TierStill
<1>2. CASE Dispatch(o) \/ \E target \in Op : AdmitRollback(o, target)
  <2>1. /\ UNCHANGED <<tier, pending, overlapped, env>> /\ phase[o] \in {"sealed", "none"}
        /\ \E r : release' = [release EXCEPT ![o] = r]
    BY <1>2 DEF Dispatch, AdmitRollback, IsNextOp, configVars, tierVars
  <2>2. pending["promotion"] # NoWrite =>
            pending["promotion"].by \in Op /\ pending["promotion"].by # o
    BY <2>1 DEF TypeInv, PromotionPlaced
  <2> QED
    BY <2>1, <2>2, TierStill DEF TypeInv, TypeOK
<1>3. CASE BeginReset(o)
  <2> DEFINE mine == [tier EXCEPT !.ready = FALSE]
  <2>1. BeginWrite("reset", mine, o) /\ UNCHANGED <<env, release>>
    BY <1>3 DEF BeginReset, configVars, operationVars
  <2>2. o \in 0 .. MaxOp /\ "reset" \in Writer
    BY ConfigurationAssumption DEF Op, Writer
  <2>3. mine \in Tier /\ mine.engine = tier.engine /\ mine.attached = tier.attached
    BY DEF TypeInv, TypeOK, Tier
  <2> HIDE DEF mine
  <2> QED
    BY <2>1, <2>2, <2>3, TierBegun DEF TypeInv
<1>4. CASE BeginPromotion(o)
  <2> DEFINE mine == IF HasDatabase(o)
                     THEN [engine |-> tier.engine, attached |-> release[o].attached, ready |-> TRUE]
                     ELSE tier
  <2>1. BeginWrite("promotion", mine, o) /\ UNCHANGED <<env, release>>
    BY <1>4 DEF BeginPromotion, configVars, operationVars
  <2>2. o \in 0 .. MaxOp /\ "promotion" \in Writer /\ mine \in Tier
    BY ConfigurationAssumption, WrittenTyped DEF Op, Writer, TypeInv, TypeOK
  <2>3. HasDatabase(o) => mine.engine = tier.engine /\ mine.ready
    OBVIOUS
  <2> HIDE DEF mine
  <2> QED
    BY <2>1, <2>2, <2>3, TierBegun DEF TypeInv
<1>5. CASE FailPromotion(o)
  <2>1. /\ pending' = [pending EXCEPT !["promotion"] = NoWrite]
        /\ UNCHANGED <<tier, overlapped, env, release>>
    BY <1>5 DEF FailPromotion, configVars
  <2>2. "promotion" \in Writer /\ pending'["promotion"] = NoWrite
        /\ \A v \in Writer \ {"promotion"} : pending'[v] = pending[v]
    BY <2>1 DEF TypeInv, TypeOK, Writer
  <2>3. CASE pending["promotion"] = NoWrite
    <3>1. pending' = pending
      BY <2>1, <2>3 DEF TypeInv, TypeOK
    <3> QED
      BY <2>1, <3>1, TierStill
  <2> QED
    BY <2>1, <2>2, <2>3, TierEnded
<1> QED
  BY <1>1, <1>2, <1>3, <1>4, <1>5 DEF Operate

LEMMA TierNext == TypeInv /\ TierInv /\ [Next]_vars => TierInv'
<1> SUFFICES ASSUME TypeInv, TierInv, [Next]_vars PROVE TierInv'
  OBVIOUS
<1>1. ASSUME NEW s \in Svc, EditService(s) \/ EditEnv(s) PROVE TierInv'
  <2>1. UNCHANGED <<tier, pending, overlapped, release>> /\ pending["edit"] = NoWrite
    BY <1>1 DEF EditService, CreateService, MoveService, DeleteService, SelectEntryPoint, EditEnv,
       UpsertEnv, RenameEnv, DeleteEnv, Edit, Unlocked, tierVars, operationVars
  <2> QED
    BY <2>1, TierStill
<1>2. CASE ChangeSource \/ UNCHANGED vars
  <2>1. UNCHANGED <<tier, pending, overlapped, env, release>>
    BY <1>2 DEF ChangeSource, vars, configVars, tierVars, operationVars
  <2> QED
    BY <2>1, TierStill
<1>3. CASE CommitReset
  <2>1. CommitWrite("reset") /\ env' = env /\ "reset" \in Writer /\ pending["reset"] # NoWrite
    BY <1>3 DEF CommitReset, CommitWrite, configVars, Writer
  <2> QED
    BY <2>1, CommitFacts, TierEnded DEF TypeInv
<1>4. CASE CommitPromotion
  <2>1. /\ pending["promotion"] # NoWrite /\ "promotion" \in Writer /\ env' = env
        /\ \/ CommitWrite("promotion")
           \/ pending' = [pending EXCEPT !["promotion"] = NoWrite] /\ overlapped' = overlapped
    BY <1>4 DEF CommitPromotion, configVars, Writer
  <2>2. /\ pending'["promotion"] = NoWrite /\ overlapped' = overlapped
        /\ \A v \in Writer \ {"promotion"} : pending'[v] = pending[v]
    BY <2>1, CommitFacts DEF TypeInv, TypeOK
  <2> QED
    BY <2>1, <2>2, TierEnded
<1> QED
  BY <1>1, <1>2, <1>3, <1>4, EditTierKeeps, OperateKeepsTier DEF Next

-----------------------------------------------------------------------------
(***************************************************************************)
(* What a step does to the tier.                                           *)
(***************************************************************************)
LEMMA TierMoves ==
    ASSUME TypeInv, TierInv, [Next]_vars, ~overlapped
    PROVE  \/ tier' = tier
           \/ /\ pending["edit"] # NoWrite /\ tier' = Mine("edit") /\ env' = env
           \/ /\ pending["promotion"] # NoWrite /\ HasDatabase(pending["promotion"].by)
              /\ tier' = Mine("promotion") /\ pending'["promotion"] = NoWrite
           \/ /\ pending["reset"] # NoWrite /\ tier' = Mine("reset") /\ env' = env
<1>0. \A w \in Writer : CommitWrite(w) =>
         pending[w] # NoWrite /\ tier' = Mine(w) /\ pending'[w] = NoWrite
  BY CommitFacts DEF CommitWrite, TypeInv, TierInv, OneWriter, Mine
<1>1. ASSUME NEW s \in Svc, EditService(s) \/ EditEnv(s) PROVE tier' = tier
  BY <1>1 DEF EditService, CreateService, MoveService, DeleteService, SelectEntryPoint, EditEnv,
     UpsertEnv, RenameEnv, DeleteEnv, tierVars
<1>2. CASE ChangeSource \/ UNCHANGED vars
  BY <1>2 DEF ChangeSource, vars, tierVars
<1>3. CASE EditTier
  BY <1>0, <1>3 DEF EditTier, BeginManagedTier, BeginNoTier, BeginWrite, CommitTierEdit, configVars,
     Writer
<1>4. ASSUME NEW o \in Op, Operate(o) PROVE tier' = tier
  BY <1>4 DEF Operate, AdmitDeploy, AdmitRollback, Resolve, BeginReset, BeginPromotion, BeginWrite,
     Seal, Dispatch, Fail, FailPromotion, tierVars
<1>5. CASE CommitReset
  BY <1>0, <1>5 DEF CommitReset, configVars, Writer
<1>6. CASE CommitPromotion
  BY <1>0, <1>6 DEF CommitPromotion, Writer
<1> QED
  BY <1>1, <1>2, <1>3, <1>4, <1>5, <1>6 DEF Next

LEMMA KeepsDatabase ==
    ASSUME TypeInv, TierInv, [Next]_vars, Established, ~overlapped
    PROVE  \/ tier'.engine = tier.engine /\ tier'.ready
           \/ tier'.engine = tier.engine /\ pending["reset"] # NoWrite
  BY TierMoves DEF TierInv, WritersKeep, Established

(* No edit of a variable takes a name of the database of its service.      *)
LEMMA EnvMoves ==
    ASSUME TypeInv, [Next]_vars, NEW s \in Svc
    PROVE  env'[s] \subseteq env[s] \/ (tier' = tier /\ env'[s] \cap Owned(s) \subseteq env[s])
<1>1. ASSUME NEW t \in Svc, EditService(t) PROVE env'[s] \subseteq env[s]
  BY <1>1 DEF EditService, CreateService, MoveService, DeleteService, SelectEntryPoint, TypeInv, TypeOK
<1>2. ASSUME NEW t \in Svc, EditEnv(t)
      PROVE  tier' = tier /\ env'[s] \cap Owned(s) \subseteq env[s]
  <2>1. tier' = tier
    BY <1>2 DEF EditEnv, UpsertEnv, RenameEnv, DeleteEnv, tierVars
  <2>2. ASSUME NEW keys \in SUBSET Key, UpsertEnv(t, keys) PROVE env'[s] \cap Owned(s) \subseteq env[s]
    <3>1. keys \cap Owned(t) = {} /\ env' = [env EXCEPT ![t] = @ \cup keys]
      BY <2>2 DEF UpsertEnv
    <3>2. env'[t] = env[t] \cup keys /\ \A u \in Svc \ {t} : env'[u] = env[u]
      BY <3>1 DEF TypeInv, TypeOK
    <3> QED
      BY <3>1, <3>2
  <2>3. ASSUME NEW old \in Key, NEW new \in Key, RenameEnv(t, old, new)
        PROVE  env'[s] \cap Owned(s) \subseteq env[s]
    <3>1. new \notin Owned(t) /\ env' = [env EXCEPT ![t] = (@ \ {old}) \cup {new}]
      BY <2>3 DEF RenameEnv
    <3>2. env'[t] = (env[t] \ {old}) \cup {new} /\ \A u \in Svc \ {t} : env'[u] = env[u]
      BY <3>1 DEF TypeInv, TypeOK
    <3> QED
      BY <3>1, <3>2
  <2>4. ASSUME NEW key \in Key, DeleteEnv(t, key) PROVE env'[s] \cap Owned(s) \subseteq env[s]
    BY <2>4 DEF DeleteEnv, TypeInv, TypeOK
  <2> QED
    BY <1>2, <2>1, <2>2, <2>3, <2>4 DEF EditEnv
<1>3. CASE ChangeSource \/ EditTier \/ UNCHANGED vars
  BY <1>3 DEF ChangeSource, EditTier, BeginManagedTier, BeginNoTier, CommitTierEdit, vars, configVars
<1>4. ASSUME NEW o \in Op, Operate(o) PROVE env' = env
  BY <1>4 DEF Operate, AdmitDeploy, AdmitRollback, Resolve, BeginReset, BeginPromotion, Seal,
     Dispatch, Fail, FailPromotion, configVars
<1>5. CASE CommitReset \/ CommitPromotion
  BY <1>5 DEF CommitReset, CommitPromotion, configVars
<1> QED
  BY <1>1, <1>2, <1>3, <1>4, <1>5 DEF Next

LEMMA KeepsOwnership ==
    ASSUME TypeInv, TierInv, [Next]_vars, ~Conflict, Conflict', ~overlapped
    PROVE  pending["promotion"] # NoWrite /\ pending'["promotion"] = NoWrite
<1>1. PICK s \in Svc : tier'.attached = s /\ env'[s] \cap AliasesOf(tier'.engine) # {}
  BY DEF Conflict, AliasesOf
<1>2. CASE tier' = tier
  <2>1. env[s] \cap AliasesOf(tier.engine) = {} /\ Owned(s) = AliasesOf(tier.engine)
    BY <1>1, <1>2 DEF Conflict, Owned
  <2> QED
    BY <1>1, <1>2, <2>1, EnvMoves
<1>3. CASE pending["edit"] # NoWrite /\ tier' = Mine("edit") /\ env' = env
  BY <1>1, <1>3 DEF TierInv, EditOwns
<1>4. CASE pending["reset"] # NoWrite /\ tier' = Mine("reset") /\ env' = env
  <2>1. tier'.engine = tier.engine /\ tier'.attached = tier.attached
    BY <1>4 DEF TierInv, WritersKeep
  <2> QED
    BY <1>1, <1>4, <2>1 DEF Conflict
<1> QED
  BY <1>2, <1>3, <1>4, TierMoves

-----------------------------------------------------------------------------
(***************************************************************************)
(* The theorems.                                                           *)
(***************************************************************************)
ConfigurationInv == TypeInv /\ ServiceInv /\ TierInv

LEMMA InitTyped == Init => TypeInv
<1> SUFFICES ASSUME Init PROVE TypeInv
  OBVIOUS
<1>1. 0 \in 0 .. MaxEdit
  BY ConfigurationAssumption
<1>2. NoRelease \in Release
  BY DEF NoRelease, Release
<1>3. entry \in Svc
  BY DEF Init, Services, Deployable
<1> QED
  BY <1>1, <1>2, <1>3, NoTierTyped, ForgetTyped
  DEF Init, TypeInv, TypeOK, PromotionPlaced, Place, Phase, Writer

LEMMA InitServices == Init => ServiceInv
  BY DEF Init, ServiceInv, ServicesKept, PortOfItsDirectory, Services, Prepared, Held, Active

LEMMA InitTier == Init => TierInv
  BY DEF Init, TierInv, OneWriter, WritersKeep, EditOwns, Writer

(* What every reachable configuration satisfies: types, the services of    *)
(* releases and the holders of the tier.                                   *)
THEOREM ConfigurationInvariant == Spec => []ConfigurationInv
<1>1. Init => ConfigurationInv
  BY InitTyped, InitServices, InitTier DEF ConfigurationInv
<1>2. ConfigurationInv /\ [Next]_vars => ConfigurationInv'
  BY TypeNext, ServiceNext, TierNext DEF ConfigurationInv
<1> QED
  BY <1>1, <1>2, PTL DEF Spec

(* Every variable keeps its type.                                          *)
THEOREM TypeCorrect == Spec => []TypeOK
<1>1. ConfigurationInv => TypeOK
  BY DEF ConfigurationInv, TypeInv
<1> QED
  BY <1>1, ConfigurationInvariant, PTL

(* Whatever is edited while a deployment runs, or between its failed       *)
(* finalization and the retry, the services its release names exist.       *)
THEOREM ReleasedServicesStay == Spec => []ReleasedServicesExist
<1>1. ConfigurationInv => ReleasedServicesExist
  BY DEF ConfigurationInv, ServiceInv, ServicesKept, ReleasedServicesExist, Held
<1> QED
  BY <1>1, ConfigurationInvariant, PTL

(* The entry point of the project is one of its services, and that of a    *)
(* release one of the services released.                                   *)
THEOREM EntryPointIsServed == Spec => []EntryPointServed
<1>1. ConfigurationInv => EntryPointServed
  BY DEF ConfigurationInv, ServiceInv, ServicesKept, EntryPointServed, Held
<1> QED
  BY <1>1, ConfigurationInvariant, PTL

(* A sealed port belongs to the directory its service has now.             *)
THEOREM PortsFollowDirectories == Spec => []PortOfItsDirectory
<1>1. ConfigurationInv => PortOfItsDirectory
  BY DEF ConfigurationInv, ServiceInv
<1> QED
  BY <1>1, ConfigurationInvariant, PTL

(* As long as no two writers of the tier overlapped, no step but the       *)
(* owner's reset takes an established database from its project.           *)
THEOREM DatabaseStays == Spec => DatabaseKept
<1>1. ConfigurationInv /\ [Next]_vars =>
        [Established /\ ~overlapped =>
            \/ tier'.engine = tier.engine /\ tier'.ready
            \/ tier'.engine = tier.engine /\ pending["reset"] # NoWrite]_vars
  BY KeepsDatabase DEF ConfigurationInv
<1> QED
  BY <1>1, ConfigurationInvariant, PTL DEF Spec, DatabaseKept

(* The names a managed database owns on its service are taken by no edit,  *)
(* of variables or of the database.                                        *)
THEOREM OwnershipStays == Spec => EditsKeepOwnership
<1>1. ConfigurationInv /\ [Next]_vars =>
        [~Conflict /\ Conflict' =>
            \/ pending["promotion"] # NoWrite /\ pending'["promotion"] = NoWrite
            \/ overlapped]_vars
  BY KeepsOwnership DEF ConfigurationInv
<1> QED
  BY <1>1, ConfigurationInvariant, PTL DEF Spec, EditsKeepOwnership

-----------------------------------------------------------------------------
(***************************************************************************)
(* DatabaseRecovery, for all evidence.                                     *)
(***************************************************************************)

(* What the report's verdict rests on.                                     *)
LEMMA Verdicts ==
    ASSUME NEW e \in Evidence
    PROVE  /\ DeploymentAllowed(e) <=>
                \/ ~e.persistent /\ ~Leftovers(e)
                \/ e.persistent /\ e.storage = "available" /\ Whole(e)
                \/ e.persistent /\ e.storage # "available" /\ ~e.expected /\ ~e.secret /\ ~e.state
           /\ ResetAllowed(e) <=>
                \/ ~e.persistent /\ Leftovers(e)
                \/ e.persistent /\ e.storage # "available" /\ (e.expected \/ e.secret \/ e.state)
<1>1. e.persistent \in BOOLEAN /\ e.expected \in BOOLEAN /\ e.secret \in BOOLEAN /\ e.state \in BOOLEAN
  BY DEF Evidence
<1> QED
  BY <1>1 DEF DeploymentAllowed, ResetAllowed, Classify

(* Over a recorded database a deployment goes ahead only with all of it,   *)
(* or afresh, at the owner's word, when its storage is not available.      *)
THEOREM RecoveryKeepsData == RecordedDataIsKept
<1> SUFFICES ASSUME NEW mode \in Mode, NEW e \in Evidence, Admitted(mode, e), e.expected,
                    ~Whole(e)
             PROVE  mode = "RESET_FRESH" /\ e.storage # "available"
  BY DEF RecordedDataIsKept
<1>1. ~DeploymentAllowed(e)
  BY Verdicts DEF Leftovers
<1> QED
  BY <1>1 DEF Admitted, Resets, MayReset

(* An admitted decision is one the workflow's contract accepts.            *)
THEOREM RecoveryIsDispatchable == AdmittedIsDispatchable
<1> SUFFICES ASSUME NEW mode \in Mode, NEW e \in Evidence, Admitted(mode, e)
             PROVE  Dispatchable(Decide(mode, Resets(mode, e), e))
  BY DEF AdmittedIsDispatchable
<1>1. Decide(mode, Resets(mode, e), e).allowed
  BY DEF Admitted
<1>2. CASE Resets(mode, e)
  BY <1>2 DEF Decide, Decision, Dispatchable
<1>3. CASE ~Resets(mode, e)
  BY <1>1, <1>3 DEF Decide, Decision, Dispatchable
<1> QED
  BY <1>2, <1>3

(* A report of a healthy database is overruled only for storage that is    *)
(* not available and that no tier records.                                 *)
THEOREM OpinionsDifferOnlyThen == OpinionsDiffer
<1> SUFFICES ASSUME NEW mode \in Mode, NEW e \in Evidence, DeploymentAllowed(e),
                    ~Decide(mode, FALSE, e).allowed
             PROVE  e.storage = "unavailable" /\ ~e.expected
  BY DEF OpinionsDiffer
<1>1. EverEstablished(e) /\ e.storage # "available"
  BY DEF Decide, Decision
<1>2. e.storage \in Resource
  BY DEF Evidence
<1> QED
  BY <1>1, <1>2, Verdicts DEF EverEstablished, Leftovers, Resource

(* Only storage that is incomplete or not available leaves the owner of a  *)
(* persistent database without a deployment and without a reset.           *)
THEOREM OwnerHasAWay == AlwaysAWay
<1> SUFFICES ASSUME NEW e \in Evidence, e.persistent, ~Admitted("DEPLOY", e),
                    ~Admitted("RESET_FRESH", e)
             PROVE  \/ e.storage = "available" /\ ~Whole(e)
                    \/ e.storage = "unavailable" /\ ~e.expected
  BY DEF AlwaysAWay
<1>1. e.managed
  BY DEF Evidence
<1>2. CASE DeploymentAllowed(e)
  <2>1. ~Decide("DEPLOY", FALSE, e).allowed
    BY <1>2 DEF Admitted, Resets
  <2> QED
    BY <1>2, <2>1, OpinionsDifferOnlyThen DEF OpinionsDiffer, Mode
<1>3. CASE ~DeploymentAllowed(e)
  <2>1. ~MayReset(e)
    BY <1>3 DEF Admitted, Resets, Decide, Decision
  <2> QED
    BY <1>1, <1>3, <2>1, Verdicts DEF MayReset
<1> QED
  BY <1>2, <1>3

=============================================================================
