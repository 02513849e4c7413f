-------------------------- MODULE PortfolioProofs ---------------------------
(***************************************************************************)
(* The properties of Portfolio, for every set of projects, sessions and    *)
(* plans.                                                                  *)
(*                                                                         *)
(* The invariant has a part for each of the things the projects share.     *)
(* Each part is disturbed by a few actions only: a lemma says which steps  *)
(* can (RowSteps, PromotionSteps, CallerSteps, CreationSteps, LiveSteps),  *)
(* and the next one that these keep the part.                              *)
(***************************************************************************)
EXTENDS Portfolio, FiniteSetTheorems, TLAPS

-----------------------------------------------------------------------------
(***************************************************************************)
(* The lowest free priority exists: a number in 1 .. n + 1 is not the      *)
(* priority of any of n projects.                                          *)
(***************************************************************************)
LEMMA LeastNatural ==
    ASSUME NEW T \in SUBSET Nat, T # {}
    PROVE  \E n \in T : \A m \in T : n <= m
  <1> DEFINE Less == OpToRel(<, Nat)
  <1>1. \E n \in T : \A m \in T : <<m, n>> \notin Less
    BY NatLessThanWellFounded, WFMin, Zenon
  <1>2. \A m, n \in Nat : m < n => <<m, n>> \in Less
    BY DEF OpToRel
  <1> HIDE DEF Less
  <1>3. PICK n \in T : \A m \in T : <<m, n>> \notin Less
    BY <1>1, Zenon
  <1>4. ASSUME NEW m \in T PROVE n <= m
    <2>1. m \in Nat /\ n \in Nat
      OBVIOUS
    <2>2. ~(m < n)
      BY <1>2, <1>3, <2>1, Zenon
    <2> QED
      BY <2>1, <2>2
  <1> QED
    BY <1>4

LEMMA SomePriorityIsFree ==
    ASSUME route \in [Project -> Nat]
    PROVE  \E n \in 1 .. Cardinality(Project) + 1 : Free(n)
  <1> DEFINE k == Cardinality(Project)
             taken == [n \in 1 .. k + 1 |-> CHOOSE p \in Project : route[p] = n]
  <1>1. IsFiniteSet(Project) /\ k \in Nat
    BY PortfolioAssumption, FS_CardinalityType
  <1>2. SUFFICES ASSUME \A n \in 1 .. k + 1 : \E p \in Project : route[p] = n
                 PROVE  FALSE
    BY DEF Free
  <1>3. taken \in [1 .. k + 1 -> Project] /\ \A n \in 1 .. k + 1 : route[taken[n]] = n
    BY <1>2
  <1>4. IsFiniteSet(1 .. k + 1) /\ Cardinality(1 .. k + 1) = k + 1
    BY <1>1, FS_Interval
  <1>5. Cardinality(Project) < Cardinality(1 .. k + 1)
    BY <1>1, <1>4
  <1> HIDE DEF taken, k
  <1>6. \E m, n \in 1 .. k + 1 : m # n /\ taken[m] = taken[n]
    <2> DEFINE S == 1 .. k + 1
    <2>1. IsFiniteSet(S) /\ Cardinality(Project) < Cardinality(S) /\ taken \in [S -> Project]
      BY <1>3, <1>4, <1>5
    <2> HIDE DEF S
    <2>2. \E m, n \in S : m # n /\ taken[m] = taken[n]
      BY <1>1, <2>1, FS_PigeonHole, Zenon
    <2> QED
      BY <2>2 DEF S
  <1> QED
    BY <1>3, <1>6

LEMMA LowestIsFree ==
    ASSUME route \in [Project -> Nat]
    PROVE  LowestFree \in Nat /\ LowestFree # 0 /\ Free(LowestFree)
  <1> DEFINE T == {n \in 1 .. Cardinality(Project) + 1 : Free(n)}
  <1>0. Cardinality(Project) \in Nat
    BY PortfolioAssumption, FS_CardinalityType
  <1>1. T \in SUBSET Nat /\ T # {}
    BY <1>0, SomePriorityIsFree
  <1>2. PICK n \in T : \A m \in T : n <= m
    <2> HIDE DEF T
    <2> QED
      BY <1>1, LeastNatural
  <1>3. \E i \in 1 .. Cardinality(Project) + 1 : Free(i) /\ \A m \in 1 .. i - 1 : ~Free(m)
    BY <1>0, <1>2
  <1>4. LowestFree \in 1 .. Cardinality(Project) + 1 /\ Free(LowestFree)
    BY <1>3 DEF LowestFree
  <1> QED
    BY <1>0, <1>4

-----------------------------------------------------------------------------
(***************************************************************************)
(* What the parts of a step do.                                            *)
(***************************************************************************)
LEMMA StepFacts ==
    ASSUME TypeOK, NEW s \in Session, NEW at \in At, NEW p \in Project,
           NEW i \in Identity \cup {NoIdentity}, Step(s, at, p, i)
    PROVE  /\ call' \in [Session -> Call]
           /\ call'[s].at = at /\ call'[s].on = p /\ call'[s].id = i
           /\ \A t \in Session \ {s} : call'[t] = call[t]
<1>1. [IdleCall EXCEPT !.at = at, !.on = p, !.id = i] \in Call
  BY DEF IdleCall, Call, At
<1> QED
  BY <1>1 DEF Step, TypeOK, IdleCall

LEMMA ReturnFacts ==
    ASSUME TypeOK, NEW s \in Session, Return(s)
    PROVE  /\ call' \in [Session -> Call]
           /\ call'[s].at = "idle"
           /\ \A t \in Session \ {s} : call'[t] = call[t]
<1>1. IdleCall \in Call
  BY DEF IdleCall, Call, At
<1> QED
  BY <1>1 DEF Return, TypeOK, IdleCall

LEMMA PromotionFacts ==
    ASSUME TypeOK, NEW s \in Session, NEW p \in Project, NEW retry \in BOOLEAN,
           BeginPromotion(s, p, retry)
    PROVE  /\ call' \in [Session -> Call]
           /\ call'[s].at = "promoting" /\ call'[s].on = p
           /\ call'[s].priority # 0
           /\ route[p] # 0 => call'[s].priority = route[p]
           /\ route[p] = 0 => Free(call'[s].priority)
           /\ \A t \in Session \ {s} : call'[t] = call[t]
<1> DEFINE n == IF route[p] = 0 THEN LowestFree ELSE route[p]
           c == [IdleCall EXCEPT !.at = "promoting", !.on = p, !.yes = retry, !.priority = n]
<1>1. n \in Nat /\ n # 0 /\ (route[p] # 0 => n = route[p]) /\ (route[p] = 0 => Free(n))
  BY LowestIsFree DEF TypeOK
<1>2. call' = [call EXCEPT ![s] = c]
  BY DEF BeginPromotion
<1> HIDE DEF n
<1>3. c \in Call /\ c.at = "promoting" /\ c.on = p /\ c.priority = n
  BY <1>1 DEF IdleCall, Call, At
<1> HIDE DEF c
<1>4. call' \in [Session -> Call] /\ call'[s] = c /\ \A t \in Session \ {s} : call'[t] = call[t]
  BY <1>2, <1>3 DEF TypeOK
<1> QED
  BY <1>1, <1>3, <1>4

LEMMA CountFacts ==
    ASSUME TypeOK, NEW s \in Session, NEW p \in Project, NEW retry \in BOOLEAN,
           CountSharers(s, p, retry)
    PROVE  /\ call' \in [Session -> Call]
           /\ call'[s].at = "counted" /\ call'[s].on = p /\ call'[s].id = identity[p]
           /\ call'[s].yes <=> Sharers(p) = {}
           /\ \A t \in Session \ {s} : call'[t] = call[t]
<1> DEFINE none == (Sharers(p) = {})
           c == [IdleCall EXCEPT !.at = "counted", !.on = p, !.id = identity[p], !.yes = none]
<1>1. none \in BOOLEAN /\ identity[p] \in Identity \cup {NoIdentity}
  BY DEF TypeOK
<1>2. call' = [call EXCEPT ![s] = c]
  BY DEF CountSharers
<1> HIDE DEF none
<1>3. c \in Call /\ c.at = "counted" /\ c.on = p /\ c.id = identity[p] /\ c.yes = none
  BY <1>1 DEF IdleCall, Call, At
<1> HIDE DEF c
<1>4. call' \in [Session -> Call] /\ call'[s] = c /\ \A t \in Session \ {s} : call'[t] = call[t]
  BY <1>2, <1>3 DEF TypeOK
<1> QED
  BY <1>3, <1>4 DEF none

LEMMA RemoveFacts ==
    ASSUME TypeOK, NEW s \in Session, RemoveCaller(s)
    PROVE  /\ call' \in [Session -> Call]
           /\ call'[s].at = "removed" /\ call'[s].on = call[s].on
           /\ \A t \in Session \ {s} : call'[t] = call[t]
  BY DEF RemoveCaller, TypeOK, Call, At

LEMMA EndFacts ==
    ASSUME TypeOK, NEW p \in Project, End(p)
    PROVE  /\ operation' \in [Project -> Operation \cup {NoOperation}]
           /\ operation'[p] = NoOperation
           /\ \A q \in Project \ {p} : operation'[q] = operation[q]
  BY DEF End, TypeOK

LEMMA ReachFacts ==
    ASSUME TypeOK, NEW p \in Project, NEW stage \in {"admitted", "ensured", "dispatched"},
           operation[p] # NoOperation, Reach(p, stage)
    PROVE  /\ operation' \in [Project -> Operation \cup {NoOperation}]
           /\ operation'[p].stage = stage /\ operation'[p].repo = operation[p].repo
           /\ \A q \in Project \ {p} : operation'[q] = operation[q]
<1>1. [operation[p] EXCEPT !.stage = stage] \in Operation
  BY DEF TypeOK, Operation
<1> QED
  BY <1>1 DEF Reach, TypeOK, Operation

LEMMA AdmitFacts ==
    ASSUME TypeOK, NEW p \in Project, identity[p] \in Identity,
           NEW kind \in {"deploy", "destroy"}, Admit(p, kind)
    PROVE  /\ operation' \in [Project -> Operation \cup {NoOperation}]
           /\ operation'[p].stage = "admitted" /\ operation'[p].repo = identity[p].repo
           /\ \A q \in Project \ {p} : operation'[q] = operation[q]
           /\ ops' \in 0 .. MaxOp
           /\ operation[p] = NoOperation /\ Exists(p)
           /\ UNCHANGED <<status, identity, plan, failed, route, caller, call, revived, late, edits>>
<1>1. [kind |-> kind, repo |-> identity[p].repo, stage |-> "admitted"] \in Operation
  BY DEF Operation, Identity
<1> QED
  BY <1>1, PortfolioAssumption DEF Admit, TypeOK, rowVars

-----------------------------------------------------------------------------
(***************************************************************************)
(* Types, and what belongs to a row.                                       *)
(***************************************************************************)
Placed ==
    /\ \A s \in Session :
          /\ call[s].at # "idle" => call[s].on \in Project
          /\ call[s].at \in {"creating", "checked", "branching", "editing", "archiving", "counted"} =>
                call[s].id \in Identity
          /\ call[s].at = "promoting" => status[call[s].on] # "absent"
    /\ \A p \in Project :
          /\ Exists(p) => identity[p] \in Identity
          /\ status[p] = "absent" => identity[p] = NoIdentity
          /\ operation[p] # NoOperation \/ failed[p] # "none" \/ route[p] # 0 => Exists(p)

TypeInv == TypeOK /\ Placed

(* What the steps of the calls touch.                                      *)
CallOnly == UNCHANGED <<status, identity, plan, operation, failed, route, caller>>
GhostsTyped ==
    /\ granted' \in [current : Nat, live : Nat]
    /\ revived' \in BOOLEAN
    /\ crowded' \in BOOLEAN
    /\ late' \subseteq Project
    /\ ops' \in 0 .. MaxOp
    /\ edits' \in 0 .. MaxEdit

LEMMA EditTyped == TypeOK /\ Edit => GhostsTyped
  BY PortfolioAssumption DEF TypeOK, Edit, GhostsTyped

(* The identity an edit of the source will write.                          *)
LEMMA EditFacts ==
    ASSUME Placed, NEW s \in Session, EditSource(s)
    PROVE  /\ call[s].on \in Project
           /\ \E i \in Identity : Step(s, "editing", call[s].on, i)
           /\ UNCHANGED <<rowVars, plan, operationVars, route, caller, ghostVars>>
<1> DEFINE p == call[s].on
           i == call[s].id
           j == [identity[p] EXCEPT !.branch = i.branch]
<1>1. call[s].at \in {"checked", "branching"} /\ UNCHANGED ghostVars /\ Exists(p)
  BY DEF EditSource, ReadForEdit, Exists
<1>2. p \in Project /\ i \in Identity /\ identity[p] \in Identity
  BY <1>1 DEF Placed
<1>3. j \in Identity
  BY <1>2 DEF Identity
<1>4. \/ Step(s, "editing", p, i)
      \/ Step(s, "editing", p, j)
  BY DEF EditSource, ReadForEdit
<1>5. UNCHANGED <<rowVars, plan, operationVars, route, caller>>
  BY DEF EditSource, ReadForEdit
<1> QED
  BY <1>1, <1>2, <1>3, <1>4, <1>5

LEMMA TypeNext == TypeInv /\ [Next]_vars => TypeInv'
<1> SUFFICES ASSUME TypeOK, Placed, [Next]_vars PROVE TypeOK' /\ Placed'
  BY DEF TypeInv
<1>0. CASE UNCHANGED vars
  BY <1>0 DEF vars, rowVars, operationVars, ghostVars, TypeOK, Placed, Exists
<1>1. ASSUME NEW s \in Session, NEW p \in Project, NEW i \in Identity,
             CheckCreation(s, p, i) \/ CheckSource(s, p, i)
      PROVE  TypeOK' /\ Placed'
  <2>1. CallOnly /\ GhostsTyped
    <3>1. CASE CheckCreation(s, p, i)
      BY <3>1, PortfolioAssumption DEF CheckCreation, CallOnly, GhostsTyped, TypeOK, Larger,
         rowVars, operationVars
    <3>2. CASE CheckSource(s, p, i)
      BY <3>2, EditTyped DEF CheckSource, CallOnly, rowVars, operationVars
    <3> QED
      BY <1>1, <3>1, <3>2
  <2>2. /\ call' \in [Session -> Call]
        /\ call'[s].at \in {"creating", "checked", "branching"} /\ call'[s].on = p /\ call'[s].id = i
        /\ \A t \in Session \ {s} : call'[t] = call[t]
    BY <1>1, StepFacts DEF CheckCreation, CheckSource, At
  <2> QED
    BY <2>1, <2>2 DEF CallOnly, GhostsTyped, TypeOK, Placed, Exists
<1>2. ASSUME NEW s \in Session, NEW p \in Project,
             EditDetails(s, p) \/ ReadForArchive(s, p) \/ (EditSource(s) /\ p = call[s].on)
      PROVE  TypeOK' /\ Placed'
  <2>1. CallOnly /\ GhostsTyped
    BY <1>2, EditTyped DEF EditDetails, ReadForArchive, EditSource, ReadForEdit, CallOnly,
       GhostsTyped, TypeOK, rowVars, operationVars, ghostVars
  <2>2. PICK at \in {"editing", "archiving"}, i \in Identity : Step(s, at, p, i)
    BY <1>2, EditFacts DEF EditDetails, ReadForArchive, ReadForEdit, Placed, Exists
  <2>3. /\ call' \in [Session -> Call]
        /\ call'[s].at = at /\ call'[s].on = p /\ call'[s].id = i
        /\ \A t \in Session \ {s} : call'[t] = call[t]
    BY <2>2, StepFacts DEF At
  <2> QED
    BY <2>1, <2>3 DEF CallOnly, GhostsTyped, TypeOK, Placed, Exists
<1>3. ASSUME NEW s \in Session, NEW p \in Project, NEW retry \in BOOLEAN,
             BeginPromotion(s, p, retry)
      PROVE  TypeOK' /\ Placed'
  <2>1. CallOnly /\ GhostsTyped
    BY <1>3 DEF BeginPromotion, CallOnly, GhostsTyped, TypeOK, rowVars, operationVars, ghostVars
  <2>2. status[p] # "absent"
    BY <1>3 DEF BeginPromotion, Stage, Placed, Exists
  <2> QED
    BY <1>3, <2>1, <2>2, PromotionFacts DEF CallOnly, GhostsTyped, TypeOK, Placed, Exists
<1>4. ASSUME NEW s \in Session, NEW p \in Project, NEW retry \in BOOLEAN,
             CountSharers(s, p, retry)
      PROVE  TypeOK' /\ Placed'
  <2>1. /\ UNCHANGED <<status, identity, plan, failed, route, caller, granted, revived, crowded, ops, edits>>
        /\ late' = late \cup {p}
        /\ operation[p] # NoOperation \/ failed[p] # "none"
        /\ UNCHANGED operation \/ End(p)
    BY <1>4 DEF CountSharers, Stage, rowVars
  <2>2. /\ operation' \in [Project -> Operation \cup {NoOperation}]
        /\ \A q \in Project : operation'[q] \in {operation[q], NoOperation}
    BY <2>1, EndFacts DEF TypeOK
  <2>3. identity[p] \in Identity
    BY <2>1 DEF Placed
  <2> QED
    BY <1>4, <2>1, <2>2, <2>3, CountFacts DEF TypeOK, Placed, Exists
<1>5. ASSUME NEW s \in Session, InsertProject(s) \/ SaveEdit(s) \/ SaveArchived(s)
      PROVE  TypeOK' /\ Placed'
  <2> DEFINE p == call[s].on
             i == call[s].id
  <2>1. p \in Project /\ i \in Identity
    BY <1>5 DEF InsertProject, SaveEdit, SaveArchived, Placed
  <2>2. /\ \E new \in {"current", "archived"} : status' = [status EXCEPT ![p] = new]
        /\ identity' = [identity EXCEPT ![p] = i]
        /\ Names(p, i) /\ Return(s)
        /\ UNCHANGED <<plan, operation, failed, route, caller, granted, crowded, ops, edits>>
        /\ revived' \in BOOLEAN
    BY <1>5 DEF InsertProject, SaveEdit, SaveArchived, TypeOK, operationVars
  <2> HIDE DEF p, i
  <2>3. late' \subseteq Project
    BY <2>1, <2>2 DEF Names, TypeOK
  <2>4. TypeOK'
    BY <2>1, <2>2, <2>3, ReturnFacts DEF TypeOK
  <2>5. \A q \in Project : /\ q = p => status'[q] \in {"current", "archived"} /\ identity'[q] = i
                           /\ q # p => status'[q] = status[q] /\ identity'[q] = identity[q]
    BY <2>1, <2>2 DEF TypeOK
  <2>6. Placed'
    BY <2>1, <2>2, <2>5, ReturnFacts DEF Placed, Exists
  <2> QED
    BY <2>4, <2>6
<1>6. ASSUME NEW s \in Session, Promote(s) PROVE TypeOK' /\ Placed'
  <2> DEFINE p == call[s].on
             n == call[s].priority
  <2>1. p \in Project /\ Exists(p) /\ n \in Nat
    BY <1>6 DEF Promote, Promoting, Placed, TypeOK, Call
  <2>2. /\ route' = [route EXCEPT ![p] = n]
        /\ Return(s)
        /\ UNCHANGED operation \/ End(p)
        /\ failed' \in {failed, [failed EXCEPT ![p] = "none"]}
        /\ UNCHANGED <<status, identity, plan, caller, granted, revived, crowded, late, ops, edits>>
    BY <1>6 DEF Promote, rowVars, ghostVars
  <2> HIDE DEF p, n
  <2>3. /\ operation' \in [Project -> Operation \cup {NoOperation}]
        /\ \A q \in Project \ {p} : operation'[q] = operation[q]
    BY <2>1, <2>2, EndFacts DEF TypeOK
  <2>4. /\ route' \in [Project -> Nat] /\ failed' \in [Project -> {"none", "deploy", "destroy"}]
        /\ \A q \in Project \ {p} : route'[q] = route[q] /\ failed'[q] = failed[q]
    BY <2>1, <2>2 DEF TypeOK
  <2> QED
    BY <2>1, <2>2, <2>3, <2>4, ReturnFacts DEF TypeOK, Placed, Exists
<1>7. ASSUME NEW s \in Session, PromotionFails(s) \/ DeletionFails(s)
      PROVE  TypeOK' /\ Placed'
  <2> DEFINE p == call[s].on
  <2>1. p \in Project /\ Exists(p)
    BY <1>7 DEF PromotionFails, DeletionFails, Promoting, Placed
  <2>2. /\ Return(s)
        /\ UNCHANGED operation \/ End(p)
        /\ failed' = failed \/ \E new \in {"deploy", "destroy"} : failed' = [failed EXCEPT ![p] = new]
        /\ UNCHANGED <<status, identity, plan, route, caller, granted, revived, crowded, late, ops, edits>>
    BY <1>7 DEF PromotionFails, DeletionFails, rowVars, operationVars, ghostVars
  <2> HIDE DEF p
  <2>3. /\ operation' \in [Project -> Operation \cup {NoOperation}]
        /\ \A q \in Project \ {p} : operation'[q] = operation[q]
    BY <2>1, <2>2, EndFacts DEF TypeOK
  <2>4. /\ failed' \in [Project -> {"none", "deploy", "destroy"}]
        /\ \A q \in Project \ {p} : failed'[q] = failed[q]
    BY <2>1, <2>2 DEF TypeOK
  <2> QED
    BY <2>1, <2>2, <2>3, <2>4, ReturnFacts DEF TypeOK, Placed, Exists
<1>8. ASSUME NEW s \in Session, RemoveCaller(s) PROVE TypeOK' /\ Placed'
  <2>1. /\ UNCHANGED <<status, identity, plan, operation, failed, route, granted, revived, crowded, late, ops, edits>>
        /\ caller' \subseteq caller /\ call[s].at = "counted"
    BY <1>8 DEF RemoveCaller, rowVars, operationVars, ghostVars
  <2> QED
    BY <1>8, <2>1, RemoveFacts DEF TypeOK, Placed, Exists
<1>9. ASSUME NEW s \in Session, DeleteProject(s) PROVE TypeOK' /\ Placed'
  <2> DEFINE p == call[s].on
  <2>1. p \in Project /\ Exists(p)
    BY <1>9 DEF DeleteProject, Placed
  <2>2. /\ status' = [status EXCEPT ![p] = "deleted"]
        /\ identity' = [identity EXCEPT ![p] = NoIdentity]
        /\ route' = [route EXCEPT ![p] = 0]
        /\ End(p)
        /\ failed' = [failed EXCEPT ![p] = "none"]
        /\ Return(s)
        /\ UNCHANGED <<plan, caller, granted, revived, crowded, late, ops, edits>>
    BY <1>9 DEF DeleteProject, ghostVars
  <2> HIDE DEF p
  <2>3. TypeOK'
    BY <2>1, <2>2, ReturnFacts, EndFacts DEF TypeOK
  <2>4. /\ status'[p] = "deleted" /\ identity'[p] = NoIdentity /\ route'[p] = 0 /\ failed'[p] = "none"
        /\ \A q \in Project \ {p} : /\ status'[q] = status[q] /\ identity'[q] = identity[q]
                                    /\ route'[q] = route[q] /\ failed'[q] = failed[q]
    BY <2>1, <2>2 DEF TypeOK
  <2>5. Placed'
    BY <2>1, <2>2, <2>4, ReturnFacts, EndFacts DEF Placed, Exists
  <2> QED
    BY <2>3, <2>5
<1>10. ASSUME NEW s \in Session, Abandon(s) PROVE TypeOK' /\ Placed'
  <2>1. Return(s) /\ CallOnly /\ GhostsTyped
    BY <1>10 DEF Abandon, CallOnly, GhostsTyped, TypeOK, rowVars, operationVars, ghostVars
  <2> QED
    BY <2>1, ReturnFacts DEF CallOnly, GhostsTyped, TypeOK, Placed, Exists
<1>11. ASSUME NEW p \in Project, AdmitDeploy(p) \/ AdmitDestroy(p) PROVE TypeOK' /\ Placed'
  <2>1. PICK kind \in {"deploy", "destroy"} : Admit(p, kind)
    BY <1>11 DEF AdmitDeploy, AdmitDestroy
  <2>2. identity[p] \in Identity
    BY <2>1 DEF Admit, Placed
  <2>3. granted' \in [current : Nat, live : Nat] /\ crowded' \in BOOLEAN
    <3>1. LiveLimit[plan] \in Nat
      BY PortfolioAssumption DEF TypeOK
    <3>2. granted' \in [current : Nat, live : Nat]
      BY <1>11, <3>1 DEF AdmitDeploy, AdmitDestroy, TypeOK, Larger
    <3>3. crowded' = crowded \/ crowded' = (crowded \/ \E q \in Project \ {p} : Awaits(q))
      BY <1>11, Zenon DEF AdmitDeploy, AdmitDestroy
    <3> QED
      BY <3>2, <3>3 DEF TypeOK
  <2> QED
    BY <2>1, <2>2, <2>3, AdmitFacts DEF TypeOK, Placed, Exists
<1>12. ASSUME NEW p \in Project, EnsureWorkflow(p) \/ TriggerWorkflow(p) PROVE TypeOK' /\ Placed'
  <2>1. operation[p] # NoOperation /\ \E stage \in {"ensured", "dispatched"} : Reach(p, stage)
    BY <1>12 DEF EnsureWorkflow, TriggerWorkflow, Stage
  <2>2. /\ operation' \in [Project -> Operation \cup {NoOperation}]
        /\ \A q \in Project \ {p} : operation'[q] = operation[q]
    BY <2>1, ReachFacts
  <2>3. /\ caller' \in {caller, caller \cup {operation[p].repo}} /\ operation[p].repo \in Repo
        /\ UNCHANGED <<status, identity, plan, failed, route, call, granted, revived, crowded, late, ops, edits>>
    BY <1>12, <2>1 DEF EnsureWorkflow, TriggerWorkflow, rowVars, ghostVars, TypeOK, Operation
  <2> QED
    BY <2>1, <2>2, <2>3 DEF TypeOK, Placed, Exists
<1>13. ASSUME NEW p \in Project, OperationFails(p) PROVE TypeOK' /\ Placed'
  <2>1. /\ End(p) /\ failed' = [failed EXCEPT ![p] = "none"]
        /\ UNCHANGED <<status, identity, plan, route, caller, call, granted, revived, crowded, late, ops, edits>>
    BY <1>13 DEF OperationFails, rowVars, ghostVars
  <2> QED
    BY <2>1, EndFacts DEF TypeOK, Placed, Exists
<1>14. CASE ChangePlan
  BY <1>14 DEF ChangePlan, rowVars, operationVars, ghostVars, TypeOK, Placed, Exists
<1>15. \A s \in Session : EditSource(s) => call[s].on \in Project
  BY DEF EditSource, Placed
<1> QED
  BY <1>0, <1>1, <1>2, <1>3, <1>4, <1>5, <1>6, <1>7, <1>8, <1>9, <1>10, <1>11, <1>12, <1>13, <1>14, <1>15 DEF Next

-----------------------------------------------------------------------------
(***************************************************************************)
(* Identities.                                                             *)
(***************************************************************************)
LEMMA RowSteps ==
    ASSUME [Next]_vars
    PROVE  \/ UNCHANGED rowVars
           \/ \E s \in Session : InsertProject(s) \/ SaveEdit(s) \/ SaveArchived(s) \/ DeleteProject(s)
<1>1. CASE UNCHANGED vars
  BY <1>1 DEF vars
<1>2. ASSUME NEW s \in Session, NEW p \in Project, NEW i \in Identity,
             CheckCreation(s, p, i) \/ CheckSource(s, p, i)
      PROVE  UNCHANGED rowVars
  BY <1>2 DEF CheckCreation, CheckSource
<1>3. ASSUME NEW s \in Session, NEW p \in Project, EditDetails(s, p) \/ ReadForArchive(s, p)
      PROVE  UNCHANGED rowVars
  BY <1>3 DEF EditDetails, ReadForEdit, ReadForArchive
<1>4. ASSUME NEW s \in Session, NEW p \in Project, NEW retry \in BOOLEAN,
             BeginPromotion(s, p, retry) \/ CountSharers(s, p, retry)
      PROVE  UNCHANGED rowVars
  BY <1>4 DEF BeginPromotion, CountSharers
<1>5. ASSUME NEW s \in Session,
             \/ EditSource(s) \/ Promote(s) \/ PromotionFails(s) \/ RemoveCaller(s)
             \/ DeletionFails(s) \/ Abandon(s)
      PROVE  UNCHANGED rowVars
  BY <1>5 DEF EditSource, ReadForEdit, Promote, PromotionFails, RemoveCaller, DeletionFails, Abandon
<1>6. ASSUME NEW p \in Project,
             \/ AdmitDeploy(p) \/ AdmitDestroy(p) \/ EnsureWorkflow(p) \/ TriggerWorkflow(p)
             \/ OperationFails(p)
      PROVE  UNCHANGED rowVars
  BY <1>6 DEF AdmitDeploy, AdmitDestroy, Admit, EnsureWorkflow, TriggerWorkflow, OperationFails
<1>7. CASE ChangePlan
  BY <1>7 DEF ChangePlan
<1> QED
  BY <1>1, <1>2, <1>3, <1>4, <1>5, <1>6, <1>7 DEF Next

(* What a save or a deletion makes of one row.                             *)
LEMMA RowFacts ==
    ASSUME TypeInv, NEW s \in Session,
           InsertProject(s) \/ SaveEdit(s) \/ SaveArchived(s) \/ DeleteProject(s)
    PROVE  /\ call[s].on \in Project
           /\ \A q \in Project \ {call[s].on} : status'[q] = status[q] /\ identity'[q] = identity[q]
           /\ InsertProject(s) \/ SaveEdit(s) =>
                 /\ status'[call[s].on] = "current" /\ identity'[call[s].on] = call[s].id
                 /\ Available(call[s].on, call[s].id)
           /\ InsertProject(s) => status[call[s].on] = "absent"
           /\ SaveEdit(s) => Exists(call[s].on) /\ revived' = (revived \/ status[call[s].on] = "archived")
           /\ SaveArchived(s) =>
                 /\ status'[call[s].on] = "archived" /\ identity'[call[s].on] = call[s].id
                 /\ Exists(call[s].on)
           /\ DeleteProject(s) =>
                 status'[call[s].on] = "deleted" /\ identity'[call[s].on] = NoIdentity
<1>1. call[s].on \in Project
  BY DEF TypeInv, Placed, InsertProject, SaveEdit, SaveArchived, DeleteProject
<1> QED
  BY <1>1 DEF TypeInv, TypeOK, InsertProject, SaveEdit, SaveArchived, DeleteProject

LEMMA IdentityNext == TypeInv /\ IdentityIsUnique /\ [Next]_vars => IdentityIsUnique'
<1> SUFFICES ASSUME TypeInv, IdentityIsUnique, [Next]_vars PROVE IdentityIsUnique'
  OBVIOUS
<1>1. CASE UNCHANGED rowVars
  BY <1>1 DEF rowVars, IdentityIsUnique, Current
<1>2. ASSUME NEW s \in Session, InsertProject(s) \/ SaveEdit(s) \/ SaveArchived(s) \/ DeleteProject(s)
      PROVE  IdentityIsUnique'
  BY <1>2, RowFacts DEF IdentityIsUnique, Current, Available
<1> QED
  BY <1>1, <1>2, RowSteps

-----------------------------------------------------------------------------
(***************************************************************************)
(* Listener priorities.                                                    *)
(***************************************************************************)
Chosen(s) ==
    /\ call[s].priority # 0
    /\ IF route[call[s].on] = 0 THEN Free(call[s].priority)
                                ELSE call[s].priority = route[call[s].on]

PriorityInv ==
    /\ \A p, q \in Project : route[p] = route[q] /\ route[p] # 0 => p = q
    /\ \A s, t \in Session :
          call[s].at = "promoting" /\ call[t].at = "promoting" /\ call[s].on = call[t].on => s = t
    /\ \A s, t \in Session : Allocates(s) /\ Allocates(t) => s = t
    /\ \A s \in Session : Promoting(s) => Chosen(s)

(* A step that starts or ends no promotion: a project that is deleted or   *)
(* not there yet has none.                                                 *)
NoPromotion ==
    /\ UNCHANGED route
    /\ \A t \in Session : call'[t].at = "promoting" => call'[t] = call[t]
    /\ \A p \in Project : Exists(p)' => Exists(p) \/ status[p] = "absent"

LEMMA PromotionSteps ==
    ASSUME TypeInv, [Next]_vars
    PROVE  \/ NoPromotion
           \/ \E s \in Session, p \in Project, retry \in BOOLEAN : BeginPromotion(s, p, retry)
           \/ \E s \in Session : Promote(s) \/ DeleteProject(s)
<1>1. CASE UNCHANGED vars
  BY <1>1 DEF vars, rowVars, NoPromotion, Exists
<1>2. ASSUME NEW s \in Session, NEW p \in Project, NEW i \in Identity,
             CheckCreation(s, p, i) \/ CheckSource(s, p, i)
      PROVE  NoPromotion
  <2>1. UNCHANGED <<status, route>>
    BY <1>2 DEF CheckCreation, CheckSource, rowVars
  <2> QED
    BY <1>2, <2>1, StepFacts DEF CheckCreation, CheckSource, NoPromotion, Exists, TypeInv, At
<1>3. ASSUME NEW s \in Session, NEW p \in Project,
             EditDetails(s, p) \/ ReadForArchive(s, p) \/ (EditSource(s) /\ p = call[s].on)
      PROVE  NoPromotion
  <2>1. UNCHANGED <<status, route>>
    BY <1>3 DEF EditDetails, ReadForArchive, EditSource, ReadForEdit, rowVars
  <2>2. PICK at \in {"editing", "archiving"}, i \in Identity : Step(s, at, p, i)
    BY <1>3, EditFacts DEF EditDetails, ReadForArchive, ReadForEdit, TypeInv, Placed, Exists
  <2> QED
    BY <2>1, <2>2, StepFacts DEF NoPromotion, Exists, TypeInv, At
<1>4. ASSUME NEW s \in Session, NEW p \in Project, NEW retry \in BOOLEAN, CountSharers(s, p, retry)
      PROVE  NoPromotion
  <2>1. UNCHANGED <<status, route>>
    BY <1>4 DEF CountSharers, rowVars
  <2> QED
    BY <1>4, <2>1, CountFacts DEF NoPromotion, Exists, TypeInv
<1>5. ASSUME NEW s \in Session, InsertProject(s) \/ SaveEdit(s) \/ SaveArchived(s) PROVE NoPromotion
  <2>1. UNCHANGED route /\ Return(s)
    BY <1>5 DEF InsertProject, SaveEdit, SaveArchived
  <2>2. \A p \in Project : Exists(p)' => Exists(p) \/ status[p] = "absent"
    BY <1>5, RowFacts DEF Exists
  <2> QED
    BY <2>1, <2>2, ReturnFacts DEF NoPromotion, TypeInv
<1>6. ASSUME NEW s \in Session, PromotionFails(s) \/ DeletionFails(s) \/ Abandon(s) PROVE NoPromotion
  <2>1. UNCHANGED <<status, route>> /\ Return(s)
    BY <1>6 DEF PromotionFails, DeletionFails, Abandon, rowVars
  <2> QED
    BY <2>1, ReturnFacts DEF NoPromotion, Exists, TypeInv
<1>7. ASSUME NEW s \in Session, RemoveCaller(s) PROVE NoPromotion
  <2>1. UNCHANGED <<status, route>>
    BY <1>7 DEF RemoveCaller, rowVars
  <2> QED
    BY <1>7, <2>1, RemoveFacts DEF NoPromotion, Exists, TypeInv
<1>8. ASSUME NEW p \in Project,
             AdmitDeploy(p) \/ AdmitDestroy(p) \/ EnsureWorkflow(p) \/ TriggerWorkflow(p) \/ OperationFails(p)
      PROVE  NoPromotion
  BY <1>8 DEF AdmitDeploy, AdmitDestroy, Admit, EnsureWorkflow, TriggerWorkflow, OperationFails,
     rowVars, NoPromotion, Exists
<1>9. CASE ChangePlan
  BY <1>9 DEF ChangePlan, rowVars, NoPromotion, Exists
<1>10. \A s \in Session : EditSource(s) => call[s].on \in Project
  BY DEF EditSource, TypeInv, Placed
<1> QED
  BY <1>1, <1>2, <1>3, <1>4, <1>5, <1>6, <1>7, <1>8, <1>9, <1>10 DEF Next

LEMMA PriorityNext == TypeInv /\ PriorityInv /\ [Next]_vars => PriorityInv'
<1> SUFFICES ASSUME TypeInv, PriorityInv, [Next]_vars PROVE PriorityInv'
  OBVIOUS
<1>0. \A s \in Session : call[s].at = "promoting" => call[s].on \in Project /\ status[call[s].on] # "absent"
  BY DEF TypeInv, Placed
<1>1. CASE NoPromotion
  <2>1. \A s \in Session : Promoting(s)' => Promoting(s) /\ call'[s] = call[s]
    BY <1>0, <1>1 DEF NoPromotion, Promoting
  <2>2. \A s \in Session : Allocates(s)' => Allocates(s)
    BY <1>1, <2>1 DEF NoPromotion, Allocates
  <2> QED
    BY <1>1, <2>1, <2>2 DEF NoPromotion, PriorityInv, Chosen, Free
<1>2. ASSUME NEW s \in Session, NEW p \in Project, NEW retry \in BOOLEAN, BeginPromotion(s, p, retry)
      PROVE  PriorityInv'
  <2>1. /\ UNCHANGED <<status, route>> /\ NobodyOn("promoting", p)
        /\ route[p] = 0 => \A t \in Session : ~Allocates(t)
    BY <1>2 DEF BeginPromotion, rowVars
  <2>2. \A t \in Session : /\ t # s /\ Promoting(t)' => Promoting(t) /\ call'[t] = call[t]
                           /\ t # s /\ Allocates(t)' => Allocates(t)
    BY <1>2, <2>1, PromotionFacts DEF Promoting, Allocates, Exists, TypeInv
  <2>3. /\ call'[s].at = "promoting" /\ call'[s].on = p
        /\ call'[s].priority # 0
        /\ route[p] # 0 => call'[s].priority = route[p]
        /\ route[p] = 0 => Free(call'[s].priority)
        /\ \A t \in Session \ {s} : call'[t] = call[t]
    BY <1>2, PromotionFacts DEF TypeInv
  <2>4. \A t, u \in Session :
           call'[t].at = "promoting" /\ call'[u].at = "promoting" /\ call'[t].on = call'[u].on => t = u
    BY <2>1, <2>3 DEF PriorityInv, NobodyOn
  <2>5. \A t, u \in Session : Allocates(t)' /\ Allocates(u)' => t = u
    <3>1. Allocates(s)' => \A t \in Session : ~Allocates(t)
      BY <2>1, <2>3 DEF Allocates
    <3> QED
      BY <2>2, <3>1 DEF PriorityInv
  <2>6. \A t \in Session : Promoting(t)' => Chosen(t)'
    <3>1. Chosen(s)'
      BY <2>1, <2>3 DEF Chosen, Free
    <3>2. \A t \in Session : t # s /\ Promoting(t)' => Chosen(t)'
      BY <2>1, <2>2 DEF PriorityInv, Chosen, Free
    <3> QED
      BY <3>1, <3>2
  <2> QED
    BY <2>1, <2>4, <2>5, <2>6 DEF PriorityInv
<1>3. ASSUME NEW s \in Session, Promote(s) PROVE PriorityInv'
  <2> DEFINE p == call[s].on
             n == call[s].priority
  <2>1. /\ p \in Project /\ Promoting(s) /\ Return(s) /\ UNCHANGED status
        /\ route' = [route EXCEPT ![p] = n]
        /\ \A q \in Project \ {p} : route[q] # n
    BY <1>0, <1>3 DEF Promote, Promoting, rowVars
  <2>2. route'[p] = n /\ \A q \in Project \ {p} : route'[q] = route[q]
    BY <2>1 DEF TypeInv, TypeOK
  <2>3. \A t \in Session : Promoting(t)' => /\ t # s /\ Promoting(t) /\ call'[t] = call[t]
                                            /\ call[t].on \in Project \ {p}
    BY <1>0, <2>1, ReturnFacts DEF Promoting, PriorityInv, TypeInv, Exists
  <2>4. \A t \in Session : Allocates(t)' => t # s /\ Allocates(t)
    BY <2>2, <2>3 DEF Allocates
  <2>5. ASSUME NEW t \in Session, Promoting(t)' PROVE Chosen(t)'
    <3>1. Chosen(t) /\ t # s /\ call'[t] = call[t] /\ call[t].on \in Project \ {p}
      BY <2>3, <2>5 DEF PriorityInv
    <3>2. CASE route[call[t].on] # 0
      BY <2>2, <3>1, <3>2 DEF Chosen
    <3>3. CASE route[call[t].on] = 0
      <4>1. Allocates(t) /\ ~Allocates(s)
        BY <2>3, <2>5, <3>1, <3>3 DEF Allocates, PriorityInv
      <4>2. route[p] # 0 /\ n = route[p]
        BY <2>1, <4>1 DEF PriorityInv, Allocates, Chosen
      <4>3. \A q \in Project : route'[q] # call[t].priority
        BY <2>1, <2>2, <3>1, <3>3, <4>2 DEF Chosen, Free
      <4> QED
        BY <2>2, <3>1, <3>3, <4>3 DEF Chosen, Free
    <3> QED
      BY <3>2, <3>3
  <2>6. \A t \in Session : call'[t].at = "promoting" => t # s /\ call'[t] = call[t]
    BY <2>1, ReturnFacts DEF TypeInv
  <2>7. \A q, r \in Project : route'[q] = route'[r] /\ route'[q] # 0 => q = r
    BY <2>1, <2>2 DEF PriorityInv
  <2> QED
    BY <2>4, <2>5, <2>6, <2>7 DEF PriorityInv
<1>4. ASSUME NEW s \in Session, DeleteProject(s) PROVE PriorityInv'
  <2> DEFINE p == call[s].on
  <2>1. /\ p \in Project /\ Return(s)
        /\ status' = [status EXCEPT ![p] = "deleted"]
        /\ route' = [route EXCEPT ![p] = 0]
    BY <1>4, RowFacts DEF DeleteProject
  <2>2. /\ route'[p] = 0 /\ status'[p] = "deleted"
        /\ \A q \in Project \ {p} : route'[q] = route[q] /\ status'[q] = status[q]
    BY <2>1 DEF TypeInv, TypeOK
  <2>3. \A t \in Session : Promoting(t)' => /\ Promoting(t) /\ call'[t] = call[t]
                                            /\ call[t].on \in Project \ {p}
    BY <1>0, <2>1, <2>2, ReturnFacts DEF Promoting, TypeInv, Exists
  <2>4. \A t \in Session : Allocates(t)' => Allocates(t)
    BY <2>2, <2>3 DEF Allocates
  <2>5. \A t \in Session : call'[t].at = "promoting" => t # s /\ call'[t] = call[t]
    BY <2>1, ReturnFacts DEF TypeInv
  <2> QED
    BY <2>2, <2>3, <2>4, <2>5 DEF PriorityInv, Chosen, Free
<1> QED
  BY <1>1, <1>2, <1>3, <1>4, PromotionSteps

-----------------------------------------------------------------------------
(***************************************************************************)
(* The caller workflow.                                                    *)
(***************************************************************************)
UsesIts(p) == operation[p] # NoOperation => operation[p].repo = identity[p].repo

(* Who found no sharer of a repository is right about the projects it      *)
(* could count.                                                            *)
CountedRight(s) ==
    call[s].at = "counted" /\ call[s].yes =>
        \A p \in Project \ late : Exists(p) => identity[p].repo # call[s].id.repo

CallerInv ==
    /\ \A p \in Project \ late : UsesIts(p)
    /\ \A s \in Session : CountedRight(s)
    /\ CallerInPlace

(* A step that leaves the rows and the callers alone and at most ends an   *)
(* operation or a count.                                                   *)
CallersKept ==
    /\ UNCHANGED <<rowVars, caller, late>>
    /\ \A p \in Project : operation'[p] \in {operation[p], NoOperation}
    /\ \A t \in Session : call'[t].at = "counted" => call'[t] = call[t]

LEMMA CallerSteps ==
    ASSUME TypeInv, [Next]_vars
    PROVE  \/ CallersKept
           \/ \E s \in Session : \/ InsertProject(s) \/ SaveEdit(s) \/ SaveArchived(s)
                                 \/ RemoveCaller(s) \/ DeleteProject(s)
           \/ \E s \in Session, p \in Project, retry \in BOOLEAN : CountSharers(s, p, retry)
           \/ \E p \in Project : \/ AdmitDeploy(p) \/ AdmitDestroy(p)
                                 \/ EnsureWorkflow(p) \/ TriggerWorkflow(p)
<1> USE DEF TypeInv
<1>1. CASE UNCHANGED vars
  BY <1>1 DEF vars, rowVars, operationVars, ghostVars, CallersKept
<1>2. ASSUME NEW s \in Session, NEW p \in Project, NEW i \in Identity,
             CheckCreation(s, p, i) \/ CheckSource(s, p, i)
      PROVE  CallersKept
  <2>1. UNCHANGED <<rowVars, operation, caller, late>>
    BY <1>2 DEF CheckCreation, CheckSource, Edit, operationVars
  <2> QED
    BY <1>2, <2>1, StepFacts DEF CheckCreation, CheckSource, CallersKept, At
<1>3. ASSUME NEW s \in Session, NEW p \in Project,
             EditDetails(s, p) \/ ReadForArchive(s, p) \/ (EditSource(s) /\ p = call[s].on)
      PROVE  CallersKept
  <2>1. UNCHANGED <<rowVars, operation, caller, late>>
    BY <1>3 DEF EditDetails, ReadForArchive, EditSource, ReadForEdit, Edit, operationVars, ghostVars
  <2>2. PICK at \in {"editing", "archiving"}, i \in Identity : Step(s, at, p, i)
    BY <1>3, EditFacts DEF EditDetails, ReadForArchive, ReadForEdit, Placed, Exists
  <2> QED
    BY <2>1, <2>2, StepFacts DEF CallersKept, At
<1>4. ASSUME NEW s \in Session, NEW p \in Project, NEW retry \in BOOLEAN, BeginPromotion(s, p, retry)
      PROVE  CallersKept
  <2>1. UNCHANGED <<rowVars, operation, caller, late>>
    BY <1>4 DEF BeginPromotion, operationVars, ghostVars
  <2> QED
    BY <1>4, <2>1, PromotionFacts DEF CallersKept
<1>5. ASSUME NEW s \in Session, Promote(s) \/ PromotionFails(s) \/ DeletionFails(s) \/ Abandon(s)
      PROVE  CallersKept
  <2>1. /\ UNCHANGED <<rowVars, caller, late>> /\ Return(s)
        /\ UNCHANGED operation \/ (call[s].on \in Project /\ End(call[s].on))
    BY <1>5 DEF Promote, PromotionFails, DeletionFails, Abandon, operationVars, ghostVars,
       Promoting, Placed
  <2> QED
    BY <2>1, ReturnFacts, EndFacts DEF CallersKept
<1>6. ASSUME NEW p \in Project, OperationFails(p) PROVE CallersKept
  BY <1>6, EndFacts DEF OperationFails, CallersKept, ghostVars
<1>7. CASE ChangePlan
  BY <1>7 DEF ChangePlan, CallersKept, operationVars, ghostVars
<1>8. \A s \in Session : EditSource(s) => call[s].on \in Project
  BY DEF EditSource, Placed
<1> QED
  BY <1>1, <1>2, <1>3, <1>4, <1>5, <1>6, <1>7, <1>8 DEF Next

LEMMA CallerNext == TypeInv /\ CallerInv /\ [Next]_vars => CallerInv'
<1> SUFFICES ASSUME TypeInv, CallerInv, [Next]_vars PROVE CallerInv'
  OBVIOUS
<1>t. TypeInv'
  BY TypeNext
<1>1. CASE CallersKept
  BY <1>1 DEF CallersKept, rowVars, CallerInv, UsesIts, CountedRight, CallerInPlace, Stage, Exists
<1>2. ASSUME NEW s \in Session, InsertProject(s) \/ SaveEdit(s) \/ SaveArchived(s) PROVE CallerInv'
  <2> DEFINE p == call[s].on
             i == call[s].id
  <2>1. /\ p \in Project
        /\ Names(p, i) /\ Return(s) /\ UNCHANGED <<operation, caller>>
        /\ identity'[p] = i
        /\ \A q \in Project \ {p} : status'[q] = status[q] /\ identity'[q] = identity[q]
        /\ identity[p] # NoIdentity => Exists(p)
    BY <1>2, RowFacts DEF InsertProject, SaveEdit, SaveArchived, operationVars, TypeInv, Placed
  <2>2. \A t \in Session : call'[t].at = "counted" => call'[t] = call[t]
    BY <2>1, ReturnFacts DEF TypeInv
  <2>3. /\ late \subseteq late'
        /\ p \notin late' => \/ identity[p] # NoIdentity /\ identity[p].repo = i.repo
                             \/ /\ operation[p] = NoOperation
                                /\ \A t \in Session :
                                      ~(call[t].at = "counted" /\ call[t].id.repo = i.repo)
    BY <2>1 DEF Names
  <2> HIDE DEF p, i
  <2>4. ASSUME NEW q \in Project \ late' PROVE UsesIts(q)'
    BY <2>1, <2>3, <2>4 DEF CallerInv, UsesIts
  <2>5. ASSUME NEW t \in Session PROVE CountedRight(t)'
    BY <2>1, <2>2, <2>3, <2>5 DEF CallerInv, CountedRight, Exists
  <2>6. CallerInPlace'
    BY <2>1, <2>3 DEF CallerInv, CallerInPlace, Stage
  <2> QED
    BY <2>4, <2>5, <2>6 DEF CallerInv
<1>3. ASSUME NEW s \in Session, RemoveCaller(s) PROVE CallerInv'
  <2>1. /\ UNCHANGED <<status, identity, operation, late>>
        /\ call[s].at = "counted"
        /\ caller' = IF call[s].yes THEN caller \ {call[s].id.repo} ELSE caller
    BY <1>3 DEF RemoveCaller, rowVars, operationVars, ghostVars
  <2>2. \A t \in Session : call'[t].at = "counted" => call'[t] = call[t]
    BY <1>3, RemoveFacts DEF TypeInv
  <2>3. \A q \in Project \ late : call[s].yes /\ Stage(q, "ensured") =>
            operation[q].repo # call[s].id.repo
    BY <2>1 DEF CallerInv, UsesIts, CountedRight, Stage, TypeInv, Placed
  <2> QED
    BY <2>1, <2>2, <2>3 DEF CallerInv, UsesIts, CountedRight, CallerInPlace, Stage, Exists
<1>4. ASSUME NEW s \in Session, DeleteProject(s) PROVE CallerInv'
  <2> DEFINE p == call[s].on
  <2>1. /\ p \in Project /\ End(p) /\ Return(s) /\ UNCHANGED <<caller, late>>
        /\ status'[p] = "deleted"
        /\ \A q \in Project \ {p} : status'[q] = status[q] /\ identity'[q] = identity[q]
    BY <1>4, RowFacts DEF DeleteProject, ghostVars
  <2>2. operation'[p] = NoOperation /\ \A q \in Project \ {p} : operation'[q] = operation[q]
    BY <2>1, EndFacts DEF TypeInv
  <2>3. \A t \in Session : call'[t].at = "counted" => call'[t] = call[t]
    BY <2>1, ReturnFacts DEF TypeInv
  <2> QED
    BY <2>1, <2>2, <2>3 DEF CallerInv, UsesIts, CountedRight, CallerInPlace, Stage, Exists
<1>5. ASSUME NEW s \in Session, NEW p \in Project, NEW retry \in BOOLEAN, CountSharers(s, p, retry)
      PROVE  CallerInv'
  <2>1. /\ UNCHANGED <<status, identity, caller>> /\ late' = late \cup {p}
        /\ UNCHANGED operation \/ End(p)
    BY <1>5 DEF CountSharers, rowVars
  <2>2. \A q \in Project \ {p} : operation'[q] = operation[q]
    BY <2>1, EndFacts DEF TypeInv
  <2>3. /\ call'[s].id = identity[p] /\ (call'[s].yes <=> Sharers(p) = {})
        /\ \A t \in Session \ {s} : call'[t] = call[t]
    BY <1>5, CountFacts DEF TypeInv
  <2>4. CountedRight(s)'
    BY <2>1, <2>3 DEF CountedRight, Sharers, Exists
  <2>5. \A t \in Session \ {s} : CountedRight(t)'
    BY <2>1, <2>3 DEF CallerInv, CountedRight, Exists
  <2> QED
    BY <2>1, <2>2, <2>4, <2>5 DEF CallerInv, UsesIts, CallerInPlace, Stage
<1>6. ASSUME NEW p \in Project, AdmitDeploy(p) \/ AdmitDestroy(p) PROVE CallerInv'
  <2>1. PICK kind \in {"deploy", "destroy"} : Admit(p, kind)
    BY <1>6 DEF AdmitDeploy, AdmitDestroy
  <2>2. identity[p] \in Identity
    BY <2>1 DEF Admit, TypeInv, Placed
  <2>3. /\ operation'[p].stage = "admitted" /\ operation'[p].repo = identity[p].repo
        /\ \A q \in Project \ {p} : operation'[q] = operation[q]
        /\ UNCHANGED <<status, identity, caller, call, late>>
    BY <2>1, <2>2, AdmitFacts DEF TypeInv
  <2> QED
    BY <2>3 DEF CallerInv, UsesIts, CountedRight, CallerInPlace, Stage, Exists
<1>7. ASSUME NEW p \in Project, EnsureWorkflow(p) \/ TriggerWorkflow(p) PROVE CallerInv'
  <2>1. /\ operation[p] # NoOperation
        /\ UNCHANGED <<status, identity, call, late>> /\ caller \subseteq caller'
        /\ \/ Reach(p, "ensured") /\ operation[p].repo \in caller'
           \/ Reach(p, "dispatched")
    BY <1>7 DEF EnsureWorkflow, TriggerWorkflow, Stage, rowVars, ghostVars
  <2>2. /\ operation'[p].repo = operation[p].repo
        /\ operation'[p].stage = "ensured" => operation[p].repo \in caller'
        /\ \A q \in Project \ {p} : operation'[q] = operation[q]
    BY <2>1, ReachFacts DEF TypeInv
  <2> QED
    BY <2>1, <2>2 DEF CallerInv, UsesIts, CountedRight, CallerInPlace, Stage, Exists
<1> QED
  BY <1>1, <1>2, <1>3, <1>4, <1>5, <1>6, <1>7, CallerSteps

-----------------------------------------------------------------------------
(***************************************************************************)
(* The quota of current projects.                                          *)
(***************************************************************************)
Count(S) == Cardinality(S)

LEMMA CountOfPart ==
    ASSUME NEW S \in SUBSET Project, NEW T \in SUBSET S
    PROVE  Count(S) \in Nat /\ Count(T) \in Nat /\ Count(T) <= Count(S)
<1>1. IsFiniteSet(S)
  BY PortfolioAssumption, FS_Subset
<1>2. IsFiniteSet(T) /\ Cardinality(T) <= Cardinality(S)
  BY <1>1, FS_Subset
<1> QED
  BY <1>1, <1>2, FS_CardinalityType DEF Count

LEMMA CountOfOneMore ==
    ASSUME NEW S \in SUBSET Project, NEW p \in Project, NEW T \in SUBSET (S \cup {p})
    PROVE  Count(S) \in Nat /\ Count(T) \in Nat /\ Count(T) <= Count(S) + 1
<1>1. IsFiniteSet(S)
  BY PortfolioAssumption, FS_Subset
<1>2. Cardinality(S \cup {p}) <= Cardinality(S) + 1
  <2>1. Cardinality(S) \in Nat
    BY <1>1, FS_CardinalityType
  <2>2. CASE p \in S
    <3>1. S \cup {p} = S
      BY <2>2
    <3> QED
      BY <2>1, <3>1
  <2>3. CASE p \notin S
    <3>1. Cardinality(S \cup {p}) = Cardinality(S) + 1
      BY <1>1, <2>3, FS_AddElement, Zenon
    <3> QED
      BY <2>1, <3>1
  <2> QED
    BY <2>2, <2>3
<1>3. Count(T) \in Nat /\ Count(T) <= Count(S \cup {p}) /\ Count(S \cup {p}) \in Nat
  BY CountOfPart
<1> QED
  BY <1>1, <1>2, <1>3, FS_CardinalityType DEF Count

CurrentInv ==
    /\ \A s, t \in Session : call[s].at = "creating" /\ call[t].at = "creating" => s = t
    /\ \A s \in Session : call[s].at = "creating" => revived \/ Count(Current) < granted.current
    /\ revived \/ Count(Current) <= granted.current

(* A step that neither checks nor inserts a project.                       *)
NoCreation ==
    /\ Current' \subseteq Current \/ revived'
    /\ revived => revived'
    /\ granted'.current = granted.current
    /\ \A t \in Session : call'[t].at = "creating" => call[t].at = "creating"

LEMMA CreationSteps ==
    ASSUME TypeInv, [Next]_vars
    PROVE  \/ NoCreation
           \/ \E s \in Session, p \in Project, i \in Identity : CheckCreation(s, p, i)
           \/ \E s \in Session : InsertProject(s)
<1> USE DEF TypeInv
<1>1. CASE UNCHANGED vars
  BY <1>1 DEF vars, rowVars, ghostVars, NoCreation, Current
<1>2. ASSUME NEW s \in Session, NEW p \in Project, NEW i \in Identity, CheckSource(s, p, i)
      PROVE  NoCreation
  <2>1. UNCHANGED <<status, revived, granted>>
    BY <1>2 DEF CheckSource, Edit, rowVars
  <2> QED
    BY <1>2, <2>1, StepFacts DEF CheckSource, NoCreation, Current, At
<1>3. ASSUME NEW s \in Session, NEW p \in Project,
             EditDetails(s, p) \/ ReadForArchive(s, p) \/ (EditSource(s) /\ p = call[s].on)
      PROVE  NoCreation
  <2>1. UNCHANGED <<status, revived, granted>>
    BY <1>3 DEF EditDetails, ReadForArchive, EditSource, ReadForEdit, Edit, rowVars, ghostVars
  <2>2. PICK at \in {"editing", "archiving"}, i \in Identity : Step(s, at, p, i)
    BY <1>3, EditFacts DEF EditDetails, ReadForArchive, ReadForEdit, Placed, Exists
  <2> QED
    BY <2>1, <2>2, StepFacts DEF NoCreation, Current, At
<1>4. ASSUME NEW s \in Session, NEW p \in Project, NEW retry \in BOOLEAN,
             BeginPromotion(s, p, retry) \/ CountSharers(s, p, retry)
      PROVE  NoCreation
  <2>1. UNCHANGED <<status, revived, granted>>
    BY <1>4 DEF BeginPromotion, CountSharers, rowVars, ghostVars
  <2> QED
    BY <1>4, <2>1, PromotionFacts, CountFacts DEF NoCreation, Current
<1>5. ASSUME NEW s \in Session,
             \/ Promote(s) \/ PromotionFails(s) \/ DeletionFails(s) \/ Abandon(s) \/ SaveEdit(s)
             \/ SaveArchived(s) \/ DeleteProject(s)
      PROVE  NoCreation
  <2>1. Return(s) /\ granted' = granted
    BY <1>5 DEF Promote, PromotionFails, DeletionFails, Abandon, SaveEdit, SaveArchived,
       DeleteProject, ghostVars
  <2>2. revived => revived'
    BY <1>5 DEF Promote, PromotionFails, DeletionFails, Abandon, SaveEdit, SaveArchived,
       DeleteProject, ghostVars
  <2>3. Current' \subseteq Current \/ revived'
    <3>1. CASE Promote(s) \/ PromotionFails(s) \/ DeletionFails(s) \/ Abandon(s)
      BY <3>1 DEF Promote, PromotionFails, DeletionFails, Abandon, rowVars, Current
    <3>2. CASE SaveEdit(s)
      BY <3>2, RowFacts DEF Current, Exists
    <3>3. CASE SaveArchived(s) \/ DeleteProject(s)
      BY <3>3, RowFacts DEF Current
    <3> QED
      BY <1>5, <3>1, <3>2, <3>3
  <2> QED
    BY <2>1, <2>2, <2>3, ReturnFacts DEF NoCreation
<1>6. ASSUME NEW s \in Session, RemoveCaller(s) PROVE NoCreation
  <2>1. UNCHANGED <<status, revived, granted>>
    BY <1>6 DEF RemoveCaller, rowVars, ghostVars
  <2> QED
    BY <1>6, <2>1, RemoveFacts DEF NoCreation, Current
<1>7. ASSUME NEW p \in Project, AdmitDeploy(p) \/ AdmitDestroy(p) PROVE NoCreation
  <2>1. UNCHANGED <<status, call, revived>>
    BY <1>7 DEF AdmitDeploy, AdmitDestroy, Admit, rowVars
  <2>2. granted'.current = granted.current
    BY <1>7 DEF AdmitDeploy, AdmitDestroy, TypeOK
  <2> QED
    BY <2>1, <2>2 DEF NoCreation, Current
<1>8. ASSUME NEW p \in Project, EnsureWorkflow(p) \/ TriggerWorkflow(p) \/ OperationFails(p)
      PROVE  NoCreation
  BY <1>8 DEF EnsureWorkflow, TriggerWorkflow, OperationFails, rowVars, ghostVars, NoCreation, Current
<1>9. CASE ChangePlan
  BY <1>9 DEF ChangePlan, rowVars, ghostVars, NoCreation, Current
<1>10. \A s \in Session : EditSource(s) => call[s].on \in Project
  BY DEF EditSource, Placed
<1> QED
  BY <1>1, <1>2, <1>3, <1>4, <1>5, <1>6, <1>7, <1>8, <1>9, <1>10 DEF Next

LEMMA CurrentNext == TypeInv /\ CurrentInv /\ [Next]_vars => CurrentInv'
<1> SUFFICES ASSUME TypeInv, CurrentInv, [Next]_vars PROVE CurrentInv'
  OBVIOUS
<1>t. TypeOK'
  BY TypeNext DEF TypeInv
<1>0. /\ Current \in SUBSET Project /\ Current' \in SUBSET Project
      /\ granted.current \in Nat /\ granted'.current \in Nat
  BY <1>t DEF Current, TypeInv, TypeOK
<1>1. CASE NoCreation
  <2>1. revived' \/ (Count(Current') <= Count(Current) /\ Count(Current') \in Nat /\ Count(Current) \in Nat)
    BY <1>0, <1>1, CountOfPart DEF NoCreation
  <2>2. Count(Current)' = Count(Current')
    BY DEF Count
  <2> QED
    BY <1>0, <1>1, <2>1, <2>2 DEF NoCreation, CurrentInv
<1>2. ASSUME NEW s \in Session, NEW p \in Project, NEW i \in Identity, CheckCreation(s, p, i)
      PROVE  CurrentInv'
  <2>1. /\ \A t \in Session : call[t].at # "creating"
        /\ Count(Current) < CurrentLimit[plan]
        /\ granted' = [granted EXCEPT !.current = Larger(@, CurrentLimit[plan])]
        /\ UNCHANGED <<status, revived>>
    BY <1>2 DEF CheckCreation, Count, rowVars
  <2>2. CurrentLimit[plan] \in Nat /\ Count(Current) \in Nat
    BY <1>0, PortfolioAssumption, CountOfPart DEF TypeInv, TypeOK
  <2>3. Count(Current) < granted'.current
    BY <1>0, <2>1, <2>2 DEF Larger, TypeInv, TypeOK
  <2>4. Count(Current)' = Count(Current)
    BY <2>1 DEF Count, Current
  <2>5. \A t \in Session \ {s} : call'[t].at # "creating"
    BY <1>2, <2>1, StepFacts DEF CheckCreation, TypeInv, At
  <2> QED
    BY <1>0, <2>2, <2>3, <2>4, <2>5 DEF CurrentInv
<1>3. ASSUME NEW s \in Session, InsertProject(s) PROVE CurrentInv'
  <2> DEFINE p == call[s].on
  <2>1. /\ p \in Project /\ Return(s) /\ UNCHANGED <<granted, revived>>
        /\ \A q \in Project \ {p} : status'[q] = status[q]
        /\ call[s].at = "creating"
    BY <1>3, RowFacts DEF InsertProject
  <2>2. Current' \in SUBSET (Current \cup {p})
    BY <2>1 DEF Current
  <2>3. \A t \in Session : call'[t].at # "creating"
    BY <2>1, ReturnFacts DEF CurrentInv, TypeInv
  <2>4. Count(Current)' <= Count(Current) + 1 /\ Count(Current)' \in Nat /\ Count(Current) \in Nat
    BY <1>0, <2>1, <2>2, CountOfOneMore DEF Count
  <2> QED
    BY <1>0, <2>1, <2>3, <2>4 DEF CurrentInv
<1> QED
  BY <1>1, <1>2, <1>3, CreationSteps

-----------------------------------------------------------------------------
(***************************************************************************)
(* The quota of LIVE projects.                                             *)
(***************************************************************************)
LiveInv ==
    \/ revived
    \/ crowded
    \/ /\ \A p, q \in Project : Awaits(p) /\ Awaits(q) => p = q
       /\ \A p \in Project : Awaits(p) => Count(Live) < granted.live
       /\ Count(Live) <= granted.live

(* A step that neither admits a project to its first LIVE nor makes it so. *)
NoArrival ==
    /\ revived => revived'
    /\ crowded => crowded'
    /\ granted'.live = granted.live
    /\ \/ revived'
       \/ /\ Live' \subseteq Live
          /\ \A p \in Project : Awaits(p)' => Awaits(p)

LEMMA LiveSteps ==
    ASSUME TypeInv, [Next]_vars
    PROVE  \/ NoArrival
           \/ \E p \in Project : AdmitDeploy(p) /\ route[p] = 0
           \/ \E s \in Session : Promote(s)
<1> USE DEF TypeInv
<1>1. CASE UNCHANGED vars
  BY <1>1 DEF vars, rowVars, operationVars, ghostVars, NoArrival, Current, Live, Awaits, Exists, NobodyOn
<1>2. ASSUME NEW s \in Session, NEW p \in Project, NEW i \in Identity,
             CheckCreation(s, p, i) \/ CheckSource(s, p, i)
      PROVE  NoArrival
  <2>1. UNCHANGED <<status, operation, failed, route, revived, crowded>> /\ granted'.live = granted.live
    BY <1>2 DEF CheckCreation, CheckSource, Edit, rowVars, operationVars, TypeOK
  <2> QED
    BY <1>2, <2>1, StepFacts DEF CheckCreation, CheckSource, NoArrival, Current, Live, Awaits,
       Exists, NobodyOn, At
<1>3. ASSUME NEW s \in Session, NEW p \in Project,
             EditDetails(s, p) \/ ReadForArchive(s, p) \/ (EditSource(s) /\ p = call[s].on)
      PROVE  NoArrival
  <2>1. UNCHANGED <<status, operation, failed, route, revived, crowded, granted>>
    BY <1>3 DEF EditDetails, ReadForArchive, EditSource, ReadForEdit, Edit, rowVars, operationVars, ghostVars
  <2>2. PICK at \in {"editing", "archiving"}, i \in Identity : Step(s, at, p, i)
    BY <1>3, EditFacts DEF EditDetails, ReadForArchive, ReadForEdit, Placed, Exists
  <2> QED
    BY <2>1, <2>2, StepFacts DEF NoArrival, Current, Live, Awaits, Exists, NobodyOn, At
<1>4. ASSUME NEW s \in Session, NEW p \in Project, NEW retry \in BOOLEAN, BeginPromotion(s, p, retry)
      PROVE  NoArrival
  <2>1. UNCHANGED <<status, operation, failed, route, revived, crowded, granted>>
    BY <1>4 DEF BeginPromotion, rowVars, operationVars, ghostVars
  <2>2. operation[p] # NoOperation \/ failed[p] = "deploy"
    BY <1>4 DEF BeginPromotion, Stage
  <2> QED
    BY <1>4, <2>1, <2>2, PromotionFacts DEF NoArrival, Current, Live, Awaits, Exists, NobodyOn
<1>5. ASSUME NEW s \in Session, NEW p \in Project, NEW retry \in BOOLEAN, CountSharers(s, p, retry)
      PROVE  NoArrival
  <2>1. /\ UNCHANGED <<status, failed, route, revived, crowded, granted>>
        /\ UNCHANGED operation \/ End(p)
    BY <1>5 DEF CountSharers, rowVars
  <2>2. \A q \in Project : operation'[q] # NoOperation => operation[q] # NoOperation
    BY <2>1, EndFacts
  <2> QED
    BY <1>5, <2>1, <2>2, CountFacts DEF NoArrival, Current, Live, Awaits, Exists, NobodyOn
<1>6. ASSUME NEW s \in Session, InsertProject(s) \/ SaveEdit(s) \/ SaveArchived(s)
      PROVE  NoArrival
  <2>p. PICK p \in Project : p = call[s].on
    BY <1>6, RowFacts
  <2>1. /\ Return(s)
        /\ UNCHANGED <<operation, failed, route, crowded, granted>>
        /\ revived => revived'
        /\ \A q \in Project \ {p} : status'[q] = status[q]
    <3>1. Return(s) /\ UNCHANGED <<operation, failed, route, crowded, granted>>
      BY <1>6 DEF InsertProject, SaveEdit, SaveArchived, operationVars
    <3>2. revived => revived'
      BY <1>6 DEF InsertProject, SaveEdit, SaveArchived
    <3> QED
      BY <1>6, <2>p, <3>1, <3>2, RowFacts
  <2>2. \A q \in Project : ~NobodyOn("promoting", q)' => ~NobodyOn("promoting", q)
    BY <2>1, ReturnFacts DEF NobodyOn
  <2>3. revived' \/ (Live' \subseteq Live /\ (Awaits(p)' => Awaits(p)))
    <3>1. CASE InsertProject(s)
      <4>1. /\ status[p] = "absent" /\ operation[p] = NoOperation /\ failed[p] = "none"
            /\ route[p] = 0 /\ NobodyOn("promoting", p)
        BY <2>p, <3>1, RowFacts DEF Placed, Exists, NobodyOn
      <4> QED
        BY <2>1, <2>2, <4>1 DEF Live, Current, Awaits
    <3>2. CASE SaveEdit(s)
      BY <2>p, <2>1, <2>2, <3>2, RowFacts DEF Live, Current, Awaits, Exists
    <3>3. CASE SaveArchived(s)
      BY <2>p, <2>1, <2>2, <3>3, RowFacts DEF Live, Current, Awaits, Exists
    <3> QED
      BY <1>6, <3>1, <3>2, <3>3
  <2>4. \A q \in Project \ {p} : Awaits(q)' => Awaits(q)
    BY <2>1, <2>2 DEF Awaits, Exists
  <2> QED
    BY <2>1, <2>3, <2>4 DEF NoArrival
<1>7. ASSUME NEW s \in Session, PromotionFails(s) \/ DeletionFails(s) \/ Abandon(s)
      PROVE  NoArrival
  <2> DEFINE p == call[s].on
  <2>1. /\ Return(s) /\ p \in Project
        /\ UNCHANGED <<status, route, revived, crowded, granted>>
        /\ UNCHANGED operation \/ End(p)
        /\ \A q \in Project : failed'[q] = "deploy" =>
              failed[q] = "deploy" \/ (q = p /\ call[s].at = "promoting")
    BY <1>7 DEF PromotionFails, DeletionFails, Abandon, Promoting, Placed, TypeOK, Idle, rowVars,
       operationVars, ghostVars
  <2>2. \A q \in Project : operation'[q] # NoOperation => operation[q] # NoOperation
    BY <2>1, EndFacts
  <2>3. \A q \in Project : ~NobodyOn("promoting", q)' => ~NobodyOn("promoting", q)
    BY <2>1, ReturnFacts DEF NobodyOn
  <2>4. \A q \in Project : Awaits(q)' => Awaits(q)
    BY <2>1, <2>2, <2>3 DEF Awaits, Exists, NobodyOn
  <2> QED
    BY <2>1, <2>4 DEF NoArrival, Live, Current
<1>8. ASSUME NEW s \in Session, RemoveCaller(s) PROVE NoArrival
  <2>1. UNCHANGED <<status, operation, failed, route, revived, crowded, granted>>
    BY <1>8 DEF RemoveCaller, rowVars, operationVars, ghostVars
  <2> QED
    BY <1>8, <2>1, RemoveFacts DEF NoArrival, Current, Live, Awaits, Exists, NobodyOn
<1>9. ASSUME NEW s \in Session, DeleteProject(s) PROVE NoArrival
  <2> DEFINE p == call[s].on
  <2>1. /\ p \in Project /\ Return(s) /\ End(p)
        /\ status'[p] = "deleted"
        /\ route' = [route EXCEPT ![p] = 0]
        /\ failed' = [failed EXCEPT ![p] = "none"]
        /\ \A q \in Project \ {p} : status'[q] = status[q]
        /\ UNCHANGED <<revived, crowded, granted>>
    BY <1>9, RowFacts DEF DeleteProject, ghostVars
  <2>2. \A q \in Project \ {p} : /\ route'[q] = route[q] /\ failed'[q] = failed[q]
                                 /\ operation'[q] = operation[q]
    BY <2>1, EndFacts DEF TypeOK
  <2>3. \A q \in Project : ~NobodyOn("promoting", q)' => ~NobodyOn("promoting", q)
    BY <2>1, ReturnFacts DEF NobodyOn
  <2> QED
    BY <2>1, <2>2, <2>3 DEF NoArrival, Current, Live, Awaits, Exists
<1>10. ASSUME NEW p \in Project, AdmitDestroy(p) \/ (AdmitDeploy(p) /\ route[p] # 0)
       PROVE  NoArrival
  <2>1. PICK kind \in {"deploy", "destroy"} : Admit(p, kind)
    BY <1>10 DEF AdmitDeploy, AdmitDestroy
  <2>2. route[p] # 0 /\ UNCHANGED <<granted, crowded>>
    BY <1>10 DEF AdmitDeploy, AdmitDestroy
  <2>3. /\ UNCHANGED <<status, failed, route, call, revived>>
        /\ \A q \in Project \ {p} : operation'[q] = operation[q]
    BY <2>1, AdmitFacts DEF Admit, Placed
  <2> QED
    BY <2>2, <2>3 DEF NoArrival, Current, Live, Awaits, Exists, NobodyOn
<1>11. ASSUME NEW p \in Project, EnsureWorkflow(p) \/ TriggerWorkflow(p) \/ OperationFails(p)
       PROVE  NoArrival
  <2>1. /\ UNCHANGED <<status, route, call, revived, crowded, granted>>
        /\ \A q \in Project : failed'[q] = "deploy" => failed[q] = "deploy"
        /\ operation[p] # NoOperation
        /\ (\E stage \in {"ensured", "dispatched"} : Reach(p, stage)) \/ End(p)
    BY <1>11 DEF EnsureWorkflow, TriggerWorkflow, OperationFails, Stage, TypeOK, rowVars, ghostVars
  <2>2. \A q \in Project : operation'[q] # NoOperation => operation[q] # NoOperation
    BY <2>1, EndFacts, ReachFacts
  <2> QED
    BY <2>1, <2>2 DEF NoArrival, Current, Live, Awaits, Exists, NobodyOn
<1>12. CASE ChangePlan
  BY <1>12 DEF ChangePlan, rowVars, operationVars, ghostVars, NoArrival, Current, Live, Awaits,
     Exists, NobodyOn
<1>13. \A s \in Session : EditSource(s) => call[s].on \in Project
  BY DEF EditSource, Placed
<1> QED
  BY <1>1, <1>2, <1>3, <1>4, <1>5, <1>6, <1>7, <1>8, <1>9, <1>10, <1>11, <1>12, <1>13 DEF Next

LEMMA LiveNext == TypeInv /\ PriorityInv /\ LiveInv /\ [Next]_vars => LiveInv'
<1> SUFFICES ASSUME TypeInv, PriorityInv, LiveInv, [Next]_vars PROVE LiveInv'
  OBVIOUS
<1>t. TypeOK'
  BY TypeNext DEF TypeInv
<1>0. /\ Live \in SUBSET Project /\ Live' \in SUBSET Project
      /\ granted.live \in Nat /\ granted'.live \in Nat
  BY <1>t DEF Live, Current, TypeInv, TypeOK
<1>1. CASE NoArrival
  <2>1. CASE ~revived' /\ ~crowded'
    <3>1. /\ \A p, q \in Project : Awaits(p) /\ Awaits(q) => p = q
          /\ \A p \in Project : Awaits(p) => Count(Live) < granted.live
          /\ Count(Live) <= granted.live
          /\ Live' \subseteq Live
          /\ \A p \in Project : Awaits(p)' => Awaits(p)
          /\ granted'.live = granted.live
      BY <1>1, <2>1 DEF NoArrival, LiveInv
    <3>2. Count(Live)' <= Count(Live) /\ Count(Live)' \in Nat /\ Count(Live) \in Nat
      BY <1>0, <3>1, CountOfPart DEF Count
    <3> QED
      BY <1>0, <3>1, <3>2 DEF LiveInv
  <2> QED
    BY <2>1 DEF LiveInv
<1>2. ASSUME NEW p \in Project, AdmitDeploy(p), route[p] = 0 PROVE LiveInv'
  <2> DEFINE beside == \E q \in Project \ {p} : Awaits(q)
  <2>1. /\ Count(Live) < LiveLimit[plan]
        /\ granted' = [granted EXCEPT !.live = Larger(@, LiveLimit[plan])]
        /\ crowded' = (crowded \/ beside)
        /\ Admit(p, "deploy")
    BY <1>2 DEF AdmitDeploy, Count
  <2>2. /\ UNCHANGED <<status, failed, route, call, revived>>
        /\ \A q \in Project \ {p} : operation'[q] = operation[q]
    BY <2>1, AdmitFacts DEF Admit, TypeInv, Placed
  <2>3. Count(Live) < granted'.live /\ Count(Live)' = Count(Live) /\ Count(Live) \in Nat
    <3>1. LiveLimit[plan] \in Nat /\ Count(Live) \in Nat
      BY <1>0, PortfolioAssumption, CountOfPart DEF TypeInv, TypeOK
    <3>2. Count(Live)' = Count(Live)
      BY <2>2 DEF Count, Live, Current
    <3> QED
      BY <1>0, <2>1, <3>1, <3>2 DEF Larger, TypeInv, TypeOK
  <2>4. \A q \in Project \ {p} : Awaits(q)' => Awaits(q)
    BY <2>2 DEF Awaits, Exists, NobodyOn
  <2>5. crowded' \/ \A q \in Project \ {p} : ~Awaits(q)'
    <3>1. beside => crowded'
      BY <2>1, Zenon
    <3> QED
      BY <2>4, <3>1
  <2> QED
    BY <1>0, <2>3, <2>5 DEF LiveInv
<1>3. ASSUME NEW s \in Session, Promote(s) PROVE LiveInv'
  <2> DEFINE p == call[s].on
             n == call[s].priority
  <2>1. /\ Promoting(s) /\ Return(s)
        /\ route' = [route EXCEPT ![p] = n]
        /\ failed' \in {failed, [failed EXCEPT ![p] = "none"]}
        /\ UNCHANGED operation \/ End(p)
        /\ UNCHANGED <<status, granted, revived, crowded>>
    BY <1>3 DEF Promote, rowVars, ghostVars
  <2>2. p \in Project /\ n # 0 /\ (route[p] # 0 => n = route[p])
    BY <2>1 DEF PriorityInv, Chosen, Promoting, TypeInv, Placed
  <2>3. /\ route'[p] = n
        /\ \A q \in Project \ {p} : /\ route'[q] = route[q] /\ failed'[q] = failed[q]
                                    /\ operation'[q] = operation[q]
    BY <2>1, <2>2, EndFacts DEF TypeInv, TypeOK
  <2>4. \A q \in Project : ~NobodyOn("promoting", q)' => ~NobodyOn("promoting", q)
    BY <2>1, ReturnFacts DEF NobodyOn, TypeInv
  <2>5. \A q \in Project : Awaits(q)' => Awaits(q) /\ q # p
    BY <2>1, <2>2, <2>3, <2>4 DEF Awaits, Exists
  <2>6. CASE route[p] = 0
    <3>1. Awaits(p)
      BY <2>1, <2>2, <2>6 DEF Awaits, Promoting, NobodyOn
    <3>2. Live' \in SUBSET (Live \cup {p})
      BY <2>1, <2>3 DEF Live, Current
    <3>3. Count(Live)' <= Count(Live) + 1 /\ Count(Live)' \in Nat /\ Count(Live) \in Nat
      BY <1>0, <2>2, <3>2, CountOfOneMore DEF Count
    <3> QED
      BY <1>0, <2>1, <2>2, <2>5, <3>1, <3>3 DEF LiveInv
  <2>7. CASE route[p] # 0
    <3>1. Live' = Live
      BY <2>1, <2>2, <2>3, <2>7 DEF Live, Current
    <3>2. Count(Live)' = Count(Live)
      BY <3>1 DEF Count
    <3> QED
      BY <2>1, <2>5, <3>2 DEF LiveInv
  <2> QED
    BY <2>6, <2>7
<1> QED
  BY <1>1, <1>2, <1>3, LiveSteps

-----------------------------------------------------------------------------
(***************************************************************************)
(* The theorems.                                                           *)
(***************************************************************************)
PortfolioInv ==
    TypeInv /\ IdentityIsUnique /\ PriorityInv /\ CallerInv /\ CurrentInv /\ LiveInv

LEMMA PortfolioInit == Init => PortfolioInv
<1> SUFFICES ASSUME Init PROVE PortfolioInv
  OBVIOUS
<1>1. TypeInv
  <2>1. IdleCall \in Call
    BY DEF IdleCall, Call, At
  <2>2. TypeOK
    <3>1. granted \in [current : Nat, live : Nat] /\ ops \in 0 .. MaxOp /\ edits \in 0 .. MaxEdit
      BY PortfolioAssumption DEF Init
    <3>2. call \in [Session -> Call]
      BY <2>1 DEF Init
    <3> QED
      BY <3>1, <3>2 DEF Init, TypeOK
  <2>3. Placed
    BY DEF Init, Placed, IdleCall, Exists
  <2> QED
    BY <2>2, <2>3 DEF TypeInv
<1>2. Current = {} /\ Live = {} /\ \A p \in Project : ~Awaits(p)
  BY DEF Init, Current, Live, Awaits, Exists
<1>3. IdentityIsUnique
  BY <1>2 DEF IdentityIsUnique
<1>4. \A s \in Session : call[s].at = "idle"
  BY DEF Init, IdleCall
<1>5. PriorityInv
  BY <1>4 DEF Init, PriorityInv, Promoting, Allocates
<1>6. CallerInv
  BY <1>4 DEF Init, CallerInv, UsesIts, CountedRight, CallerInPlace, Stage
<1>7. Count({}) = 0
  BY FS_EmptySet DEF Count
<1>8. CurrentInv /\ LiveInv
  BY <1>2, <1>4, <1>7 DEF Init, CurrentInv, LiveInv
<1> QED
  BY <1>1, <1>3, <1>5, <1>6, <1>8 DEF PortfolioInv

LEMMA PortfolioNext == PortfolioInv /\ [Next]_vars => PortfolioInv'
  BY TypeNext, IdentityNext, PriorityNext, CallerNext, CurrentNext, LiveNext DEF PortfolioInv

(* Types, identities, quotas, priorities and callers, with what makes them *)
(* inductive.                                                              *)
THEOREM PortfolioInvariant == Spec => []PortfolioInv
  BY PortfolioInit, PortfolioNext, PTL DEF Spec

(* Every variable keeps its type.                                          *)
THEOREM TypeCorrect == Spec => []TypeOK
<1>1. PortfolioInv => TypeOK
  BY DEF PortfolioInv, TypeInv
<1> QED
  BY <1>1, PortfolioInvariant, PTL

(* However stale the check before an update, however a save races an       *)
(* archive: two current projects never have the same identity, because     *)
(* the index is asked again by the statement that writes.                  *)
THEOREM IdentitiesAreUnique == Spec => []IdentityIsUnique
<1>1. PortfolioInv => IdentityIsUnique
  BY DEF PortfolioInv
<1> QED
  BY <1>1, PortfolioInvariant, PTL

(* Creations, serialized by the owner's lock, keep within the largest      *)
(* quota that was in force.                                                *)
THEOREM CurrentQuotaHolds == Spec => []CurrentWithinQuota
<1>1. PortfolioInv => CurrentWithinQuota
  BY DEF PortfolioInv, CurrentInv, CurrentWithinQuota, Count
<1> QED
  BY <1>1, PortfolioInvariant, PTL

(* The live quota is asked at admission and reached at the promotion: it   *)
(* holds as long as first deployments of the owner do not overlap.         *)
THEOREM LiveQuotaHolds == Spec => []LiveWithinQuota
<1>1. PortfolioInv => LiveWithinQuota
  BY DEF PortfolioInv, LiveInv, LiveWithinQuota, Count
<1> QED
  BY <1>1, PortfolioInvariant, PTL

(* The lock on the allocation, held to the commit, keeps the priority      *)
(* free that the first release of a project was given.                     *)
THEOREM AllocatedPriorityIsFree == Spec => []PriorityStaysFree
<1>1. PortfolioInv => PriorityStaysFree
  <2> SUFFICES ASSUME PortfolioInv, NEW s \in Session, Promoting(s),
                      NEW p \in Project \ {call[s].on}
               PROVE  route[p] # call[s].priority
    BY DEF PriorityStaysFree
  <2>1. Chosen(s) /\ call[s].on \in Project
    BY DEF PortfolioInv, PriorityInv, Promoting, TypeInv, Placed
  <2> QED
    BY <2>1 DEF PortfolioInv, PriorityInv, Chosen, Free
<1> QED
  BY <1>1, PortfolioInvariant, PTL

(* A dispatch finds the caller workflow its operation ensured, unless a    *)
(* deletion counted before the project named the repository.               *)
THEOREM CallersStay == Spec => []CallerInPlace
<1>1. PortfolioInv => CallerInPlace
  BY DEF PortfolioInv, CallerInv
<1> QED
  BY <1>1, PortfolioInvariant, PTL

=============================================================================
