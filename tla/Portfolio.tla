----------------------------- MODULE Portfolio -----------------------------
(***************************************************************************)
(* The projects of one owner: what they share while several requests are   *)
(* under way.  Projects compete for identities (repository and branch),    *)
(* for the quotas of the plan and for listener priorities, and projects of *)
(* one repository share its managed caller workflow.                       *)
(*                                                                         *)
(* A step is a transaction, or the part of one between two reads that      *)
(* another transaction may come in between.  What happens inside one       *)
(* project's lifecycle is Deployment's; here an operation only has a kind  *)
(* and a stage.  The plan changes at any moment, as webhooks make it.      *)
(***************************************************************************)
EXTENDS Integers, FiniteSets

CONSTANTS
    Project,      \* identities of project rows, never used twice
    Repo,         \* GitHub repositories
    Branch,
    NoProject,
    NoIdentity,   \* the identity of a row that does not exist
    Session,      \* concurrent requests and background finalizations
    Plan,
    CurrentLimit, \* [Plan -> current projects]
    LiveLimit,    \* [Plan -> simultaneously LIVE projects]
    MaxOp,        \* operations admitted
    MaxEdit       \* changes of a row begun

Identity == [repo : Repo, branch : Branch]

ASSUME PortfolioAssumption ==
    /\ IsFiniteSet(Project)
    /\ NoProject \notin Project
    /\ NoIdentity \notin Identity
    /\ CurrentLimit \in [Plan -> Nat]
    /\ LiveLimit \in [Plan -> Nat]
    /\ MaxOp \in Nat
    /\ MaxEdit \in Nat

VARIABLES
    status,    \* [Project -> the row: absent, current, archived or deleted]
    identity,  \* [Project -> repository and branch of the row]
    plan,      \* the effective plan
    operation, \* [Project -> its active operation]
    failed,    \* [Project -> what retry finds: a verified deploy or destroy
               \*  whose finalization failed, or nothing it can finalize]
    route,     \* [Project -> listener priority of its LIVE route, or 0]
    caller,    \* repositories that have the managed caller workflow
    call,      \* [Session -> what it has read and will write]
    granted,   \* the largest limits any check has applied
    revived,   \* some save brought an archived project back
    crowded,   \* some project was admitted to its first LIVE beside another
    late,      \* projects a deletion of the caller may not have counted
    ops,       \* operations admitted so far
    edits      \* changes of a row begun so far

rowVars       == <<status, identity>>
operationVars == <<operation, failed>>
ghostVars     == <<granted, revived, crowded, late, ops, edits>>
vars == <<rowVars, plan, operationVars, route, caller, call, ghostVars>>

-----------------------------------------------------------------------------
At == {"idle", "creating", "checked", "branching", "editing", "archiving",
       "promoting", "counted", "removed"}

(* repo: where its workflow is ensured and dispatched.                     *)
Operation == [kind : {"deploy", "destroy"}, repo : Repo,
              stage : {"admitted", "ensured", "dispatched"}]

(* id: the identity it will write or found; priority: the one it will      *)
(* write; yes: it finalizes by retry, or counted no sharer.                *)
Call == [at : At, on : Project \cup {NoProject}, id : Identity \cup {NoIdentity},
         priority : Nat, yes : BOOLEAN]

NoOperation == [kind |-> "none"]
IdleCall == [at |-> "idle", on |-> NoProject, id |-> NoIdentity,
             priority |-> 0, yes |-> FALSE]

TypeOK ==
    /\ status \in [Project -> {"absent", "current", "archived", "deleted"}]
    /\ identity \in [Project -> Identity \cup {NoIdentity}]
    /\ plan \in Plan
    /\ operation \in [Project -> Operation \cup {NoOperation}]
    /\ failed \in [Project -> {"none", "deploy", "destroy"}]
    /\ route \in [Project -> Nat]
    /\ caller \subseteq Repo
    /\ call \in [Session -> Call]
    /\ granted \in [current : Nat, live : Nat]
    /\ revived \in BOOLEAN
    /\ crowded \in BOOLEAN
    /\ late \subseteq Project
    /\ ops \in 0 .. MaxOp
    /\ edits \in 0 .. MaxEdit

Exists(p) == status[p] \in {"current", "archived"}
Current   == {p \in Project : status[p] = "current"}
Live      == {p \in Current : route[p] # 0}

Larger(m, n) == IF m >= n THEN m ELSE n

Idle(s)   == call[s].at = "idle"
Return(s) == call' = [call EXCEPT ![s] = IdleCall]
Step(s, at, p, i) == call' = [call EXCEPT ![s] = [IdleCall EXCEPT !.at = at, !.on = p, !.id = i]]

NobodyOn(at, p) == \A s \in Session : ~(call[s].at = at /\ call[s].on = p)

(* assertProjectIdentityAvailable, and the partial unique index.           *)
Available(p, i) == \A q \in Current \ {p} : identity[q] # i

(* The row of p now names the repository of i.  If that is news, who is    *)
(* removing the repository's caller may have counted before it, and an     *)
(* operation of p under way uses the repository it left.                   *)
Names(p, i) ==
    late' = IF /\ identity[p] = NoIdentity \/ identity[p].repo # i.repo
               /\ \/ operation[p] # NoOperation
                  \/ \E s \in Session : call[s].at = "counted" /\ call[s].id.repo = i.repo
            THEN late \cup {p} ELSE late

Init ==
    /\ status = [p \in Project |-> "absent"]
    /\ identity = [p \in Project |-> NoIdentity]
    /\ plan \in Plan
    /\ operation = [p \in Project |-> NoOperation]
    /\ failed = [p \in Project |-> "none"]
    /\ route = [p \in Project |-> 0]
    /\ caller = {}
    /\ call = [s \in Session |-> IdleCall]
    /\ granted = [current |-> 0, live |-> 0]
    /\ revived = FALSE
    /\ crowded = FALSE
    /\ late = {}
    /\ ops = 0
    /\ edits = 0

-----------------------------------------------------------------------------
(***************************************************************************)
(* createProject: one transaction under the owner's creation lock, from    *)
(* the checks to the insertion, which the unique index may still refuse.   *)
(***************************************************************************)
CheckUnlocked(s, p, i) ==         \* mutant: no lock on the owner's creations
    /\ Idle(s)
    /\ status[p] = "absent"
    /\ Available(p, i)
    /\ Cardinality(Current) < CurrentLimit[plan]
    /\ granted' = [granted EXCEPT !.current = Larger(@, CurrentLimit[plan])]
    /\ Step(s, "creating", p, i)
    /\ UNCHANGED <<rowVars, plan, operationVars, route, caller, revived, crowded, late, ops, edits>>

CheckCreation(s, p, i) ==
    /\ Idle(s)
    /\ \A t \in Session : call[t].at # "creating"
    /\ status[p] = "absent"
    /\ Available(p, i)
    /\ Cardinality(Current) < CurrentLimit[plan]
    /\ granted' = [granted EXCEPT !.current = Larger(@, CurrentLimit[plan])]
    /\ Step(s, "creating", p, i)
    /\ UNCHANGED <<rowVars, plan, operationVars, route, caller, revived, crowded, late, ops, edits>>

InsertProject(s) ==
    /\ call[s].at = "creating"
    /\ LET p == call[s].on  i == call[s].id
       IN  /\ status[p] = "absent"
           /\ Available(p, i)
           /\ status' = [status EXCEPT ![p] = "current"]
           /\ identity' = [identity EXCEPT ![p] = i]
           /\ Names(p, i)
    /\ Return(s)
    /\ UNCHANGED <<plan, operationVars, route, caller, granted, revived, crowded, ops, edits>>

-----------------------------------------------------------------------------
(***************************************************************************)
(* updateRepository and updateBranch ask whether the identity is free      *)
(* before their transaction; inside it they hold the configuration lock,   *)
(* read the row and save the entity, that is every column of it.           *)
(* updateBranch keeps the repository it finds there, which need not be the *)
(* one it checked the branch with.                                         *)
(***************************************************************************)
Edit ==
    /\ edits < MaxEdit
    /\ edits' = edits + 1
    /\ UNCHANGED <<granted, revived, crowded, late, ops>>

CheckSource(s, p, i) ==
    /\ Idle(s)
    /\ Edit
    /\ status[p] = "current"
    /\ i # identity[p]
    /\ Available(p, i)
    /\ \/ Step(s, "checked", p, i)
       \/ i.repo = identity[p].repo /\ Step(s, "branching", p, i)
    /\ UNCHANGED <<rowVars, plan, operationVars, route, caller>>

ReadForEdit(s, p, i) ==
    /\ status[p] = "current"
    /\ NobodyOn("editing", p)
    /\ Step(s, "editing", p, i)
    /\ UNCHANGED <<rowVars, plan, operationVars, route, caller>>

EditSource(s) ==
    /\ LET p == call[s].on  i == call[s].id
       IN  \/ call[s].at = "checked" /\ ReadForEdit(s, p, i)
           \/ /\ call[s].at = "branching"
              /\ ReadForEdit(s, p, [identity[p] EXCEPT !.branch = i.branch])
    /\ UNCHANGED ghostVars

(* updateProject changes name, description, visibility or entry point.     *)
EditDetails(s, p) == Idle(s) /\ Edit /\ ReadForEdit(s, p, identity[p])

SaveUnindexed(s) ==               \* mutant: no unique index on the identity
    /\ call[s].at = "editing"
    /\ LET p == call[s].on  i == call[s].id
       IN  /\ Exists(p)
           /\ status' = [status EXCEPT ![p] = "current"]
           /\ identity' = [identity EXCEPT ![p] = i]
           /\ revived' = (revived \/ status[p] = "archived")
           /\ Names(p, i)
    /\ Return(s)
    /\ UNCHANGED <<plan, operationVars, route, caller, granted, crowded, ops, edits>>

(* The save fails when the row is gone (its entry point with it) or the    *)
(* index refuses it, and brings an archived row back.                      *)
SaveEdit(s) ==
    /\ call[s].at = "editing"
    /\ LET p == call[s].on  i == call[s].id
       IN  /\ Exists(p)
           /\ Available(p, i)
           /\ status' = [status EXCEPT ![p] = "current"]
           /\ identity' = [identity EXCEPT ![p] = i]
           /\ revived' = (revived \/ status[p] = "archived")
           /\ Names(p, i)
    /\ Return(s)
    /\ UNCHANGED <<plan, operationVars, route, caller, granted, crowded, ops, edits>>

(* archiveProject reads and saves the entity under no lock.                *)
ReadForArchive(s, p) ==
    /\ Idle(s)
    /\ Edit
    /\ status[p] = "current"
    /\ Step(s, "archiving", p, identity[p])
    /\ UNCHANGED <<rowVars, plan, operationVars, route, caller>>

SaveArchived(s) ==
    /\ call[s].at = "archiving"
    /\ LET p == call[s].on  i == call[s].id
       IN  /\ Exists(p)
           /\ status' = [status EXCEPT ![p] = "archived"]
           /\ identity' = [identity EXCEPT ![p] = i]
           /\ Names(p, i)
    /\ Return(s)
    /\ UNCHANGED <<plan, operationVars, route, caller, granted, revived, crowded, ops, edits>>

-----------------------------------------------------------------------------
(***************************************************************************)
(* Operations.  An admission holds the configuration lock of its project   *)
(* and, for a deployment, the lock of the owner's live quota.              *)
(***************************************************************************)
Admit(p, kind) ==
    /\ Exists(p)
    /\ operation[p] = NoOperation
    /\ NobodyOn("editing", p)
    /\ ops < MaxOp
    /\ ops' = ops + 1
    /\ operation' = [operation EXCEPT
           ![p] = [kind |-> kind, repo |-> identity[p].repo, stage |-> "admitted"]]
    /\ UNCHANGED <<rowVars, plan, failed, route, caller, call, revived, late, edits>>

(* A first LIVE that may still come.                                       *)
Awaits(p) ==
    /\ Exists(p)
    /\ route[p] = 0
    /\ \/ operation[p] # NoOperation
       \/ failed[p] = "deploy"
       \/ ~NobodyOn("promoting", p)

AdmitBesideAnyLive(p) ==          \* mutant: any LIVE route of the owner will do
    /\ Admit(p, "deploy")
    /\ IF \E q \in Project : route[q] # 0
       THEN UNCHANGED <<granted, crowded>>
       ELSE /\ Cardinality(Live) < LiveLimit[plan]
            /\ granted' = [granted EXCEPT !.live = Larger(@, LiveLimit[plan])]
            /\ crowded' = (crowded \/ \E q \in Project \ {p} : Awaits(q))

(* A project with a LIVE route is redeployed whatever the quota says.      *)
AdmitDeploy(p) ==
    /\ Admit(p, "deploy")
    /\ IF route[p] # 0
       THEN UNCHANGED <<granted, crowded>>
       ELSE /\ Cardinality(Live) < LiveLimit[plan]
            /\ granted' = [granted EXCEPT !.live = Larger(@, LiveLimit[plan])]
            /\ crowded' = (crowded \/ \E q \in Project \ {p} : Awaits(q))

AdmitDestroy(p) ==
    /\ route[p] # 0
    /\ Admit(p, "destroy")
    /\ UNCHANGED <<granted, crowded>>

Stage(p, stage) == operation[p] # NoOperation /\ operation[p].stage = stage
Reach(p, stage) == operation' = [operation EXCEPT ![p].stage = stage]
End(p)          == operation' = [operation EXCEPT ![p] = NoOperation]

EnsureWorkflow(p) ==
    /\ Stage(p, "admitted")
    /\ Reach(p, "ensured")
    /\ caller' = caller \cup {operation[p].repo}
    /\ UNCHANGED <<rowVars, plan, failed, route, call, ghostVars>>

(* GitHub refuses to dispatch a workflow the repository does not have.     *)
TriggerWorkflow(p) ==
    /\ Stage(p, "ensured")
    /\ operation[p].repo \in caller
    /\ Reach(p, "dispatched")
    /\ UNCHANGED <<rowVars, plan, failed, route, caller, call, ghostVars>>

(* The preparation, the dispatch or the run fails; retry finds this one.   *)
OperationFails(p) ==
    /\ operation[p] # NoOperation
    /\ End(p)
    /\ failed' = [failed EXCEPT ![p] = "none"]
    /\ UNCHANGED <<rowVars, plan, route, caller, call, ghostVars>>

(***************************************************************************)
(* finalizeVerifiedRelease, of the active operation or by retry, under the *)
(* finalization lock of the project.  A first release takes the lowest     *)
(* priority no route has, under a lock that all projects share until the   *)
(* commit.                                                                 *)
(***************************************************************************)
Free(n) == \A p \in Project : route[p] # n

LowestFree ==
    CHOOSE n \in 1 .. Cardinality(Project) + 1 :
        Free(n) /\ \A m \in 1 .. n - 1 : ~Free(m)

(* Its project may be deleted before it commits.                           *)
Promoting(s) == call[s].at = "promoting" /\ Exists(call[s].on)
Allocates(s) == Promoting(s) /\ route[call[s].on] = 0

PromoteUnlocked(s, p, retry) ==   \* mutant: allocations do not wait for each other
    /\ Idle(s)
    /\ IF retry THEN failed[p] = "deploy"
                ELSE Stage(p, "dispatched") /\ operation[p].kind = "deploy"
    /\ NobodyOn("promoting", p)
    /\ call' = [call EXCEPT ![s] = [IdleCall EXCEPT
           !.at = "promoting", !.on = p, !.yes = retry,
           !.priority = IF route[p] = 0 THEN LowestFree ELSE route[p]]]
    /\ UNCHANGED <<rowVars, plan, operationVars, route, caller, ghostVars>>

BeginPromotion(s, p, retry) ==
    /\ Idle(s)
    /\ IF retry THEN failed[p] = "deploy"
                ELSE Stage(p, "dispatched") /\ operation[p].kind = "deploy"
    /\ NobodyOn("promoting", p)
    /\ route[p] = 0 => \A t \in Session : ~Allocates(t)
    /\ call' = [call EXCEPT ![s] = [IdleCall EXCEPT
           !.at = "promoting", !.on = p, !.yes = retry,
           !.priority = IF route[p] = 0 THEN LowestFree ELSE route[p]]]
    /\ UNCHANGED <<rowVars, plan, operationVars, route, caller, ghostVars>>

(* The unique index on the priority, and the row that must still exist.    *)
Promote(s) ==
    /\ Promoting(s)
    /\ LET p == call[s].on
       IN  /\ \A q \in Project \ {p} : route[q] # call[s].priority
           /\ route' = [route EXCEPT ![p] = call[s].priority]
           /\ IF call[s].yes
              THEN failed' = [failed EXCEPT ![p] = "none"] /\ UNCHANGED operation
              ELSE End(p) /\ UNCHANGED failed
    /\ Return(s)
    /\ UNCHANGED <<rowVars, plan, caller, ghostVars>>

PromotionFails(s) ==
    /\ Promoting(s)
    /\ IF call[s].yes THEN UNCHANGED operationVars
       ELSE End(call[s].on) /\ failed' = [failed EXCEPT ![call[s].on] = "deploy"]
    /\ Return(s)
    /\ UNCHANGED <<rowVars, plan, route, caller, ghostVars>>

(***************************************************************************)
(* Deletion after a verified destroy, of the operation just completed or   *)
(* by retry: count the projects that share the repository, archived ones   *)
(* too, remove the caller if there is none, then delete the row with all   *)
(* that hangs on it.                                                       *)
(***************************************************************************)
CurrentSharers(p) ==              \* mutant: archived projects are not counted
    {q \in Project \ {p} : status[q] = "current" /\ identity[q].repo = identity[p].repo}

Sharers(p) == {q \in Project \ {p} : Exists(q) /\ identity[q].repo = identity[p].repo}

CountSharers(s, p, retry) ==
    /\ Idle(s)
    /\ IF retry THEN failed[p] = "destroy" /\ UNCHANGED operation
       ELSE Stage(p, "dispatched") /\ operation[p].kind = "destroy" /\ End(p)
    /\ call' = [call EXCEPT ![s] = [IdleCall EXCEPT
           !.at = "counted", !.on = p, !.id = identity[p], !.yes = (Sharers(p) = {})]]
    /\ late' = late \cup {p}
    /\ UNCHANGED <<rowVars, plan, failed, route, caller, granted, revived, crowded, ops, edits>>

RemoveCaller(s) ==
    /\ call[s].at = "counted"
    /\ call' = [call EXCEPT ![s].at = "removed"]
    /\ caller' = IF call[s].yes THEN caller \ {call[s].id.repo} ELSE caller
    /\ UNCHANGED <<rowVars, plan, operationVars, route, ghostVars>>

DeleteProject(s) ==
    /\ call[s].at = "removed"
    /\ LET p == call[s].on
       IN  /\ Exists(p)
           /\ status' = [status EXCEPT ![p] = "deleted"]
           /\ identity' = [identity EXCEPT ![p] = NoIdentity]
           /\ route' = [route EXCEPT ![p] = 0]
           /\ End(p)
           /\ failed' = [failed EXCEPT ![p] = "none"]
    /\ Return(s)
    /\ UNCHANGED <<plan, caller, ghostVars>>

DeletionFails(s) ==
    /\ call[s].at \in {"counted", "removed"}
    /\ Exists(call[s].on)
    /\ failed' = [failed EXCEPT ![call[s].on] = "destroy"]
    /\ Return(s)
    /\ UNCHANGED <<rowVars, plan, operation, route, caller, ghostVars>>

-----------------------------------------------------------------------------
(* The request dies or its transaction is refused: nothing is written.     *)
Abandon(s) ==
    /\ ~Idle(s)
    /\ Return(s)
    /\ UNCHANGED <<rowVars, plan, operationVars, route, caller, ghostVars>>

(* Stripe's webhooks and the owner's checkouts.                            *)
ChangePlan ==
    /\ plan' \in Plan \ {plan}
    /\ UNCHANGED <<rowVars, operationVars, route, caller, call, ghostVars>>

Next ==
    \/ \E s \in Session, p \in Project :
          \/ \E i \in Identity : CheckCreation(s, p, i) \/ CheckSource(s, p, i)
          \/ EditDetails(s, p) \/ ReadForArchive(s, p)
          \/ \E retry \in BOOLEAN : BeginPromotion(s, p, retry) \/ CountSharers(s, p, retry)
    \/ \E s \in Session :
          \/ InsertProject(s) \/ EditSource(s) \/ SaveEdit(s) \/ SaveArchived(s)
          \/ Promote(s) \/ PromotionFails(s)
          \/ RemoveCaller(s) \/ DeleteProject(s) \/ DeletionFails(s)
          \/ Abandon(s)
    \/ \E p \in Project :
          \/ AdmitDeploy(p) \/ AdmitDestroy(p)
          \/ EnsureWorkflow(p) \/ TriggerWorkflow(p) \/ OperationFails(p)
    \/ ChangePlan

Spec == Init /\ [][Next]_vars

-----------------------------------------------------------------------------
(***************************************************************************)
(* Safety.                                                                 *)
(***************************************************************************)

(* Two current projects of the owner never have the same repository and    *)
(* branch, although every check of it may be stale when the row is saved   *)
(* and a save may bring an archived project back.                          *)
IdentityIsUnique ==
    \A p, q \in Current : identity[p] = identity[q] => p = q

(* Creations keep the owner within the largest quota that was in force,    *)
(* until a save that raced an archive brings a project back.               *)
CurrentWithinQuota == revived \/ Cardinality(Current) <= granted.current

(* Admission asks for the live quota and LIVE comes later: the quota holds *)
(* unless a project is admitted to its first LIVE while another one, or    *)
(* the retry of its finalization, is still on its way.                     *)
LiveWithinQuota == revived \/ crowded \/ Cardinality(Live) <= granted.live

(* The priority a first release was allocated is still free when it        *)
(* commits: no finalization fails for a priority another project took,     *)
(* but for that of a project deleted meanwhile, which fails anyway.        *)
PriorityStaysFree ==
    \A s \in Session : Promoting(s) =>
        \A p \in Project \ {call[s].on} : route[p] # call[s].priority

(* Between the check of the caller workflow and the dispatch nobody        *)
(* removes it, but for the deletions that could not know of the project.   *)
CallerInPlace ==
    \A p \in Project \ late : Stage(p, "ensured") => operation[p].repo \in caller

=============================================================================
