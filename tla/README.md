# Deploy-Guard in TLA+

Deploy-Guard takes a user's repository, builds and deploys it to AWS through a
GitHub Actions workflow, and keeps the control-plane record of what is LIVE.
This directory holds TLA+ models of the control plane's core logic (deployment
lifecycle, configuration, runtime secrets, projects and quotas, billing,
notifications), the TLC configurations that check them, and TLAPS proofs of
their main invariants.

## 1. Inventory

Paths are relative to `src/`.

| Component | Source | State it keeps | Operations | What makes it correct |
|---|---|---|---|---|
| Deployment lifecycle | `backend/src/projects/railpack-deployment.service.ts` | `project_pipeline_runs` (one row per operation), `reconciliationInFlight` (per process) | deploy, retry, destroy, rollback, resetAndDeployFresh, reconcileActive, reconcileVisibleProjects | one active operation per project; completion and LIVE rest on evidence; a failure says what happened; an operation ends |
| Release ledger | `backend/src/projects/stable-release-projection.ts`, generation/route/release entities | `project_deployment_generations`, `project_stable_releases`, `project_environment_routes` | promote, materializeStableRelease, cascade delete | exactly one LIVE generation, the one the route serves; linear release history; an immediate rollback target |
| Project deletion | `backend/src/projects/project-deletion.service.ts` | none of its own | finalize, assertReady | only after a verified destroy; everything goes together; repeatable after a partial failure; takes no workflow another project uses |
| GitHub Actions boundary | `backend/src/projects/pipeline/github-actions.service.ts`, `.github/workflows/deployguard-reusable.yml` | runs, artifacts, the managed caller workflow | triggerWorkflow, findWorkflowRunForOperation, getWorkflowRun, getResultArtifact | a lost answer is not a lost request; one run per project at a time |
| Projects and quotas | `backend/src/projects/projects.service.ts`, `project-usage.service.ts`, `backend/src/billing/entitlement.service.ts` | `projects`, listener priorities of routes | create, update, updateRepository, updateBranch, archive, admission checks | one current project per repository and branch; quotas; priorities used once |
| Project configuration | `backend/src/projects/projects.service.ts`, `database-tier.service.ts`, `configuration-ownership.ts` | services, entry point, variables, `project_database_tiers` | edits; capture, seal and promote by an operation | what a release names stays; no edit takes a database or its names |
| Runtime secrets | `backend/src/projects/github-actions-runtime-secret.service.ts` | Secrets Manager versions and their stages | materialize, compensate, deletion by the destroy run | a release keeps the versions it pinned; a refused deployment leaves what it found |
| Managed database reconciliation, recovery decision | `backend/src/projects/managed-database-reconciliation*.ts`, `deployment-recovery-decision.ts` | none; read from the tier, AWS and the Terraform state | classify, decide, admit, reset | never a fresh database where a whole one exists; two opinions that agree |
| Billing and entitlements | `backend/src/billing/` | accounts, subscriptions, webhook events, usage counters | checkout, webhook, quotas, consume, free trial | idempotent and order-tolerant webhooks, exact usage |
| Notifications | `backend/src/notifications/` | `notification_deliveries`, `notification_subscriptions`, SNS topics | dispatch; subscribe, resend, refresh, unsubscribe; clean-up of a deletion | no needless repeat, an honest history, mail only to who agreed and is still wanted |
| Terraform state lock | `backend/src/state-management/` | locks, queue, heartbeats | acquire, release, heartbeat, orphan, queue | mutual exclusion per environment |
| Infrastructure lifecycle | `backend/src/infrastructure-lifecycle/` | cloud state, destroy operations | cloud-state reconciliation; destroy worker, TTL and emergency cleanup (not registered as providers) | observation only |
| Failure diagnostics | `backend/src/projects/failure-diagnostics/` | none | diagnose | retry only where safe |
| Current state | `backend/src/projects/current-state/` | in-process invalidation counter | read | a read reconciles first |
| FinOps, observability, audit log, AI troubleshooting | their directories in `backend/src/` | reports | record, query | - |
| Auth, users, admin | their directories in `backend/src/` | accounts, sessions | request-scoped | - |
| Frontend, Terraform, monitoring | `frontend/`, `backend/terraform/`, `monitoring/` | - | - | - |

How they interact. A request handler admits an operation (one transaction) and
goes on, in the same call, to dispatch it to GitHub. Nothing in the backend
runs on a timer: reads of a project (`projects.controller.ts:95`,
`project-current-state.service.ts:105`) call the reconciliation, which polls
GitHub for the active operations, validates the result artifact and finalizes.
A finalization promotes services, the database tier and the free trial, and
reports an event to the notifications. Edits of the configuration and
admissions exclude one another by an advisory lock that finalizations do not
take. The lifecycle shares the database rows with every other call, and entities are
read, held in memory over remote calls, and saved whole.

Hard behaviours: that read-remote-save pattern without row locks or version
columns; two ways into reconciliation, of which one is not deduplicated; POSTs
whose answer is lost; artifacts that are late or never come; processes that die
between the steps; transactions whose commit is not acknowledged; retry paths
that work on the latest *failed* operation, whatever happened after it; owners who edit
services, variables and the database, or subscribe to mail, beside all that;
several projects of one owner that share quotas, listener priorities and a
repository's caller workflow.
`PROJECT.json` lists each as a hazard at its line with the properties that
watch it.

## 2. Modules

| Module | Models | Depends on |
|---|---|---|
| `ReleaseLedger` | generations, stable releases and route; `Promote` is the projection half of `finalizeVerifiedRelease`, `EraseLedger` the cascade of the deletion | - |
| `GithubWorkflow` | run, artifact, caller workflow and what AWS runs, as the control plane relies on them | `ReleaseLedger` |
| `Deployment` | the lifecycle of one project: dispatchers, reconcilers, retry and rollback clients, deletion | `GithubWorkflow` |
| `LifecycleTruth` | the abstract promise: open, prove, go live, close, delete | - |
| `RuntimeSecrets` | the secret versions of one environment, call by call | - |
| `DatabaseRecovery` | verdict, recovery decision, admission and reset as functions of one observation; no state | - |
| `ProjectConfiguration` | services, entry point, variables and database tier of one project, edited while operations are admitted, sealed and finalized | `DatabaseRecovery` |
| `Portfolio` | several projects of one owner: identities, quotas, listener priorities, the shared caller workflow | - |
| `Billing` | one account's subscription: Stripe, Checkout, webhook transactions, invoices and payments, the start of the free trial | - |
| `Deliveries` | the events of one project and the dispatchers that publish them | - |
| `Subscriptions` | the owner's calls, the subscription rows and Amazon SNS, with the deletion of the project | - |

`MC<Module>` adds what TLC needs (symmetry, constant functions; the formulas of
`DatabaseRecovery` as an assumption it evaluates), `<Module>Proofs` the theorems.
`LifecycleProofs` builds on `DeploymentProofs`.

The parts are separate modules because they meet in few places, and each states
what it takes from the others: `RuntimeSecrets` that operations follow one
another (`OneUnderWay`), `Portfolio` an operation as a kind and a stage,
`Deliveries` that a subscription is confirmed or not, `Subscriptions` that a
dispatch sends, and `Deployment` that secrets were withdrawn, and the clean-up
of a deletion as one step that may fail.

### State and code

* Operations are numbered by `createdAt`. A release's generation id is the id
  of its operation (`generationId = current.generationId || current.id`, and
  only finalization sets the column for a deploy or rollback), so generations,
  releases and operations share numbers.
* `request[o]` holds the immutable columns. `row[o]` holds the mutable ones the
  properties can tell apart: `status` (QUEUED before and after `currentStage`
  became `workflow_dispatch` are "preparing" and "dispatching"), `known`
  (`githubWorkflowRunId` is set), `pending`
  (`releaseEvidencePendingAttempts`) and `code` (`failureCode`, by the family
  that decides what a retry does).
* `dispatcher[o]` is the program counter of the `dispatch` call of operation o.
  `at`, `on` and `copy` are those of a reconciliation or client call, with the
  entity it holds in memory.
* `repository.save(entity)` writes the caller's whole copy over the row,
  whatever the row says by then (`Save`, `TrySave`). It fails when the project,
  and with it the row, is gone (TypeORM inserts, and the foreign key refuses),
  and when it would make a second operation of the project active (the partial
  unique index of migration 1787356821000). Only these two refusals exist;
  finalization re-reads the row but never asks for its status.
* The dispatcher's entity never loaded a `failureCode` or run id, so its saves
  leave those columns alone, but it overwrites `metadata` (`DispatcherCopy`).

### State and code of Billing

* `stripe[sub]` and `stripeInvoice[sub]` are the truth at Stripe; each change
  emits an event, and `event[1 .. sent]` is their log in the order they
  occurred, so that an event's number stands for its `occurredAt`. Deliveries
  need no state: any emitted event may be received at any time until it is in
  `processed` (`billing_webhook_events` with status processed), late, again
  after a refusal, and in any order.
* `row` is the account's row of `billing_subscriptions` with the columns that
  decide something: `providerSubscriptionId` (`sub`), `plan`, `status`,
  `providerEventCreatedAt` (`at`) and `trialStartedAt` (`trial`: the LIVE
  activation it was set from). The row is taken to exist, as
  `ensureSubscription` creates it.
* A session is a database transaction: a webhook (`Handler`) or a finalization
  or trial reconciliation (`Writer`). `got` is the subscription it retrieved
  from Stripe, `mine` the entity it read and changed, `base` the row as
  TypeORM's `save` found it when it read it again. `save` updates only the
  columns in which `mine` differs from `base` (`Saved`), so two overlapping saves
  may mix by columns.
* Transactions are READ COMMITTED and lock an event's id, a reconciliation its
  account, a finalization neither. An UPDATE waits for the commit of another of the
  same row, so the update and the commit are one step (`CommitWebhook`,
  `CommitTrial`). The unique indexes on `provider_invoice_id` and
  `provider_transaction_id` let only one of two overlapping inserts through;
  the other aborts, which `Abort` allows at any time, and is delivered again.
* `overlapped` and `reordered` are history variables for properties only: two
  transactions of the account overlapped; an invoice event was processed
  after a later one of the same invoice.

### State and code of RuntimeSecrets

* `secret[s]` is the secret of one service in Secrets Manager: its state, the
  versions it has and which carry AWSCURRENT and AWSPREVIOUS. A `Token` is a
  version id, the hash of a configuration, so that two operations with the
  same configuration use the same version.
* `change[s]` is what the dispatcher has recorded as provisional. A call to AWS
  succeeds, fails, or succeeds with its answer lost; in the last case nothing is
  recorded, and the service is in `doubtful`.
* `pins[s]` are the versions a dispatched run or a release reads by id. `before`
  is the current version at admission, for `RefusalRestores` only.

### State and code of ProjectConfiguration and DatabaseRecovery

* Edits and admissions hold the configuration lock and are one step. The tier's
  writers (owner, reset, promotion) are split into the read of the row and the
  save, which updates the columns that differ (`Merged`), as in Billing;
  `overlapped` says that two of them did.
* `admitted` is the configuration an operation captured and keeps in memory;
  `report` whether its view of the tier is still current; `release[o]` what the
  dispatched workflow was given. `stranded` is an operation whose verified
  release could not be finalized and waits for a retry.
* A record of `Evidence` is what one reconciliation reads. `Classify` and
  `Decide` are two functions of it written apart from each other; a reset
  in `ProjectConfiguration` is possible for the tiers for which they, together,
  admit one (`ResettableTiers`).

### State and code of Portfolio

* `call[s]` is what a request has read and not yet written. A creation holds the
  owner's lock from its counts to its commit; the edits check the identity before
  their transaction and save the whole row, also over an archive; a first
  release allocates its priority under one lock for all projects.
* `caller` are the repositories with a managed caller workflow. A dispatch ensures
  the workflow and triggers it later; a deletion counts the projects that share
  the repository and removes the workflow later.
* `granted`, `revived`, `crowded` and `late` are history variables: the largest
  limits a check applied; a save undid an archive; a project was admitted to its
  first LIVE while another was on its way; a project that a deletion could not
  have counted.

### State and code of Deliveries and Subscriptions

* `delivery[e]` is the row of event e, whose deduplication key it is. A call
  inserts it, checks for a confirmed subscription, and publishes at most three
  times. `requests`, `accepted` and `lost` count what SNS was asked, accepted,
  and what of that the call never learnt.
* `row[d]` is the subscription of address d, `latest` the one updated last, which
  every call of the owner begins with; `copy` is the entity a call holds over its
  requests to SNS and saves whole. `member`, `agreed` and `topic` are the truth at
  SNS. `loose` are the addresses given up while their ARN was the literal
  PendingConfirmation.

### Steps

Every database write, every remote call and every decision that follows an
`await` is a step of its own; what happens between two awaits is one step.
`Prepare` merges the stages before the dispatch intent, each of which only
saves a `currentStage` that no other call reads. The finalization transaction
(under an advisory lock) is one step, as is admission. A run's effect on AWS is
one step because the reusable workflow has a concurrency group per project
that is not cancelled in progress; a failed run is taken to leave the runtime
it found.

## 3. Runs

| Run | Instance | Question | Result |
|---|---|---|---|
| `overlap` | 2 operations, 2 reconcilers, lost responses, failed and unacknowledged finalization | do stale saves break exclusion, completion or secrets? | holds |
| `retry` | 2 operations, 1 reconciler, 1 client, every fault | do retries, crashes and rollbacks make anything LIVE, deleted or failed without the evidence for it, or break the abstract truth? | holds |
| `serial` | 3 operations, 1 reconciler, 1 client, crashes and lost dispatches, steps that keep the order of `Orderly` and `Undisturbed` | does the history of releases stay a line, and do outcomes, LIVE, rollback and deletion mean what users think where that order is kept? | holds |
| `liveness` | 2 operations, 1 reconciler, lost responses, cleanup errors, limit of 2 attempts | does a dispatched operation end, and a verified destroy? | holds under fairness |
| `stale_backfill` | 1 operation, reconciler and client | `BackfillKeepsOutcome` | violated |
| `secrets` | 4 operations, 2 services, 3 versions, failing calls and lost answers | do pinned versions stay, and does a refusal take back what it changed? | holds |
| `configuration` | 2 operations, 2 services, 2 directories, 2 variables, 2 engines, 3 edits | do edits break what an operation has captured, deployed or owns? | holds |
| `portfolio` | 2 projects, 2 repositories of 2 branches, 2 requests, 2 plans, 3 operations, 2 changes | do stale checks break identities, quotas, priorities or the shared workflow? | holds |
| `billing` | 2 subscriptions, 2 paid plans, 2 webhooks and 1 finalization or reconciliation at a time, 3 events, 2 activations | does the projection follow Stripe, keep its subscription and leave ended ones ended, whatever order events come in? | holds |
| `invoice_order` | 1 subscription, 1 webhook at a time, 3 events | `InvoiceStaysPaid` | violated |
| `deliveries` | 2 events, 2 dispatchers, every fault | is an event published once, recorded truly, and does its delivery end? | holds, the last under fairness |
| `subscriptions` | 2 addresses, 2 overlapping calls of 4, every fault, a deletion | who may get mail, and does the topic go? | holds |

In the lifecycle the properties come in two layers. The first holds under full
concurrency and every fault: `OneUnderWay`, `CompletedIsBacked`,
`RunKeepsItsSecrets`, `ReleaseHistoryIsLinear`, `LiveOnlyByEvidence`,
`DeletedByProvenDestroy`, `FailureIsTrue`, `RollbackGoesBack` and the refinement
`ImplementsTruth`. The second, `RouteIsStable`, `LiveMovesToDeployed`, `OutcomeIsFinal`,
`DeletionFindsNothing`, is what one would expect too, and holds only where more
order is kept than the code enforces and neither finalization nor cleanup fails. The
order is a constraint on the steps of `Spec`, and no more than is needed. `Orderly`:
two reconciliations do not overlap, and no operation ends before the request that
dispatched it has. Retries, rollbacks, dispatches and the reconciliation still
overlap each other. `Undisturbed`, for `DeletionFindsNothing` alone: nothing is
admitted while a verified destroy deletes its project. Most behaviours of one
process keep that order: `reconcileActive` shares one reconciliation
(`reconciliationInFlight`), a run takes longer than the request that started it, and
a user who destroys a project does not deploy it. `RollbackGoesBack` and
`ReleaseHistoryIsLinear`, though proved for everything, are run there, where three
operations fit in: a rollback to an older release, and a superseded release behind a
rollback target, do not arise with two.

`FailureIsTrue` speaks of the past as well: the artifact of a successful run may
become available after its absence was judged. `rejected[o]` therefore remembers
what the artifact of o was whenever a reconciler rejected its evidence
(`RejectEvidence`, `persistTerminalEvidenceFailure` in the code). An operation
recorded as a broken contract has been rejected, and never for an artifact that
validated.

`OneUnderWay` says more than that one row is active: an operation whose dispatch
may still change secrets, or whose run still goes on at GitHub, keeps the next one
out, although only the status of its row does so, and stale copies are written
over that. It holds even after the project was deleted, where `overlap` goes too.

Elsewhere, too, a property that overlap breaks says so itself, by a history
variable, rather than being weakened or left out. In Billing `PaymentsOnce`,
`PlanWasSold` and, for invoices whose events were not taken out of order,
`SettledInvoices` hold however transactions overlap; `SettledLikeStripe`,
`KeepsSubscription` and `EndedStaysEnded` are stated while no two transactions of
the account have overlapped (events may still be late, repeated and in any order),
because the lock of a webhook is its event's and not its account's. An overlapping
webhook that retrieved the subscription before it ended may save last, and revive it
in the row. `KeepsSubscription` speaks of what Stripe has reported, and not of what is
so now: the code asks the status in its own row, so a subscription recorded unpaid may
lose the row to another one although it has recovered at Stripe. The same goes
for `DatabaseKept` and `EditsKeepOwnership` (two writers of the tier), for
`OneDestination`, `MailWanted` and `TopicGoes` (two calls of the owner), for the
quotas and for `CallerInPlace`. What is left is not what the exception says
alone: each has a mutant of the code that violates it.

Types are proved for every instance, and no run spends time on `TypeOK`; the same
goes for `RouteIsSoleLive` and `ReleasesAge` of the ledger, and for `SingleActive`,
which `OneUnderWay` contains.

### What the violations show

1. `stale_backfill`. The backfill of terminal stages saves the failed row it
   read over the row a retry has completed, although a test says it "cannot
   change the terminal operation outcome".
2. `invoice_order`. A renewal charge fails, its retry succeeds, and the event of
   the failure is processed last: `persistInvoice` sets `payment_failed` on the
   paid invoice, whose payment is recorded. The subscription itself is not
   affected, because its state is retrieved and not taken from the event.

Every hypothesis of the second layer is needed. Where reconciliations overlap, a second
finalization of an operation that commits after a newer release
(`railpack-deployment.service.ts:1698`) moves the route back while the stable
release stays: it takes two polls of the same operation to overlap a whole
deployment, which `reconcileVisibleProjects` or a second process allow and
`reconciliationInFlight` prevents only within `reconcileActive`. Where an operation
may end before its dispatch has, `persistAcceptedWorkflowDispatch` (line 491) puts
the finished row back to RUNNING, as TLC finds at once in `serial`
without that half of `Orderly`. Where a deploy may be admitted between the two
transactions of a deletion (line 1892), the project goes with the new operation
active: the completed row of the destroy keeps nothing out. After a failed
finalization, or a failed cleanup, a retry works on the latest *failed* operation
(line 144) although a newer one is LIVE: it moves LIVE back, or deletes a project
that runs.

### Bounds

`MaxOp` bounds the operations of a project's life: 2 is the least that has an
older and a newer operation, and 3, as in `serial`, is needed for deploy, destroy,
deploy, for deploy, deploy, rollback and for a superseded release.
`PendingLimit` is the constant 3 of the code, and is lowered to 1 where the
number of attempts does not matter, and to 2, the least with an attempt that is
not the last, in `liveness`; `pending` is capped there, since only its
comparison with the limit is used. Two reconcilers are the two ways into
reconciliation; `liveness` has one, because the state graph of a liveness check
with two does not fit. Clients stand for retry and rollback requests; deploy and
destroy requests need no session, as they read nothing before admission.
`overlap` compares states without the history variable `rejected` (`VIEW`), which
nothing in it and no step depends on.
`CHECK_DEADLOCK FALSE` because a project may be deleted, its operations used
up, or blocked by an operation that stays active (section 5).

In `secrets`, two services make one of them fail after the other has changed;
three versions make the current, the previous and a new one differ; four
operations make deploy, refused deploy, deploy and destroy. In `configuration`
two engines share one variable name and one has a second of its own; two
operations make a release and one that is refused, stranded or rolls back to it;
three edits change the tier, a variable and a service. In `portfolio` two requests and two projects are the least that
compete; plans of one and two current projects, and one LIVE, make a plan
change lower a quota below what exists. Its bounds leave `ChangePlan` and
requests possible for ever, so deadlock is checked there. In `deliveries` two
dispatchers compete for an event while the other event is undisturbed; in
`subscriptions` four calls subscribe, replace, leave and come back.

In `billing`, three events are the least for a subscription that starts, fails
to pay and recovers, or ends while another begins; two subscriptions make one
take the row over from the other; two activations make a second one that may
compete for the start of the trial; two webhooks and a writer make every pair of
transactions overlap. `CHECK_DEADLOCK FALSE` because events and activations
run out.

### Fairness

`FairSpec` assumes that a request inside the service goes on (weak fairness of
`Dispatch` and of a session's steps), that GitHub ends its runs, and that an
active operation is loaded again and again: strong fairness of `Load`, because
every read of the project reconciles all active operations *before* it
backfills finished ones, and users keep reading. `EvidenceExpires` is strongly
fair: two minutes pass, so one of the attempts beyond the third finds them
passed. Nothing makes anybody deploy, retry, roll back or destroy, and no
fairness is assumed of artifacts.

`Deliveries!FairSpec` assumes weak fairness of the steps of a dispatch only: a
call inside the service goes on, until it ends or its process dies, which
`Crash` allows at any time and `DeliveryEnds` excepts.

## 4. Proofs

All proofs are checked by TLAPS, for every value of the constants. Those of the
lifecycle hold for every `MaxOp`, every set of reconcilers and
clients, every `PendingLimit > 0` and every set of faults. The assumptions are
`MaxOpAssumption` and `DeploymentAssumption`; the latter's disjointness of
reconcilers and clients only says that a call is one or the other.

1. `TypeInv` (`DeploymentProofs`): `TypeOK` is not inductive by itself; what is
   added is that a session away from idle has an operation, and one about to
   retry or roll back a real one. Gives `TypeCorrect`.
2. `LedgerInv`: the ledger's own facts. `Promote` and `EraseLedger` are the only
   two operations on it. Gives `SoleLive`, `LinearHistory` and `OnlyAges`. That a
   superseded release stands behind a rollback target is why the targets have to
   be looked up before the stable release is demoted.
3. `TruthInv` (`LifecycleProofs`): the heart of it. Rows are overwritten by
   stale copies, so an invariant about rows cannot be inductive unless it
   speaks of every in-memory copy as well. `Truthful(o, r)` says what a row or
   a copy `r` of operation `o` may claim, and uses only facts that stay true
   once they are (a run's conclusion, a valid artifact, a projected generation
   while the project exists). Lemma `TruthStays` shows it stable under every
   step, after which a save of any copy preserves the truth of rows. Gives
   `LiveRestsOnEvidence`, `CompletionIsBacked`, `DeletionIsProven` and
   `RunsKeepSecrets`. `RejectionInv` adds the past of every row and copy that says
   "contract": some evidence of its operation has been rejected, and none that
   validated (`Judged`), which stays so because `rejected` only grows by what a
   reconciler rejects (`RejectedGrows`). Gives `FailuresAreTrue`.
4. `RollbackInv`: a target is followed from the moment it is
   read, through the session that carries it, into the request and its retries.
   `Restorable` says what stays true of it; lemma `RestorableStays` needs
   `TruthInv` for the one step that could take it away, the deletion of the
   project, after which nothing is finalized. Gives `RollbacksGoBack`.
5. `OneActive`: `SingleActive` is inductive given the refusals of `SaveAccepted`.
6. `Refinement`: from the three invariants, each step of
   `Deployment` is a step of `LifecycleTruth` or a stutter, with one lemma per
   kind of step (`SaveRefines`, `AdmitRefines`, `ReleaseRefines`,
   `DeleteRefines`, `WorkflowRefines`).
7. `UnderWayInv`: while the project exists, what is under way has an active row,
   so that `SingleActive` makes it one operation. Its row cannot be terminal,
   because it would say something false (`TruthIsUnfinished`), and cannot vanish,
   because no call saves an empty copy (`CopiesHeld`, `RowsRemain`). After the
   deletion nothing gets under way any more. Gives `OneAtATime`.
8. `OrderlyInv`, under the hypotheses of the second layer: steps satisfy `Orderly`,
   and `Faults` has no failure of finalization or cleanup. A call knows the outcome
   of the row it works on (`OrderlyCall`), although others may move it: a loaded
   operation stays active unless its dispatch was refused, and then there is nothing
   to poll (`Refused`); what is about to be saved over a finished row has the status
   of that row; a client has nothing to finalize again. And as long as its row is
   active, AWS runs what its successful run left (`OrderlyOps`), which needs
   `UnderWayInv`, because nobody else's run may go on. `MovedCall` and
   `UnmovedCalls` reduce each step to the one call that moves and to rows that do
   not surprise the others (`CallKept`). Only lemma `OrderlyRelease` touches the
   ledger. Gives `RouteServesStable`, `LiveFollowsRuntime` and `OutcomesAreFinal`,
   each for `Spec /\ [][Orderly]_vars`. `DeletingInv` adds that while a destroy
   deletes its project nothing is active and AWS runs nothing, and gives
   `DeletionLeavesNothing` for `Spec /\ [][Orderly]_vars /\ [][Undisturbed]_vars`.

`BillingProofs` proves, for any number of subscriptions, plans, transactions,
events and activations, under `BillingAssumption`:

9. `PlanInv`: events tell of subscriptions that exist, every plan Stripe sells has
   been told of by an event, and so has every plan a session holds in memory;
   a column-wise mix of two such rows again has such a plan. Gives
   `BillingTypes` and `PlansAreSold`.
10. `PaymentsOnce` is inductive given `PlanInv` and that events are a log
   (`EventsAreALog`). Gives `PaymentsAreSingle`.
11. `InvoicesFollowReports`: the status of an invoice is that of its last report,
   at Stripe among all events and here among those processed. When all are
   processed the two are the same. Gives `InvoicesSettle`.
12. `SerialInv`: while nothing has overlapped, a session is alone, the row it found
   is still there, and the entity it will save respects the subscription: it names
   another one only where the row's own is unpaid or canceled, and does not revive a
   canceled one. `ToldInv`: a status of that kind, in the row or in what any session
   holds, is one that Stripe has reported in some event, because every change of a
   subscription at Stripe emits one (`StripeReports`). Gives `SubscriptionsAreKept`
   and `EndedSubscriptionsStay`.
13. `CurrentInv`: while nothing has overlapped, the row, and what a session retrieved
   or is about to save, is what Stripe says now, unless an event of that
   subscription later than its stamp is still to be processed (`LikeStripe`). A
   deletion at Stripe is final, so the state its event carries is Stripe's. Gives `SettlesLikeStripe`.

`DeliveriesProofs`, for any number of events and dispatchers, and every fault:

14. `HistoryInv`: the one dispatcher that inserted a delivery holds it to the end
   (`SoleHolder`), and its program counter says how many requests were made and
   accepted (`HolderCounts`). Gives `RepeatsAreExplained` and `HistoryIsHonest`.

`SubscriptionsProofs`, for any number of addresses and calls:

15. `AgreementInv`: what SNS calls a confirmed member has agreed, and so has every
   entity a call is about to save as confirmed. Holds with overlap. Gives
   `ConfirmationsAreGiven`.
16. `CalmInv`: while nothing has overlapped, only the subject of the one call in
   progress is listed, and it is the address updated last; with `TopicInv` (some row
   knows the topic, or the call about to save does) it gives
   `OneDestinationAtATime` and `TopicsAreRemoved`.
17. `MemberInv`: while nothing has overlapped or failed, a replaced or left address is
   no member any more or was given up without an ARN, every member has a row, or an
   entity about to be saved, that knows the topic (`MembersKnown`), and a call that
   goes on has dropped what it replaces (`CallDrops`). Gives `MailIsWanted`.

`RuntimeSecretsProofs`, for any number of services, versions and operations:

18. `SecretsInv`: versions that carry a stage exist, what was materialized exists,
   and nobody reads a secret the operation under way created (`PinInv`, for
   `PinnedVersionsStay`); what is recorded of a service is enough to take its
   change back, for those the compensation has not reached yet (`TakeBackInv`,
   for `RefusalTakesBack`).

`PortfolioProofs`, for any number of projects, repositories, requests and plans:

19. `PortfolioInv` has five parts that rest only on the types. `IdentityIsUnique` is
   inductive by the unique index. `PriorityInv` gives `AllocatedPriorityIsFree`; that a
   lowest free priority exists at all is a pigeonhole argument over the finite set
   of projects. `CallerInv`: a count that found no sharer is right about the projects
   it could count. `CurrentInv` and `LiveInv` carry the quota from its check to the
   commit. They give `IdentitiesAreUnique`, `CallersStay`, `CurrentQuotaHolds` and
   `LiveQuotaHolds`.

`ProjectConfigurationProofs`, for any number of services, names, engines and
operations:

20. `ServiceInv`: what an operation captured is still there when it is sealed,
   because only an active operation captures and none is active while a service
   is removed, and what was built stays for good. Gives `ReleasedServicesStay`,
   `EntryPointIsServed` and `PortsFollowDirectories`.
21. `TierInv`: until two writers overlap each holds the tier of now (`OneWriter`)
   and what it will save keeps the engine (`WritersKeep`); an edit's lock keeps
   its names free (`EditOwns`). Gives `DatabaseStays` and `OwnershipStays`.
22. The formulas of `DatabaseRecovery`, for all evidence: `RecoveryKeepsData`,
   `RecoveryIsDispatchable`, `OpinionsDifferOnlyThen` and `OwnerHasAWay`.

Only model-checked: the three liveness properties `ActiveEventuallyEnds`,
`VerifiedDestroyDeletes` and `DeliveryEnds`, because reasoning from fairness is
beyond the prover. Every other property that a passing run checks is a theorem. No
module uses induction over data or a recursive operator.

## 5. What the model leaves out

* Data of the evidence contract (services, digests, terraform outputs): an
  artifact is valid or invalid. A destroy whose artifact is valid but of the
  wrong generation scope is counted as invalid.
* In `Deployment`: entitlement refusals, configuration snapshots, build targets,
  requirement and managed database admission. They end in the dispatch failure
  that `Compensate` and `RecordDispatchFailure` model, or refuse admission.
* Audit records: errors there are swallowed.
* A dispatch answered with any status but 2xx, 500, 502 and 504 included, is a
  definite refusal to the code (`github-actions.service.ts:197-206`): secrets are
  taken back and the operation fails. `PostRejected` assumes that GitHub has then
  started no run. `RunKeepsItsSecrets`, `OneUnderWay` and their theorems rest on that
  assumption; a gateway error after GitHub had accepted the request would break it.
  Only a request without any answer is lost and ambiguous (`PostLost`).
* The dispatcher's entity has no run id and no failure code while it waits for the
  answer. The model keeps `known` and `code` in its saves (`DispatcherCopy`), as
  TypeORM does with columns an entity has not set. If it held them as NULL its save
  would clear what a reconciliation wrote meanwhile: an ambiguous dispatch would be
  found again by its operation, an accepted one sets the run id itself.
* The order of the writes in `materializeStableRelease`: its lookups come before its
  writes, so what matters is which releases the two agings see, and that is the order
  of `DemoteStable` after `SupersedeTargets`. An insertion before the demotion would be
  refused by the unique index of the stable release, and is not modelled.
* Rows that were completed before the release tables existed
  (`reconcileCompletedRelease`): `CompletedIsBacked` shows that for rows of
  this version it finds its release present.
* The window between the SELECT and the UPDATE inside one `save` of the
  lifecycle: there `Save` is one step. `Billing` models it, because its
  transactions race on one row as a matter of course.
* In Billing: the lookup of a payment and its insertion
  (`billing.service.ts:273-274`) belong to the commit, where the unique index, by
  `Abort`, stands in for what may come between them; the statuses `incomplete`, `trialing` and `paused`, which take the
  same paths; more than one renewal invoice of a subscription; events of the
  same second; periods, prices, customers and the refusals of foreign or
  malformed objects, which abort like `Refuse`; webhooks that are ignored by
  type; usage counters and the expiry of the trial. The two reads of
  the subscription row in a finalization (`planForUser` and its own) are one
  step.
* In RuntimeSecrets: values, tags and the check of ownership; versions without a
  stage that AWS removes after more than a hundred of them; secrets of services
  that only older releases have, which a destroy run does not delete.
* In ProjectConfiguration: names, positions and values; the provider EXTERNAL;
  the checks of repository and directory; destroys, which are `Deployment`'s.
  `ensureDeployguardWorkflow` (`projects.service.ts:924-933`) and `archiveProject`
  (398-404) save the whole project outside the configuration lock, so a stale copy may
  write an old entry point back; the foreign key of migration 1787356818000 refuses
  one that names a removed service. `PortOfItsDirectory` follows the directory of a
  service; that the repository or branch changed under a resolved port is left out.
* In DatabaseRecovery: how AWS and the Terraform state are read; the verdict
  RECOVERABLE, because no recovery point is ever observed; the mode RESTORE, which
  no caller asks for.
* In Portfolio: other owners, whose priorities are further projects here; the
  environment name, a constant of the code; `billing.enforce` switched off; the
  mix of columns when two edits of a project overlap between the read and the
  update of one `save`; the save of `ensureDeployguardWorkflow`, which is no edit
  of the owner, but may write a stale source or status like those that are modelled,
  and meets the same unique index.
* In Deliveries and Subscriptions: `dispatchAccount`, which has no caller; texts;
  preferences for single kinds of events; a commit that is not acknowledged; requests
  that the AWS SDK repeats by itself, which `NoNeedlessRepeat` does not count. A call
  reads its row and asks SNS about it in one step (`Find`,
  `notifications.service.ts:75-78`), and the clean-up of a deletion unsubscribes and
  deletes the topic in one step (`CleanUp`): one that fails leaves the topic in place,
  and a deletion transaction that fails after the clean-up is not modelled there.

Gaps of the code that the properties step around, on purpose and in the open:
an operation whose dispatcher crashes before the intent, or whose POST was lost
without reaching GitHub, stays active for ever (`ActiveEventuallyEnds` is
therefore stated without `crash` and `lost_request`); a crash between
completing a verified destroy and deleting the project leaves a completed
destroy nobody finalizes (`VerifiedDestroyDeletes` is stated without `crash`).
A dispatch of a notification that dies leaves its delivery pending for ever
(`broken` in `DeliveryEnds`). The start of the free trial is guarded by one test of
the column, under locks that differ between a finalization, the trial reconciliation
and a webhook: where they overlap it may move or be reset. Of two Checkouts that are both
paid, the events of the second subscription are refused while the first lives. An engine changed during the first deployment
strands it until it is changed back. A database that was provisioned half-way
has storage but no credentials: `IDENTITY_MIGRATION_REQUIRED` allows neither a
deployment nor a reset, as it is with unrecorded storage in transition
(`AlwaysAWay` says these are the only two). Storage that AWS is updating
counts as unavailable, so that a recorded database is reported lost for that
time and its reset allowed. A tier of provider NONE with leftovers allows
neither, because a reset wants a MANAGED tier.

### Not modelled

* Failure diagnostics: a table from messages to catalogue entries; what it
  decides for the lifecycle (which failures may be retried) is in `code`.
* The current-state projection: it reads, reconciles first (`Load`), and counts
  invalidations in its process.
* Terraform state lock, queue and heartbeat: reachable only from the destroy
  worker, which no Nest module provides, so this code does not run.
* Infrastructure lifecycle: TTL and emergency cleanup are not provided either;
  the cloud-state reconciliation only observes.
* FinOps, observability, audit log and AI troubleshooting report on recorded
  data; authentication, users and administration check single requests; none
  shares state with the lifecycle. Frontend, Terraform and monitoring are
  outside the control plane. They are most of the repository, which is why the
  share of its lines that is modelled is small.
* `EntitlementService.consume` and the usage counters: nothing calls them.

## 6. Order of work, and what is left

1. Lifecycle with ledger, GitHub boundary, deletion, refinement: done.
2. Billing: the projection of Stripe and the trial: done.
3. Runtime secrets, version by version: done.
4. Notifications: deliveries and subscriptions: done.
5. Project configuration with the managed database, and its recovery decision: done.
6. Portfolio: quotas, identities, priorities, the shared caller: done.
7. Left: the composition of `RuntimeSecrets` with the retries of `Deployment`, in
   place of the one fact each takes from the other (`OneUnderWay`, proved, and that
   secrets were withdrawn); the service-level evidence contract; the expiry of
   the trial.
