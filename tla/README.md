# SecureLogic engine: TLA+ models, runs and proofs

The engine is a multi-tenant governance, risk and compliance platform: an Express
API over PostgreSQL (`src/api/routes`, `src/api/lib`), background workers
(`src/api/workers`, `services/*-worker`), a Next.js front end (`app/`) and the SQL
migrations (`db/migrations`). This directory models the parts whose correctness
depends on the order in which requests and workers act on shared rows.

Paths are relative to the root of the repository; where a path starts with `lib/`, `routes/`, `workers/`, `webhooks/`, `middleware/` or
`infra/` it is below `src/api/`.

Contents: 1 inventory, 2 what is hard, 3 plan, 4 modules, 5 runs, 6 fairness,
7 proofs, 8 where code and comments disagree, 9 what is not modelled.

## 1. Inventory

The engine is a set of handlers and workers around one PostgreSQL database. A
handler runs inside one transaction (`infra/postgres.ts`, `withTenant`), which sets the
organization for row-level security; a worker runs on an interval, claims rows and
works through them; what follows a commit (webhooks, e-mail, audit records) is
started and not awaited. Components meet in shared rows: there is no message
broker, and in-process state is only caches and timers.

| component | state it keeps | operations | what makes it correct |
|---|---|---|---|
| finding lifecycle and governance: `lib/findingLifecycle*.ts`, `lib/findingClosure*.ts`, `lib/independentReview*.ts`, `routes/findings.ts`, `routes/actions.ts`, `routes/evidence.ts`, `routes/riskSettings.ts` | `findings.status`, `.operational_status`, `.decision_state`, `.review_owner_user_id`; `actions`; `evidence`; `finding_lifecycle_events`; `risk_settings` | create, update and unblock an action; attach evidence; write the legacy status; decide, alone or in bulk; change the policy; actions that a matcher generates | the axes agree; the stored status is the derived one; closure needs finished remediation or an accepted risk; the event stream replays; whoever remediates routes the finding to somebody who may close it |
| risk acceptances and exceptions: `lib/riskAcceptance*.ts`, `routes/riskAcceptances.ts`, `workers/riskAcceptanceExpiryWorker.ts` | `finding_risk_acceptances` | propose, approve, reject, withdraw; lapse; expiry sweep | `accepted_risk` has a record behind it; an exception never closes; the end of an acceptance reopens; a lapsed one ends |
| outbound webhooks: `lib/webhookDispatcher.ts`, `workers/webhookRetryWorker.ts`, `routes/webhooks.ts` | `webhook_deliveries`, `webhook_endpoints` | dispatch, test, attempt, retry, expire, disable | one attempt at a time; requests bounded; a final status stays; every delivery ends |
| control-matcher jobs and verdicts: `lib/controlMatcherQueue.ts`, `lib/llmControlMatcher.ts`, `lib/llm/verdictCache*.ts`, `workers/controlMatcherWorker.ts` | `jobs`, `llm_control_matcher_verdicts` | enqueue, claim, look up, reserve, call, settle, retry | one call at a time, boundedly many; an answer is kept; every job is settled |
| connector write-back and dead letters: `lib/connectorWriteback*.ts`, `lib/connectorDeadLetterStore.ts`, `workers/connectorWritebackWorker.ts`, `routes/connectors.ts` | `enterprise_connectors`, `connector_writeback_intents`, `connector_dead_letters` | configure, enqueue (replaces the desired value in place), load, read, decide, push, record, re-drive, dismiss | a value that somebody else has set there is not overwritten, a push given up can be recovered, an intent settles |
| connector sync: `workers/connectorSyncWorker.ts`, `lib/connectorSync*.ts`, `lib/connectorObservation*.ts` | sync runs, cursors, observations | scheduled and manual sync | no observation is lost, no page is skipped |
| data-rights jobs and account deletion: `workers/dataRightsWorker.ts`, `workers/accountDeletionReaper.ts`, `workers/exportFilePurgeWorker.ts`, `lib/accountDeletion*.ts`, `routes/accountDeletion.ts`, `routes/dataExports.ts` | `users.status`, `.deletion_scheduled_at`; `jobs`; `data_export_files`; bundles in object storage; legal holds | request an export or a deletion, cancel, remove and re-invite, hold, claim, upload, erase, purge, sweep | a link leads to its bundle, no bundle is forgotten, an erasure is whole and happens |
| risk lifecycle and approvals: `lib/riskLifecycleStateMachine.ts`, `routes/riskLifecycle.ts`, `routes/riskApprovals.ts`, `routes/riskTreatments.ts` | `risks.lifecycle_state`, `risk_approvals`, `risk_treatments`, `risk_lifecycle_events` | transition, request, approve, reject, treat, rescore | the event stream has no gap, a waiting risk can be decided, mitigation begins with another person's decision |
| billing: `webhooks/stripeWebhook.ts`, `webhooks/webhookIdempotency.ts`, `lib/billingDunningCycle.ts`, `lib/graceWindow.ts`, `workers/billingDunningWorker.ts` | the billing columns of `organizations`, `webhook_events_processed`, `billing_dunning_cycles` | claim and handle an event, release the claim, dunning sweep | the entitlement follows the subscription whatever order events arrive in, a notice is sent once, a cycle ends |
| brief scheduling: `lib/briefScheduler.ts`, `lib/briefCatchup.ts`, `workers/orphanBriefReaper.ts` | briefs, sends | tick, catch up, reap | one edition per window |
| signal processing: `lib/cyberSignalProcessingService.ts`, `workers/unprocessedSignalSweeper.ts` | signals, matches, findings | process, sweep | no duplicate finding, no signal left behind |
| one-time codes, sign-in and seats: `routes/customerAuth.ts`, `routes/mfa.ts`, `routes/sso.ts`, `routes/teamInvites.ts` | sessions, codes, lockouts, invitations | sign in, refresh, redeem, accept | a code is redeemed once, the seat cap holds |
| tenant isolation and request pipeline: `middleware/*`, `infra/*` | session settings, Redis counters | authenticate, authorize, limit | no row of another organization |
| posture, scoring, forecasting, assessments: `lib/posture*.ts`, `lib/risk*.ts`, `engine/` | snapshots | pure computation | reference values |
| the rest: language-model features, e-mail and newsletter, intelligence collection, blob storage, vendor extraction, playbooks, data retention, front end, migrations runner | – | – | – |

`PROJECT.json` lists the same components with their status, and every hazard at its line.

## 2. What is hard here

* **Three axes, three paths.** A finding's closure lives in two columns that a
  non-deferrable CHECK ties together (`findings_closure_axes_agree`) and a third,
  `decision_state`, that governs them. Legacy writes, governance decisions and risk
  acceptances each close and reopen, each with its own gate.
* **Derived and stored.** `operational_status` is a function of actions, evidence,
  policy, decision, legacy status and acceptances, and is stored. Whoever changes an
  input must recompute, and some writers do not.
* **READ COMMITTED.** The recompute reads several tables in several statements. One
  `SELECT ... FOR UPDATE` on the finding is what orders the writers.
* **Leases without fencing.** Workers claim a row by writing a time into it and write
  their results later by id alone. A worker slower than its lease, or dead, leaves a
  row that another takes.
* **Statement-by-statement bookkeeping.** The webhook worker counts, marks and charges
  in separate autocommit statements, inside a `try` whose `catch` counts again.
* **Time-of-check without a lock.** The write-back worker compares with a baseline it read
  before two network calls; the dunning sweep withdraws access on what one SELECT returned
  before a batch of e-mails. Nothing is claimed meanwhile.
* **Somebody else's order.** The payment provider repeats its events and sends them in any
  order, two at a time; a watermark in each UPDATE is what orders them.
* **Two rows, three endpoints.** A risk and its approval are moved by requests that lock them
  in different orders, one of them after a wait.
* **Two stores, one erasure.** An account is erased in one transaction and its bundles are
  deleted from object storage afterwards, one by one, by jobs that may die, repeat or be held.
* **Budgets across crashes.** A paid call must not be repeated without end when its
  worker dies, its answer is lost or its job is duplicated.

## 3. Plan

Done, in this order:

1. `FindingLifecycleMachine` and `FindingGovernance`, the behaviour everything else of
   the product reports on, with `FindingGovernanceProofs`.
2. `FindingTransactions`, the same handlers as the statements of concurrent
   transactions; that they implement `FindingGovernance` is checked by TLC and proved in
   `FindingTransactionsProofs`.
3. `WebhookDelivery`, with `WebhookDeliveryProofs`.
4. `ControlMatcher`, with `ControlMatcherProofs`.
5. `ConnectorWriteback`, with `ConnectorWritebackProofs`.
6. `StripeBilling` and the promise it keeps, `BillingLedger`; that it keeps it is checked
   by TLC and proved in `StripeBillingProofs`.
7. `RiskApprovals`, with `RiskApprovalsProofs`.
8. `DataRights`, exports and erasures on the queue whose policy `ControlMatcher` shares,
   with `DataRightsProofs`.

To come, in this order:

9. Brief scheduling with the reaper: two schedulers, a run that dies.
10. Signal processing with the sweeper.
11. One-time codes and seats: the seat cap is counted and then filled by concurrent
    acceptances (`routes/teamInvites.ts:780`).
12. With each of them its proofs. Of the modules there are, every safety property that a run
    checks is a theorem (section 7).

`FindingTransactions` extends `FindingGovernance`, which extends
`FindingLifecycleMachine`; `StripeBilling` instantiates `BillingLedger`; the other modules
stand alone, because the components they model meet only in rows that none of them share.
No module declares a RECURSIVE operator. There are two refinements: the committed rows of
`FindingTransactions` behave as `FindingGovernance` says (`Serializable`), and the row of
`StripeBilling` as `BillingLedger` says (`FollowsLedger`).

## 4. Modules

Identifiers keep the names of the functions, with a capital letter. Operators whose
comment begins with "Variant" are what a plausible mistake would look like (or, for a
few, what the code did before a fix its comments record); no specification uses them.
They are there to show that each property can fail.

### FindingLifecycleMachine

The pure functions of `lib/findingLifecycleMachine.ts` and `lib/findingClosurePolicy.ts`:
`DeriveOperationalStatus` (what the actions, the evidence gate, the decision, the legacy
status and a binding acceptance add up to), the two projections of the result on the
legacy column, the transition table of the decision with the name of the event each
transition logs, and the closure policy. `AxesAgree` is the CHECK constraint of
`db/migrations/20260906_finding_operational_status_closed.sql`.

### FindingGovernance

One finding of one organization. Each handler is one transaction and one action.

| variable | the code's state |
|---|---|
| `finding.status` | `findings.status`, the legacy column |
| `finding.operational`, `.decision`, `.reviewer` | `operational_status`, `decision_state`, `review_owner_user_id` |
| `finding.logged`, `.loggedDecision`, `.remediator` | what the code reads back of `finding_lifecycle_events`: the last state on either axis, the actor of the last `remediated` event |
| `action[a]` | `actions.status`, `"none"` before the row exists |
| `hasEvidence` | an `evidence` row of the finding exists |
| `acceptance[r]` | the row of `finding_risk_acceptances`; `lapsed` says that `expires_at` is before `CURRENT_DATE` |
| `policy` | the two settings of `risk_settings` that a finding's status depends on |

| action | handler |
|---|---|
| `CreateAction`, `UpdateAction`, `UnblockAction`, `AttachEvidence` | `POST /actions`, `PATCH /actions/:id`, `POST /actions/:id/unblock`, `POST /evidence`, each with the cascade that recomputes the finding |
| `GenerateAction` | the signal matcher and the applicability dispatcher, which link an action to a finding that exists and recompute nothing |
| `PutRiskSettings` | `PUT /orgs/me/risk-settings`, which recomputes nothing |
| `PatchFinding`, `BulkDecide` | `PATCH /findings/:id` (the legacy status, the decision or both) and one item of `POST /findings/bulk` |
| `Propose`, `Approve`, `Reject`, `Withdraw` | `routes/riskAcceptances.ts` |
| `Lapse` | midnight |
| `SweepExpiredAcceptances` | one organization's part of the expiry worker's tick; it is `ExpireRows` of the rows that are `Due` |

Writes inside a handler are operators from finding to finding (`ApplyLegacyStatus`,
`ApplyDecision`, `ReleaseClosure`, `RecomputeFindingOperationalStatus`), composed in the
order in which the handler runs them. A handler that answers 4xx is a guard that does
not hold; the CHECK constraint is the guard `AxesAgree` in `PatchFinding`, where the
only statement that can meet it is. `Init` starts from a new finding or from the state
the backfill left a finding that had been accepted before the workflow existed.
`Callers` holds the session users and `NoOne`, the caller with no user id (an API key,
the expiry worker).

What is abstracted: titles, owners, dates and comments; who is an administrator does
not change; one finding stands for each of a bulk request; a user who may not do
something at all (role and entitlement checks) is not a caller.

### FindingTransactions

The handlers again, one step per statement that matters to another transaction, on as
many connections as `Txns` has. The variables of `FindingGovernance` are the committed
database and `txn[t]` what connection `t` has done since BEGIN: the rows it holds, the
actions it has read, its own version of the finding. Its steps:

    Begin  ->  [WriteAction]  ->  LockFinding  ->  [WritePatch | RefusePatch]
           ->  ReadActions  ->  Derive  ->  Commit            (Abort anywhere)

`ActionFree`, `AcceptanceFree` and `FindingFree` are PostgreSQL's row locks. A statement
reads what is committed when it starts and what its own transaction wrote (`ActionsOf`,
`EvidenceOf`, `AcceptancesOf`), with `CURRENT_DATE` as of BEGIN (`AsOfBegin`). `Unlocked`
are the writers that take no lock another transaction reads for: the generated action,
the policy, a proposal. `Abort` is a dead process, a lost connection or a deadlock that
PostgreSQL broke. With one finding there is no cycle among findings; `POST
/findings/bulk` locks several in the order the client sent them and the sweep in the
order of the acceptances, so two requests can be broken by PostgreSQL there, which is
an `Abort` of each finding they had touched.

`Serializable` promises that a commit is a step of `FindingGovernance`, with one exception that
only shows with two records: a sweep that has selected its rows (`Due`) and waits for the
finding lets a proposal whose date has passed be approved meanwhile, and commits without it. What
it commits is `ExpireRows` of rows that were all due, no longer of all of them; the one left out
is taken by the next tick.

### WebhookDelivery

One endpoint and its deliveries. Every statement of the dispatcher and of the retry
worker commits by itself, so every statement is a step and `Crash` can come between any
two.

| variable | the code's state |
|---|---|
| `endpoint` | `webhook_endpoints.status` and `consecutive_failures` |
| `delivery[d]` | `webhook_deliveries`: `status`, `attempt_count`, `next_retry_at` against the clock (`null`, `later`, `due`), `created_at` against the redelivery window (`stale`) |
| `run[x]` | where the dispatcher's attempt for `x`, or sweep `x`, stands; `guarded` while it is in the `try` block of the attempt |
| `batch[w]` | the claimed rows a sweep has not come to yet |
| `posts[d]` | how often the consumer was sent the event (no column: the ghost the bound is about) |

`Attempt` is `attemptWebhookDelivery` and `scheduleRetry`, `Sweep` is
`runWebhookRetrySweep`. `CaughtFailure` is a statement that throws inside the `try`
block: the `catch` takes it for a failed request and runs `scheduleRetry`, even after a
2xx, and even after `scheduleRetry` itself has counted. `RowFails` is one that throws
outside of it, in a sweep, whose loop goes on with the next row. Whether a batch ends within
its lease of ten minutes depends on the consumers (fifty rows at up to ten seconds each),
and nothing enforces it: `overruns` counts the leases that run out under a sweep that still
holds the row, up to `MaxOverruns`, and the safety properties speak of the time before the
first. `faults` is bounded by `MaxFaults`, and the bound is only in `Crash`,
`CaughtFailure` and `RowFails`.

### ControlMatcher

The jobs of one signal in one organization, under one control inventory and prompt, so
that every job asks for the same verdict key.

| variable | the code's state |
|---|---|
| `job[j]` | `jobs`: `status`, `attempts`, `scheduled_for` still to come (`waiting`), `locked_at` older than fifteen minutes (`expired`) |
| `verdict` | `llm_control_matcher_verdicts`: `state`, `attempts`, `next_attempt_at` (`waiting`), `reserved_at` (`expired`) |
| `inputs` | whether the signal and at least one control still exist |
| `worker[w]` | which of its transactions worker `w` has come to, with the counts it read |

`ClaimNextJob` is the first transaction, `LookupVerdict` and `ReserveVerdict` (the
upsert with its WHERE) the second, `RecordAnsweredVerdict` and `RecordFailedVerdict` the
third, with the provider's call before them, `Succeed` and `RecordFailure` the fourth.
`LookupVerdict` and `ReserveVerdict` are separate steps because two workers may look up
before either reserves. `Enqueue` may add two jobs at once, which is what two producers
do that both find none queued. `MatcherThrows` and `SuccessThrows` are the exceptions that
`processClaimedJob` records as failures. `LockExpires` and `ReservationExpires` happen to a
dead worker's rows freely and to a live worker's at most `MaxOverruns` times, counted in
`overruns`.

### ConnectorWriteback

The write-back intents of one connector: one per external record and field.

| variable | the code's state |
|---|---|
| `connector` | the row of `enterprise_connectors`: missing, disabled, enabled |
| `intent[i]` | the row of `connector_writeback_intents`: `status`, `desired_value`, `last_pushed_value`, `attempts`, `next_attempt_at` against the clock (`due`) |
| `letters[i]` | the statuses of the intent's rows in `connector_dead_letters`, oldest first |
| `external[i]` | what the field holds in the external system |
| `worker[w]` | the tick of one instance: the rows it loaded, as they were; what it read; the pushes it still has to make and those that failed |
| `reading[o]` | the letter that a re-drive has read and not yet acted on |
| `outside` | ghost: the fields that somebody else has set since the last recorded push, with no tick holding the row |

`Enqueue` is `POST /connectors/:id/writeback` for one field, `ReadLetter` and `Redrive` the
two halves of the re-drive route, `Ignore` its sibling, `Configure` the PUT and DELETE of the
connector. A tick is `Load`, `ReadCurrent` or `ReadFails`, one `Push` for each record, and
`Persist`, which records every row's outcome by its id alone and captures the dead letters
of those given up. `Decision` is `decideWriteback`. A push that is answered by an error may
have been carried out (`Push`, `done` without `answered`). `Edit` is anybody else's write to
the external system. An intent whose field is outside the adapter's whitelist (`Writable`)
cannot be requested; one may be left from an earlier release, and is failed without a letter.

### StripeBilling and BillingLedger

The billing of one organization: the requests of the payment provider and the hourly dunning
sweep. Every statement is a transaction of its own.

| variable | the code's state |
|---|---|
| `org` | `entitlement_level`, `payment_failed_at`, `stripe_subscription_id`, `stripe_subscription_status`, `stripe_subscription_tier`, the trial, and the watermark `stripe_billing_event_at`, `stripe_billing_event_id` |
| `processed` | `webhook_events_processed` |
| `cycles[c]` | the row of `billing_dunning_cycles` whose `cycle_started_at` is `c`, with the stages claimed |
| `handler[h]`, `sweep[w]` | where a request and a sweep stand, and what they have read |
| `subscriptions`, `events`, `acked` | the provider: its subscriptions, all it has sent, what it has been answered 2xx for |
| `mails` | ghost: the notices sent for each cycle and stage |
| `applied`, `lost` | ghosts: how often an event wrote the organization; events whose handling stopped half-way and which the provider will not repeat |

| action | code |
|---|---|
| `Deliver`, `Fail` | the claim of an event, the classification, the release of the claim after an error |
| `Read` | the stale-revoke guard and `invoice.payment_succeeded`'s read of the row |
| `Sync` | `syncOrgEntitlement`: one UPDATE with `orderingPredicate` (`Newer`) |
| `Follow` | what follows the write: cycles recovered or lapsed, the trial recorded, superseded subscriptions cancelled |
| `StampFailure`, `OpenDunningCycle`, `ClaimNotice`, `SendNotice` | `handlePaymentFailed` |
| `ErrorSwallowed`, `Crash` | a database error that is caught and answered 200; a process that dies with the claim committed |
| `SweepSelect`, `SweepOrphan`, `SweepClaim`, `SweepSend`, `SweepWithdraw`, `MarkCycleLapsed`, `SweepItemFails`, `SweepDies` | `runDunningSweep` |
| `Subscribe`, `PaymentFails`, `PaymentSucceeds`, `RetriesEnd`, `Cancel`, `Tick` | the provider and the clock (external: only what it sends is modelled) |

`BillingLedger` is what the organization may rely on: the level and the start of a
delinquency are written by an event that was sent and is not older than any written before,
or access is withdrawn after a failed payment whose grace or subscription is over. It knows
nothing of claims, handlers, cycles and sweeps. The refinement mapping takes `level`,
`failedAt` and `newest` to three columns of the row.

### RiskApprovals

One risk, its approvals and its treatments.

| variable | the code's state |
|---|---|
| `risk` | `risks.lifecycle_state`, whether there is an owner and a rating, the score against the threshold |
| `approval[a]` | the row of `risk_approvals` |
| `treatment[t]` | `risk_treatments.status` |
| `evidence`, `gated` | live evidence is attached; `risk_settings.require_evidence_gate` |
| `last` | the newest row of `risk_lifecycle_events` |
| `txn[r]` | the transaction of connection `r`: the rows it holds and what it has read |

`Edges` is the transition table of `riskLifecycleStateMachine.ts` with its gates, `GatesMet`
and `DecisionGatesMet` what the two routes find satisfied. A transition is
`LockForTransition` and `ExecuteRiskTransition`; a request `LockForRequest` and
`RequestRiskApproval`, which waits for the treatment it refers to; a decision locks the
approval (`LockForDecision`), waits for the risk (`EvaluateDecision`) and writes both
(`DecideRiskApproval`); an update of a treatment locks it and then the risk. `Rollback` is a
refusal after a row was taken, a broken connection, or a deadlock that PostgreSQL broke. The
partial unique index on pending approvals and the CHECK against deciding one's own request
are conjuncts of `TypeOK`, because the code never relies on the error they would raise.

### DataRights

One member of an organization, the exports of the member's data and the erasure of the account.

| variable | the code's state |
|---|---|
| `account` | `users.status`, `deletion_scheduled_at` against the clock (`grace`), and whether the tombstone has been written (`scrubbed`: the e-mail address is gone) |
| `held` | an active legal hold on the organization or the member |
| `cancelling` | a request to cancel that has passed `requireApiKey` |
| `job[j]` | `jobs`: `status`, `attempts`, `scheduled_for` still to come (`waiting`), `locked_at` older than fifteen minutes (`expired`) |
| `file` | the rows of `data_export_files`, each named by the job and the attempt that wrote it: all, those whose link has expired, those with `purged_at`, and (ghost) those written after the erasure |
| `stored` | the exports whose object is in storage; the key is the id of the job |
| `worker[w]`, `sweep[s]` | where a worker and a purge sweep stand, with the rows they still have to delete |

`UploadBundle` and `RecordSuccess` are the two ends of an export; `GateAccount`,
`EraseAccount`, `ReadBundles`, `DeleteBundle`, `CommitPurge` and `RecordReapSuccess` are
`processReapJob`, of which the first transaction holds the member's row from the gate to its
commit (`RowLocked`) and the second shows its marks at its commit only. `StartSweep`,
`SweepDelete`, `SweepMark` are `runExportFilePurgeSweep`. `RequestExport` and
`EnqueueDueDeletions` may write two jobs at once, which is what two that both find none open
do. `Throw` is any statement, upload or deletion that fails. `RemoveMember` and
`AcceptInvite` are the two routes of `routes/teamInvites.ts` that write the status as well;
that invitations are matched by e-mail address keeps an erased member from coming back.

## 5. Runs

Run one with `tlc -workers 2 -config <run>.cfg <module>`. State counts are those of
TLC 2.19; each run ends within three minutes. `claim_upgrade` checks what a comment of
the repository says and ends in a counterexample, described in section 8.

| run | module | bounds | states | what it shows |
|---|---|---|---|---|
| `governance_acceptance` | `MCFindingGovernance` | 1 action, 2 records, 2 users who both administer, legacy write closed, no evidence gate, separation of duties | 248,840 | the three paths leave the axes agreeing, `accepted_risk` has a record, an exception never closes, the end of an acceptance reopens, a governance reopen stays open; a lapsed record is ended (liveness) |
| `governance_legacy` | `MCFindingGovernance` | 2 actions and a generated one, 2 users who both administer, all four legacy writes, evidence gate and separation of duties turned on and off together, no workflow | 160,048 | the stream keeps up, the status is derived, closure needs completion; whoever makes a finding remediated routes it to somebody who may close it, save the legacy reopen |
| `transactions_serializable` | `MCFindingTransactions` | 2 connections, 11 requests, 1 action, 2 records; symmetry of connections and of records | 733,094 | every commit is a step of `FindingGovernance`, or a sweep of rows that were due |
| `transactions_progress` | `MCFindingTransactions` | 2 connections, 4 requests, 1 generated action, midnight passing, evidence policy changing | 159,402 | the committed status is the derived one though three writers take no lock; no transaction waits for ever (liveness) |
| `webhook_delivery` | `MCWebhookDelivery` | 1 delivery, 2 overlapping sweeps, 3 attempts, 2 faults, 1 overrun | 198,736 | one attempt at a time, requests bounded, final statuses final; every delivery ends, with the one exception of section 8 (liveness) |
| `matcher_jobs` | `MCControlMatcher` | 2 jobs, 2 workers, 2 attempts each for job and verdict, 1 fault, 1 overrun | 579,396 | one call at a time, boundedly many, answers kept, every job settled (liveness) |
| `connector_writeback` | `MCConnectorWriteback` | 2 intents, one of them not writable, 2 workers, 3 attempts; 1 request, edit, re-drive and crash | 294,474 | another's value is not overwritten, a failed push has its letter; an intent settles (liveness) |
| `billing_ordering` | `MCStripeBilling` | 2 subscriptions, the first from before the watermark, 2 requests at a time, 5 events at 3 instants, 1 fault, no grace; symmetry of requests | 2,797,847 | an event writes once, the settled state is the provider's, every write is a step of `BillingLedger` |
| `billing_dunning` | `MCStripeBilling` | 1 subscription, 1 request, 1 sweep, 4 events, grace of 3 units with the second notice at 1, 1 fault | 190,374 | a notice is sent once; a cycle is closed (liveness) |
| `risk_approvals` | `MCRiskApprovals` | 3 users of whom 2 administer, 2 connections, 2 approvals, 1 treatment, a threshold; symmetry | 586,608 | the event stream has no gap, a waiting risk can be decided, mitigation begins with a second person's decision, a decision is final |
| `data_rights` | `MCDataRights` | 1 export, 1 reap, 2 workers, 1 sweep, 2 attempts, 2 faults, no overrun | 128,624 | a link that works leads to its bundle, no bundle is forgotten, an erasure whose reaps have ended leaves none behind; every bundle is purged and every request is honoured, withdrawn or held (liveness) |
| `claim_upgrade` | `MCStripeBilling` | 2 subscriptions, 1 request, no fault | | section 8 |

Why these bounds are enough to be interesting:

* A finding's status depends on its actions only through the set of their statuses.
  Two actions and a generated one reach every case of `WorkflowStatus` (none, all
  terminal, some active, a mixture); one is enough where the question is about
  acceptances. Two records are one of each kind, or two of one kind in succession; two
  users are a requester and an approver; three are a remediator and two administrators.
* Two connections suffice for a lost update, a stale read or a wait in a circle between
  two rows. `transactions_serializable` holds the three lock-free inputs still because
  with them the claim is false by design (a commit may carry a status derived before a
  generated action, a policy or a midnight that no lock orders it against); what
  survives of it is `CommittedStatusIsDerived`, which `transactions_progress` checks with
  all three moving (a generated action, midnight, the evidence
  policy).
* Deliveries meet only in a sweep's batch and in the endpoint's failure count, so one
  delivery with two sweeps has every race for a row; `FailureLimit` is 1 so that one lost
  delivery disables the endpoint. Three attempts are the code's. Two faults may fall
  anywhere, a crash after a crash included, and one lease may run out. That the safety
  properties hold for several deliveries in one batch is proved (section 7).
* Two jobs and two workers give duplicate jobs, a job reclaimed from a worker that is
  still running, and a race for the reservation. Two attempts instead of five and three
  keep the retry, the last retry and exhaustion apart. One overrun lets a worker write
  after it lost its lock.
* One intent is one that may be written, the other one that may not, which a tick fails in
  the same transaction; two workers are two instances, since a worker's own ticks do not
  overlap. One request, edit, re-drive and
  crash each may come at any place of two overlapping ticks. One value besides NULL is
  enough to tell the desired value, the pushed one and another's apart; the theorems
  (section 7) are for any.
* Two subscriptions are an upgrade; five events are the creation and checkout of one, a
  failure and its consequences, or a cancellation; three instants give events of one second
  and of different ones. Two requests give the same event twice at a time and two events
  that cross. Without the grace period the sweep does nothing, so the two questions are two
  runs; the second has the three notices of a delinquency and its end in five units of time.
* Two approvals are one decided and one fresh; two connections a decision that waits for
  whatever else moves the risk; two administrators and a member the requester and the two
  who could decide.
* Two workers run an export and a reap at a time, or one takes over what the other left. Two
  faults on two attempts make a dead letter, after which another reap job is needed; the id of a
  reap that has ended serves the next one. An account may be requested, cancelled, removed,
  re-invited and held any number of times.

The modules' `TypeOK`s are theorems (section 7). Two of them stand in runs as well: that of
`RiskApprovals`, which says more than types, and `TxTypeOK`.

`CHECK_DEADLOCK FALSE` stands in `matcher_jobs`, `connector_writeback`, the billing and the
data-rights configurations: when every job, intent or event is settled and the bounds are used up, those
systems rightly stop.

For every property of every passing run a variant of one definition makes TLC report a
violation of it (`PROJECT.json`, `mutants`).

## 6. Fairness

* `FindingGovernance`: weak fairness of the sweep only. The expiry worker starts with the
  engine and runs on an interval; nobody is obliged to send a request.
* `FindingTransactions`: weak fairness of a transaction's own statements, because a handler
  goes on unless its process dies (`Abort`, always possible, never obliged); strong
  fairness of the two steps that wait for a row, because PostgreSQL queues the waiters of
  a row and wakes them in order.
* `WebhookDelivery`: weak fairness of every statement of an attempt and of a sweep (a live
  process goes on; the worker ticks every minute) and of the clock. None for the customer,
  the consumer's answer, crashes or failures.
* `ControlMatcher`: weak fairness of a worker's next step (the queue is drained by the
  scheduler's loop) and of the clock, including the two expiries: fifteen minutes
  pass. None for producers, deletions, crashes or failures.
* `ConnectorWriteback`: weak fairness of a worker's next step (it ticks every minute, and
  every call of an adapter has a timeout) and of the end of a backoff. None for operators,
  edits, re-drives or crashes.
* `StripeBilling`: weak fairness of a request's next statement, of the sweep's (hourly), of
  the clock, and of the delivery of an event that has not been answered, because the
  provider repeats it. None for what the provider's customers do, nor for faults.
* `RiskApprovals` states none: nothing in it must happen.
* `DataRights`: weak fairness of a worker's next step (it polls every fifteen seconds and
  drains the queue), of the sweep's and the enqueuer's (hourly), and of the clock, which ends
  periods of grace, backoffs, links and locks. None for the member, the administrators,
  crashes or failures.

## 7. Proofs

Every theorem is for all values of the constants, under the assumptions its module names;
tlapm checks each proof with no step left out.

### Findings

`FindingGovernanceProofs` proves for any actions, records, users, administrators,
policies, legacy writes and flags, under the assumptions `FindingGovernance` names
(`UsersAssumption`, `WritesAssumption`, `PolicyAssumption`, `FlagAssumption`,
`ActionsAssumption`: they say what kind of thing each constant is, that `NoOne` is no
user, and that evidence is attached by callers).

| theorem | statement |
|---|---|
| `InductiveInvariant` | `Spec => []IInv` |
| `TypeCorrect` | `Spec => []TypeOK` |
| `AxesNeverDiverge` | `Spec => []ClosureAxesAgree` |
| `StatusIsDerived` | `Spec => []OperationalStatusIsDerived` |
| `StreamKeepsUp` | `Spec => []LifecycleStreamKeepsUp` |
| `AcceptedRiskIsBacked` | `Spec => []AcceptedRiskHasRecord` |
| `ReopenNeverSpringsShut` | `Spec => ReopenOpens` |
| `ExceptionsNeverClose` | `Spec => ExceptionNeverCloses` |
| `EndedAcceptancesReopen` | `Spec => EndedAcceptanceReopens` |
| `ClosuresAreCompleted` | `Spec => ClosureNeedsCompletion` |
| `RemediationsAreRouted` | `Spec => RemediationIsRouted` |

The argument. A `GoodRow` is a finding that is well typed, whose axes agree and whose
stream keeps up with it. Each write of a handler (`SetDecision`, `ClearClosure`,
`ApplyLegacyStatus` past its CHECK, `ApplyDecision`, `ReleaseClosure`) maps a GoodRow to a
GoodRow: those are the lemmas. The recompute, which is the last write of every handler
that moves a finding, maps a GoodRow to a GoodRow whose status is the derived one
(`RecomputeGood`, `RecomputeStep`). Closure by the derivation is exactly `ClosureHolds`
(`DeriveClosed`), which the projection on the legacy column turns into a terminal legacy
status.

`IInv` has one conjunct that no property states. `OneLivePerKind` (the partial
unique index, preserved by every transition because no transition revives a row) makes a
binding acceptance the only one, so that its end leaves nothing else binding:
without it `EndedAcceptanceReopens` does not follow. `AcceptedRiskHasRecord` is stated with the
workflow's flag, a constant: the model does not turn the flag on in mid-run. `OperationalStatusIsDerived` is needed for
the steps that change an input and no finding (`Lapse`, `Propose`, `GenerateAction`,
`PutRiskSettings`). `Lapse` preserves it because a finding that an acceptance closed also has
a terminal legacy status by `AxesAgree`, which keeps it closed.

The action properties follow from `IInv` by one case per action that can make their
premise true. For `ClosuresAreCompleted` that is every action that can close a finding: a
recompute closes only what a decision, a legacy status or a binding acceptance closes, so a
handler that leaves decision and legacy status alone closes nothing that was open (or closes it
under an acceptance, which the property grants), and `PATCH` passes one of the two gates with
the blockers it has read, which the property names.

`ReviewerMayClose`, that a remediated finding has a reviewer whom the close gate admits, is no
invariant of the code (section 8): the code assigns nobody when a legacy write reopens a finding
over finished actions, nor when the separation of duties is turned on over a finding that is
remediated already. `RemediationIsRouted` says that nothing else leads to such a state: a step
that ends in one found the finding remediated and left reviewer and remediator alone, or is that
legacy write. `RemediationsAreRouted` proves it for every set of legacy writes and every change of
policy. What a handler writes before its recompute makes no finding remediated and keeps the
reviewer and the remediator of one that is (`Keeps`, one lemma for each write); a recompute that
makes it remediated assigns (`RecomputeRoutes`), where the case to watch is that of the reviewer
who is the remediator now. Turning the policy on moves no finding. That a reviewer is an
administrator or nobody is part of `TypeOK`, for `review_owner_user_id` has no other writer.

### Transactions

`FindingTransactionsProofs` proves for any connections and requests, and the constants of
`FindingGovernance`:

| theorem | statement |
|---|---|
| `TransactionsInvariant` | `TxSpec => []TxIInv` |
| `TransactionsTypeCorrect` | `TxSpec => []TxTypeOK` |
| `LocksExclude` | `TxSpec => []Locks`: the finding's row has one holder, and so has each action's and each record's |
| `CommitsAreDerived` | `TxSpec => []CommittedStatusIsDerived` |
| `CommitsAreGood` | the other invariants of `FindingGovernance` hold of the committed rows: `ClosureAxesAgree`, `LifecycleStreamKeepsUp`, `AcceptedRiskHasRecord`, `OneLivePerKind` |
| `TransactionsAreHandlers` | `HeldStill` and `RequestsOfNext` imply `TxSpec => Serializable` |

`TxIInv == TxTypes /\ Locks /\ IInv /\ \A t \in Txns : TxnGood(t)`, with the `IInv` of
`FindingGovernanceProofs` about the committed rows. `TxnGood` is what a transaction may rely on
at each stage: what BEGIN checked of its action (`ActionChecked`) and its records
(`RowsChecked`) is still so, because it holds their rows; its version of the finding is a
`GoodRow`, no accepted risk in it is without a record (`RowRecorded`); what it has read of the
actions (`ActsFresh`) and the status it has derived from that (`RowDerived`) are what they would
be now, but for what `OperationalStatusIsDerived` itself grants.

The argument is rely and guarantee. `Evolves(t)` is all that a step of somebody else may do to
the rows of `t` while it holds them: link a generated action, change the policy, let a record
lapse, add a proposal. `TxnEvolves` shows that `TxnGood(t)` survives it; `DeriveKeeps` and
`CommitKeeps` that `t`'s own commit is a guaranteed step for everybody else and re-establishes
`IInv`. It is there that the lock is needed: without `FindingLock` the committed finding may
have moved since `LockFinding`, and the row derived from the old one would be written over it.

For the refinement the three lock-free inputs are held still (`HeldStill`: no generated action,
no midnight, one policy), as in the run, because with them a commit may carry a status derived
before they moved. `RequestsOfNext` says that the requests are among those `Next` admits.
`StillInv` adds `AsIfAtomic(t)`: from the lock on, what `t` has computed is what its handler
would compute of the committed rows at this moment, so that `Commit` is that handler.

An attempt to prove `Serializable` as it stood before, that every commit is a step of `Next`, failed
at the sweep: the rows it commits are those that were due at BEGIN. TLC has the counterexample
as soon as there are two records (section 4), which is why the run has two and the promise says
`ExpireRows` of a subset of `Due`.

### Webhooks

`WebhookDeliveryProofs` proves for any deliveries, sweeps, attempts, batch size, failure
limit, faults and overruns:

| theorem | statement |
|---|---|
| `DeliveryInvariant` | `Spec => []IInv` |
| `DeliveryTypeCorrect` | `Spec => []TypeOK` |
| `DeliveryOneAttempt` | `Spec => []OneAttemptAtATime` |
| `DeliveryPostsBounded` | `Spec => []PostsAreBounded` |
| `DeliveryFinalStays` | `Spec => FinalStatusStays` |

`IInv == TypeOK /\ Shape /\ Leases`. `Shape` says where an actor may stand and with what in
hand. `Leases` says, as long as no lease has run out, of every row: it has one holder
(`OneHolder`), a sweep's rows have a `next_retry_at` in the future, a first attempt's has
none, and so one that is due is nobody's (`Leased`); the count that RETURNING gave a holder
is the row's, and what its stage says of the status is so (`Known`); every request sent is
counted in `attempt_count`, but for the one whose answer is being recorded and one for each
fault (`Paid`). Without `Leased` the claim could take a row in hand; without `Known` an
attempt could reschedule a row that has used its attempts up. The proof looks at the row of
the actor that moves (`RowGoesOn`, `RowReleased`) and shows that the others are not touched
(`RowApart`).

### Control matcher

`ControlMatcherProofs` proves for any jobs, workers, attempts of a job and of a verdict,
faults and overruns:

| theorem | statement |
|---|---|
| `MatcherInvariant` | `Spec => []IInv` |
| `MatcherTypeCorrect` | `Spec => []TypeOK` |
| `OneCall` | `Spec => []OneCallAtATime` |
| `CallsBounded` | `Spec => []CallsAreBounded` |
| `AnswerKept` | `Spec => AnswerIsKept` |

`IInv == TypeOK /\ Busy /\ Slots /\ Budget` keeps two accounts. `Slots`: every call in
flight owns the live reservation or was paid for by an overrun; a reservation is made only
when none is live, so its call finds the place free. `Budget`: once `attempts` has reached
the budget, whatever can still lead to a further call has been paid for in advance by a fault
or an overrun: a call whose failure will be recorded as retryable (`Late`), and the verdict
when it can be reserved again or will be once its reservation expires (`Open`).
`CallsAreBounded` alone is not inductive: a failure recorded late by a call of the first
attempts re-opens a verdict that is over budget. Each step moves one unit between the
accounts (`ReserveKeeps`, `RecordKeeps`, `FaultKeeps`, `ExpiryKeeps`) or none (`Quiet`).

### Connector write-back

`ConnectorWritebackProofs` proves for any intents, records, values, workers and operators:

| theorem | statement |
|---|---|
| `WritebackInvariant` | `Spec => []IInv` |
| `WritebackTypeCorrect` | `Spec => []TypeOK` |
| `OthersValuesStayTheorem` | `Spec => OthersValuesStay` |
| `FailureHasItsLetterTheorem` | `Spec => []FailureHasItsLetter` |

`IInv == TypeOK /\ PlansWhatItRead /\ Drift`. A value that somebody else set while no tick had
the row differs from `last_pushed_value`, and every tick that loads the row afterwards knows
that it does (`Drift`), finds the two unequal and plans no push; and what a tick pushes it has
loaded (`PlansWhatItRead`). `FailureHasItsLetter` is inductive with the types.

### Billing

`StripeBillingProofs` proves for any subscriptions, requests, sweeps, grace period and tiers:

| theorem | statement |
|---|---|
| `BillingInvariant` | `Spec => []IInv` |
| `BillingTypeCorrect` | `Spec => []TypeOK` |
| `AppliedOnceTheorem` | `Spec => []AppliedOnce` |
| `NoticesOnceTheorem` | `Spec => []NoticesOnce` |
| `RefinementTheorem` | `Spec => FollowsLedger`: `StripeBilling` implements `BillingLedger` |
| `SettledInvariant` | `Spec => []SettledInv` |
| `SettledIsTrueTheorem` | `Spec => []SettledIsTrue` |

`IInv` has: `Sane`, what a request or a sweep holds comes from events that were sent, which is
what `BillingLedger` asks of a withdrawal; `Watermark`, an event that has written the
organization is older than the watermark, or is the one it names, or shares its second with
another, so that it writes again only in a tie; `AppliedOnce`; `Opened`, only opened cycles
have claimed stages; `Notices`, a notice on its way is claimed, not sent yet, and on its way
once. The refinement has one step per action: every action but the writes of the row is a
stutter or `BillingLedger!Send`.

`SettledIsTrue` speaks of a quiet moment, when everything sent has been answered; `SettledInv` says
what holds on the way there. `Claimed`: an event in hand is claimed, and by one request; what
has been answered is still claimed, unless something was lost. Of the one subscription of a
customer (`Truth`): `Told`, the newest events, those of the last second in which any was sent,
tell its state; `RowFollows`, the row is no newer than they are, and gives the right access as
soon as one of them has written it; `Handled`, a claimed event, if it is one of the newest, has
been written or outdone by another of its second, or is in the hands of a request that
has its write before it. At a quiet moment nothing is in hand, so one of the newest has been
written. A tie is where it could go wrong: two events of one second write in either order,
and the proof (`WriteTells`) is that they say the same of the subscription, so that neither takes
back what the other wrote; for `past_due` one of them is the failed invoice, whose stamp no
revocation of the same second clears. TLC checked `SettledInv` on the instance of
`billing_ordering` before it was proved.

### Risks

`RiskApprovalsProofs` proves for any users, administrators, approvals, treatments and
connections, with and without a threshold:

| theorem | statement |
|---|---|
| `ApprovalsInvariant` | `Spec => []IInv` |
| `ApprovalsTypeCorrect` | `Spec => []TypeOK` |
| `PendingIsDecidableTheorem` | `Spec => []PendingIsDecidable` |
| `EventsChainTheorem` | `Spec => EventsChain` |
| `MitigationNeedsApprovalTheorem` | `Spec => MitigationNeedsApproval` |
| `DecisionIsFinalTheorem` | `Spec => DecisionIsFinal` |

`IInv` has: `Locks`, the row of the risk and that of an approval have one holder each;
`InHands`, what a holder has read of them is still so; `Told`, the newest event names the
state the risk is in; `PendingIsDecidable`.

### Exports and erasures

`DataRightsProofs` proves for any exports, reaps, workers, sweeps, attempts, faults and overruns:

| theorem | statement |
|---|---|
| `RightsInvariant` | `Spec => []IInv` |
| `RightsTypeCorrect` | `Spec => []TypeOK` |
| `LiveLinksLeadToBundles` | `Spec => []LinksLeadToBundles` |
| `EveryBundleHasARow` | `Spec => []NoBundleIsForgotten` |
| `ErasuresAreWhole` | `Spec => []ErasureIsWhole` |

`IInv == TypeOK /\ Shape /\ (overruns = 0 => Sound)`. `Sound` has: `Hands`, a job in hand is
locked, unsettled and has one worker; `OneRow`, an export that has succeeded has one row and no
other export has any, so that no later upload can revive what a sweep has deleted; `Marks`, what
is about to be marked as purged has left the storage; `Uploads`, a bundle that waits for its row
is stored; `Links` and `Bundles`, the two properties; and `Whole`. `ErasureIsWhole` speaks of
reaps that have ended and says nothing while one runs. `Whole` says why the end is good: from
the erasure on, some reap still has the purge before it, or is at it with every bundle in hand
that is not a late one (`WillPurge`), or nothing but late ones is left. A worker that dies or
throws puts its reap back among those that have it before them; one that dead-letters stays one
that `ErasureIsWhole` counts as unfinished.

### Only model-checked

The liveness properties (`LapsedAcceptanceEnds`, `EveryTransactionEnds`,
`EveryDeliverySettles`, `EveryJobSettles`, `IntentSettles`, `CyclesClose`, `BundlesExpire`,
`ErasureHappens`), because the prover does not do fairness and ENABLED. Every invariant and every other action
property of a passing run is a theorem.

## 8. Where code and comments disagree

`claim_upgrade` is a run that TLC ends with a counterexample. `webhooks/stripeWebhook.ts:1608`
says that the cancellation of the old subscription in an upgrade must not take access away. The
guard compares with `stripe_subscription_id`, which the creation of the new subscription writes
and the checkout, whose handler cancels the old one, does not. TLC: checkout, cancellation of the
old subscription, and only then the creation of the new one. The cancellation revokes and moves
the watermark past the creation, which is suppressed as stale: a paying customer is at `starter`.

Seen while modelling; the property that meets each one states it as an exception, or the
hazard list in `PROJECT.json` records it.

Findings and acceptances:

* Rejecting a proposal is said to change nothing operationally; but
  `reopenFindingAfterAcceptanceEnded` clears a terminal legacy status whoever wrote it, so a
  finding closed under a legacy acceptance opens when an exception on it is rejected.
* The governance gate is said to close an incomplete finding only under a formally accepted
  risk; but an acceptance approved after its `expires_at` does not bind and leaves the decision
  `accepted_risk`, from which the finding may be resolved over an open action.
* The audit record of `PATCH /actions/:id` is said to hold the prior status atomically; the
  second of two updates takes its snapshot, waits for the row, and records the status before
  both.
* The end of an acceptance opens the finding with an UPDATE that writes no lifecycle
  event, so the stream may still read `closed` (`LifecycleStreamKeepsUp` says exactly when),
  against the comment at `lib/findingLifecycleMachine.ts:19`.
* A lapsed acceptance goes on closing its finding until the sweep, because its approval
  made the legacy status terminal, against the comment at
  `lib/riskAcceptanceContract.ts:48`.
* Rejecting or withdrawing an exception resets the decision to `needs_review` while an
  approved acceptance still binds.
* A legacy reopen over finished actions logs `remediated` itself and assigns no reviewer, so
  the reviewer may turn out to be the remediator, or there is none, against
  `lib/independentReviewAssignment.ts:10` and `lib/findingLifecycle.ts:11`, which call the recompute
  the single writer of the operational status. `RemediationIsRouted` excepts this step by name, and
  a finding it routed badly while it stays remediated. Turning the separation of duties on over a
  remediated finding assigns nobody either.

Webhooks and the control matcher:

* A delivery whose process dies before its first attempt is recorded stays `pending`: no
  sweep reads such rows. `EveryDeliverySettles` excepts it.
* An endpoint disabled between the read and the request is still posted to, and a row that
  falls due between the two UPDATEs of a sweep is sent though it is stale.
* A call that outlives its reservation overwrites what another worker has written, and the
  arm that reclaims an abandoned reservation does not look at the attempts: the
  control-matcher properties are stated with `overruns` and `faults` for that reason.
* Exhaustion is said to dead-letter at both levels; the third failing call dead-letters the
  verdict, its outcome is not retryable, and the job succeeds with nothing written.
* The enqueue swallows its error inside the producer's transaction, which PostgreSQL has
  then aborted.

Write-back:

* A desired value requested while the old one is being pushed is marked applied and never
  pushed: the outcome names the intent only.
* After a crash between push and record, the worker's own write looks like somebody else's
  when a new value is requested, and the intent is held as a conflict.

Billing:

* A database error in `syncOrgEntitlement` is caught and answered 200 with the claim kept,
  against the comment at `webhooks/stripeWebhook.ts:899` ("so the event stays replayable"),
  and a crash keeps the claim too, against `webhooks/webhookIdempotency.ts:41`. The model counts the event as
  `lost`, and `SettledIsTrue` is stated for runs without one.
* A repetition of an event whose handler failed after its write is suppressed by the
  watermark, and what should have followed the write is not done (`CyclesClose` holds because
  the sweep closes what a handler left open).
* The sweep withdraws access on what its SELECT returned: a customer who has paid since is
  taken down until the next event is written. `BillingLedger` admits it (`Withdraw`).
* Two overlapping sweeps may send the day-seven notice after the final one; never twice.

Risk approvals:

* `docs/specs/risk-lifecycle-spec.md:376` says that a re-scored risk advances again and may get a
  fresh approval; but `rescore` from `pending_approval` leaves the old approval pending. Back in
  `treatment_selection` a new one is refused (`approval_already_open`), and the old one cannot
  be decided, as the risk is not in `pending_approval`.

Exports and erasures:

* `docs/DATA_CLASSIFICATION.md:60` says that a request can be cancelled until the reaper runs;
  but `middleware/requireApiKey.ts:154` refuses every session of a member who is
  `pending_deletion`, and so the cancel route itself. Only a cancellation that passed the check
  before the request was written gets through (`AdmitCancel`).
* `lib/accountDeletionReaperPolicy.ts:43` promises a period of grace between a request and the
  reap; but the gate looks at the status only, and the job names no request. A reap job that waits
  while the member is removed, invited again and asks again erases the account at once.
* `lib/accountDeletionReaperPolicy.ts:11` says that before the commit of the first transaction a
  reap is a no-op that a cancellation undoes; but a `skipped` reap goes on to the purge, and
  deletes the bundles of a member who is active again.
* `docs/DATA_CLASSIFICATION.md:72` calls `deleted` terminal; the removal of an erased member
  writes `inactive` over it (`routes/teamInvites.ts:444`).
* A hold stops the erasure and the purge that follows it, and the comment at
  `workers/accountDeletionReaper.ts:240` says that the member keeps the bundles too; but the
  purge of a skipped reap and the sweep of expired links do not look at holds.
* The removal of a member who has asked for erasure replaces `pending_deletion` by `inactive`:
  no reap job is written and the erasure does not happen (`ErasureHappens` says "withdrawn").
* An export in flight at the erasure writes its bundle afterwards. No reap follows; the sweep
  purges it when its link expires (`ErasureIsWhole` excepts it, `BundlesExpire` does not).
* An export that dead-letters after its upload leaves an object without a row.

## 9. What is not modelled, and why

* Of the modelled components:
  * findings: columns that decide no status; several findings at once, and with them the
    deadlock of a bulk request against the sweep;
  * webhooks: endpoint deletion (which deletes its deliveries), secret rotation, URL checks
    and signatures;
  * control matcher: an inventory or prompt that changes (another verdict key) and the
    suggestions' scores;
  * write-back: the dead letters of the connector sync, the adapters, the encryption of the
    configuration;
  * billing: the Redis mirror of the entitlement (written after the row, read only when the
    row cannot be), seat and entity caps, the Brief auto-subscription and credit, the trial
    e-mails, the resolution of the organization, the newsletter provider's webhook;
  * data rights: the export of a whole organization, the download routes, the e-mails, the
    content of a bundle, storage that is not configured, the sweep's batch of a hundred, the
    flags (taken to be on); the invitation route's read of the status and its UPDATE are one
    step;
  * risks: the legacy status column, the `expected_from_state` precondition, deletion,
    notifications, the mirror of the events in the audit log.
* Planned (section 3): brief scheduling, signal processing, one-time codes
  and seats; connector sync after them.
* Out of reach: posture, scoring and forecasting are floating-point computations over
  whole inventories; the assessment engine is a pure pipeline.
* No state of their own: the front end, rendering, prompts, feeds and parsers, blob I/O, the
  migrations runner.
* Row-level security and the request pipeline are policy over every query; the models
  take one organization and assume it.
