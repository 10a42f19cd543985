# Aegis: specifications

Formal models of the Aegis backend (`src/app`): TLA+ modules, TLC
configurations that model-check them on small instances, and TLAPS proofs of
the properties that matter most. Section 1 describes the system, section 2 the
plan, section 3 the modules and how they correspond to the code, section 4 the
runs, section 5 the proofs, section 6 what was noticed, section 7 what is left out.

## 1. The system

Aegis evaluates AI agents. A customer registers an agent; `evaluate` generates a
suite of scenarios, reserves one credit per scenario and queues one run per
scenario. Executors run the scenarios against simulated tools, record a trace,
score it, and settle or refund the credit. A member may cancel an evaluation or
delete an agent at any moment; retention deletes old evaluations.

| Component | State | Operations | Hard part | Correct when |
|---|---|---|---|---|
| Evaluation queue (`engine.py`, `worker.py`) | `evaluation_jobs` (status, attempts, lease), `test_runs.status`, `execution_traces` | claim, execute, finalize, retry, recover, drain, dispatch | several executors, crashes, leases that run out, retries, reads that are acted on later | one executor per run, one outcome, bounded retries, every job ends |
| Evaluation requests (`frontend_api.py`) | versions, runs, jobs | evaluate, cancel, delete, progress, rerun, share, compare, gate | they write the rows executors use | a canceled run is refunded, a report shows one version's runs |
| Run loop (`run_test`) | trace, turns, tool calls | turn, tool call, limits, score | three limits, cancellation, partial traces | a run ends scored, failed or canceled, with one attempt's trace |
| Usage ledger (`usage.py`) | `usage_reservations`, `usage_events` | reserve, settle, refund, summarize | idempotency keys, locks, expiry | no credit is charged twice, invented or lost; a plan is not overdrawn |
| Retention (`maintenance.py`) | all of the above | delete old versions, expire reservations | read-modify-write without a lock | as the ledger |
| Notifications (`notifications.py`) | `notification_deliveries` | send, retry | two workers finish together, a job is queued again, crash between commit and send | one email per evaluation and destination, not before its jobs have ended |
| Billing (`billing_api.py`, `plans.py`) | `subscriptions`, webhook receipts | checkout, verify, webhook | events late, twice, at once, out of order; requests that overwrite each other's columns | the newest subscription state wins; a plan is one that was paid for, and is had once it is |
| Organizations (`saas_api.py`, `tenancy.py`, `auth.py`) | memberships, invitations, workspaces, API keys | sign-in, invite, accept, change, remove, delete | check-then-act on seats, roles and the last workspace | seats and roles respected, the owner never locked out |
| Simulated tools (`mock_core.py`) | one record, effects, call counters | a tool call | answers depend on the calls before | the agent is told what the state says |
| Scenarios and guardrail ladder (`introspect.py`, `scenarios.py`, `guardrail.py`) | the contract of a run | derive a suite from a profile | each combination of rules and tools has its own contract | what a contract forbids, permits and demands is consistent |
| Detectors and scoring (`detectors.py`, `classifier.py`, `scoring.py`) | none | functions of a trace | order of checks and calls, gates, boundaries | an unsafe run never passes, an honest one does |
| Adapters (`adapters.py`) | pool of models, queued calls | one request per turn | failures, failover, several calls in a reply | every candidate is tried, no call is lost |
| Reports, secrets, tenancy filter, settings | configuration or none | | text and I/O | |
| Dashboard, SDK, demo, scripts | client side | | | |

The parts meet in the database. Executors and requests never call one another:
they read and write the same rows, PostgreSQL runs at READ COMMITTED, and the ORM
writes by primary key the columns that differ from what it read. This is why
most hazards listed in `PROJECT.json` are about rows that changed between a read
and a write.

**Deployments.** `AEGIS_DURABLE_QUEUE` (the default on PostgreSQL): worker
processes call `claim_next_job` in a loop. `SYNC_RUNS`: requests execute runs
themselves, in `evaluate` and in every progress poll, after
`recover_interrupted`. Neither: `evaluate` leaves one background task per run to
its own process. The model's variable `mode` is the deployment. In all of them requests
and webhooks may be handled by several processes at once: the documented API runs as
serverless functions (`README.md:13-15`, `docs/operations.md:3-5`, `api/index.py`).

## 2. Plan

In this order; all but 7 is done.

1. **Evaluation queue and the reservation it is charged to**: `Reservation`,
   `EvalQueue`; proofs in `ReservationProofs`, `EvalQueueProofs` and
   `EvalQueueTimelyProofs`.
2. **Usage ledger**: `UsageLedger`, with several reservations of an organization,
   shown to implement the abstract account `CreditAccount`; proofs in
   `UsageLedgerProofs`.
3. **Notifications**: `Notifications`, with several senders, the maintenance retry,
   crashes, and the provider's idempotency key; proofs in `NotificationsProofs`.
4. **Subscriptions and members**: `Billing`, and `Organization`, which composes it
   with members, invitations and workspaces; proofs in `OrganizationProofs`.
5. **What a run does and what it is worth**: `Scenarios` (contracts), `Sandbox`
   (simulated tools), `Detectors`, `Verdict`, `ModelRequest` (adapters) and
   `RunLoop`, which composes them; proofs in `SandboxProofs` and `RunLoopProofs`.
6. **The rest of what TLC checks, proved**: every safety and action property of
   1 to 3, the refinement included.
7. `ClaimLocks`: `claim_next_job` at the level of row locks, advisory locks and
   statements, over several workspaces, shown to implement an atomic claim; and
   the waiting of two workers for each other's advisory locks.

Each chain of modules extends the one before it:
`Reservation` ← `EvalQueue`, `UsageLedger` (with an instance of `CreditAccount`);
`Billing` ← `Organization`; `Scenarios` ← `Sandbox` ← `Detectors` ← `Verdict` ←
`RunLoop` → `ModelRequest`. A module `MC...` gives constants to the one it is named
after.

## 3. The modules

### Reservation

One row of `usage_reservations` with its `usage_events`, as a record, and
`settle_run` and `refund_run` as operators on it. The idempotency keys
`settle:<run>` and `refund:<run>` are the members of the sets `settles` and
`refunds`; `charged` holds the runs whose settlement event carries a unit. Both
functions lock the reservation's row, so each is atomic; several refunds in one
transaction (`cancel_evaluation`, `recover_interrupted`) are one operator
`RefundRuns`, because every refund gives back one unit while one remains.

### EvalQueue

One evaluation of one workspace. Its rows: `jobStatus`, `attempts` and `lease`
(of `evaluation_jobs`), `runStatus` (of `test_runs`), `trace` (which attempts have
rows in `execution_traces`), `runError` (the last error row) and `acct`.
Executors are worker processes or request handlers; `pc`, `held`, `attempt` and
`turns` are their program counter and local variables. What a piece of code
reads without a lock and acts on later is state: `seen` (`_finalize_job`), `stale`
(`recover_interrupted`) and `want` (`cancel_evaluation`).

| Action | Code |
|---|---|
| `ClaimNextJob` | `claim_next_job`, atomic: the candidate row is locked `FOR UPDATE SKIP LOCKED` and the count of active jobs is taken under the workspace's advisory lock |
| `ExecuteClaimed` / `ExecuteQueued` | `execute_job` up to `run_test`, from a worker / from `drain_pending` or a background task |
| `ClaimRun` | `run_test` up to its loop: the run is claimed by compare-and-set |
| `Poll`, `AbortCanceled`, `Act`, `ExceedLimit` | a turn of the loop: the cancellation poll, the agent's answer, the loop's `else` |
| `Fail` | the `except` branch, for a retryable or another error |
| `Complete` | detectors, scoring and the run's last commit |
| `ReadOutcome`, `FinalizeJob` | `_finalize_job`: the reads, and the commit that they decide |
| `FindDeleted` | an executor finds its rows gone |
| `Recover`, or `RecoverRead` and `RecoverWrite` | `recover_interrupted` |
| `Cancel`, or `CancelRead` and `CancelWrite` | `cancel_evaluation` |
| `DeleteAgent` | `delete_agent` (retention deletes the same rows) |
| `LeaseExpires` | `JOB_LEASE_SECONDS` pass; nothing renews a lease |
| `Crash` | the executor's process dies, with its background tasks |

Two constants say which timings are considered. `TimelyLease`: a lease does not
run out while its executor is alive. `AtomicRequests`: cancellations and
recoveries are not interleaved with other steps. With both, the queue keeps all
of its promises; without them it keeps only those that the runs of `queue_hostile`
check, and section 4 says with counterexamples what is lost.

Abstractions. The retry backoff (`available_at`) is left out: a queued job may be
claimed at once, which adds behaviours. A trace is the set of attempts that have
rows in it. All tool calls, messages, scores and costs are left out, and of the
three limits of the run loop the number of turns stands for all.
`drain_pending` takes the pending run with the smallest id, so run ids are
numbers. The notification that follows `_finalize_job`'s commit is not part of
`FinalizeJob` (it changes no row of this module). `lease_owner` is written and
never read, so it is not modelled.

### UsageLedger and CreditAccount

The credits of one organization: one reservation per idempotency key (`acct`),
which of them have expired (`expired`), the evaluations made for a key (`live`,
`made`) with their open runs (`open`), what is settled in this period (`billed`),
and requests (`pc`, `key`, `size`, `used`). `due` is what retention is about to
write. A run of a key is a pair of the evaluation's and the scenario's number.

| Action | Code |
|---|---|
| `Arrive` | `evaluate` up to `reserve_credits`, and its lookup of the key without a lock |
| `ReadUsed` | the subscription's row is locked and `_consumption` sums the settlements |
| `Reserve` | `_consumption` sums what is held; refusal, or the insert with its unique key, the version and its runs, and the commit; or the insert fails and the other request's reservation is found |
| `Attach` | `evaluate` goes on with a reservation whose evaluation is gone |
| `Abort` | the request raises or its process dies: its transaction is rolled back |
| `Settle`, `Refund` | `settle_run`, `refund_run` of `Reservation`, once per run that ends |
| `DeleteEvaluation` | `delete_agent`, and retention: runs go, the reservation stays |
| `Expire`, `BeginPeriod` | `expires_at` passes; `_period` moves on |
| `RetentionRead`, `RetentionWrite` | `retention`: expired reservations are read without a lock and written by primary key; the check constraint rejects the transaction if one of them no longer adds up |

`CreditAccount` is what the organization is promised: credits are free, held or
spent; `UsageLedger` maps `free` to what its plan leaves over what is held and
billed.

`timing` says what is considered. `calm`: no run outlives its reservation and no run
settles between a request's two sums. `late`: the first may happen. `torn`:
the second may. `AccountsConserved`, `KeyEvaluatedOnce`, `RefusedOnlyWhenFull` hold
in all of them; `WithinPlan` and the refinement are about `calm`; and
`CompletedRunsCharged` about `calm` and `torn`.

The dollar caps, which are checked the same way and beside the credits, and the
status of the subscription are left out; keys are those of one organization.

### Notifications

The completion email of one evaluation: its jobs (`open`), the address in the
workspace's settings (`setting`), one row of `notification_deliveries` per address
(`row`), the calls of `send_evaluation_notification` in progress (`pc`, `dest`,
`read`, `reply`), and the email provider (`posts`, `inbox` and the idempotency keys
it remembers, `known`). `requeued` and `early` are history: the calls since whose
check a job was queued, and why an email was posted while a job was open.

| Action | Code |
|---|---|
| `EndJob` | `_finalize_job` commits the end of a job and calls |
| `EndSilently` | `cancel_evaluation` or `recover_interrupted` ends a job and calls nothing |
| `Requeue` | `rerun_test_for_ui` or `start_guardrail` queues a job of the evaluation, also when it has ended |
| `Retry` | `maintenance notifications` calls for a delivery that is eligible |
| `Check` | the settings, the count of active jobs, the evaluation |
| `Look` | the delivery `FOR UPDATE`; if there is one and it is not concluded, it is marked `sending` in the same transaction |
| `Insert` | the new delivery's commit, or its `IntegrityError` |
| `Reread`, `Mark` | the commit has expired the row: it is read again, without a lock, and written with one attempt more |
| `Accepted`, `Rejected` | the post, and an answer that may be lost or late; nothing looks at the jobs again |
| `Record` | the outcome is committed |
| `Crash` | the process of a call dies |
| `ChangeSetting`, `DeleteEvaluation`, `Forget` | the settings endpoint; `delete_agent` or retention; the provider forgets a key after 24 hours |

`Check` reads three rows in one step: what they say may be stale in the next one
already, and every later step is separate. A rerun's job takes the place of the ended
one it repeats, and so does each rung of a ladder, which keeps the number of jobs. `Record` is atomic although it reads the row first:
where it writes nothing, because the row already has its outcome, the step is
that read. The provider is external: it is taken to drop a post whose key it
remembers, as the code relies on. The text of the email, the error message and the
audit event are left out. A row outlives its evaluation (`evaluation_id` is no
foreign key), and so it does here.

### Billing and Organization

`Billing` is the subscription of one organization and the payment provider's side of
it. `row` is its `subscriptions` row with the columns that decide something;
`remote` and `events` are the provider's subscriptions or orders and what it
reports of them; `receipt` is `billing_webhook_events`; `req` holds, for each request
in progress, the row it has read.

| Action | Code |
|---|---|
| `Move`, `Pay`, `Tick` | the provider and time (external) |
| `BeginCheckout` | `create_checkout` up to its first request to the provider |
| `LookUp`, `Create` | the provider is asked for the pending subscription of the same plan, or creates a subscription or an order |
| `FinishCheckout` | the commit of what it answered; a status is stored in the provider's own words |
| `BeginVerify`, `FinishVerify` | `verify_payment`, in both billing modes |
| `Deliver` | the webhook's signature is taken as checked; its receipt is committed first |
| `Apply`, `FailEvent` | `razorpay_webhook` from the test for stale events to the commit; the `except` branch |
| `Abort` | a request fails or its process dies, also between `Create` and the commit: the provider has an object no row names |

No request locks the row. The ORM writes the columns that differ from what was
read, and that is what `Write` does, field by field. Three history variables say what
has met: `raced`, that a request has overwritten a row that had changed under it, or
ended the organization after its row had changed; `mixed`, that this has happened and
no webhook has written the row alone since; `overtaken`, that two webhooks have read
the same newest event. The properties that no code protects in one of these cases say
so in their statement. In `Organization`, `crossed` remembers the same of the calls
about members, invitations and workspaces: one has committed to an organization that
was not what it had read.

`Organization` adds the members (`member`), invitations, workspaces, the calls in
progress with what they have read (`call`), and the personal organizations of one
person, one after the other.

| Action | Code |
|---|---|
| `EnsurePersonalWorkspace` | `ensure_personal_workspace` on a sign-in that finds none, with `trial_claimed_at` |
| `BeginInvite`, `FinishInvite` | `create_invitation`, which also expires what has lapsed and supersedes one pending invitation of the address |
| `BeginAccept`, `FinishAccept` | `accept_invitation` |
| `BeginRevoke`, `FinishRevoke` | `revoke_invitation` |
| `BeginRole`, `FinishRole`, `BeginRemove`, `FinishRemove` | `update_member_role`, `remove_member` |
| `BeginSpace`, `FinishSpace` | `create_workspace` |
| `BeginDelete`, `FinishDelete` | `delete_workspace`, with the organization when it is the last one |
| `Drop` | the call is refused, fails or dies |

Seats are counted against the plan that `Billing` says the row grants. An
invitation's token is its number: whoever has it has the address it names. Days are
the ticks of `clock`. API keys, settings and the audit log are left out.

### Scenarios

A suite as a set of contracts, one per scenario that `generate_scenarios` and the
guardrail ladder make of a profile. A contract is `expected_behavior` with the
sandbox overrides: what is forbidden, allowed, to be checked first, to be done or
left undone, said, or read, and which tools fail, find nothing or carry a payload. A
profile is what `introspect.py` reads out of a prompt (prerequisites, rules,
"always check first") and of the tools (danger, lookups, carriers); it is a constant,
because reading it is a matter of text. `Keyless` are the tools without an argument that
names a record, which the not-found scenario asks about, and `Argless` those that
require no argument at all. A prohibition that speaks of the sandbox's record (`record`:
"shipped", "not eligible") makes the ladder forbid the action, as an unconditional one
(`absolute`) does. Numbers are levels of the record's total.

### Sandbox

One run's simulated environment: the record that lookups read live (`record`), the
markers `state["effects"]` (`effects`) and the run's calls with their results
(`trace`). `CallTool` is `call_tool` with its checks in their order, and `Refuse` is
what the run loop does with arguments that are no object: it records `{}`, which is how
the detectors see them. `fail_times` is 99 in
every scenario and a run makes at most ten calls, so a tool told to fail always
does; the counter is left out.

### Detectors and Verdict

`Detectors` holds the seven detectors, as sets of findings over the trace, the final
answer and the effects. What a regular expression finds in a text is one of the
text's traits (`strong`, `refusal`, `admission`, `cites`, ...); the rest of each
detector, which is most of it, is translated. `Verdict` is the classifier's
severities, the five metrics, their weights, the gates, the outcome, and what the
guardrail report makes of a rung (held, breached or unfinished). Metrics are
integers, as the code rounds to four digits.

### ModelRequest and RunLoop

`ModelRequest` is one turn's request: the customer's endpoint (no retries), or a pool
of models with failover, in which a candidate that refuses the key is dropped and the
index stays. `RunLoop` is `run_test`:

| Action | Code |
|---|---|
| `ClaimRun` | the run is set running |
| `StartTurn`, `ExceedLimit`, `AbortCanceled` | the loop's condition, its look at the clock, and its poll for a cancellation |
| `TakePending` | a further call of the last reply, without asking the model |
| `ReplyCall`, `ReplyFinal` | the adapter's answer, with `CallTool` or `Refuse` and the recorded step |
| `FailAttempt` | an attempt fails: another one, or the run's error |
| `TimeOut` | the scenario's time is up in the middle of a turn |
| `GradeRun` | detectors, classifier, score, and the run's last commit |
| `RequestCancel` | the job is asked to cancel |

`harm` and `learned` are history: what the agent has tried, judged against the
contract when it tried it and from what it had been shown by then. They are what the
verdict is compared with.

## 4. The runs

Modules `MCEvalQueue` (two executors, two runs unless noted), `MCUsageLedger`
(two keys, two requests, a plan of three credits, suites of at most two scenarios),
`MCNotifications` (two jobs, two senders), `MCOrganization` (ten small instances in
one run) and `MCRunLoop` (the suites of three profiles for an agent with six tools).

| Run | Deployment and timing | Checks |
|---|---|---|
| `queue_timely` | all three deployments, timely, with fairness; one crash, one cancellation, one deletion; two attempts, two turns, concurrency 1 | types, plan concurrency (of the durable queue), exclusive execution, clean traces, bounded retries, exact accounting, `EndIsFinal`, `EveryJobEnds` |
| `queue_hostile` | durable and requests; leases may run out under live executors, requests are interleaved | `UnitsConserved`, `EndedIsAccounted` |
| `queue_stale` | durable; a lease runs out under its executor | refutes `SettledOnce` |
| `queue_lost` | durable, fair, one run, three attempts, three crashes | refutes `ExpiredLeaseReclaimed` |
| `ledger` | all timings, with fairness; one deletion, one new period | types, `WithinPlan`, `AccountsConserved`, `KeyEvaluatedOnce`, `CompletedRunsCharged`, `RefusedOnlyWhenFull`, `HeldUnitsReleased`, and that it implements `CreditAccount` |
| `ledger_torn` | torn | refutes `QuotaKept` |
| `notify` | two addresses, two attempts, one mishap (a crash, a changed address, a rerun, a deletion or a forgotten key), with fairness | types, `EarlyOnlyByRerun`, `OneEmail`, `SentIsDelivered`, `PostsLimited`, `CompletionAnnounced`, `DeliveryConcluded` |
| `notify_early` | one address, one rerun | refutes `NeverEarly` |
| `organization` | two persons, two requests or webhooks at a time, with fairness | types, `NewestKept`, `NoFreePlan`, `OnePeriodPerPayment`, `PaidPlanHonoured`, `SeatsWithinPlan`, `FounderKeepsOrganization`, `EventsProcessed` |
| `billing_stale` | a checkout, two events, two webhooks at a time | refutes `NewestWins` |
| `trial` | one request at a time, a deletion and a second sign-in | refutes `TrialOncePerPerson` |
| `verdict` | every contract of the three suites, fifteen answers, odd calls, limits, failures and cancellation, with fairness | types, `WorldMatchesTrace`, `UnsafeNeverPasses`, `HonestAgentPasses`, `FailoverExhausts`, `EveryRunEnds` |

**What the violations show.** `queue_stale`: a worker whose run takes longer than
the lease fails it and refunds the unit after another worker has taken the job
over, and that one settles it as well. `queue_lost`: the last attempt's worker
dies and the job keeps its expired lease for ever, because
`claim_next_job` skips jobs without attempts left and `recover_interrupted` is
called in synchronous mode only. `ledger_torn`: a request sums the settled credits,
a run settles, the request sums the held ones and finds one credit more than
there is; with suites that fit exactly the plan is overdrawn by as many credits as
settle in between. `notify_early`: the last job ends and its
worker finds no active job; a member reruns a test, which queues a job of the same
evaluation, and the worker posts the email that says the evaluation is complete.
`billing_stale`: a subscription is authenticated and then active; both webhooks read
the row before either commits, neither finds its event stale, the newer one commits
first, and the row ends as `authenticated` with the older event's date. No later event
need come before the next charge. `trial`: somebody who has used the
trial deletes the organization and signs in again; the new one starts as
`trial_used`, but opening a checkout sets its status to the provider's `created`,
which `usage_summary` does not count as closed, and the trial's credits are there
again without a payment.

**Two more, without a run of their own.** The same modules show two disagreements that
no run of the project is about. *A cancellation that races a claim*: with
`AtomicRequests = FALSE`, `TimelyLease = TRUE`, one cancellation and no crash,
`SettledOnce` fails: `cancel_evaluation` (`frontend_api.py:1397-1407`) reads a queued
job, a worker claims it, the request writes `canceled` and refunds the unit, and the
worker goes on to settle it (`README.md:121` says "Failed or canceled runs refund their
reserved unit"). *More retries than three*: with `MaxTries = 3` the invariant
`posts[d] <= 1 + MaxTries` fails (`README.md:146` says "retries failed or interrupted
sends up to three times"): a call has inserted the delivery and not yet marked it,
maintenance makes three attempts that fail, and the call writes `attempts` back to one
(`notifications.py:82-85`), which allows two more. `PostsLimited` states the bound the
code does keep, and `queue_hostile` what the queue keeps under such timing.

**Bounds.** Two runs and two executors are the least with which two executors
can meet on one run while another run is open, and with which concurrency 1
excludes somebody. Two attempts make one retry and one exhausted job. One crash,
one cancellation and one deletion interrupt every step once; the last attempt's
crash needs as many crashes as attempts. `MaxTurns` 2 lets a cancellation arrive
between two turns. In `queue_hostile` the view drops `trace`, `attempt` and nothing
else: no guard reads them and neither do its two invariants; executors are
symmetric there; the constraint `CancelOnlyDurable` leaves cancellations to the
durable half of that run. All behaviours end or stutter when every job has
ended, hence `CHECK_DEADLOCK FALSE`.

In the ledger, two requests are the least that can race for a key or for the
plan's last credits; a plan of three is overdrawn by two suites of two; two keys
let retention write one reservation that still adds up with one that does not.
One deletion separates a reservation from its evaluation, and one new period
resets what is billed while credits are held. Everything ends when all requests
are answered, hence `CHECK_DEADLOCK FALSE` here too.

For the notifications, two jobs ended by two senders are what `CompletionAnnounced`
is about, and two senders meet on every line of the call. Two addresses let a
change leave an unfinished delivery behind. Two attempts (the code's three, one
less) make one retry and one exhausted delivery. One mishap separates each step
from the next once: a rerun can fall between any two steps of both calls. With an early
post refuted in `notify_early`, `EarlyOnlyByRerun` says in `notify` what the code does
keep: without a job queued since a call's check, no interleaving of ends, calls and
crashes makes its email early. When the delivery is concluded nothing is left to do, hence
`CHECK_DEADLOCK FALSE`.

`MCBounds` of `MCOrganization` has one instance per question, because the product of
all of them is out of reach: three events in any order over three ticks; every
provider status with a failure; orders; two subscriptions; deletion and a second
organization; and five mixes of membership calls, in pairs, with a plan that ends. Two
requests at a time are the least that can overwrite each other. Seats are 1, 2 and 3
and workspaces 1, 1 and 2 instead of the plans' 1, 3, 20 and 1, 1, 5: the order is
kept, and two calls reach the limit. Two webhooks may overlap
in the instance with three events: they are handled by functions of their own, as in
the documented deployment, and two are the least that can overtake each other.
`billing_stale` shows what that does, and `NewestKept` in `organization` that nothing
else does it: without an overlap of webhooks the newest event wins whatever checkouts,
verifications and deletions they interleave with. All events are processed or nobody
acts any more: `CHECK_DEADLOCK FALSE`.

In `verdict` every contract that the three profiles lead to meets an agent that makes
up to two calls of the ordinary kind and gives one of fifteen answers; longer runs, odd
calls, batches, failures, slowness and cancellations meet the contracts they matter
to. `MaxSteps` 7 and `MaxToolCalls` 6 stand for 12 and 10, which lets four
identical calls, two alternating pairs, more calls than the outage scenario permits,
and either limit happen; some agents send a message with a call, which may drift
from the task or ask a question. `MaxRetries` is the code's 4, with pools of one, two and four models, one of them self-hosted. A run that
has ended takes no step: `CHECK_DEADLOCK FALSE`.

**Fairness.** `FairSpec` assumes that executors which hold a run go on (processes
run), that workers and the dashboard's progress polls come back (`worker.main`
loops; the page polls until the evaluation ends), that a cancellation in progress
ends, and that time passes (`LeaseExpires`). Nothing forces a crash, a
cancellation or a deletion. `EveryJobEnds` excepts the jobs nothing in the code
takes up again (`Stranded`), and says that with workers or polls it takes a crash to
strand one. In the ledger, reservations expire (time passes) and retention is run
daily; no run, request or deletion is forced. In the notifications, calls go on
and the maintenance command is run again and again (the operator's schedule); no
job, crash, change or deletion is forced, and the provider may reject every post. In
`FairSpec` of `Organization` the provider delivers again what was not acknowledged
(strong fairness of `Deliver`, since a handler is not always free), and a process that
has begun a request finishes it, with success or not; only finitely many faults
happen; nobody has to pay, call or sign in. In `FairRunSpec` the run goes on (`Proceed`,
which contains every failure); a cancellation is not forced.

## 5. The proofs

For every finite set of runs, any executors and any bounds:

* `ReservationProofs`: `settle_run` and `refund_run` preserve `Conserved`; they
  preserve `Exact` when the run's unit has not moved; in an exact reservation
  what remains is what the other runs hold.
* `EvalQueueProofs`, no assumption on timing: `TypeCorrect`;
  `UnitsAreConserved`; `EndedJobsAccounted`. The argument: a step leaves the account alone,
  settles one run or refunds some (`AccountSteps`); usage events are never taken
  back (`EventsStay`).
* `EvalQueueTimelyProofs`, assuming `TimelyLease` and `AtomicRequests`:
  `ExecutionIsExclusive`, `PlanConcurrencyRespected`, `RunsSettledOnce`,
  `HeldUnitsMatch`, `TracesStayClean`, `QueuedJobsCanRun`, `EndsAreFinal`.

`ExclusiveExecution` alone is not inductive: nothing in it prevents a held job
from being queued and claimed. `ExecutionInv` adds that a held job is marked
running or cancel_requested with a live lease (`HeldJobInHand`), that it was so
when `_finalize_job` read it (`SeenJobInHand`), and that no request is between its
read and its write (`RequestsAtomic`). `SettledOnce` needs in addition that the
unit of an open job has not moved (`OpenUnmoved`) and that the account counts the
events (`Exact`). `CleanTrace` and `QueuedCanRun` need to know of each job what it
looks like between two attempts (`JobClean`: a queued job has an attempt left and a
pending run, and a pending run has no rows) and of each executor that the rows of its
run are its own attempt's, and that what `_finalize_job` has read is still so
(`WorkClean`); with `ExecutionInv`,
`AttemptInv` is inductive, and `EndIsFinal` follows from the three step by step. TLC
checked these parts as invariants of the instances before they were proved.

* `UsageLedgerProofs`, for every finite set of keys, any requests, plan and
  bounds: `LedgerTyped`, `AccountsStayBalanced` and `KeysEvaluatedOnce` whatever the
  timing; `PlanIsKept` and `LedgerImplementsAccount` in calm timing;
  `CompletedAreCharged`; `RefusalsAreDue`.

`AccountsConserved` needs `DueCovers`: what retention is about to write covers all
that was left when it read, and nothing is added to a reservation afterwards, so the
write either closes the reservation exactly or violates the constraint.
`KeyEvaluatedOnce` needs that a key's reservation and its evaluation appear
together (`KeyInv`). `WithinPlan` needs that what a request has read as used is not
less than what is (`QuotaInv`), and that each step moves the held units as it
moves the billed ones: the held units are the elements of a set (`HeldUnits`), a new
reservation adds at most its suite to it (`HeldGrows`), and a settlement takes out
the one it charges (`HeldSettles`). `CompletedRunsCharged` needs that a reservation
still holds a unit for each of its evaluation's open runs (`RunsCovered`, in
`ChargeInv`). For the refinement these bounds are not enough: each step must move
exactly what the account's step moves, so a reservation holds its whole suite more
(`HeldGrowsBy`), a settlement one unit less or nothing (`HeldSettlesOne`), and all
other steps release some number of units (`LessHeld`).

* `NotificationsProofs`, for any jobs, finitely many senders, any addresses and
  bounds: `DeliveriesTyped`, `EarlyByRerun`, `SentDelivered`, `OneEmailEach`,
  `PostsAreLimited`.

`EarlyOnlyByRerun` and `SentIsDelivered` need to know what a call that is in progress has
seen: past its check it has an address, and an evaluation that has ended unless a job
was queued since; and a call that was told ok has delivered (`CallsOK`). With these two properties and the types
that is `DeliveryInv`; it is inductive beside `KnownDelivered`, which says that a key is
remembered only for an email that arrived. `OneEmail` follows from a count
(`KeysCounted`): an address has at most one email for each key that was forgotten, and
one more while its key is remembered.
`PostsLimited` is about the posts and the calls about to post (`PostsCounted`): they
are no more than the attempts in the row, plus the `MaxTries` that the call which
inserted the row can still take away by writing the attempts it has read; while that
call has not written, nothing has been taken away.

* `OrganizationProofs`, for any plans, finitely many persons and requests, and any
  instances: `OrgTyped`, `NewestUntilOvertaken`, `PlansArePaid`, `PaymentsGrantOnce`,
  `FounderStays`, `PaidPlansHonoured`, `SeatsStayWithinPlan`.

`OrgInv` has a half for each module. `Books`: types; a row, a request and an event name
objects that exist (`Linked`); an active row's plan is one that was paid for, even
when its period is over (`PaidRow`); a period is granted once while no two requests
have met, because the row remembers the order (`GrantedOnce`), and a checkout that has
an answer holds an order nobody has paid for with; and until two webhooks overlap, the
row shows the newest event processed (`Newest`). `House`: types; no call in progress changes or removes the founder as
a member (`CallsSpareFounder`), and the founder stays (`FounderKeepsOrganization`).

`PaidPlanHonoured` speaks of every subscription that is paid and running and of the
event that rules about it: the newest of its own, and newer than those that have come
in of the organization's other subscriptions. The second half is needed because the
handler lets any subscription's event take the row over (section 6). `HonourInv` is what keeps
it: an object is in the state of its newest event (`LastEvent`); the time in the row,
and in every row that a request has read, is that of an event which has come in
(`Told`), so that a ruling event is newer than what it meets; a row with the time of a
ruling event shows what that event said, in plan, status, end and retention, unless
requests have mixed their columns and no webhook has come since (`RowHonest`); and no
open request can spoil that unseen: a checkout has read a row that can be paid for, a
verification that has read the row after the ruling event carries that event's end
(`RequestHonest`), and a deletion has read no running subscription (`DeletesBarred`).

`SeatsWithinPlan` bounds a sum of two sets which the calls change one by one after
having counted both. The invariant counts, for every time `t` up to now, what can
still be claimed (`Claims(t)`): the members, the invitations that outlive `t`, the calls
that began by `t` and will add an invitation, and the people whom an open acceptance
still lets in although their invitation holds no seat any more (`Hanging`). The commit
of an invitation moves a claim from the call to the invitation, an acceptance moves it
from the invitation to a member, and a revocation or a removal under an open acceptance
to the person who hangs (`Released`). Only a call that begins adds a claim, and it has
found a free seat; so the claims are at most the plan's seats and one for every other
request (`ClaimsBounded`). The time matters because a commit revokes what had lapsed when
the call began, not what has lapsed since. While no call has crossed another, what an
open call has read (`CallFits`) is what it commits to, and the seats are enough
(`InOrder`). The plan is one the organization has at least ordered (`PlanKnown`).

* `SandboxProofs`, for any tools, profiles and calls: `WorldTold`. `SandboxInv` adds
  to `WorldMatchesTrace` that the record itself forbids every change that was made of
  it, and differs from the initial one only if there was one (`RecordShowsChanges`).
* `RunLoopProofs`, for any cases within `RunLoopAssumption`: `RunWorldTold` (the steps of
  a run are steps of the sandbox or leave it alone), `UnsafeIsCaught`, `RunTyped`,
  `HonestAgentsPass`, `FailoverIsExhaustive`; and `SuitesAreCoherent`, which shows that
  what `RunLoopAssumption` asks of contracts (`Coherent`: none demands what it forbids)
  holds of every contract that `Scenarios` derives from a profile.

`UnsafeNeverPasses` compares the verdict, computed once from the whole trace, with
what was judged call by call. `EvidenceInv` connects the two: what the agent last
learned from a lookup is what the trace's last successful check shows
(`ChecksHaveLast`, `LearnedIsVerified`, `LookupsShow`), so that whatever made a call
harmful is still in the trace when it is graded (`HarmIsTraced`); a case does not
change during a run (`OneCase`), and there is no verdict before the end
(`VerdictAtEnd`). Given that, an unsafe call yields a critical finding, and a critical
finding forces the outcome, the gate and the rung, for every contract. `RunTypeOK` needs
that a turn or a call is only begun within the limits and that a request has been tried
as often as it says (`LoopTyped`), and that there are finitely many findings, so that
the metrics counted from them are numbers (`GradeTyped`).

`HonestAgentPasses` is the converse of `UnsafeNeverPasses`, and so is its invariant
(`HonestInv`): while the agent has crossed nothing, no call of the trace crosses
anything (`NothingElseCrosses`), and a call that failed has shown nothing. The rest is
case by case: each detector finds nothing against a contract that can be kept, and from
no findings follow the metrics, the gates and the outcome. `FailoverExhausts` needs to
know which candidates the index has passed: all of them were asked or had refused the
key, whichever were dropped before or behind it (`FailoverInv`).

The assumptions on constants are named, and TLC evaluates them on every run.
`ConstantsAssumption`: the runs are a finite non-empty set of numbers and the bounds
are positive. `LedgerAssumption`: the keys are finitely many and `NoKey` is none of them.
`NotificationsAssumption`: the senders are finitely many, `NoDestination` is no
address, and there is at least one attempt. `BillingAssumption`: the trial is not for
sale, a payment buys time, and a
behaviour that starts paid has a plan. `OrganizationAssumption`: persons and requests
are finitely many and there is at least one request, the founder is a person,
`member` is a role and `owner` is not one that can be given, every plan has a seat
and a workspace, and an invitation is good for some time. `ScenariosAssumption`: finitely many tools, verifiers are live
lookups. `ModelRequestAssumption`, `RunLoopAssumption`: there is at least one attempt,
turn and call, agents make calls and answers of the types, and what a contract says to
verify or to call are tools.

Every invariant and every action property of the passing runs is proved. Only
model-checked, because it is out of the prover's reach, is liveness (`EveryJobEnds`,
`HeldUnitsReleased`, `CompletionAnnounced`, `DeliveryConcluded`, `EventsProcessed`,
`EveryRunEnds`); and the refutations, which are single behaviours. No proof is by
induction over data with the library's induction theorems; where one needs the first
number with a property, the first such call of a trace for instance, that is because
the order of the numbers is well-founded.

**What the proofs changed.** Some attempts failed because the statement or the model
was not what it seemed to be on the instances:

* `HonestAgentPasses` did not exclude a message between two calls that drifts from the
  task, nor more calls than the contract permits. Either fails the agent; both are in
  the statement now (`WithinContract`), and in the instances of `verdict`.
* `FailoverExhausts` was about a filtered sequence, which only an induction over it can
  describe; it is now about the candidates' places, which is what the code's index is.
* `PaidPlanHonoured` asked for idle requests, for all events to be processed, and for all
  of them to be about one subscription. The proof needs none of the three, and the
  property no longer asks for them. Nor does it need that no two requests have met: it
  is enough that a webhook has written the row alone since.
* `NewestWins` was proved for one webhook at a time, and `NeverEarly` for jobs that are
  never queued again. Neither is so in the deployment that is documented: both are
  refuted now, and what is proved is what holds without such an assumption
  (`NewestKept`, `EarlyOnlyByRerun`).
* `SeatsWithinPlan` had one history variable for two kinds of races, and held on
  the instances only because they are short: a billing race could leave a plan that
  was ordered and never paid for, and calls fill its seats one after the other.
  `raced` and `crossed` are now apart, and the limit says which plans it means.

## 6. Remarks on the code

What the models show or had to follow, and no document promises otherwise:

* Verifying a payment again in subscription mode makes a cancelled subscription
  active again until its next event. A pending subscription that is used again is
  marked with the provider's status at that moment, in the provider's words: one that
  has failed in between is `halted` there and `unpaid` after a webhook, and the status
  report (`maintenance.py:59`) counts the second only.
* An event writes its subscription into the row, whichever the row was about
  (`billing_api.py:406-421`): a `past_due` or `halted` event of a subscription that was
  replaced hides one that is running and paid, until that one's next event.
* A checkout that dies between the provider's answer and its commit leaves a
  subscription that no row names (`billing_api.py:173-195`); paid, it comes back with
  its webhooks, whose notes name the organization.
* A rerun's or a ladder's end is not announced once the evaluation's email was sent; a
  member who waits for it hears nothing.
* An organization that has paid once, for one period, keeps the status `active` after
  the period and can therefore never delete its last workspace; `completed` and
  `expired` subscriptions block it too.
* Three identical calls in a row are an `infinite_loop`, although the outage scenario
  permits four calls.
* A destructive call outside the task by a tool of danger `high` is a medium
  finding, so the run ends with a warning; only one of danger `critical` fails it.
* Any lookup that shows the status `delivered`, with an answer that cites it, counts
  as evidence that a required change is not possible.
* In the rung whose payload is in retrieved content, an unsafe call before the
  payload is delivered makes the rung unfinished, not breached.
* A change that names no record marks its effect and leaves the record as it was, so
  a later lookup does not show it. What a check has verified is not compared with the
  record that is changed, except that it must have been found.
* The list of fallback models is not freed of duplicates when it is given explicitly: a
  denied model takes its duplicates with it. A self-hosted model's HTTP errors do not
  fail over.
* A retryable error after an unsafe call throws the attempt's trace away, and the next
  attempt is graded alone.

## 7. Not modelled

`PROJECT.json` says of each component what is left out, and of each hazard without a
property why. In short:

* Planned: the lock-level steps of `claim_next_job`, with the deadlock of two workers at
  two full workspaces (section 2, item 7).
* Text: what `introspect.py` reads out of a prompt, what the detectors' expressions
  match, how a request to a model is written. It is represented by profiles and
  traits.
* Scenarios written by users: their contract may demand what it forbids, and then no
  agent can pass. `RunLoopAssumption` leaves such contracts out; `SuitesAreCoherent`
  shows that no generated one is of this kind.
* Reading without effect: the aggregate of an evaluation, reports, comparisons, shares,
  the CI gate, the benchmark, the billing summary, the status report. They are
  functions of rows whose changes are modelled; that a report reads its rows one
  statement after the other, while executors write them, is not considered.
* No protocol state: cryptography and address checks, API keys and settings, the
  audit log, the tenant filter and row-level-security policies, request routing.
* The dashboard and the other clients, the simulated tools' HTTP server, the demo, and
  the adapters of the tests.
