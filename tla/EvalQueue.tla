----------------------------- MODULE EvalQueue -----------------------------
(***************************************************************************)
(* The evaluation queue of app/engine.py: one evaluation whose runs each   *)
(* have a row in test_runs and a row in evaluation_jobs, the executors     *)
(* that claim, run and finalize them, the request that cancels the         *)
(* evaluation (frontend_api.py), the request that deletes its agent, and   *)
(* the reservation the runs are charged to.                                *)
(*                                                                         *)
(* A step is one transaction, or one part of a transaction that reads      *)
(* without a lock and writes later: PostgreSQL runs at READ COMMITTED and  *)
(* the ORM writes by primary key, so what was read may be out of date when *)
(* it is acted on.                                                         *)
(***************************************************************************)
EXTENDS Reservation

CONSTANTS
    Runs,           \* the ids of the evaluation's runs, one job each
    Executors,      \* worker processes (durable) or request handlers (otherwise)
    NoRun,          \* what an idle executor holds
    Modes,          \* the deployments considered, see mode
    MaxAttempts,    \* EvaluationJob.max_attempts
    Concurrency,    \* jobs of a workspace its plan lets run at once
    MaxTurns,       \* MAX_STEPS: turns of the agent in one run
    MaxCrashes,     \* bound: executors killed
    MaxCancels,     \* bound: calls of cancel_evaluation
    MaxDeletes,     \* bound: calls of delete_agent
    TimelyLease,    \* no lease runs out under a live executor
    AtomicRequests  \* cancel and recovery requests are not interleaved

ASSUME ConstantsAssumption ==
    /\ Runs \subseteq Nat /\ IsFiniteSet(Runs) /\ Runs # {} /\ NoRun \notin Runs
    /\ Modes \subseteq {"durable", "sync", "background"}
    /\ MaxAttempts \in Nat \ {0} /\ Concurrency \in Nat \ {0}
    /\ MaxTurns \in Nat \ {0}
    /\ MaxCrashes \in Nat /\ MaxCancels \in Nat /\ MaxDeletes \in Nat
    /\ TimelyLease \in BOOLEAN /\ AtomicRequests \in BOOLEAN

VARIABLES
    mode,       \* who executes jobs: workers, requests, or background tasks
    jobStatus,  \* evaluation_jobs.status
    attempts,   \* evaluation_jobs.attempts
    lease,      \* evaluation_jobs.lease_until: null, in the future, in the past
    runStatus,  \* test_runs.status
    runError,   \* the last error row of the run's trace
    trace,      \* the attempts whose rows are in execution_traces
    acct,       \* the reservation and its usage events
    pc,         \* where each executor is
    held,       \* the run it executes
    attempt,    \* the attempt it executes
    turns,      \* turns it has taken
    seen,       \* the rows _finalize_job has read
    stale,      \* the jobs recover_interrupted has read
    want,       \* the jobs cancel_evaluation has read
    todo,       \* background tasks dispatched and not started
    crashes, cancels, deletes

jobVars   == <<jobStatus, attempts, lease>>
runVars   == <<runStatus, runError, trace>>
execVars  == <<pc, held, attempt, turns, seen, stale>>
boundVars == <<crashes, cancels, deletes>>
sched     == <<mode, todo>>
vars == <<jobVars, runVars, acct, execVars, want, sched, boundVars>>
-----------------------------------------------------------------------------
JobStatuses == {"queued", "running", "cancel_requested",
                "completed", "failed", "canceled", "deleted"}
Terminal    == {"completed", "failed", "canceled"}
RunStatuses == {"pending", "running", "complete", "error", "canceled", "deleted"}
Errors      == {"none", "retryable", "fatal"}
Leases      == {"none", "live", "expired"}
Points      == {"idle", "claimed", "testing", "polling", "acting", "scoring",
                "finalizing", "deciding", "recovering"}
Snapshots   == [job : JobStatuses, attempts : Nat, lease : Leases,
                run : RunStatuses, error : Errors]
Recoveries  == [requeue : SUBSET Runs, fail : SUBSET Runs]

NothingSeen  == [job |-> "queued", attempts |-> 0, lease |-> "none",
                 run |-> "pending", error |-> "none"]
NothingStale == [requeue |-> {}, fail |-> {}]
NothingWanted == [r \in Runs |-> "none"]

TypeOK ==
    /\ mode \in Modes
    /\ jobStatus \in [Runs -> JobStatuses]
    /\ attempts \in [Runs -> Nat]
    /\ lease \in [Runs -> Leases]
    /\ runStatus \in [Runs -> RunStatuses]
    /\ runError \in [Runs -> Errors]
    /\ trace \in [Runs -> SUBSET Nat]
    /\ acct \in Accounts(Runs)
    /\ pc \in [Executors -> Points]
    /\ held \in [Executors -> Runs \cup {NoRun}]
    /\ \A e \in Executors : held[e] = NoRun <=> pc[e] \in {"idle", "recovering"}
    /\ attempt \in [Executors -> Nat]
    /\ turns \in [Executors -> Nat]
    /\ seen \in [Executors -> Snapshots]
    /\ stale \in [Executors -> Recoveries]
    /\ want \in [Runs -> {"none", "queued", "running"}]
    /\ todo \in SUBSET Runs
    /\ crashes \in Nat /\ cancels \in Nat /\ deletes \in Nat

\* evaluate has committed: the runs are pending, the jobs queued, the credits
\* reserved, and without a durable queue a background task waits for each run.
Init ==
    /\ mode \in Modes
    /\ jobStatus = [r \in Runs |-> "queued"]
    /\ attempts = [r \in Runs |-> 0]
    /\ lease = [r \in Runs |-> "none"]
    /\ runStatus = [r \in Runs |-> "pending"]
    /\ runError = [r \in Runs |-> "none"]
    /\ trace = [r \in Runs |-> {}]
    /\ acct = NewAccount(Cardinality(Runs))
    /\ pc = [e \in Executors |-> "idle"]
    /\ held = [e \in Executors |-> NoRun]
    /\ attempt = [e \in Executors |-> 0]
    /\ turns = [e \in Executors |-> 0]
    /\ seen = [e \in Executors |-> NothingSeen]
    /\ stale = [e \in Executors |-> NothingStale]
    /\ want = NothingWanted
    /\ todo = IF mode = "background" THEN Runs ELSE {}
    /\ crashes = 0 /\ cancels = 0 /\ deletes = 0
-----------------------------------------------------------------------------
Deleted(r) == jobStatus[r] = "deleted"

\* The executor lets go of its run: it returned, raised or was killed.
Release(e) ==
    /\ pc' = [pc EXCEPT ![e] = "idle"]
    /\ held' = [held EXCEPT ![e] = NoRun]
    /\ attempt' = [attempt EXCEPT ![e] = 0]
    /\ turns' = [turns EXCEPT ![e] = 0]
    /\ seen' = [seen EXCEPT ![e] = NothingSeen]
    /\ stale' = [stale EXCEPT ![e] = NothingStale]

MoveTo(e, point) ==
    /\ pc' = [pc EXCEPT ![e] = point]
    /\ UNCHANGED <<held, attempt, turns, seen, stale>>

\* Mutant: the attempt is counted and leased, and the job still reads queued.
StartAttemptUnmarked(r) ==
    /\ attempts' = [attempts EXCEPT ![r] = @ + 1]
    /\ lease' = [lease EXCEPT ![r] = "live"]
    /\ UNCHANGED jobStatus

\* The job row of a new attempt.
StartAttempt(r) ==
    /\ jobStatus' = [jobStatus EXCEPT ![r] = "running"]
    /\ attempts' = [attempts EXCEPT ![r] = @ + 1]
    /\ lease' = [lease EXCEPT ![r] = "live"]

\* execute_job skips the scenario when the run is complete already.
AfterStart(r) == IF runStatus[r] = "complete" THEN "finalizing" ELSE "testing"

Hold(e, r, point) ==
    /\ pc' = [pc EXCEPT ![e] = point]
    /\ held' = [held EXCEPT ![e] = r]
    /\ attempt' = [attempt EXCEPT ![e] = attempts[r] + 1]
    /\ UNCHANGED <<turns, seen, stale>>

\* Mutant: the old attempt's rows stay.
PurgeErrorOnly(R) ==
    /\ runError' = [r \in Runs |-> IF r \in R THEN "none" ELSE runError[r]]
    /\ UNCHANGED trace

\* The run starts again from a clean trace.
PurgeAttempt(R) ==
    /\ trace' = [r \in Runs |-> IF r \in R THEN {} ELSE trace[r]]
    /\ runError' = [r \in Runs |-> IF r \in R THEN "none" ELSE runError[r]]

\* Mutants: the lease is not looked at; a dead worker's job is never reclaimed.
ClaimableAnyLease(r) ==
    attempts[r] < MaxAttempts /\ jobStatus[r] \in {"queued", "running"}

ClaimableQueuedOnly(r) ==
    attempts[r] < MaxAttempts /\ jobStatus[r] = "queued"

Claimable(r) ==
    /\ attempts[r] < MaxAttempts
    /\ \/ jobStatus[r] = "queued"
       \/ jobStatus[r] = "running" /\ lease[r] = "expired"

ActiveJobs == {r \in Runs : jobStatus[r] = "running" /\ lease[r] = "live"}

\* Mutant: off by one.
SlotFreeAtLimit(r) == Cardinality(ActiveJobs \ {r}) <= Concurrency

SlotFree(r) == Cardinality(ActiveJobs \ {r}) < Concurrency

\* Mutant: the run's own status is not looked at, as in recover_interrupted.
DiedMidRunUnchecked(r) == jobStatus[r] = "running"

\* The previous worker died in the middle of the run, and not after it.
DiedMidRun(r) == jobStatus[r] = "running" /\ runStatus[r] = "running"

\* claim_next_job: row lock and per-workspace advisory lock make it atomic.
ClaimNextJob(e, r) ==
    LET interrupted == {q \in {r} : DiedMidRun(q)}
    IN  /\ mode = "durable"
        /\ pc[e] = "idle"
        /\ Claimable(r)
        /\ SlotFree(r)
        /\ StartAttempt(r)
        /\ PurgeAttempt(interrupted)
        /\ runStatus' = [q \in Runs |-> IF q \in interrupted THEN "pending" ELSE runStatus[q]]
        /\ Hold(e, r, "claimed")
        /\ UNCHANGED <<acct, want, sched, boundVars>>

\* execute_job(claimed=True): the job is taken as it is, unless somebody put it
\* back in the queue after the claim, in which case it is claimed once more.
ExecuteClaimed(e) ==
    LET r == held[e]
    IN  /\ pc[e] = "claimed"
        /\ ~Deleted(r)
        /\ IF jobStatus[r] = "queued"
           THEN StartAttempt(r) /\ Hold(e, r, AfterStart(r))
           ELSE MoveTo(e, AfterStart(r)) /\ UNCHANGED jobVars
        /\ UNCHANGED <<runVars, acct, want, sched, boundVars>>

\* drain_pending takes the pending run with the smallest id, whatever its job.
FirstPending(r) ==
    /\ runStatus[r] = "pending"
    /\ \A q \in Runs : runStatus[q] = "pending" => r <= q

\* execute_job of a request or a background task: only a queued job is run, and
\* neither max_attempts nor the plan's concurrency is looked at.
ExecuteQueued(e, r) ==
    /\ pc[e] = "idle"
    /\ \/ mode = "sync" /\ FirstPending(r)
       \/ mode = "background" /\ r \in todo
    /\ todo' = todo \ {r}
    /\ UNCHANGED mode
    /\ IF jobStatus[r] = "queued"
       THEN StartAttempt(r) /\ Hold(e, r, AfterStart(r))
       ELSE UNCHANGED <<jobVars, execVars>>
    /\ UNCHANGED <<runVars, acct, want, boundVars>>
-----------------------------------------------------------------------------
AddTrace(e) == trace' = [trace EXCEPT ![held[e]] = @ \cup {attempt[e]}]

\* run_test claims the run and records its prompt, or leaves it to whoever has.
ClaimRun(e) ==
    LET r == held[e]
    IN  /\ pc[e] = "testing"
        /\ ~Deleted(r)
        /\ IF runStatus[r] = "pending"
           THEN /\ runStatus' = [runStatus EXCEPT ![r] = "running"]
                /\ AddTrace(e)
                /\ MoveTo(e, "polling")
           ELSE MoveTo(e, "finalizing") /\ UNCHANGED <<runStatus, trace>>
        /\ UNCHANGED <<jobVars, runError, acct, want, sched, boundVars>>

\* The except branch: what is recorded is kept and an error row follows it.
EndRun(e, status, error) ==
    /\ runStatus' = [runStatus EXCEPT ![held[e]] = status]
    /\ runError' = [runError EXCEPT ![held[e]] = error]
    /\ AddTrace(e)
    /\ MoveTo(e, "finalizing")
    /\ UNCHANGED <<jobVars, acct, want, sched, boundVars>>

\* The top of a turn.
Poll(e) ==
    /\ pc[e] = "polling"
    /\ ~Deleted(held[e])
    /\ turns[e] < MaxTurns
    /\ jobStatus[held[e]] # "cancel_requested"
    /\ pc' = [pc EXCEPT ![e] = "acting"]
    /\ turns' = [turns EXCEPT ![e] = @ + 1]
    /\ UNCHANGED <<held, attempt, seen, stale, jobVars, runVars, acct, want, sched, boundVars>>

AbortCanceled(e) ==
    /\ pc[e] = "polling"
    /\ ~Deleted(held[e])
    /\ turns[e] < MaxTurns
    /\ jobStatus[held[e]] = "cancel_requested"
    /\ EndRun(e, "canceled", "fatal")

\* The loop's else branch: its error row carries no retryable flag.
ExceedLimit(e) ==
    /\ pc[e] = "polling"
    /\ ~Deleted(held[e])
    /\ turns[e] = MaxTurns
    /\ runError' = [runError EXCEPT ![held[e]] = "fatal"]
    /\ AddTrace(e)
    /\ MoveTo(e, "scoring")
    /\ UNCHANGED <<jobVars, runStatus, acct, want, sched, boundVars>>

\* The agent answers: a tool call is executed in the sandbox and the loop goes
\* on, a final message ends it.
Act(e, final) ==
    /\ pc[e] = "acting"
    /\ ~Deleted(held[e])
    /\ AddTrace(e)
    /\ MoveTo(e, IF final THEN "scoring" ELSE "polling")
    /\ UNCHANGED <<jobVars, runStatus, runError, acct, want, sched, boundVars>>

\* The adapter, the sandbox or the database raises.
Fail(e, error) ==
    /\ pc[e] \in {"polling", "acting", "scoring"}
    /\ ~Deleted(held[e])
    /\ EndRun(e, "error", error)

\* Detectors and scoring; the run's status is written whatever it is by now.
Complete(e) ==
    /\ pc[e] = "scoring"
    /\ ~Deleted(held[e])
    /\ runStatus' = [runStatus EXCEPT ![held[e]] = "complete"]
    /\ MoveTo(e, "finalizing")
    /\ UNCHANGED <<jobVars, runError, trace, acct, want, sched, boundVars>>
-----------------------------------------------------------------------------
\* _finalize_job reads the job, the run and its last error ...
ReadOutcome(e) ==
    LET r == held[e]
    IN  /\ pc[e] = "finalizing"
        /\ ~Deleted(r)
        /\ pc' = [pc EXCEPT ![e] = "deciding"]
        /\ seen' = [seen EXCEPT ![e] =
                      [job |-> jobStatus[r], attempts |-> attempts[r], lease |-> lease[r],
                       run |-> runStatus[r], error |-> runError[r]]]
        /\ UNCHANGED <<held, attempt, turns, stale, jobVars, runVars, acct, want, sched, boundVars>>

\* Mutants: one retry too many; the run's status taken for the job's.
VerdictExtraRetry(s) ==
    IF s.job = "cancel_requested" \/ s.run = "canceled" THEN "canceled"
    ELSE IF s.run = "complete" THEN "completed"
    ELSE IF s.error = "retryable" /\ s.attempts <= MaxAttempts THEN "queued"
    ELSE "failed"

VerdictCopied(s) ==
    IF s.run = "complete" THEN "complete" ELSE VerdictExtraRetry(s)

\* ... and what it read decides what becomes of the job.
Verdict(s) ==
    IF s.job = "cancel_requested" \/ s.run = "canceled" THEN "canceled"
    ELSE IF s.run = "complete" THEN "completed"
    ELSE IF s.error = "retryable" /\ s.attempts < MaxAttempts THEN "queued"
    ELSE "failed"

\* The ORM writes a column only when it differs from what was read.
Written(current, read, new) == IF new = read THEN current ELSE new

FinalizeJob(e) ==
    LET r == held[e]
        s == seen[e]
        verdict == Verdict(s)
        retried == {q \in {r} : verdict = "queued"}
    IN  /\ pc[e] = "deciding"
        /\ ~Deleted(r)
        /\ jobStatus' = [jobStatus EXCEPT ![r] = Written(@, s.job, verdict)]
        /\ lease' = [lease EXCEPT ![r] = Written(@, s.lease, "none")]
        /\ PurgeAttempt(retried)
        /\ runStatus' = [q \in Runs |-> IF q \in retried
                                        THEN Written(runStatus[q], s.run, "pending")
                                        ELSE runStatus[q]]
        /\ acct' = CASE verdict = "completed" -> SettleRun(acct, r)
                     [] verdict \in {"canceled", "failed"} -> RefundRun(acct, r)
                     [] OTHER -> acct
        /\ Release(e)
        /\ UNCHANGED <<attempts, want, sched, boundVars>>

\* Everything an executor does with a deleted run returns early or fails on the
\* missing row, and leaves nothing behind.
FindDeleted(e) ==
    /\ held[e] # NoRun
    /\ Deleted(held[e])
    /\ Release(e)
    /\ UNCHANGED <<jobVars, runVars, acct, want, sched, boundVars>>
-----------------------------------------------------------------------------
Interrupted == {r \in Runs : jobStatus[r] = "running" /\ lease[r] = "expired"}

ReadInterrupted == [requeue |-> {r \in Interrupted : attempts[r] < MaxAttempts},
                    fail |-> {r \in Interrupted : attempts[r] >= MaxAttempts}]

\* recover_interrupted, with the jobs it has read.
RecoverJobs(s) ==
    /\ jobStatus' = [r \in Runs |-> IF r \in s.requeue THEN "queued"
                                    ELSE IF r \in s.fail THEN "failed" ELSE jobStatus[r]]
    /\ lease' = [r \in Runs |-> IF r \in s.requeue \cup s.fail THEN "none" ELSE lease[r]]
    /\ PurgeAttempt(s.requeue)
    /\ runStatus' = [r \in Runs |-> IF r \in s.requeue THEN "pending"
                                    ELSE IF r \in s.fail THEN "error" ELSE runStatus[r]]
    /\ acct' = RefundRuns(acct, s.fail)
    /\ UNCHANGED <<attempts, want, sched, boundVars>>

\* drain_pending starts with recover_interrupted, outside durable mode only.
Recover(e) ==
    /\ mode = "sync" /\ AtomicRequests
    /\ pc[e] = "idle"
    /\ Interrupted # {}
    /\ RecoverJobs(ReadInterrupted)
    /\ UNCHANGED execVars

RecoverRead(e) ==
    /\ mode = "sync" /\ ~AtomicRequests
    /\ pc[e] = "idle"
    /\ Interrupted # {}
    /\ pc' = [pc EXCEPT ![e] = "recovering"]
    /\ stale' = [stale EXCEPT ![e] = ReadInterrupted]
    /\ UNCHANGED <<held, attempt, turns, seen, jobVars, runVars, acct, want, sched, boundVars>>

RecoverWrite(e) ==
    /\ pc[e] = "recovering"
    /\ IF \E r \in stale[e].requeue \cup stale[e].fail : Deleted(r)
       THEN UNCHANGED <<jobVars, runVars, acct, want, sched, boundVars>>
       ELSE RecoverJobs(stale[e])
    /\ Release(e)
-----------------------------------------------------------------------------
ReadCancelable ==
    [r \in Runs |-> IF jobStatus[r] \in {"queued", "running"} THEN jobStatus[r] ELSE "none"]

\* cancel_evaluation, with the jobs it has read: a queued job is canceled on the
\* spot, a running one is asked to stop.
CancelJobs(w) ==
    LET queued == {r \in Runs : w[r] = "queued"}
    IN  /\ jobStatus' = [r \in Runs |-> CASE w[r] = "queued"  -> "canceled"
                                          [] w[r] = "running" -> "cancel_requested"
                                          [] w[r] = "none"    -> jobStatus[r]]
        /\ runStatus' = [r \in Runs |-> IF r \in queued THEN "canceled" ELSE runStatus[r]]
        /\ acct' = RefundRuns(acct, queued)
        /\ UNCHANGED <<attempts, lease, runError, trace, execVars, sched, crashes, deletes>>

Cancel ==
    /\ AtomicRequests
    /\ cancels < MaxCancels
    /\ ReadCancelable # NothingWanted
    /\ CancelJobs(ReadCancelable)
    /\ cancels' = cancels + 1
    /\ UNCHANGED want

CancelRead ==
    /\ ~AtomicRequests
    /\ cancels < MaxCancels
    /\ want = NothingWanted
    /\ ReadCancelable # NothingWanted
    /\ want' = ReadCancelable
    /\ cancels' = cancels + 1
    /\ UNCHANGED <<jobVars, runVars, acct, execVars, sched, crashes, deletes>>

CancelWrite ==
    /\ want # NothingWanted
    /\ IF \E r \in Runs : want[r] # "none" /\ Deleted(r)
       THEN UNCHANGED <<jobVars, runVars, acct, execVars, sched, crashes, deletes>>
       ELSE CancelJobs(want)
    /\ want' = NothingWanted
    /\ UNCHANGED cancels

\* delete_agent removes the jobs, traces and runs of the agent's evaluations and
\* does not touch the reservation.
DeleteAgent ==
    /\ deletes < MaxDeletes
    /\ \E r \in Runs : ~Deleted(r)
    /\ jobStatus' = [r \in Runs |-> "deleted"]
    /\ runStatus' = [r \in Runs |-> "deleted"]
    /\ lease' = [r \in Runs |-> "none"]
    /\ PurgeAttempt(Runs)
    /\ deletes' = deletes + 1
    /\ UNCHANGED <<attempts, acct, execVars, want, sched, crashes, cancels>>
-----------------------------------------------------------------------------
\* JOB_LEASE_SECONDS have passed since the claim; no code renews a lease.
LeaseExpires(r) ==
    /\ lease[r] = "live"
    /\ jobStatus[r] \in {"running", "cancel_requested"}
    /\ TimelyLease => \A e \in Executors : held[e] # r
    /\ lease' = [lease EXCEPT ![r] = "expired"]
    /\ UNCHANGED <<jobStatus, attempts, runVars, acct, execVars, want, sched, boundVars>>

\* The executor's process is killed: its transaction is rolled back and its
\* background tasks are lost.
Crash(e) ==
    /\ crashes < MaxCrashes
    /\ pc[e] # "idle"
    /\ Release(e)
    /\ todo' = {}
    /\ crashes' = crashes + 1
    /\ UNCHANGED <<jobVars, runVars, acct, want, mode, cancels, deletes>>

\* The steps of an executor that has begun something.
Proceed(e) ==
    \/ ExecuteClaimed(e) \/ ClaimRun(e)
    \/ Poll(e) \/ AbortCanceled(e) \/ ExceedLimit(e)
    \/ \E final \in BOOLEAN : Act(e, final)
    \/ \E error \in {"retryable", "fatal"} : Fail(e, error)
    \/ Complete(e)
    \/ ReadOutcome(e) \/ FinalizeJob(e) \/ FindDeleted(e)
    \/ RecoverWrite(e)

\* The steps with which an idle executor begins something.
Begin(e) ==
    \/ \E r \in Runs : ClaimNextJob(e, r) \/ ExecuteQueued(e, r)
    \/ Recover(e) \/ RecoverRead(e)

Next ==
    \/ \E e \in Executors : Begin(e) \/ Proceed(e) \/ Crash(e)
    \/ Cancel \/ CancelRead \/ CancelWrite
    \/ DeleteAgent
    \/ \E r \in Runs : LeaseExpires(r)

Spec == Init /\ [][Next]_vars

\* Worker processes and the progress polls of the dashboard keep coming back,
\* and time passes.  Nobody has to cancel, delete or crash.
Fairness ==
    /\ \A e \in Executors : WF_vars(Begin(e)) /\ WF_vars(Proceed(e))
    /\ WF_vars(CancelWrite)
    /\ \A r \in Runs : WF_vars(LeaseExpires(r))

FairSpec == Spec /\ Fairness
-----------------------------------------------------------------------------
(* What holds whatever the timing.                                         *)

\* Every unit of the reservation is settled once, refunded once or still held,
\* whoever calls settle_run and refund_run in whatever order.
UnitsConserved == Conserved(acct)

\* No job ends without its usage event: whoever writes the last status has, in
\* the same transaction or before, moved the unit (_finalize_job,
\* cancel_evaluation, recover_interrupted).
EndedIsAccounted ==
    \A r \in Runs :
        /\ jobStatus[r] = "completed" => r \in acct.settles
        /\ jobStatus[r] \in {"failed", "canceled"} => r \in acct.refunds

(* What holds when no lease runs out under its executor and cancellations  *)
(* and recoveries are not interleaved.                                     *)

\* claim_next_job keeps the jobs of a workspace that run under a valid lease
\* within the concurrency of its plan.  Only the durable queue promises it.
PlanConcurrency ==
    mode = "durable" => Cardinality(ActiveJobs) <= Concurrency

\* "settled once per completed run. Failed or canceled runs refund their
\* reserved unit" (README.md, Billing): a run is never both, and a job that
\* completed was charged.
SettledOnce ==
    /\ acct.settles \cap acct.refunds = {}
    /\ \A r \in Runs : jobStatus[r] = "completed" => r \in acct.charged

\* Until the agent is deleted, the units still held are those of the jobs still
\* open: no credit is stranded and none is given back early.
HeldUnitsMatchOpenJobs ==
    (\A r \in Runs : ~Deleted(r)) =>
        Remaining(acct) = Cardinality({r \in Runs : jobStatus[r] \notin Terminal})

\* "A job that is already running belongs to whoever claimed it" (execute_job):
\* two executors never execute the same run.
ExclusiveExecution ==
    \A d, e \in Executors : held[d] = held[e] /\ held[d] # NoRun => d = e

\* "Start from a clean attempt so duplicate step numbers cannot corrupt a
\* trace" (claim_next_job): a trace holds the rows of one attempt, and a run in
\* the queue has none.
CleanTrace ==
    \A r \in Runs :
        /\ Cardinality(trace[r]) <= 1
        /\ jobStatus[r] = "queued" => trace[r] = {}

\* Retries are bounded, a queued job has an attempt left for claim_next_job to
\* use, and drain_pending and claim_next_job agree on what waits.
QueuedCanRun ==
    \A r \in Runs :
        /\ attempts[r] <= MaxAttempts
        /\ jobStatus[r] = "queued" =>
             attempts[r] < MaxAttempts /\ runStatus[r] = "pending"

\* What a step leaves of a job that has ended and of a run that has been scored.
KeepsEnd(r) ==
    /\ jobStatus[r] \in Terminal => jobStatus'[r] \in {jobStatus[r], "deleted"}
    /\ mode = "durable" /\ runStatus[r] = "complete"
         => runStatus'[r] \in {"complete", "deleted"}

\* A job that has ended stays as it ended until it is deleted, and in the
\* durable queue a run that has been scored keeps its verdict.
EndIsFinal == [][\A r \in Runs : KeepsEnd(r)]_vars

\* The jobs nothing in the code takes up again once their executor is dead:
\* asked to cancel; behind the pending run of such a job, which drain_pending
\* comes back to forever; out of attempts, where recover_interrupted is not
\* called; and whatever a background task leaves behind.
Stranded(r) ==
    /\ \A e \in Executors : held[e] # r
    /\ \/ jobStatus[r] = "cancel_requested" /\ lease[r] = "expired"
       \/ /\ mode = "sync" /\ jobStatus[r] = "queued"
          /\ \E q \in Runs : FirstPending(q) /\ jobStatus[q] = "cancel_requested"
       \/ mode = "durable" /\ lease[r] = "expired" /\ attempts[r] >= MaxAttempts
       \/ mode = "background" /\ r \notin todo /\ jobStatus[r] \in {"queued", "running"}

\* Every job is completed, failed, canceled or deleted in the end, except the
\* stranded ones; and with workers or request draining it takes the death of an
\* executor to strand one.
EveryJobEnds ==
    <>[](\A r \in Runs :
            \/ jobStatus[r] \in Terminal \cup {"deleted"}
            \/ Stranded(r) /\ (mode # "background" => crashes > 0))

\* "Aegis leases every queue job, so another worker can reclaim it after the
\* lease expires" (docs/model-hosting.md): a job whose lease has run out does
\* not stay that way.
ExpiredLeaseReclaimed ==
    \A r \in Runs : lease[r] = "expired" ~> lease[r] # "expired"
-----------------------------------------------------------------------------
(* The inductive invariant behind the properties that need timely leases   *)
(* and atomic requests.                                                    *)

InHand == {"running", "cancel_requested"}

\* No cancellation or recovery is between its read and its write.
RequestsAtomic ==
    /\ want = NothingWanted
    /\ \A e \in Executors : pc[e] # "recovering"

\* The job of a run somebody executes is theirs: marked so, and leased.
HeldJobInHand ==
    \A e \in Executors : held[e] # NoRun /\ ~Deleted(held[e]) =>
        jobStatus[held[e]] \in InHand /\ lease[held[e]] = "live"

\* So it was when _finalize_job read it.
SeenJobInHand ==
    \A e \in Executors : pc[e] = "deciding" /\ ~Deleted(held[e]) =>
        seen[e].job \in InHand /\ seen[e].lease = "live"

\* The unit of an open job has not moved.
OpenUnmoved ==
    \A r \in Runs : jobStatus[r] \in {"queued"} \cup InHand =>
        r \notin acct.settles \cup acct.refunds

ExecutionInv ==
    /\ RequestsAtomic /\ ExclusiveExecution
    /\ HeldJobInHand /\ SeenJobInHand

\* What a job, its run and its trace say of the attempts agrees: a queued job has
\* an attempt left and its run waits, a run that waits has no trace.
JobClean(r) ==
    /\ attempts[r] <= MaxAttempts
    /\ jobStatus[r] = "queued" => attempts[r] < MaxAttempts /\ runStatus[r] = "pending"
    /\ runStatus[r] = "pending" => trace[r] = {}
    /\ \A a, b \in trace[r] : a = b

\* A run that is being worked on is marked running and its trace is its worker's;
\* its status and its attempts are still what _finalize_job has read.
WorkClean(e) ==
    held[e] # NoRun /\ ~Deleted(held[e]) =>
        /\ pc[e] \in {"polling", "acting", "scoring"} =>
             runStatus[held[e]] = "running" /\ trace[held[e]] \subseteq {attempt[e]}
        /\ pc[e] = "deciding" =>
             seen[e].attempts = attempts[held[e]] /\ seen[e].run = runStatus[held[e]]

AttemptInv ==
    /\ \A r \in Runs : JobClean(r)
    /\ \A e \in Executors : WorkClean(e)

LedgerInv == EndedIsAccounted /\ OpenUnmoved /\ Exact(acct, Runs)
=============================================================================
