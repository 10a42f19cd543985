---------------------------- MODULE UsageLedger ----------------------------
(***************************************************************************)
(* The credits of one organization: requests reserve them for evaluations  *)
(* (app/usage.py, evaluate of app/frontend_api.py), runs settle or refund  *)
(* them, evaluations are deleted under them, and the daily retention       *)
(* command (app/maintenance.py) releases reservations that have expired.   *)
(*                                                                         *)
(* A request that has no reservation yet locks the subscription's row and  *)
(* sums what the organization has used and then what it holds, in two      *)
(* queries with a snapshot each (READ COMMITTED).  Runs settle under the   *)
(* lock of their reservation's row only.  Retention locks nothing.         *)
(***************************************************************************)
EXTENDS Reservation

CONSTANTS
    Keys,        \* idempotency keys
    NoKey,       \* the key of a request that has not come yet
    Requests,    \* calls of evaluate, retries of a client included
    Included,    \* scenario credits of the plan per period
    MaxUnits,    \* bound: scenarios of an evaluation
    Timings,     \* the timings considered, see timing
    MaxDeletes,  \* bound: evaluations deleted
    MaxPeriods   \* bound: billing periods begun

ASSUME LedgerAssumption ==
    /\ IsFiniteSet(Keys) /\ NoKey \notin Keys
    /\ Included \in Nat /\ MaxUnits \in Nat \ {0}
    /\ Timings \subseteq {"calm", "late", "torn"}
    /\ MaxDeletes \in Nat /\ MaxPeriods \in Nat

VARIABLES
    timing,   \* calm; or runs outlive their reservation; or runs settle
              \* between the two queries of a request
    acct,     \* the reservation of each key, with its usage events
    expired,  \* the keys whose reservation's expires_at has passed
    live,     \* the keys whose evaluation exists
    made,     \* evaluations created for the key
    open,     \* the key's runs that have not ended
    billed,   \* units of the settlement events of the current period
    pc,       \* where each request is
    key,      \* its idempotency key
    size,     \* scenarios of its suite
    used,     \* the used credits it has read
    due,      \* retention: the refunded_units it is about to write, or 0
    deletes, periods

ledger   == <<acct, billed>>
suites   == <<live, made, open>>
calls    == <<pc, key, size, used>>
counters == <<deletes, periods>>
vars == <<timing, ledger, expired, suites, calls, due, counters>>
-----------------------------------------------------------------------------
RunIds == Nat \X Nat
Answers == {"accepted", "refused", "failed"}
NothingDue == [k \in Keys |-> 0]

TypeOK ==
    /\ timing \in Timings
    /\ acct \in [Keys -> Accounts(RunIds)]
    /\ expired \in SUBSET Keys /\ live \in SUBSET Keys
    /\ made \in [Keys -> Nat]
    /\ open \in [Keys -> SUBSET RunIds]
    /\ billed \in Nat
    /\ pc \in [Requests -> {"new", "waiting", "summing", "attaching"} \cup Answers]
    /\ key \in [Requests -> Keys \cup {NoKey}]
    /\ size \in [Requests -> 0..MaxUnits]
    /\ used \in [Requests -> Nat]
    /\ due \in [Keys -> Nat]
    /\ deletes \in Nat /\ periods \in Nat

Init ==
    /\ timing \in Timings
    /\ acct = [k \in Keys |-> NewAccount(0)]
    /\ expired = {} /\ live = {}
    /\ made = [k \in Keys |-> 0]
    /\ open = [k \in Keys |-> {}]
    /\ billed = 0
    /\ pc = [q \in Requests |-> "new"]
    /\ key = [q \in Requests |-> NoKey]
    /\ size = [q \in Requests |-> 0]
    /\ used = [q \in Requests |-> 0]
    /\ due = NothingDue
    /\ deletes = 0 /\ periods = 0
-----------------------------------------------------------------------------
Reserved(k) == acct[k].reserved > 0

\* The reservations _consumption counts.
Counts(k) == acct[k].status = "reserved" /\ k \notin expired

\* The units they hold, and their number.
HeldUnits ==
    {u \in Keys \X (1..MaxUnits) : Counts(u[1]) /\ u[2] <= Remaining(acct[u[1]])}

Held == Cardinality(HeldUnits)

\* Mutants: what is held is forgotten; one credit too many; one too few.
FitsUsed(n, usedUnits) == n <= Included - usedUnits

FitsLoose(n, usedUnits) == n <= Included - usedUnits - Held + 1

FitsStrict(n, usedUnits) == n < Included - usedUnits - Held

\* usage_summary's remaining, with the used units that were read first.
Fits(n, usedUnits) == n <= Included - usedUnits - Held

Answer(q, a) == pc' = [pc EXCEPT ![q] = a] /\ UNCHANGED <<key, size, used>>

\* Mutant: the existing evaluation is not looked for.
ReplayAlways(q, k) == pc' = [pc EXCEPT ![q] = "attaching"]

\* reserve_credits returned the key's reservation: its evaluation is the
\* answer, unless it has been deleted, and then evaluate makes another one.
Replay(q, k) == pc' = [pc EXCEPT ![q] = IF k \in live THEN "accepted" ELSE "attaching"]

\* evaluate, up to the subscription's lock.
Arrive(q, k, n) ==
    /\ pc[q] = "new"
    /\ key' = [key EXCEPT ![q] = k]
    /\ size' = [size EXCEPT ![q] = n]
    /\ IF Reserved(k) THEN Replay(q, k) ELSE pc' = [pc EXCEPT ![q] = "waiting"]
    /\ UNCHANGED <<timing, ledger, expired, suites, used, due, counters>>

\* reserve_credits has the lock, and usage_summary reads what is used ...
ReadUsed(q) ==
    /\ pc[q] = "waiting"
    /\ \A p \in Requests : pc[p] # "summing"
    /\ pc' = [pc EXCEPT ![q] = "summing"]
    /\ used' = [used EXCEPT ![q] = billed]
    /\ UNCHANGED <<timing, ledger, expired, suites, key, size, due, counters>>

NewRuns(k, n) == {made[k] + 1} \X (1..n)

\* The version, its runs and their jobs.
Create(k, n) ==
    /\ made' = [made EXCEPT ![k] = @ + 1]
    /\ open' = [open EXCEPT ![k] = @ \cup NewRuns(k, n)]
    /\ live' = live \cup {k}

\* Mutant: no unique constraint on the key.
NeverTaken(k) == FALSE

KeyTaken(k) == Reserved(k)

\* ... and what is held, and commits the reservation with its evaluation; a
\* request with the same key may have been faster.
Reserve(q) ==
    LET k == key[q]
        n == size[q]
    IN  /\ pc[q] = "summing"
        /\ IF ~Fits(n, used[q])
           THEN Answer(q, "refused") /\ UNCHANGED <<acct, suites>>
           ELSE IF KeyTaken(k)
           THEN Replay(q, k) /\ UNCHANGED <<acct, suites, key, size, used>>
           ELSE /\ acct' = [acct EXCEPT ![k] = NewAccount(n)]
                /\ Create(k, n)
                /\ Answer(q, "accepted")
        /\ UNCHANGED <<timing, billed, expired, due, counters>>

\* evaluate, with a reservation whose evaluation is gone.
Attach(q) ==
    /\ pc[q] = "attaching"
    /\ timing = "late" \/ key[q] \notin expired
    /\ Create(key[q], size[q])
    /\ Answer(q, "accepted")
    /\ UNCHANGED <<timing, ledger, expired, due, counters>>

\* The request raises or its process dies, and its transaction is rolled back.
Abort(q) ==
    /\ pc[q] \in {"waiting", "summing", "attaching"}
    /\ Answer(q, "failed")
    /\ UNCHANGED <<timing, ledger, expired, suites, due, counters>>
-----------------------------------------------------------------------------
\* The job of a run ends (EvalQueue): once, completed or not.
EndRun(k, r) == open' = [open EXCEPT ![k] = @ \ {r}] /\ UNCHANGED <<live, made>>

Settle(k, r) ==
    /\ r \in open[k]
    /\ timing = "torn" \/ \A q \in Requests : pc[q] # "summing"
    /\ acct' = [acct EXCEPT ![k] = SettleRun(@, r)]
    /\ billed' = billed + acct'[k].settled - acct[k].settled
    /\ EndRun(k, r)
    /\ UNCHANGED <<timing, expired, calls, due, counters>>

Refund(k, r) ==
    /\ r \in open[k]
    /\ acct' = [acct EXCEPT ![k] = RefundRun(@, r)]
    /\ EndRun(k, r)
    /\ UNCHANGED <<timing, billed, expired, calls, due, counters>>

\* delete_agent, or retention: runs and jobs go, the reservation stays.
DeleteEvaluation(k) ==
    /\ k \in live
    /\ deletes < MaxDeletes
    /\ deletes' = deletes + 1
    /\ live' = live \ {k}
    /\ open' = [open EXCEPT ![k] = {}]
    /\ UNCHANGED <<timing, ledger, expired, made, calls, due, periods>>

\* 24 hours have passed since the reservation.
Expire(k) ==
    /\ Reserved(k) /\ k \notin expired
    /\ timing = "late" \/ open[k] = {}
    /\ expired' = expired \cup {k}
    /\ UNCHANGED <<timing, ledger, suites, calls, due, counters>>

\* _period: settlements of the last period no longer count.
BeginPeriod ==
    /\ periods < MaxPeriods /\ billed > 0
    /\ periods' = periods + 1
    /\ billed' = 0
    /\ UNCHANGED <<timing, acct, expired, suites, calls, due, deletes>>
-----------------------------------------------------------------------------
\* Mutant: only reservations whose work has not started.
OverdueUnstarted(k) ==
    Reserved(k) /\ acct[k].status = "reserved" /\ k \in expired /\ acct[k].settles = {}

Overdue(k) == Reserved(k) /\ acct[k].status = "reserved" /\ k \in expired

\* retention reads the expired reservations ...
RetentionRead ==
    /\ due = NothingDue
    /\ due' = [k \in Keys |-> IF Overdue(k) THEN acct[k].refunded + Remaining(acct[k]) ELSE 0]
    /\ due' # NothingDue
    /\ UNCHANGED <<timing, ledger, expired, suites, calls, counters>>

\* Mutant: no constraint.
TotalsUnchecked(a) == TRUE

\* The table's check constraint ck_usage_reservation_totals.
TotalsAllowed(a) == a.settled + a.refunded <= a.reserved

\* Mutant: a misspelled status.
ReleasedAs(a, refunded) == [a EXCEPT !.refunded = refunded, !.status = "released"]

Released(a, refunded) == [a EXCEPT !.refunded = refunded, !.status = "expired"]

\* ... and writes all of them by primary key in one transaction.
RetentionWrite ==
    LET new == [k \in Keys |-> IF due[k] = 0 THEN acct[k] ELSE Released(acct[k], due[k])]
    IN  /\ due # NothingDue
        /\ acct' = IF \A k \in Keys : TotalsAllowed(new[k]) THEN new ELSE acct
        /\ due' = NothingDue
        /\ UNCHANGED <<timing, billed, expired, suites, calls, counters>>

Request(q) ==
    \/ \E k \in Keys, n \in 1..MaxUnits : Arrive(q, k, n)
    \/ ReadUsed(q) \/ Reserve(q) \/ Attach(q) \/ Abort(q)

Retention == RetentionRead \/ RetentionWrite

Next ==
    \/ \E q \in Requests : Request(q)
    \/ \E k \in Keys : \E r \in open[k] : Settle(k, r) \/ Refund(k, r)
    \/ \E k \in Keys : DeleteEvaluation(k) \/ Expire(k)
    \/ BeginPeriod
    \/ Retention

Spec == Init /\ [][Next]_vars

\* Time passes and retention is run daily; nothing else has to happen.
FairSpec == Spec /\ WF_vars(Retention) /\ \A k \in Keys : WF_vars(Expire(k))
-----------------------------------------------------------------------------
\* What the organization has spent in this period and what it holds stay
\* within its plan.
QuotaKept == billed + Held <= Included

\* "Quota ... reserved atomically before scenarios are created" (README.md): it
\* is, as long as no run settles between the two sums of reserve_credits and no
\* run outlives its reservation.
WithinPlan == timing = "calm" => QuotaKept

\* A reservation gives back and charges no more than it holds, a settled unit
\* is a charged run's, and it is open exactly as long as it holds something.
Balanced(a) ==
    /\ a.settled + a.refunded <= a.reserved
    /\ a.settled = Cardinality(a.charged)
    /\ a.reserved > 0 => (Remaining(a) = 0 <=> a.status # "reserved")

\* Every reservation stays balanced, whoever settles, refunds or expires it,
\* and however old what retention has read is.
AccountsConserved == \A k \in Keys : Balanced(acct[k])

\* However often a client repeats a request, its key is evaluated once, unless
\* somebody deletes the evaluation.
KeyEvaluatedOnce == deletes = 0 => \A k \in Keys : made[k] <= 1

\* "settled once per completed run" (README.md): a run that completes costs a
\* credit, unless its key's first evaluation was deleted or its reservation
\* had expired.
CompletedRunsCharged ==
    timing # "late" /\ deletes = 0 => \A k \in Keys : acct[k].settles = acct[k].charged

\* A request is refused only when its credits are really not free, even when
\* runs settle between its two sums: what is missed errs in its favour.  (A
\* period that begins between them is the exception.)
RefusedOnlyWhenFull ==
    [][\A q \in Requests : pc[q] = "summing" /\ pc'[q] = "refused" =>
         used[q] > billed \/ size[q] + billed + Held > Included]_vars

\* Whatever becomes of the evaluation and its runs, the credits it holds are
\* spent or given back in the end.
HeldUnitsReleased ==
    \A k \in Keys :
        timing = "late" /\ Remaining(acct[k]) > 0 ~> Remaining(acct[k]) = 0

\* The ledger implements the abstract account of its organization.
Account == INSTANCE CreditAccount WITH
    free <- Included - billed - Held, held <- Held, spent <- billed

ImplementsAccount ==
    /\ Account!Init
    /\ [][timing = "calm" => Account!Next \/ UNCHANGED <<billed, Held>>]_vars
-----------------------------------------------------------------------------
(* The inductive invariants behind the invariants above.                   *)

\* A request under way has a key and a suite; a reservation is for one suite.
CallsOK ==
    /\ \A q \in Requests : pc[q] \in {"waiting", "summing", "attaching"} =>
         key[q] \in Keys /\ size[q] # 0
    /\ \A k \in Keys : acct[k].reserved <= MaxUnits

\* Only what is in the events is charged.
ChargesRecorded ==
    \A k \in Keys :
        IsFiniteSet(acct[k].charged) /\ acct[k].charged \subseteq acct[k].settles

\* Retention is about to give back all that was left when it looked, and
\* nothing is added to a reservation after that.
DueCovers ==
    \A k \in Keys : due[k] > 0 =>
        Reserved(k) /\ acct[k].settled + due[k] >= acct[k].reserved

AccountInv == CallsOK /\ AccountsConserved /\ ChargesRecorded /\ DueCovers

\* As long as nothing was deleted, a key has a reservation, an evaluation and
\* no second one, all at once.
KeyInv ==
    deletes = 0 =>
        /\ \A k \in Keys : made[k] = 0 <=> ~Reserved(k)
        /\ \A k \in Keys : Reserved(k) => made[k] = 1 /\ k \in live
        /\ \A q \in Requests : pc[q] # "attaching"

\* What a request has read as used is not less than what is; what has expired
\* was reserved, and nothing runs on it.
QuotaInv ==
    timing = "calm" =>
        /\ QuotaKept
        /\ \A q \in Requests : pc[q] = "summing" => used[q] >= billed
        /\ \A k \in expired : Reserved(k) /\ open[k] = {}

\* What remains of a reservation is what the open runs of its key will take, and
\* neither an expired reservation nor one that retention closes has open runs.
RunsCovered(k) ==
    /\ IsFiniteSet(open[k])
    /\ open[k] \cap (acct[k].settles \cup acct[k].refunds) = {}
    /\ acct[k].settles = acct[k].charged
    /\ open[k] # {} => Reserved(k) /\ k \notin expired /\ Remaining(acct[k]) = Cardinality(open[k])
    /\ k \in expired => Reserved(k)
    /\ due[k] > 0 => k \in expired

ChargeInv == timing # "late" /\ deletes = 0 => \A k \in Keys : RunsCovered(k)
=============================================================================
