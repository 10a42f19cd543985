------------------------------ MODULE Billing ------------------------------
(***************************************************************************)
(* The subscription of one organization (app/billing_api.py): an owner     *)
(* opens a checkout at the payment provider, the browser has the payment   *)
(* verified, and the provider reports what becomes of the subscription in  *)
(* webhooks that arrive late, in any order and more than once.             *)
(*                                                                         *)
(* A request reads the subscription's row, talks to the provider, and      *)
(* commits later; nothing locks the row, and the ORM writes the columns    *)
(* that differ from what was read, so requests can overwrite each other.   *)
(***************************************************************************)
EXTENDS Integers, Sequences, FiniteSets

CONSTANTS
    PaidPlans,  \* the plans for sale
    Handlers,   \* requests the API can be working on at once
    Period,     \* ticks a payment buys
    Bounds      \* the instances considered: billing mode and bounds, see bound

\* States of a subscription or, the last one, of an order.
RemoteStates == {"created", "authenticated", "active", "pending", "halted",
                 "cancelled", "completed", "expired", "paid"}

ASSUME BillingAssumption ==
    /\ "trial" \notin PaidPlans
    /\ Period \in Nat \ {0}
    /\ \A b \in Bounds :
        /\ b.mode \in {"subscription", "one_time"} /\ b.plans \subseteq PaidPlans
        /\ b.lives \subseteq RemoteStates /\ b.clock \in Nat
        /\ b.paid \in BOOLEAN /\ (b.paid => b.mode = "subscription" /\ b.plans # {})
        /\ b.requests \in Nat /\ b.hooks \in Nat /\ b.objects \in Nat /\ b.events \in Nat /\ b.faults \in Nat

VARIABLES
    bound,      \* what the plans are sold as, and what this behaviour may contain:
                \* plans, provider states, ticks, objects, events, errors, requests
                \* and webhooks at work at once
    clock,      \* days, from 1
    row,        \* the organization's subscription; row.org = 0: none
    retention,  \* the plan its workspaces' retention_days were set for
    remote,     \* the provider's subscriptions or orders, in order of creation
    events,     \* the provider's events, in order of creation
    receipt,    \* billing_webhook_events.status of each event
    req,        \* the requests being worked on
    raced,      \* history: a request has overwritten what another one wrote meanwhile
    mixed,      \* history: ... and no webhook has written the row alone since
    overtaken,  \* history: two webhooks have read the same newest event
    granted,    \* how often an object has bought a period
    faults      \* crashes and errors so far

races == <<raced, mixed, overtaken>>
ledger == <<row, retention, granted, races>>
outside == <<clock, remote, events>>
billing == <<bound, ledger, outside, receipt, req, faults>>
-----------------------------------------------------------------------------
Plans == {"trial"} \cup PaidPlans

\* How a provider status is stored.  Mutant: past_due misspelt.
StatusOfTypo(s) == IF s = "pending" THEN "pastdue" ELSE s
StatusOf(s) ==
    CASE s = "pending" -> "past_due"
      [] s = "halted" -> "unpaid"
      [] s = "cancelled" -> "canceled"
      [] OTHER -> s

Ended == {"canceled", "completed", "expired"}
Statuses == RemoteStates \cup {"past_due", "unpaid", "canceled", "trialing", "trial_used"}

Rows == [org : Nat, id : Nat, customer : Nat, plan : Plans, status : Statuses,
         end : Nat, eventAt : Nat]
NewRow(o, status) ==
    [org |-> o, id |-> 0, customer |-> 0, plan |-> "trial", status |-> status,
     end |-> 0, eventAt |-> 0]

\* A null period end never passes.
Unexpired(r) == r.end = 0 \/ r.end > clock
Active(r) == r.status = "active" /\ Unexpired(r)
PaidActive(r) == r.plan # "trial" /\ Active(r)
Entitled(r) == IF PaidActive(r) THEN r.plan ELSE "trial"

RemoteObjects ==
    [org : Nat, plan : PaidPlans, state : RemoteStates, paid : BOOLEAN, end : Nat]
ProviderEvents == [object : Nat, state : RemoteStates, end : Nat, at : Nat]
Objects == 1..Len(remote)
EventIds == 1..Len(events)
Idle == [op |-> "idle", arg |-> 0, plan |-> "trial", status |-> "created", end |-> 0,
         read |-> NewRow(0, "trialing")]
Requests ==
    [op : {"idle", "checkout", "answered", "verify", "webhook"}, arg : Nat, plan : Plans,
     status : RemoteStates, end : Nat, read : Rows]

TypeOK ==
    /\ bound \in Bounds
    /\ clock \in Nat /\ faults \in Nat
    /\ raced \in BOOLEAN /\ mixed \in BOOLEAN /\ overtaken \in BOOLEAN
    /\ row \in Rows /\ retention \in Plans \cup {"default"}
    /\ remote \in Seq(RemoteObjects) /\ events \in Seq(ProviderEvents)
    /\ receipt \in Seq({"none", "received", "failed", "processed"})
    /\ Len(receipt) = Len(events)
    /\ granted \in Seq(Nat) /\ Len(granted) = Len(remote)
    /\ req \in [Handlers -> Requests]

\* A new organization, or one that has been paid for once.
Init ==
    LET p == CHOOSE q \in bound.plans : TRUE
        paid == [object |-> 1, state |-> "active", end |-> 1 + Period, at |-> 1] IN
    /\ bound \in Bounds
    /\ clock = 1 /\ faults = 0
    /\ raced = FALSE /\ mixed = FALSE /\ overtaken = FALSE
    /\ req = [h \in Handlers |-> Idle]
    /\ IF bound.paid
       THEN /\ remote = <<[org |-> 1, plan |-> p, state |-> "active", paid |-> TRUE,
                           end |-> paid.end]>>
            /\ events = <<paid>> /\ receipt = <<"processed">> /\ granted = <<0>>
            /\ row = [NewRow(1, "active") EXCEPT !.id = 1, !.plan = p, !.end = paid.end,
                                                !.eventAt = 1]
            /\ retention = p
       ELSE /\ remote = <<>> /\ events = <<>> /\ receipt = <<>> /\ granted = <<>>
            /\ row = NewRow(1, "trialing") /\ retention = "default"
-----------------------------------------------------------------------------
(* The provider *)

Moves ==
    {<<"created", "authenticated">>, <<"created", "active">>, <<"created", "expired">>,
     <<"authenticated", "active">>, <<"authenticated", "cancelled">>,
     <<"active", "active">>, <<"active", "pending">>, <<"active", "cancelled">>,
     <<"active", "completed">>, <<"pending", "active">>, <<"pending", "halted">>,
     <<"halted", "active">>, <<"halted", "cancelled">>}

Emit(i, state, end) ==
    /\ Len(events) < bound.events
    /\ events' = Append(events, [object |-> i, state |-> state, end |-> end, at |-> clock])
    /\ receipt' = Append(receipt, "none")

\* A subscription moves on, or is charged for another period.
Move(i) ==
    /\ bound.mode = "subscription"
    /\ \E s \in bound.lives :
        LET o == remote[i]
            end == IF s = "active" THEN clock + Period ELSE o.end
        IN  /\ <<o.state, s>> \in Moves
            /\ remote' = [remote EXCEPT ![i] =
                            [@ EXCEPT !.state = s, !.end = end,
                                      !.paid = o.paid \/ s = "active"]]
            /\ Emit(i, s, end)
    /\ UNCHANGED <<bound, clock, ledger, req, faults>>

\* An order is paid, which is not a subscription event.
Pay(i) ==
    /\ bound.mode = "one_time" /\ remote[i].state = "created"
    /\ remote' = [remote EXCEPT ![i].state = "paid", ![i].paid = TRUE]
    /\ Emit(i, "paid", 0)
    /\ UNCHANGED <<bound, clock, ledger, req, faults>>

Tick ==
    /\ clock < bound.clock
    /\ clock' = clock + 1
    /\ UNCHANGED <<bound, ledger, remote, events, receipt, req, faults>>
-----------------------------------------------------------------------------
(* Requests *)

Begin(h, op, arg, plan, end) ==
    /\ req[h] = Idle /\ row.org # 0
    /\ Cardinality({g \in Handlers : req[g] # Idle}) < bound.requests
    /\ req' = [req EXCEPT ![h] = [Idle EXCEPT !.op = op, !.arg = arg, !.plan = plan,
                                              !.end = end, !.read = row]]

Close(h) == req' = [req EXCEPT ![h] = Idle]

\* The commit of request h, which wants the row it read to become new: only
\* the columns that differ from what it read are written.  The row of a deleted
\* organization cannot be updated.
Write(h, new) ==
    LET read == req[h].read IN
    /\ row.org = read.org
    /\ row' = [f \in DOMAIN row |-> IF new[f] = read[f] THEN row[f] ELSE new[f]]
    /\ raced' = (raced \/ row # read)
    /\ mixed' = (row # read \/ (mixed /\ req[h].op # "webhook"))

\* An owner asks for a checkout; refused while a payment is active.  Mutant:
\* only while one without an end is.
PayableBeforeEnd(r) == ~(r.status = "active" /\ r.end = 0)
Payable(r) == ~Active(r)

BeginCheckout(h, p) ==
    /\ Payable(row)
    /\ Begin(h, "checkout", 0, p, 0)
    /\ UNCHANGED <<bound, ledger, outside, receipt, faults>>

\* A pending subscription to the same plan is used again.
Reusable(r, p) ==
    /\ bound.mode = "subscription" /\ r.id # 0
    /\ r.status \in {"created", "authenticated"}
    /\ remote[r.id].plan = p

\* The provider has answered the checkout about object i.
Answered(h, i, status) ==
    req' = [req EXCEPT ![h].op = "answered", ![h].arg = i, ![h].status = status]

\* The checkout asks for the pending subscription ...
LookUp(h) ==
    LET q == req[h] IN
    /\ q.op = "checkout" /\ Reusable(q.read, q.plan)
    /\ Answered(h, q.read.id, remote[q.read.id].state)
    /\ UNCHANGED <<bound, ledger, outside, receipt, faults>>

\* ... or has the provider create one, or an order.  If the request ends here, no
\* row knows of it.
Create(h) ==
    LET q == req[h]
        i == Len(remote) + 1 IN
    /\ q.op = "checkout" /\ ~Reusable(q.read, q.plan) /\ i <= bound.objects
    /\ remote' = Append(remote, [org |-> q.read.org, plan |-> q.plan, state |-> "created",
                                 paid |-> FALSE, end |-> 0])
    /\ granted' = Append(granted, 0)
    /\ Answered(h, i, "created")
    /\ UNCHANGED <<bound, row, retention, races, clock, events, receipt, faults>>

\* The provider's status is stored as it is, in its own words.
MarkCheckoutPending(r, i, status) ==
    [r EXCEPT !.id = i, !.customer = 0, !.plan = "trial", !.status = status, !.end = 0]

FinishCheckout(h) ==
    LET q == req[h] IN
    /\ q.op = "answered"
    /\ Write(h, MarkCheckoutPending(q.read, q.arg, q.status))
    /\ Close(h)
    /\ UNCHANGED <<bound, retention, granted, overtaken, outside, receipt, faults>>

\* The browser reports a payment: it must be for the object in the row, and the
\* provider must confirm it.  The answer to a repeated call for an order that
\* has been granted changes nothing.  Mutants: the first call is not remembered;
\* the payment is not looked up.
ReplayedNever(i) == FALSE
Replayed(i) == bound.mode = "one_time" /\ row.status = "active" /\ row.customer = i

ConfirmedUnseen(i) == TRUE
Confirmed(i) == remote[i].paid

BeginVerify(h, i) ==
    /\ row.id = i /\ ~Replayed(i) /\ Confirmed(i)
    /\ Begin(h, "verify", i, remote[i].plan, remote[i].end)
    /\ UNCHANGED <<bound, ledger, outside, receipt, faults>>

FinishVerify(h) ==
    LET q == req[h] IN
    /\ q.op = "verify"
    /\ Write(h, [q.read EXCEPT
            !.customer = IF bound.mode = "one_time" THEN q.arg ELSE 0,
            !.plan = q.plan, !.status = "active",
            !.end = IF bound.mode = "one_time" \/ q.end = 0 THEN clock + Period ELSE q.end])
    /\ retention' = q.plan
    /\ granted' = IF bound.mode = "one_time" THEN [granted EXCEPT ![q.arg] = @ + 1] ELSE granted
    /\ Close(h)
    /\ UNCHANGED <<bound, overtaken, outside, receipt, faults>>

\* The provider delivers an event, again if it has not been acknowledged.  The
\* receipt is committed before the event is applied.  Mutant: any receipt makes
\* the delivery a duplicate.
AwaitedOnce(e) == receipt[e] = "none"
Awaited(e) == receipt[e] # "processed"

Deliver(h, e) ==
    /\ Awaited(e)
    /\ Cardinality({g \in Handlers : req[g].op = "webhook"}) < bound.hooks
    /\ receipt' = [receipt EXCEPT ![e] = IF @ = "none" THEN "received" ELSE @]
    /\ req[h] = Idle
    /\ req' = [req EXCEPT ![h] = [Idle EXCEPT !.op = "webhook", !.arg = e, !.read = row]]
    /\ UNCHANGED <<bound, ledger, outside, faults>>

\* An event older than the last one applied is dropped.  Mutant: none is.
StaleNever(e, r) == FALSE
Stale(e, r) == r.eventAt # 0 /\ events[e].at < r.eventAt

Snapshot(e, r) ==
    LET status == StatusOf(events[e].state) IN
    [r EXCEPT !.id = events[e].object, !.eventAt = events[e].at, !.end = events[e].end,
              !.status = status,
              !.plan = IF status \in Ended THEN "trial"
                       ELSE remote[events[e].object].plan]

Apply(h) ==
    LET e == req[h].arg
        r == req[h].read IN
    /\ req[h].op = "webhook"
    /\ r.org = remote[events[e].object].org
    /\ IF events[e].state = "paid" \/ Stale(e, r)
       THEN UNCHANGED <<row, retention, raced, mixed>>
       ELSE Write(h, Snapshot(e, r)) /\ retention' = Snapshot(e, r).plan
    /\ overtaken' = (overtaken \/ row.eventAt # r.eventAt)
    /\ receipt' = [receipt EXCEPT ![e] = "processed"]
    /\ Close(h)
    /\ UNCHANGED <<bound, granted, outside, faults>>

\* The organization is gone, or the database fails: rolled back, and refused.
FailEvent(h) ==
    LET e == req[h].arg IN
    /\ req[h].op = "webhook"
    /\ IF req[h].read.org = remote[events[e].object].org /\ row.org = req[h].read.org
       THEN faults < bound.faults /\ faults' = faults + 1
       ELSE UNCHANGED faults
    /\ receipt' = [receipt EXCEPT ![e] = "failed"]
    /\ Close(h)
    /\ UNCHANGED <<bound, ledger, outside>>

\* The provider does not answer a request, its row is gone, or its process dies.
Abort(h) ==
    /\ req[h] # Idle
    /\ IF req[h].op = "webhook"
       THEN faults < bound.faults /\ faults' = faults + 1
       ELSE UNCHANGED faults
    /\ Close(h)
    /\ UNCHANGED <<bound, ledger, outside, receipt>>

BillingNext ==
    \/ \E i \in Objects : Move(i) \/ Pay(i)
    \/ Tick
    \/ \E h \in Handlers :
        \/ \E p \in bound.plans : BeginCheckout(h, p)
        \/ \E i \in Objects : BeginVerify(h, i)
        \/ \E e \in EventIds : Deliver(h, e)
        \/ LookUp(h) \/ Create(h) \/ FinishCheckout(h) \/ FinishVerify(h)
        \/ Apply(h) \/ FailEvent(h) \/ Abort(h)

Spec == Init /\ [][BillingNext]_billing
-----------------------------------------------------------------------------
MaxEvents == CHOOSE n \in {b.events : b \in Bounds} : \A b \in Bounds : b.events <= n

Processed == {e \in EventIds : receipt[e] = "processed" /\ events[e].state # "paid"
                               /\ remote[events[e].object].org = row.org}

\* "rejects stale subscription state" (README.md:135), "provider creation times
\* ... reject stale state changes" (operations.md:91): no event the organization
\* has processed is newer than the one its row shows.
NewestWins == \A e \in Processed : events[e].at <= row.eventAt

\* What the handler does keep: however late, repeated and reordered webhooks come,
\* and whatever checkouts and verifications they interleave with, the row goes back
\* to an older event only after two webhooks have overlapped.
NewestKept == ~overtaken => NewestWins

\* Nobody gets a plan that was not paid for.
NoFreePlan ==
    (~raced /\ PaidActive(row)) =>
        \E i \in Objects : remote[i].org = row.org /\ remote[i].paid /\ remote[i].plan = row.plan

\* One payment buys one period.
OnePeriodPerPayment ==
    (bound.mode = "one_time" /\ ~raced) => \A i \in Objects : granted[i] <= 1

\* The event that decides about a subscription: its newest, the only one of its
\* second, and newer than all that have come in of the organization's others.
Ruling(f) ==
    LET i == events[f].object IN
    \A e \in EventIds \ {f} :
        \/ events[e].object = i
        \/ receipt[e] # "none" /\ remote[events[e].object].org = remote[i].org
        => events[e].at < events[f].at

Running(i) == remote[i].state = "active" /\ remote[i].end > clock

\* A subscription that is paid and running gives the organization its plan once its
\* ruling event is processed: it is not deleted, and later checkouts, verifications
\* and older webhooks leave the plan alone.  What requests have overwritten before
\* does not matter, the next webhook sets it right.  (An event of another
\* subscription takes the row over, whatever it says: the handler does not ask
\* which subscription the row is about.  Then the other one's events rule.)
PaidPlanHonoured ==
    \A f \in EventIds :
        LET i == events[f].object IN
        receipt[f] = "processed" /\ Ruling(f) /\ Running(i) /\ ~overtaken =>
            /\ ~raced => row.org = remote[i].org
            /\ ~mixed /\ row.org = remote[i].org =>
                  Entitled(row) = remote[i].plan /\ retention = remote[i].plan

\* Every event is processed in the end, whatever fails on the way, or its
\* organization is gone.
EventsProcessed ==
    \A e \in 1..MaxEvents :
        []<>(e \in EventIds => \/ receipt[e] = "processed"
                               \/ remote[events[e].object].org # row.org)
=============================================================================
