------------------------- MODULE OrganizationProofs -------------------------
(***************************************************************************)
(* Theorems about one person's organizations and their subscription, for   *)
(* any plans, people, requests and bounds.  The invariant has one part     *)
(* about the subscription (Books) and one about the members (House).       *)
(***************************************************************************)
EXTENDS Organization, FiniteSetTheorems, TLAPS
-----------------------------------------------------------------------------
\* The object a row names is one of the row's organization.
Own(r) == r.id # 0 => r.id \in Objects /\ remote[r.id].org = r.org

RequestOK(q) ==
    /\ Own(q.read) /\ q.read.org \in 0..founded
    /\ q.op \in {"checkout", "answered", "verify"} => q.read.org # 0
    /\ q.op = "checkout" => q.plan \in PaidPlans
    /\ q.op = "answered" => q.arg \in Objects /\ remote[q.arg].org = q.read.org
    /\ q.op = "verify" =>
        /\ q.arg \in Objects /\ q.arg = q.read.id
        /\ remote[q.arg].paid /\ q.plan = remote[q.arg].plan
        /\ ~(bound.mode = "one_time" /\ q.read.status = "active" /\ q.read.customer = q.arg)
    /\ q.op = "webhook" => q.arg \in EventIds

\* What rows, requests and events say about each other.
Linked ==
    /\ \A i \in Objects : remote[i].org \in 1..founded
    /\ \A e \in EventIds :
        /\ events[e].object \in Objects
        /\ events[e].state = "active" => remote[events[e].object].paid
        /\ bound.mode = "one_time" => events[e].state = "paid"
    /\ founded \in Nat /\ row.org \in 0..founded /\ Own(row)
    /\ \A h \in Handlers : RequestOK(req[h])

\* NoFreePlan, of payments whose period is over too.
PaidRow ==
    (~raced /\ row.plan # "trial" /\ row.status = "active") =>
        \E i \in Objects : remote[i].org = row.org /\ remote[i].paid /\ remote[i].plan = row.plan

\* The order a checkout has created is no one else's until the checkout commits.
Fresh(h) ==
    LET i == req[h].arg IN
    /\ granted[i] = 0 /\ row.id # i
    /\ \A g \in Handlers : req[g].read.id # i
    /\ \A g \in Handlers \ {h} : req[g].op = "answered" => req[g].arg # i

\* OnePeriodPerPayment, and why an order that has been granted is replayed.
GrantedOnce ==
    bound.mode = "one_time" =>
        /\ \A h \in Handlers : req[h].op = "answered" => Fresh(h)
        /\ ~raced => \A i \in Objects :
            /\ granted[i] <= 1
            /\ (granted[i] # 0 /\ row.id = i) => row.status = "active" /\ row.customer = i

\* NewestWins, until two webhooks overlap.
Newest == ~overtaken => \A e \in Processed : events[e].at <= row.eventAt

Books == TypeOK /\ Linked /\ PaidRow /\ GrantedOnce /\ Newest

\* No open call is about the founder's membership.
CallsSpareFounder ==
    \A h \in Handlers : call[h] # NoCall =>
        /\ call[h].seen.row.org \in 1..founded
        /\ (call[h].op \in {"role", "remove"} /\ call[h].seen.row.org = row.org /\ ~gaveUp)
            => call[h].person # Founder

House == HouseTypeOK /\ CallsSpareFounder /\ FounderKeepsOrganization

OrgInv == Books /\ House
-----------------------------------------------------------------------------
(* Rows *)

\* A commit leaves a row, with each column the one read or the one wanted.
LEMMA MergedRow ==
    ASSUME NEW a \in Rows, NEW b \in Rows, NEW n \in Rows,
           NEW m, m = [f \in DOMAIN a |-> IF n[f] = b[f] THEN a[f] ELSE n[f]]
    PROVE  /\ m \in Rows
           /\ m.org = IF n.org = b.org THEN a.org ELSE n.org
           /\ m.id = IF n.id = b.id THEN a.id ELSE n.id
           /\ m.eventAt = IF n.eventAt = b.eventAt THEN a.eventAt ELSE n.eventAt
           /\ m.plan \in {a.plan, n.plan}
           /\ a = b => m = n
BY DEF Rows

\* Every provider state is stored as a status, and only active as active.
LEMMA StatusType == ASSUME NEW s \in RemoteStates PROVE StatusOf(s) \in Statuses
BY DEF StatusOf, Statuses, RemoteStates

LEMMA StatusActive ==
    ASSUME NEW s \in RemoteStates, StatusOf(s) = "active" PROVE s = "active"
BY DEF StatusOf, RemoteStates

LEMMA NewRowType ==
    ASSUME NEW o \in Nat, NEW s \in Statuses
    PROVE  /\ NewRow(o, s) \in Rows
           /\ NewRow(o, s).org = o /\ NewRow(o, s).id = 0 /\ NewRow(o, s).plan = "trial"
           /\ NewRow(o, s).eventAt = 0 /\ NewRow(o, s).status = s
BY DEF NewRow, Rows, Plans

LEMMA IdleType ==
    /\ Idle \in Requests /\ Idle.op = "idle"
    /\ Idle.read.id = 0 /\ Idle.read.org = 0 /\ Idle.read.eventAt = 0
<1>1. NewRow(0, "trialing") \in Rows /\ "created" \in RemoteStates
  BY NewRowType DEF Statuses, RemoteStates
<1> QED
  BY <1>1 DEF Idle, Requests, Plans, NewRow

LEMMA ObjectType ==
    ASSUME TypeOK, NEW i \in Objects
    PROVE  /\ remote[i] \in RemoteObjects /\ i \in Nat /\ remote[i].plan \in PaidPlans
           /\ remote[i].state \in RemoteStates /\ remote[i].end \in Nat
<1>1. remote[i] \in RemoteObjects /\ i \in Nat
  BY DEF TypeOK, Objects
<1> QED
  BY <1>1 DEF RemoteObjects

LEMMA EventType ==
    ASSUME TypeOK, NEW e \in EventIds
    PROVE  /\ events[e].state \in RemoteStates /\ events[e].object \in Nat
           /\ events[e].end \in Nat /\ events[e].at \in Nat
<1>1. events[e] \in ProviderEvents
  BY DEF TypeOK, EventIds
<1> QED
  BY <1>1 DEF ProviderEvents

\* A provider's object stays what it is, and new ones may come.
ObjectsKept ==
    /\ Objects \subseteq Objects'
    /\ \A i \in Objects :
        /\ remote'[i].org = remote[i].org /\ remote'[i].plan = remote[i].plan
        /\ remote[i].paid => remote'[i].paid
EventsKept ==
    /\ EventIds \subseteq EventIds'
    /\ \A e \in EventIds : events'[e] = events[e] /\ receipt'[e] = receipt[e]
-----------------------------------------------------------------------------
(* The provider *)

\* What a step of the provider does to what the organization has stored.
LEMMA ProviderKeepsBooks ==
    ASSUME Books, founded' = founded, UNCHANGED <<bound, ledger, req>>, TypeOK',
           ObjectsKept, Objects' = Objects, EventsKept,
           \A e \in EventIds' : e \in EventIds \/
                /\ receipt'[e] = "none" /\ events'[e].object \in Objects
                /\ events'[e].state = "active" => remote'[events'[e].object].paid
                /\ bound.mode = "one_time" => events'[e].state = "paid"
    PROVE  Books'
<1>1. Linked'
  <2> USE DEF Books, Linked, ledger
  <2>1. \A r : Own(r) => Own(r)'
    BY DEF Own, ObjectsKept
  <2>2. \A h \in Handlers : RequestOK(req[h])'
    <3>1. \A h \in Handlers : RequestOK(req[h])
      OBVIOUS
    <3> QED
      BY <2>1, <3>1 DEF RequestOK, ObjectsKept, EventsKept
  <2>3. \A e \in EventIds' : events'[e].object \in Objects'
    BY DEF EventsKept
  <2>4. \A e \in EventIds' : events'[e].state = "active" => remote'[events'[e].object].paid
    BY DEF EventsKept, ObjectsKept
  <2> QED
    BY <2>1, <2>2, <2>3, <2>4, Zenon DEF EventsKept, ObjectsKept
<1>2. PaidRow'
  BY Zenon DEF Books, PaidRow, ledger, races, ObjectsKept
<1>3. GrantedOnce'
  BY Zenon DEF Books, GrantedOnce, Fresh, ledger, races
<1>4. Newest'
  <2>1. Processed' \subseteq Processed
    BY <1>1 DEF Books, Processed, ledger, ObjectsKept, EventsKept, Linked
  <2>2. \A e \in Processed : events'[e].at = events[e].at
    BY DEF EventsKept, Processed
  <2> QED
    BY <2>1, <2>2 DEF Books, Newest, ledger, races
<1> QED
  BY <1>1, <1>2, <1>3, <1>4 DEF Books

LEMMA Emitted ==
    ASSUME TypeOK, NEW i \in Objects, NEW s \in RemoteStates, NEW end \in Nat, Emit(i, s, end)
    PROVE  /\ events' \in Seq(ProviderEvents)
           /\ receipt' \in Seq({"none", "received", "failed", "processed"})
           /\ Len(receipt') = Len(events') /\ EventsKept
           /\ \A e \in EventIds' : e \in EventIds \/
                /\ receipt'[e] = "none" /\ events'[e].object = i /\ events'[e].state = s
<1> DEFINE new == [object |-> i, state |-> s, end |-> end, at |-> clock]
<1>1. /\ new \in ProviderEvents
      /\ events' = Append(events, new) /\ receipt' = Append(receipt, "none")
      /\ new.object = i /\ new.state = s
  BY DEF TypeOK, Objects, Emit, ProviderEvents
<1>2. /\ events \in Seq(ProviderEvents)
      /\ receipt \in Seq({"none", "received", "failed", "processed"})
      /\ Len(receipt) = Len(events)
  BY DEF TypeOK
<1> HIDE DEF new
<1> QED
  BY <1>1, <1>2 DEF EventsKept, EventIds

LEMMA MoveKeeps ==
    ASSUME Books, BillingAssumption, founded' = founded, NEW i \in Objects, Move(i)
    PROVE  Books' /\ ObjectsKept
<1>1. TypeOK /\ bound \in Bounds /\ bound.lives \subseteq RemoteStates
  BY DEF Books, TypeOK, BillingAssumption
<1>2. PICK s \in bound.lives :
        LET o == remote[i]
            end == IF s = "active" THEN clock + Period ELSE o.end
        IN  /\ remote' = [remote EXCEPT ![i] = [@ EXCEPT !.state = s, !.end = end,
                                                        !.paid = o.paid \/ s = "active"]]
            /\ Emit(i, s, end)
  BY Zenon DEF Move
<1> DEFINE end == IF s = "active" THEN clock + Period ELSE remote[i].end
<1>3. remote[i] \in RemoteObjects
  BY <1>1 DEF TypeOK, Objects
<1>4. end \in Nat
  BY <1>1, <1>3 DEF TypeOK, BillingAssumption, RemoteObjects
<1> DEFINE new == [[[remote[i] EXCEPT !.state = s] EXCEPT !.end = end]
                        EXCEPT !.paid = remote[i].paid \/ s = "active"]
<1>a. /\ new \in RemoteObjects /\ new.org = remote[i].org /\ new.plan = remote[i].plan
      /\ (remote[i].paid => new.paid) /\ (s = "active" => new.paid)
  BY <1>1, <1>3, <1>4 DEF RemoteObjects, RemoteStates
<1>b. remote' = [remote EXCEPT ![i] = new]
  BY <1>2
<1> HIDE DEF new
<1>5. /\ remote' \in Seq(RemoteObjects)
      /\ Objects' = Objects /\ ObjectsKept /\ (s = "active" => remote'[i].paid)
      /\ Len(remote') = Len(remote)
  BY <1>1, <1>a, <1>b DEF TypeOK, Objects, ObjectsKept
<1>6. Emit(i, s, end)
  BY <1>2
<1>7. bound.mode = "subscription" /\ UNCHANGED <<bound, clock, ledger, req, faults>>
  BY DEF Move
<1> HIDE DEF end
<1>8. TypeOK'
  BY <1>1, <1>4, <1>5, <1>6, <1>7, Emitted DEF TypeOK, ledger, races
<1>9. /\ EventsKept
      /\ \A e \in EventIds' : e \in EventIds \/
            /\ receipt'[e] = "none" /\ events'[e].object = i /\ events'[e].state = s
  BY <1>1, <1>4, <1>6, Emitted
<1> QED
  BY <1>5, <1>7, <1>8, <1>9, ProviderKeepsBooks

LEMMA PayKeeps ==
    ASSUME Books, BillingAssumption, founded' = founded, NEW i \in Objects, Pay(i)
    PROVE  Books' /\ ObjectsKept
<1>1. TypeOK
  BY DEF Books
<1>2. remote[i] \in RemoteObjects
  BY <1>1 DEF TypeOK, Objects
<1> DEFINE new == [[remote[i] EXCEPT !.state = "paid"] EXCEPT !.paid = TRUE]
<1>a. /\ new \in RemoteObjects /\ new.org = remote[i].org /\ new.plan = remote[i].plan /\ new.paid
  BY <1>2 DEF RemoteObjects, RemoteStates
<1>b. remote' = [remote EXCEPT ![i] = new]
  BY <1>1, <1>2 DEF Pay, TypeOK, RemoteObjects
<1> HIDE DEF new
<1>3. /\ remote' \in Seq(RemoteObjects)
      /\ Objects' = Objects /\ ObjectsKept /\ Len(remote') = Len(remote)
  BY <1>1, <1>a, <1>b DEF TypeOK, Objects, ObjectsKept
<1>4. Emit(i, "paid", 0) /\ UNCHANGED <<bound, clock, ledger, req, faults>>
  BY DEF Pay
<1>5. "paid" \in RemoteStates /\ "paid" # "active"
  BY DEF RemoteStates
<1>6. TypeOK'
  BY <1>1, <1>3, <1>4, <1>5, Emitted DEF TypeOK, ledger, races
<1>7. /\ EventsKept
      /\ \A e \in EventIds' : e \in EventIds \/
            /\ receipt'[e] = "none" /\ events'[e].object = i /\ events'[e].state = "paid"
  BY <1>1, <1>4, <1>5, Emitted
<1> QED
  BY <1>3, <1>4, <1>5, <1>6, <1>7, ProviderKeepsBooks

LEMMA TickKeeps ==
    ASSUME Books, founded' = founded, Tick
    PROVE  Books' /\ ObjectsKept
<1>1. TypeOK /\ UNCHANGED <<bound, ledger, remote, events, receipt, req, faults>> /\ clock' = clock + 1
  BY DEF Books, Tick
<1>2. TypeOK'
  BY <1>1 DEF TypeOK, ledger, races
<1>3. ObjectsKept /\ Objects' = Objects /\ EventsKept /\ EventIds' = EventIds
  BY <1>1 DEF ObjectsKept, EventsKept, Objects, EventIds
<1> QED
  BY <1>1, <1>2, <1>3, ProviderKeepsBooks
-----------------------------------------------------------------------------
(* Requests *)

\* A request that begins or ends and leaves the organization's data alone.
LEMMA RequestKeepsBooks ==
    ASSUME Books, UNCHANGED <<bound, ledger, outside>>, founded' = founded,
           NEW h \in Handlers, NEW q \in Requests, req' = [req EXCEPT ![h] = q], RequestOK(q),
           q.op # "answered" \/ bound.mode # "one_time", q.read = row \/ q.read.id = 0 \/ q.read = req[h].read,
           receipt' \in Seq({"none", "received", "failed", "processed"}),
           Len(receipt') = Len(receipt), faults' \in Nat,
           \A e \in EventIds : receipt'[e] = "processed" => receipt[e] = "processed"
    PROVE  Books'
<1>1. TypeOK'
  BY DEF Books, TypeOK, ledger, races, outside
<1>2. Linked'
  <2>1. \A r : Own(r)' <=> Own(r)
    BY DEF Own, Objects, outside
  <2>2. \A g \in Handlers : RequestOK(req[g])'
    <3>1. \A g \in Handlers : RequestOK(req'[g])
      BY DEF Books, TypeOK, Linked
    <3>2. \A g \in Handlers : RequestOK(req'[g]) => RequestOK(req[g])'
      BY <2>1, Zenon DEF RequestOK, outside, Objects, EventIds
    <3> QED
      BY <3>1, <3>2
  <2> QED
    BY <2>1, <2>2 DEF Books, Linked, outside, ledger, Objects, EventIds
<1>3. PaidRow'
  BY Zenon DEF Books, PaidRow, ledger, races, outside, Objects
<1>4. GrantedOnce'
  <2>1. SUFFICES ASSUME bound.mode = "one_time", NEW g \in Handlers, req'[g].op = "answered"
                 PROVE  Fresh(g)'
    BY DEF Books, GrantedOnce, ledger, races, outside, Objects
  <2>2. /\ req'[g] = req[g] /\ g # h /\ req'[h] = q
        /\ \A k \in Handlers \ {h} : req'[k] = req[k]
    BY <2>1 DEF Books, TypeOK
  <2>3. Fresh(g) /\ req[g].arg # 0
    BY <2>1, <2>2 DEF Books, GrantedOnce, Linked, RequestOK, Objects
  <2>4. q.op # "answered" /\ q.read.id # req[g].arg
    BY <2>1, <2>3 DEF Fresh
  <2> QED
    BY <2>2, <2>3, <2>4 DEF Fresh, ledger, races
<1>5. Newest'
  <2>1. Processed' \subseteq Processed
    BY DEF Processed, ledger, outside, EventIds
  <2> QED
    BY <2>1 DEF Books, Newest, ledger, races, outside
<1> QED
  BY <1>1, <1>2, <1>3, <1>4, <1>5 DEF Books

LEMMA BeginCheckoutKeeps ==
    ASSUME Books, BillingAssumption, founded' = founded,
           NEW h \in Handlers, NEW p \in bound.plans, BeginCheckout(h, p)
    PROVE  Books'
<1> DEFINE q == [Idle EXCEPT !.op = "checkout", !.arg = 0, !.plan = p, !.end = 0, !.read = row]
<1>1. p \in PaidPlans /\ row \in Rows /\ row.org # 0 /\ row.org \in 0..founded /\ Own(row)
  BY DEF Books, TypeOK, Linked, BillingAssumption, BeginCheckout, Begin
<1>2. q \in Requests /\ RequestOK(q) /\ q.op # "answered" /\ q.read = row
  BY <1>1, IdleType DEF Requests, Plans, RequestOK
<1>3. /\ req' = [req EXCEPT ![h] = q]
      /\ UNCHANGED <<bound, ledger, outside, receipt, faults>>
  BY Zenon DEF BeginCheckout, Begin
<1> HIDE DEF q
<1>4. /\ receipt' \in Seq({"none", "received", "failed", "processed"})
      /\ Len(receipt') = Len(receipt) /\ faults' \in Nat
  BY <1>3 DEF Books, TypeOK
<1> QED
  BY <1>2, <1>3, <1>4, RequestKeepsBooks

LEMMA BeginVerifyKeeps ==
    ASSUME Books, BillingAssumption, founded' = founded,
           NEW h \in Handlers, NEW i \in Objects, BeginVerify(h, i)
    PROVE  Books'
<1> DEFINE q == [Idle EXCEPT !.op = "verify", !.arg = i, !.plan = remote[i].plan,
                             !.end = remote[i].end, !.read = row]
<1>1. remote[i] \in RemoteObjects /\ i \in Nat
  BY DEF Books, TypeOK, Objects
<1>2. row \in Rows /\ row.org # 0 /\ row.org \in 0..founded /\ Own(row)
  BY DEF Books, TypeOK, Linked, BeginVerify, Begin
<1>3. row.id = i /\ ~Replayed(i) /\ remote[i].paid
  BY DEF BeginVerify, Confirmed
<1>4. q \in Requests /\ RequestOK(q) /\ q.op # "answered" /\ q.read = row
  BY <1>1, <1>2, <1>3, IdleType DEF Requests, Plans, RequestOK, RemoteObjects, Replayed
<1>5. /\ req' = [req EXCEPT ![h] = q]
      /\ UNCHANGED <<bound, ledger, outside, receipt, faults>>
  BY Zenon DEF BeginVerify, Begin
<1> HIDE DEF q
<1>6. /\ receipt' \in Seq({"none", "received", "failed", "processed"})
      /\ Len(receipt') = Len(receipt) /\ faults' \in Nat
  BY <1>5 DEF Books, TypeOK
<1> QED
  BY <1>4, <1>5, <1>6, RequestKeepsBooks

LEMMA DeliverKeeps ==
    ASSUME Books, founded' = founded,
           NEW h \in Handlers, NEW e \in EventIds, Deliver(h, e)
    PROVE  Books'
<1> DEFINE q == [Idle EXCEPT !.op = "webhook", !.arg = e, !.read = row]
<1>1. row \in Rows /\ row.org \in 0..founded /\ Own(row) /\ e \in Nat
  BY DEF Books, TypeOK, Linked, EventIds
<1>2. q \in Requests /\ RequestOK(q) /\ q.op = "webhook" /\ q.read = row
  BY <1>1, IdleType DEF Requests, RequestOK
<1>3. req' = [req EXCEPT ![h] = q] /\ UNCHANGED <<bound, ledger, outside, faults>>
  BY Zenon DEF Deliver
<1>5. receipt' = [receipt EXCEPT ![e] = IF receipt[e] = "none" THEN "received" ELSE receipt[e]]
  BY DEF Deliver
<1>6. /\ receipt' \in Seq({"none", "received", "failed", "processed"})
      /\ Len(receipt') = Len(receipt) /\ faults' \in Nat
      /\ \A f \in EventIds : receipt'[f] = "processed" => receipt[f] = "processed"
  BY <1>3, <1>5 DEF Books, TypeOK, EventIds
<1> HIDE DEF q
<1> QED
  BY <1>2, <1>3, <1>6, RequestKeepsBooks

LEMMA AbortKeeps ==
    ASSUME Books, founded' = founded, NEW h \in Handlers, Abort(h) \/ FailEvent(h)
    PROVE  Books'
<1>1. req' = [req EXCEPT ![h] = Idle] /\ UNCHANGED <<bound, ledger, outside>>
  BY Zenon DEF Abort, FailEvent, Close
<1>2. Idle \in Requests /\ RequestOK(Idle) /\ Idle.op # "answered" /\ Idle.read.id = 0
  BY IdleType DEF RequestOK, Own, Books, Linked
<1>3. /\ receipt' \in Seq({"none", "received", "failed", "processed"})
      /\ Len(receipt') = Len(receipt)
      /\ \A f \in EventIds : receipt'[f] = "processed" => receipt[f] = "processed"
  <2>1. receipt' = receipt \/ (req[h].arg \in EventIds /\ receipt' = [receipt EXCEPT ![req[h].arg] = "failed"])
    BY Zenon DEF Abort, FailEvent, Books, Linked, RequestOK
  <2>2. receipt \in Seq({"none", "received", "failed", "processed"}) /\ EventIds = 1..Len(receipt)
    BY DEF Books, TypeOK, EventIds
  <2>3. ASSUME NEW e \in EventIds, receipt' = [receipt EXCEPT ![e] = "failed"]
        PROVE  /\ receipt' \in Seq({"none", "received", "failed", "processed"})
               /\ Len(receipt') = Len(receipt)
               /\ \A f \in EventIds : receipt'[f] = "processed" => receipt[f] = "processed"
    BY <2>2, <2>3
  <2> QED
    BY <2>1, <2>2, <2>3
<1>4. faults' \in Nat
  BY DEF Books, TypeOK, Abort, FailEvent
<1> QED
  BY <1>1, <1>2, <1>3, <1>4, RequestKeepsBooks

\* What a commit makes of the row.
LEMMA Written ==
    ASSUME TypeOK, NEW h \in Handlers, NEW new \in Rows, new.org = req[h].read.org, Write(h, new)
    PROVE  /\ row' \in Rows /\ row.org = req[h].read.org /\ row'.org = row.org
           /\ row'.id \in {row.id, new.id} /\ row'.plan \in {row.plan, new.plan}
           /\ row'.eventAt = IF new.eventAt = req[h].read.eventAt THEN row.eventAt ELSE new.eventAt
           /\ raced' \in BOOLEAN /\ mixed' \in BOOLEAN
           /\ ~raced' => ~raced /\ row = req[h].read /\ row' = new
           /\ ~mixed' => row = req[h].read /\ row' = new /\ (req[h].op # "webhook" => ~mixed)
           /\ mixed' => raced' \/ mixed
<1>1. row \in Rows /\ req[h].read \in Rows
  BY DEF TypeOK, Requests
<1>2. /\ row.org = req[h].read.org
      /\ row' = [f \in DOMAIN row |-> IF new[f] = req[h].read[f] THEN row[f] ELSE new[f]]
      /\ raced' = (raced \/ row # req[h].read)
      /\ mixed' = (row # req[h].read \/ (mixed /\ req[h].op # "webhook"))
  BY DEF Write
<1> DEFINE m == [f \in DOMAIN row |-> IF new[f] = req[h].read[f] THEN row[f] ELSE new[f]]
<1>3. /\ m \in Rows
      /\ m.org = IF new.org = req[h].read.org THEN row.org ELSE new.org
      /\ m.id = IF new.id = req[h].read.id THEN row.id ELSE new.id
      /\ m.eventAt = IF new.eventAt = req[h].read.eventAt THEN row.eventAt ELSE new.eventAt
      /\ m.plan \in {row.plan, new.plan}
      /\ row = req[h].read => m = new
  BY <1>1, MergedRow
<1>4. row' = m
  BY <1>2
<1> HIDE DEF m
<1>5. /\ raced' \in BOOLEAN /\ (~raced' => ~raced /\ row = req[h].read)
      /\ mixed' \in BOOLEAN /\ (~mixed' => row = req[h].read /\ (req[h].op # "webhook" => ~mixed))
      /\ mixed' => raced' \/ mixed
  BY <1>2 DEF TypeOK
<1> QED
  BY <1>2, <1>3, <1>4, <1>5

\* A request that commits the row it wants: what is left to show of it.
LEMMA CommitKeepsBooks ==
    ASSUME Books, UNCHANGED <<bound, outside, overtaken, receipt, faults>>, founded' = founded,
           NEW h \in Handlers, req' = [req EXCEPT ![h] = Idle],
           NEW new \in Rows, new.org = req[h].read.org, Write(h, new),
           new.id # 0 => new.id \in Objects /\ remote[new.id].org = new.org,
           retention' \in Plans \cup {"default"},
           granted' \in Seq(Nat), Len(granted') = Len(remote)
    PROVE  TypeOK' /\ Linked'
<1>0. /\ clock' = clock /\ remote' = remote /\ events' = events
      /\ Objects' = Objects /\ EventIds' = EventIds
  BY DEF outside, Objects, EventIds
<1>1. TypeOK'
  BY <1>0, Written, IdleType DEF Books, TypeOK
<1>2. Linked'
  <2>1. \A r : Own(r) => Own(r)'
    BY <1>0 DEF Own
  <2>2. \A g \in Handlers : RequestOK(req'[g])
    BY IdleType DEF Books, TypeOK, Linked, RequestOK, Own
  <2>3. \A g \in Handlers : RequestOK(req'[g]) => RequestOK(req[g])'
    BY <1>0, <2>1, Zenon DEF RequestOK
  <2>4. Own(row)'
    <3>1. row'.org = row.org /\ row'.id \in {row.id, new.id} /\ new.org = row.org
      BY Written DEF Books
    <3> QED
      BY <1>0, <3>1 DEF Own, Books, Linked
  <2>5. row'.org \in 0..founded'
    BY Written DEF Books, Linked
  <2> QED
    BY <1>0, <2>2, <2>3, <2>4, <2>5 DEF Books, Linked
<1> QED
  BY <1>1, <1>2

\* The row of a commit other than a webhook's keeps the time of its event.
LEMMA CommitKeepsNewest ==
    ASSUME Books, UNCHANGED <<events, receipt, overtaken>>,
           row'.org = row.org, row'.eventAt = row.eventAt, ObjectsKept
    PROVE  Newest'
<1>1. Processed' \subseteq Processed
  BY DEF Processed, EventIds, Books, Linked, ObjectsKept
<1> QED
  BY <1>1 DEF Books, Newest

\* The orders that other checkouts have created are left alone.
LEMMA CommitKeepsFresh ==
    ASSUME Books, bound.mode = "one_time", NEW h \in Handlers, req' = [req EXCEPT ![h] = Idle],
           NEW g \in Handlers, req'[g].op = "answered",
           row'.id \in {row.id, req[h].read.id} \/ (req[h].op = "answered" /\ row'.id \in {row.id, req[h].arg}),
           \A i \in Objects : granted'[i] = granted[i] \/ (req[h].op = "verify" /\ i = req[h].arg)
    PROVE  Fresh(g)'
<1>1. g # h /\ req'[g] = req[g] /\ req'[h] = Idle /\ \A k \in Handlers \ {h} : req'[k] = req[k]
  BY IdleType DEF Books, TypeOK
<1>2. Fresh(g) /\ req[g].arg \in Objects /\ req[g].arg # 0
  BY <1>1 DEF Books, GrantedOnce, Linked, RequestOK, Objects
<1>3. req[h].op = "verify" => req[h].arg # req[g].arg
  BY <1>2 DEF Books, Linked, RequestOK, Fresh
<1>4. row'.id # req[g].arg
  BY <1>1, <1>2 DEF Fresh
<1> QED
  BY <1>1, <1>2, <1>3, <1>4, IdleType DEF Fresh

\* The provider is asked for the pending subscription: that is all.
LEMMA LookUpKeeps ==
    ASSUME Books, founded' = founded, NEW h \in Handlers, LookUp(h)
    PROVE  Books'
<1> DEFINE i == req[h].read.id
           q == [req[h] EXCEPT !.op = "answered", !.arg = i, !.status = remote[i].state]
<1>1. /\ req[h] \in Requests /\ req[h].op = "checkout" /\ RequestOK(req[h])
      /\ i # 0 /\ bound.mode = "subscription"
  BY DEF LookUp, Reusable, Books, TypeOK, Linked
<1>2. i \in Objects /\ i \in Nat /\ remote[i].org = req[h].read.org /\ remote[i].state \in RemoteStates
  BY <1>1, ObjectType DEF RequestOK, Own, Objects, Books
<1>3. /\ q \in Requests /\ q.op = "answered" /\ q.arg = i /\ q.read = req[h].read
      /\ q.status = remote[i].state
  BY <1>1, <1>2 DEF Requests
<1>4. req' = [req EXCEPT ![h] = q] /\ UNCHANGED <<bound, ledger, outside, receipt, faults>>
  <2>1. /\ req' = [req EXCEPT ![h].op = "answered", ![h].arg = i, ![h].status = remote[i].state]
        /\ UNCHANGED <<bound, ledger, outside, receipt, faults>>
    BY DEF LookUp, Answered
  <2>2. req' = [req EXCEPT ![h] = q]
    BY <2>1, <1>1 DEF Books, TypeOK, Requests
  <2> QED
    BY <2>1, <2>2
<1> HIDE DEF q, i
<1>5. RequestOK(q)
  BY <1>1, <1>2, <1>3 DEF RequestOK
<1>6. /\ receipt' \in Seq({"none", "received", "failed", "processed"})
      /\ Len(receipt') = Len(receipt) /\ faults' \in Nat
  BY <1>4 DEF Books, TypeOK
<1> QED
  BY <1>1, <1>3, <1>4, <1>5, <1>6, RequestKeepsBooks

\* What a new object of the provider leaves as it was.
LEMMA Created ==
    ASSUME Books, NEW h \in Handlers, Create(h)
    PROVE  LET i == Len(remote) + 1 IN
           /\ req[h].op = "checkout" /\ UNCHANGED <<bound, row, retention, races, clock, events, receipt, faults>>
           /\ i \in Nat /\ i \notin Objects /\ Objects' = Objects \cup {i}
           /\ remote' \in Seq(RemoteObjects) /\ granted' \in Seq(Nat) /\ Len(granted') = Len(remote')
           /\ remote'[i].org = req[h].read.org /\ granted'[i] = 0
           /\ \A j \in Objects : remote'[j] = remote[j] /\ granted'[j] = granted[j]
           /\ ObjectsKept
           /\ req' \in [Handlers -> Requests]
           /\ req'[h].op = "answered" /\ req'[h].arg = i /\ req'[h].read = req[h].read
           /\ \A g \in Handlers \ {h} : req'[g] = req[g]
<1> DEFINE i == Len(remote) + 1
           o == [org |-> req[h].read.org, plan |-> req[h].plan, state |-> "created",
                 paid |-> FALSE, end |-> 0]
           q == [req[h] EXCEPT !.op = "answered", !.arg = i, !.status = "created"]
<1>1. /\ req[h] \in Requests /\ req[h].op = "checkout" /\ req[h].plan \in PaidPlans
      /\ remote \in Seq(RemoteObjects) /\ granted \in Seq(Nat) /\ Len(granted) = Len(remote)
      /\ req \in [Handlers -> Requests]
  BY DEF Books, TypeOK, Linked, RequestOK, Create
<1>2. /\ remote' = Append(remote, o) /\ granted' = Append(granted, 0)
      /\ req' = [req EXCEPT ![h].op = "answered", ![h].arg = i, ![h].status = "created"]
      /\ UNCHANGED <<bound, row, retention, races, clock, events, receipt, faults>>
  BY DEF Create, Answered
<1>3. o \in RemoteObjects /\ o.org = req[h].read.org
  BY <1>1 DEF RemoteObjects, RemoteStates, Requests, Rows
<1>4. i \in Nat \ {0} /\ Objects = 1..(i - 1)
  BY <1>1 DEF Objects
<1>5. q \in Requests /\ q.op = "answered" /\ q.arg = i /\ q.read = req[h].read
  BY <1>1, <1>4 DEF Requests, RemoteStates
<1>6. req' = [req EXCEPT ![h] = q]
  BY <1>1, <1>2 DEF Requests
<1> HIDE DEF o, q
<1>7. /\ remote' \in Seq(RemoteObjects) /\ Len(remote') = i /\ remote'[i] = o
      /\ \A j \in Objects : remote'[j] = remote[j]
      /\ granted' \in Seq(Nat) /\ Len(granted') = i /\ granted'[i] = 0
      /\ \A j \in Objects : granted'[j] = granted[j]
  BY <1>1, <1>2, <1>3 DEF Objects
<1>a. Objects' = 1..i
  BY <1>7 DEF Objects
<1> HIDE DEF i
<1>8. Objects' = Objects \cup {i} /\ i \notin Objects
  BY <1>4, <1>a
<1>9. ObjectsKept
  BY <1>7, <1>8 DEF ObjectsKept
<1>10. req' \in [Handlers -> Requests] /\ req'[h] = q /\ \A g \in Handlers \ {h} : req'[g] = req[g]
  BY <1>1, <1>5, <1>6
<1> QED
  BY <1>1, <1>2, <1>3, <1>4, <1>5, <1>7, <1>8, <1>9, <1>10 DEF i

\* An object is created for a checkout, and is the checkout's alone.
LEMMA CreateKeeps ==
    ASSUME Books, founded' = founded, NEW h \in Handlers, Create(h)
    PROVE  Books'
<1> DEFINE i == Len(remote) + 1
<1>1. /\ req[h].op = "checkout" /\ UNCHANGED <<bound, row, retention, races, clock, events, receipt, faults>>
      /\ i \in Nat /\ i \notin Objects /\ Objects' = Objects \cup {i}
      /\ remote' \in Seq(RemoteObjects) /\ granted' \in Seq(Nat) /\ Len(granted') = Len(remote')
      /\ remote'[i].org = req[h].read.org /\ granted'[i] = 0
      /\ \A j \in Objects : remote'[j] = remote[j] /\ granted'[j] = granted[j]
      /\ ObjectsKept
      /\ req' \in [Handlers -> Requests]
      /\ req'[h].op = "answered" /\ req'[h].arg = i /\ req'[h].read = req[h].read
      /\ \A g \in Handlers \ {h} : req'[g] = req[g]
  BY Created
<1> HIDE DEF i
<1>2. EventIds' = EventIds /\ raced' = raced /\ overtaken' = overtaken /\ mixed' = mixed
  BY <1>1 DEF EventIds, races
<1>3. TypeOK'
  BY <1>1, <1>2 DEF Books, TypeOK
<1>4. Linked'
  <2>1. \A r : Own(r) => Own(r)'
    BY <1>1 DEF Own, ObjectsKept
  <2>2. RequestOK(req[h]) /\ req[h].read.org \in 1..founded
    BY <1>1 DEF Books, Linked, RequestOK
  <2>3. \A g \in Handlers \ {h} : RequestOK(req[g])'
    <3>1. SUFFICES ASSUME NEW g \in Handlers \ {h} PROVE RequestOK(req[g])'
      OBVIOUS
    <3>2. RequestOK(req[g]) /\ req'[g] = req[g]
      BY <1>1 DEF Books, Linked
    <3>3. \A j \in Objects : j \in Objects' /\ remote'[j] = remote[j]
      BY <1>1
    <3>4. Own(req[g].read)'
      BY <2>1, <3>2 DEF RequestOK
    <3>5. founded' = founded /\ bound' = bound
      BY <1>1
    <3> QED
      BY <1>2, <3>2, <3>3, <3>4, <3>5 DEF RequestOK
  <2>4. RequestOK(req[h])'
    BY <1>1, <1>2, <2>1, <2>2 DEF RequestOK
  <2>5. \A j \in Objects' : remote'[j].org \in 1..founded'
    BY <1>1, <2>2 DEF Books, Linked
  <2>6. \A e \in EventIds' : /\ events'[e].object \in Objects'
                             /\ events'[e].state = "active" => remote'[events'[e].object].paid
                             /\ bound'.mode = "one_time" => events'[e].state = "paid"
    BY <1>1, <1>2 DEF Books, Linked, ObjectsKept
  <2> QED
    BY <1>1, <2>1, <2>3, <2>4, <2>5, <2>6 DEF Books, Linked
<1>5. PaidRow'
  BY <1>1, <1>2 DEF Books, PaidRow
<1>6. GrantedOnce'
  <2>1. SUFFICES ASSUME bound.mode = "one_time"
                 PROVE  /\ \A g \in Handlers : req'[g].op = "answered" => Fresh(g)'
                        /\ ~raced => \A j \in Objects' :
                             /\ granted'[j] <= 1
                             /\ (granted'[j] # 0 /\ row.id = j) => row.status = "active" /\ row.customer = j
    BY <1>1, <1>2 DEF GrantedOnce
  <2>2. ~raced => \A j \in Objects' :
            /\ granted'[j] <= 1
            /\ (granted'[j] # 0 /\ row.id = j) => row.status = "active" /\ row.customer = j
    BY <1>1, <2>1 DEF Books, GrantedOnce
  <2>3. /\ row.id # i /\ i # 0 /\ \A g \in Handlers : req[g].read.id # i
        /\ \A g \in Handlers : req[g].op = "answered" => req[g].arg # i /\ req[g].arg \in Objects
    BY <1>1 DEF Books, Linked, RequestOK, Own, i, TypeOK
  <2>a. row' = row /\ \A g \in Handlers : req'[g].read = req[g].read
    BY <1>1
  <2>4. Fresh(h)'
    <3>1. \A g \in Handlers \ {h} : req'[g].op = "answered" => req'[g].arg # i
      BY <1>1, <2>3
    <3> QED
      BY <1>1, <2>3, <2>a, <3>1 DEF Fresh
  <2>5. ASSUME NEW g \in Handlers \ {h}, req'[g].op = "answered" PROVE Fresh(g)'
    <3>1. req'[g] = req[g] /\ Fresh(g) /\ req[g].arg \in Objects /\ req[g].arg # i
      BY <1>1, <2>1, <2>3, <2>5 DEF Books, GrantedOnce
    <3>2. granted'[req[g].arg] = 0
      BY <1>1, <3>1 DEF Fresh
    <3>3. \A k \in Handlers \ {g} : req'[k].op = "answered" => req'[k].arg # req[g].arg
      BY <1>1, <3>1 DEF Fresh
    <3> QED
      BY <2>a, <3>1, <3>2, <3>3 DEF Fresh
  <2> QED
    BY <2>2, <2>4, <2>5
<1>7. Newest'
  BY <1>1, <1>2, CommitKeepsNewest
<1> QED
  BY <1>3, <1>4, <1>5, <1>6, <1>7 DEF Books

LEMMA FinishCheckoutKeeps ==
    ASSUME Books, BillingAssumption, founded' = founded,
           NEW h \in Handlers, FinishCheckout(h)
    PROVE  /\ Books' /\ row'.org = row.org /\ (raced => raced')
           /\ row'.eventAt = row.eventAt /\ (~raced' => row = req[h].read)
           /\ ~mixed' => ~mixed /\ row = req[h].read
           /\ mixed' => raced' \/ mixed
           /\ row'.plan \in {row.plan, "trial"}
<1> DEFINE q == req[h]
           new == MarkCheckoutPending(q.read, q.arg, q.status)
<1>1. /\ q \in Requests /\ q.read \in Rows /\ q.op = "answered" /\ q.status \in Statuses
      /\ q.arg \in Objects /\ q.arg \in Nat /\ q.arg # 0 /\ remote[q.arg].org = q.read.org
  <2>1. q \in Requests /\ q.op = "answered" /\ RequestOK(q)
    BY DEF Books, TypeOK, Linked, FinishCheckout
  <2> QED
    BY <2>1 DEF RequestOK, Requests, Objects, Statuses
<1>2. /\ UNCHANGED <<bound, retention, granted, overtaken, outside, receipt, faults>>
      /\ req' = [req EXCEPT ![h] = Idle] /\ Write(h, new)
  BY Zenon DEF FinishCheckout, Close
<1>3. /\ new \in Rows /\ new.org = q.read.org /\ new.id = q.arg
      /\ new.plan = "trial" /\ new.eventAt = q.read.eventAt
  BY <1>1 DEF MarkCheckoutPending, Rows, Plans
<1> HIDE DEF new
<1>4. /\ row' \in Rows /\ row'.org = row.org /\ row'.eventAt = row.eventAt
      /\ row'.id \in {row.id, q.arg} /\ row'.plan \in {row.plan, "trial"}
      /\ ~raced' => ~raced /\ row = q.read /\ row' = new
      /\ ~mixed' => ~mixed /\ row = q.read
      /\ mixed' => raced' \/ mixed
  BY <1>1, <1>2, <1>3, Written DEF Books
<1>5. TypeOK' /\ Linked'
  <2>1. /\ retention' \in Plans \cup {"default"} /\ granted' \in Seq(Nat)
        /\ Len(granted') = Len(remote)
    BY <1>2 DEF Books, TypeOK
  <2> HIDE DEF q
  <2> QED
    BY <1>1, <1>2, <1>3, <2>1, CommitKeepsBooks DEF q
<1>6. PaidRow'
  BY <1>3, <1>4 DEF PaidRow
<1>7. remote' = remote /\ Objects' = Objects /\ granted' = granted /\ events' = events
  BY <1>2 DEF outside, Objects
<1>8. GrantedOnce'
  <2>1. SUFFICES ASSUME bound.mode = "one_time"
                 PROVE  /\ \A g \in Handlers : req'[g].op = "answered" => Fresh(g)'
                        /\ ~raced' => \A j \in Objects : granted[j] <= 1 /\ (granted[j] = 0 \/ row'.id # j)
    BY <1>2, <1>7 DEF GrantedOnce
  <2>2. ASSUME NEW g \in Handlers, req'[g].op = "answered" PROVE Fresh(g)'
    BY <1>1, <1>2, <1>4, <1>7, <2>1, <2>2, CommitKeepsFresh
  <2>3. ASSUME ~raced', NEW j \in Objects PROVE granted[j] <= 1 /\ (granted[j] = 0 \/ row'.id # j)
    <3>1. row'.id = q.arg /\ ~raced
      BY <1>3, <1>4, <2>3
    <3>2. granted[q.arg] = 0 /\ granted[j] <= 1
      BY <1>1, <2>1, <3>1 DEF Books, GrantedOnce, Fresh
    <3> QED
      BY <3>1, <3>2
  <2> QED
    BY <2>2, <2>3
<1>9. Newest'
  BY <1>2, <1>4, <1>7, CommitKeepsNewest DEF ObjectsKept
<1> QED
  BY <1>4, <1>5, <1>6, <1>8, <1>9 DEF Books

LEMMA FinishVerifyKeeps ==
    ASSUME Books, BillingAssumption, founded' = founded,
           NEW h \in Handlers, FinishVerify(h)
    PROVE  /\ Books' /\ row'.org = row.org /\ (raced => raced')
           /\ mixed' => raced' \/ mixed
<1> DEFINE q == req[h]
           customer == IF bound.mode = "one_time" THEN q.arg ELSE 0
           end == IF bound.mode = "one_time" \/ q.end = 0 THEN clock + Period ELSE q.end
           new == [q.read EXCEPT !.customer = customer, !.plan = q.plan, !.status = "active",
                                 !.end = end]
<1>1. /\ q \in Requests /\ q.read \in Rows /\ q.op = "verify" /\ Own(q.read)
      /\ q.arg \in Objects /\ q.arg = q.read.id /\ remote[q.arg].paid
      /\ q.plan = remote[q.arg].plan /\ q.arg \in Nat /\ q.arg # 0 /\ q.plan \in Plans /\ q.end \in Nat
      /\ ~(bound.mode = "one_time" /\ q.read.status = "active" /\ q.read.customer = q.arg)
  BY DEF Books, TypeOK, Linked, RequestOK, Requests, FinishVerify, Objects
<1>0. UNCHANGED <<overtaken, outside>>
  BY Zenon DEF FinishVerify
<1>2. /\ UNCHANGED <<bound, clock, remote, events, receipt, faults>>
      /\ req' = [req EXCEPT ![h] = Idle] /\ retention' = q.plan /\ Write(h, new)
      /\ granted' = IF bound.mode = "one_time" THEN [granted EXCEPT ![q.arg] = @ + 1] ELSE granted
  BY Zenon DEF FinishVerify, Close, outside
<1>3. /\ new \in Rows /\ new.org = q.read.org /\ new.id = q.read.id /\ new.plan = q.plan
      /\ new.eventAt = q.read.eventAt /\ new.status = "active"
      /\ bound.mode = "one_time" => new.customer = q.arg
  <2>1. customer \in Nat /\ end \in Nat /\ "active" \in Statuses
    BY <1>1 DEF Books, TypeOK, Statuses, RemoteStates, BillingAssumption
  <2> HIDE DEF end
  <2> QED
    BY <1>1, <2>1 DEF Rows
<1> HIDE DEF new
<1>4. /\ granted' \in Seq(Nat) /\ Len(granted') = Len(remote')
      /\ \A i \in Objects : granted'[i] = IF bound.mode = "one_time" /\ i = q.arg
                                          THEN granted[i] + 1 ELSE granted[i]
  BY <1>1, <1>2 DEF Books, TypeOK, Objects
<1>5. /\ row' \in Rows /\ row.org = q.read.org /\ row'.org = row.org /\ row'.eventAt = row.eventAt
      /\ row'.id \in {row.id, q.read.id}
      /\ ~raced' => ~raced /\ row = q.read /\ row' = new
      /\ mixed' => raced' \/ mixed
  BY <1>2, <1>3, Written DEF Books
<1>6. ObjectsKept /\ Objects' = Objects
  BY <1>2 DEF ObjectsKept, Objects
<1>7. TypeOK' /\ Linked'
  <2>1. new.id # 0 => new.id \in Objects /\ remote[new.id].org = new.org
    BY <1>1, <1>3 DEF Own
  <2>2. retention' \in Plans \cup {"default"} /\ Len(granted') = Len(remote)
    BY <1>1, <1>2, <1>4
  <2> HIDE DEF q
  <2> QED
    BY <1>0, <1>2, <1>3, <1>4, <2>1, <2>2, CommitKeepsBooks DEF q
<1>8. PaidRow'
  <2>1. SUFFICES ASSUME ~raced' PROVE \E i \in Objects' :
            remote'[i].org = row'.org /\ remote'[i].paid /\ remote'[i].plan = row'.plan
    BY DEF PaidRow
  <2>2. row' = new /\ remote[q.arg].org = q.read.org
    BY <1>1, <1>5, <2>1 DEF Own
  <2> QED
    BY <1>1, <1>2, <1>3, <1>6, <2>2
<1>9. GrantedOnce'
  <2>1. SUFFICES ASSUME bound.mode = "one_time"
                 PROVE  /\ \A g \in Handlers : req'[g].op = "answered" => Fresh(g)'
                        /\ ~raced' => \A i \in Objects :
                             /\ granted'[i] <= 1
                             /\ (granted'[i] # 0 /\ row'.id = i) => row'.status = "active" /\ row'.customer = i
    BY <1>2, <1>6 DEF GrantedOnce
  <2>2. ASSUME NEW g \in Handlers, req'[g].op = "answered" PROVE Fresh(g)'
    <3>1. row'.id \in {row.id, req[h].read.id}
      BY <1>5
    <3>2. \A i \in Objects : granted'[i] = granted[i] \/ (req[h].op = "verify" /\ i = req[h].arg)
      BY <1>1, <1>4
    <3> QED
      BY <1>2, <2>1, <2>2, <3>1, <3>2, CommitKeepsFresh
  <2>3. ASSUME ~raced', NEW i \in Objects
        PROVE  /\ granted'[i] <= 1
               /\ (granted'[i] # 0 /\ row'.id = i) => row'.status = "active" /\ row'.customer = i
    <3>1. /\ granted[i] <= 1 /\ granted[i] \in Nat
          /\ (granted[i] # 0 /\ row.id = i) => row.status = "active" /\ row.customer = i
      BY <1>5, <2>1, <2>3 DEF Books, TypeOK, GrantedOnce, Objects
    <3>2. row = q.read /\ row' = new
      BY <1>5, <2>3
    <3> QED
      BY <1>1, <1>3, <1>4, <2>1, <3>1, <3>2
  <2> QED
    BY <2>2, <2>3
<1>10. Newest'
  BY <1>0, <1>2, <1>5, <1>6, CommitKeepsNewest
<1> QED
  BY <1>5, <1>7, <1>8, <1>9, <1>10 DEF Books

LEMMA ApplyKeeps ==
    ASSUME Books, BillingAssumption, founded' = founded, NEW h \in Handlers, Apply(h)
    PROVE  /\ Books' /\ row'.org = row.org /\ (raced => raced')
           /\ mixed' => raced' \/ mixed
<1> DEFINE e == req[h].arg
           r == req[h].read
           i == events[e].object
           new == Snapshot(e, r)
<1>1. /\ req[h] \in Requests /\ r \in Rows /\ req[h].op = "webhook" /\ Own(r)
      /\ e \in EventIds /\ i \in Objects /\ r.org = remote[i].org /\ remote[i].org # 0
      /\ events[e].state = "active" => remote[i].paid
      /\ bound.mode = "one_time" => events[e].state = "paid"
  <2>1. req[h] \in Requests /\ req[h].op = "webhook" /\ r.org = remote[i].org
    BY DEF Books, TypeOK, Apply
  <2>2. e \in EventIds /\ Own(r)
    BY <2>1 DEF Books, Linked, RequestOK
  <2>3. /\ i \in Objects /\ (events[e].state = "active" => remote[i].paid)
        /\ bound.mode = "one_time" => events[e].state = "paid"
    BY <2>2 DEF Books, Linked
  <2>4. remote[i].org \in 1..founded /\ founded \in Nat
    BY <2>3 DEF Books, Linked
  <2> QED
    BY <2>1, <2>2, <2>3, <2>4 DEF Requests
<1>2. /\ events[e].state \in RemoteStates /\ events[e].object \in Nat /\ i # 0
      /\ events[e].end \in Nat /\ events[e].at \in Nat /\ remote[i].plan \in PaidPlans
  BY <1>1, EventType, ObjectType DEF Books, Objects
<1>3. /\ new \in Rows /\ new.org = r.org /\ new.id = i /\ new.eventAt = events[e].at
      /\ new.plan \in Plans /\ new.status = StatusOf(events[e].state)
      /\ new.plan # "trial" => new.plan = remote[i].plan
  BY <1>1, <1>2, StatusType DEF Snapshot, Rows, Plans
<1>4. /\ UNCHANGED <<bound, clock, remote, events, granted, faults>>
      /\ req' = [req EXCEPT ![h] = Idle] /\ receipt' = [receipt EXCEPT ![e] = "processed"]
      /\ \/ /\ events[e].state = "paid" \/ Stale(e, r)
            /\ row' = row /\ retention' = retention /\ raced' = raced /\ mixed' = mixed
         \/ /\ events[e].state # "paid" /\ ~Stale(e, r)
            /\ Write(h, new) /\ retention' = new.plan
      /\ overtaken' = (overtaken \/ row.eventAt # r.eventAt)
  BY Zenon DEF Apply, Close, outside
<1> HIDE DEF new
<1>5. /\ row' \in Rows /\ row'.org = row.org /\ raced' \in BOOLEAN /\ mixed' \in BOOLEAN
      /\ row'.id \in {row.id, new.id} /\ overtaken' \in BOOLEAN
      /\ (raced => raced') /\ (mixed' => raced' \/ mixed)
      /\ \/ row' = row
         \/ /\ events[e].state # "paid" /\ ~Stale(e, r) /\ row.org = r.org
            /\ row'.eventAt = IF new.eventAt = r.eventAt THEN row.eventAt ELSE new.eventAt
            /\ ~raced' => ~raced /\ row = r /\ row' = new
  BY <1>3, <1>4, Written DEF Books, TypeOK
<1>6. ObjectsKept /\ Objects' = Objects /\ EventIds' = EventIds
  BY <1>4 DEF ObjectsKept, Objects, EventIds
<1>7. /\ receipt' \in Seq({"none", "received", "failed", "processed"})
      /\ Len(receipt') = Len(receipt)
      /\ \A f \in EventIds : receipt'[f] = "processed" => f = e \/ receipt[f] = "processed"
  BY <1>1, <1>4 DEF Books, TypeOK, EventIds
<1>8. Own(row)'
  <2>1. row' = row \/ (row.org = r.org /\ row'.org = row.org)
    BY <1>5
  <2> QED
    BY <1>1, <1>3, <1>4, <1>5, <1>6, <2>1 DEF Books, Linked, Own
<1>9. TypeOK'
  <2>1. retention' \in Plans \cup {"default"}
    BY <1>3, <1>4 DEF Books, TypeOK
  <2> QED
    BY <1>4, <1>5, <1>7, <2>1, IdleType DEF Books, TypeOK
<1>10. Linked'
  <2>1. \A x : Own(x) => Own(x)'
    BY <1>4, <1>6 DEF Own
  <2>2. \A g \in Handlers : RequestOK(req'[g])
    BY <1>4, IdleType DEF Books, TypeOK, Linked, RequestOK, Own
  <2>3. \A g \in Handlers : RequestOK(req'[g]) => RequestOK(req[g])'
    BY <1>4, <1>6, <2>1, Zenon DEF RequestOK
  <2> QED
    BY <1>4, <1>5, <1>6, <1>8, <2>2, <2>3 DEF Books, Linked
<1>11. PaidRow'
  <2>1. CASE row' = row
    BY <1>4, <1>5, <1>6, <2>1 DEF Books, PaidRow
  <2>2. CASE row' # row
    <3>1. SUFFICES ASSUME ~raced', row'.plan # "trial", row'.status = "active"
                   PROVE  remote[i].paid /\ remote[i].plan = row'.plan /\ remote[i].org = row'.org
      BY <1>1, <1>4, <1>6 DEF PaidRow
    <3>2. row' = new
      BY <1>5, <2>2, <3>1
    <3>3. events[e].state = "active"
      BY <1>2, <1>3, <3>1, <3>2, StatusActive
    <3> QED
      BY <1>1, <1>3, <3>1, <3>2, <3>3
  <2> QED
    BY <2>1, <2>2
<1>12. GrantedOnce'
  <2>1. SUFFICES ASSUME bound.mode = "one_time" PROVE GrantedOnce'
    BY <1>4 DEF GrantedOnce
  <2>2. row' = row /\ raced' = raced /\ granted' = granted
    BY <1>1, <1>4, <2>1
  <2>3. ASSUME NEW g \in Handlers, req'[g].op = "answered" PROVE Fresh(g)'
    BY <1>4, <2>1, <2>2, <2>3, CommitKeepsFresh
  <2>4. ~raced => \A j \in Objects :
            /\ granted[j] <= 1
            /\ (granted[j] # 0 /\ row.id = j) => row.status = "active" /\ row.customer = j
    BY <2>1 DEF Books, GrantedOnce
  <2> QED
    BY <1>6, <2>2, <2>3, <2>4 DEF GrantedOnce
<1>13. Newest'
  <2>1. SUFFICES ASSUME ~overtaken' PROVE \A f \in Processed' : events'[f].at <= row'.eventAt
    BY DEF Newest
  <2>2. ~overtaken /\ r.eventAt = row.eventAt
    BY <1>4, <2>1
  <2>3. \A f \in Processed' : f = e \/ f \in Processed
    BY <1>4, <1>5, <1>6, <1>7 DEF Processed
  <2>5. \A f \in Processed : f \in EventIds /\ events[f].at \in Nat /\ events[f].at <= row.eventAt
    BY <2>2, EventType DEF Books, Newest, Processed
  <2>6. row.eventAt \in Nat /\ row'.eventAt \in Nat /\ row.eventAt <= row'.eventAt
    <3>1. row.eventAt \in Nat /\ row'.eventAt \in Nat
      BY <1>5 DEF Books, TypeOK, Rows
    <3>2. CASE row' = row
      BY <3>1, <3>2
    <3>3. CASE row' # row
      <4>1. /\ r.eventAt = 0 \/ ~(events[e].at < r.eventAt)
            /\ row'.eventAt = IF new.eventAt = r.eventAt THEN row.eventAt ELSE new.eventAt
        BY <1>5, <3>3 DEF Stale
      <4> QED
        BY <1>2, <1>3, <2>2, <3>1, <4>1
    <3> QED
      BY <3>1, <3>2, <3>3
  <2>7. e \in Processed' => events[e].at <= row'.eventAt
    <3>1. SUFFICES ASSUME e \in Processed' PROVE events[e].at <= row'.eventAt
      OBVIOUS
    <3>2. events[e].state # "paid"
      BY <1>4, <3>1 DEF Processed
    <3>3. CASE Stale(e, r)
      <4>1. events[e].at < row.eventAt
        BY <2>2, <3>3 DEF Stale
      <4> QED
        BY <1>2, <2>6, <4>1
    <3>4. CASE ~Stale(e, r)
      <4>1. row'.eventAt = IF new.eventAt = r.eventAt THEN row.eventAt ELSE new.eventAt
        BY <1>3, <1>4, <3>2, <3>4, Written DEF Books
      <4> QED
        BY <1>2, <1>3, <2>2, <4>1
    <3> QED
      BY <3>3, <3>4
  <2>8. \A f \in Processed : events[f].at <= row'.eventAt
    BY <2>5, <2>6
  <2> QED
    BY <1>4, <2>3, <2>7, <2>8
<1> QED
  BY <1>5, <1>9, <1>10, <1>11, <1>12, <1>13 DEF Books
-----------------------------------------------------------------------------
(* Members *)

\* What a membership call may do to the organization it leaves in place.
LEMMA CallsLeaveBooks ==
    ASSUME Books, UNCHANGED <<bound, row, retention, granted, overtaken, outside, receipt, req, faults>>,
           founded' = founded, raced' \in BOOLEAN, mixed' \in BOOLEAN, raced => raced'
    PROVE  Books'
<1>1. /\ bound' = bound /\ row' = row /\ retention' = retention /\ granted' = granted
      /\ clock' = clock /\ remote' = remote /\ events' = events /\ receipt' = receipt
      /\ req' = req /\ faults' = faults /\ overtaken' = overtaken
  BY DEF outside
<1>2. Objects' = Objects /\ EventIds' = EventIds
  BY <1>1 DEF Objects, EventIds
<1>3. TypeOK'
  BY <1>1 DEF Books, TypeOK
<1>4. Linked'
  <2>1. \A r : Own(r)' <=> Own(r)
    BY <1>1, <1>2 DEF Own
  <2>2. \A g \in Handlers : RequestOK(req[g])'
    BY <1>1, <1>2, <2>1, Zenon DEF Books, Linked, RequestOK
  <2> QED
    BY <1>1, <1>2, <2>1, <2>2, Zenon DEF Books, Linked
<1>5. PaidRow' /\ GrantedOnce'
  <2>1. \A h \in Handlers : Fresh(h) => Fresh(h)'
    BY <1>1 DEF Fresh
  <2> QED
    BY <1>1, <1>2, <2>1 DEF Books, PaidRow, GrantedOnce
<1>6. Newest'
  BY <1>1, <1>2 DEF Books, Newest, Processed
<1> QED
  BY <1>3, <1>4, <1>5, <1>6 DEF Books

LEMMA BillingLeavesHouse ==
    ASSUME House, UNCHANGED house, row'.org = row.org
    PROVE  House'
BY DEF House, HouseTypeOK, CallsSpareFounder, FounderKeepsOrganization, house, people

LEMMA RowOrg == ASSUME Books PROVE row \in Rows /\ row.org \in 0..founded /\ founded \in Nat /\ row.org \in Nat
BY DEF Books, TypeOK, Linked, Rows

LEMMA EnsureKeeps ==
    ASSUME Books, House, OrganizationAssumption, EnsurePersonalWorkspace
    PROVE  Books' /\ House'
<1>1. /\ row.org = 0 /\ founded' = founded + 1 /\ claimed' = TRUE /\ gaveUp' = FALSE
      /\ row' = NewRow(founded + 1, IF claimed THEN "trial_used" ELSE "trialing")
      /\ retention' = "default" /\ spaces' = 1
      /\ member' = [member EXCEPT ![Founder] = [role |-> "owner", status |-> "active"]]
      /\ UNCHANGED <<raced, mixed, overtaken, granted, remote, events, clock, receipt, req>>
      /\ UNCHANGED <<bound, faults, invites, call, crossed>>
  BY DEF EnsurePersonalWorkspace, outside, races
<1>2. founded \in Nat /\ {"trial_used", "trialing"} \subseteq Statuses
  BY DEF Books, Linked, Statuses
<1>3. /\ row' \in Rows /\ row'.org = founded + 1 /\ row'.id = 0 /\ row'.plan = "trial"
      /\ row'.eventAt = 0
  <2>1. (IF claimed THEN "trial_used" ELSE "trialing") \in Statuses
    BY <1>2
  <2> QED
    BY <1>1, <1>2, <2>1, NewRowType
<1>4. Objects' = Objects /\ EventIds' = EventIds
  BY <1>1 DEF Objects, EventIds
<1>5. TypeOK'
  BY <1>1, <1>3 DEF Books, TypeOK
<1>6. Linked'
  <2>1. \A r : Own(r)' <=> Own(r)
    BY <1>1, <1>4 DEF Own
  <2>2. \A g \in Handlers : RequestOK(req[g])'
    <3>1. \A n : n \in 0..founded => n \in 0..founded'
      BY <1>1, <1>2
    <3> QED
      BY <1>1, <1>4, <2>1, <3>1, Zenon DEF Books, Linked, RequestOK
  <2>3. Own(row)' /\ founded' \in Nat /\ row'.org \in 0..founded'
    BY <1>1, <1>2, <1>3 DEF Own
  <2> QED
    BY <1>1, <1>2, <1>4, <2>2, <2>3 DEF Books, Linked
<1>7. PaidRow'
  BY <1>3 DEF PaidRow
<1>8. GrantedOnce'
  <2>1. \A h \in Handlers : req[h].op = "answered" => req[h].arg # 0
    BY DEF Books, Linked, RequestOK, Objects
  <2> QED
    BY <1>1, <1>3, <1>4, <2>1 DEF Books, GrantedOnce, Fresh, Objects
<1>9. Newest'
  <2>1. \A e \in EventIds : remote[events[e].object].org \in 1..founded
    BY DEF Books, Linked
  <2>2. Processed' = {}
    BY <1>1, <1>2, <1>3, <1>4, <2>1 DEF Processed
  <2> QED
    BY <2>2 DEF Newest
<1>10. HouseTypeOK'
  <2>1. [role |-> "owner", status |-> "active"] \in Memberships
    BY DEF Memberships
  <2>2. member' \in [Persons -> Memberships]
    BY <1>1, <2>1 DEF House, HouseTypeOK, OrganizationAssumption
  <2>3. founded' \in Nat /\ spaces' \in Nat
    BY <1>1, <1>2
  <2>4. claimed' \in BOOLEAN /\ gaveUp' \in BOOLEAN
    BY <1>1, Zenon
  <2> QED
    BY <1>1, <2>2, <2>3, <2>4, Zenon DEF House, HouseTypeOK
<1>11. CallsSpareFounder'
  BY <1>1, <1>2, <1>3 DEF House, CallsSpareFounder
<1>12. FounderKeepsOrganization'
  BY <1>1 DEF FounderKeepsOrganization, House, HouseTypeOK, OrganizationAssumption
<1> QED
  BY <1>5, <1>6, <1>7, <1>8, <1>9, <1>10, <1>11, <1>12 DEF Books, House

\* A call begins.
LEMMA OpenKeeps ==
    ASSUME Books, House, NEW h \in Handlers, NEW op \in Ops, NEW p \in Persons,
           NEW r \in Roles, NEW i \in Nat, Open(h, op, p, r, i),
           (op \in {"role", "remove"} /\ ~gaveUp) => p # Founder
    PROVE  Books' /\ House'
<1> DEFINE c == [op |-> op, person |-> p, role |-> r, invite |-> i, at |-> clock, seen |-> View]
<1>1. /\ call' = [call EXCEPT ![h] = c] /\ row.org # 0
      /\ UNCHANGED <<billing, founded, claimed, people, gaveUp, crossed>>
  BY DEF Open
<1>2. UNCHANGED <<bound, row, retention, granted, races, raced, mixed, overtaken, outside, receipt, req, faults>>
  BY <1>1 DEF billing, ledger, races
<1>3. Books'
  BY <1>1, <1>2, CallsLeaveBooks DEF Books, TypeOK
<1>4. clock \in Nat /\ row.org \in 1..founded
  BY <1>1, RowOrg DEF Books, TypeOK
<1>5. /\ c.op = op /\ c.person = p /\ c.role = r /\ c.invite = i /\ c.at = clock
      /\ c.seen.row = row
  BY DEF View
<1> HIDE DEF c
<1>6. HouseTypeOK'
  <2>1. DOMAIN call = Handlers /\ HouseTypeOK
    BY DEF House, HouseTypeOK
  <2>2. call'[h] = c /\ \A g \in Handlers \ {h} : call'[g] = call[g]
    BY <1>1, <2>1
  <2>3. c.op \in Ops /\ c.person \in Persons /\ c.role \in Roles /\ c.invite \in Nat /\ c.at \in Nat
    BY <1>4, <1>5
  <2>4. \A g \in Handlers : call'[g] = NoCall \/
            /\ call'[g].op \in Ops /\ call'[g].person \in Persons /\ call'[g].role \in Roles
            /\ call'[g].invite \in Nat /\ call'[g].at \in Nat
    BY <2>1, <2>2, <2>3 DEF HouseTypeOK
  <2>5. DOMAIN call' = Handlers /\ UNCHANGED <<founded, claimed, gaveUp, crossed, member, invites, spaces>>
    BY <1>1, <2>1 DEF people
  <2> QED
    BY <2>1, <2>4, <2>5 DEF HouseTypeOK
<1>7. CallsSpareFounder'
  BY <1>1, <1>2, <1>4, <1>5 DEF House, HouseTypeOK, CallsSpareFounder
<1>8. FounderKeepsOrganization'
  BY <1>1, <1>2 DEF House, FounderKeepsOrganization, people
<1> QED
  BY <1>3, <1>6, <1>7, <1>8 DEF House

\* A call ends, and leaves the organization in place.
LEMMA FinishKeeps ==
    ASSUME Books, House, NEW h \in Handlers, NEW op, Finish(h, op), row' = row,
           member' \in [Persons -> Memberships], invites' \in Seq(Invitations), spaces' \in Nat,
           gaveUp' \in BOOLEAN, gaveUp => gaveUp',
           row.org # 0 => /\ ~gaveUp' => member'[Founder] = member[Founder]
                          /\ (~crossed' /\ spaces > 0) => spaces' > 0
    PROVE  Books' /\ House'
<1>1. /\ call' = [call EXCEPT ![h] = NoCall] /\ crossed' = (crossed \/ call[h].seen # View)
      /\ raced' = (raced \/ (op = "delete" /\ call[h].seen.row # row))
      /\ mixed' = (mixed \/ (op = "delete" /\ call[h].seen.row # row))
      /\ UNCHANGED <<bound, retention, granted, overtaken, outside, receipt, req, faults, founded, claimed>>
  BY DEF Finish
<1>2. /\ raced' \in BOOLEAN /\ mixed' \in BOOLEAN /\ (raced => raced')
      /\ crossed' \in BOOLEAN /\ (crossed => crossed')
  BY <1>1 DEF Books, TypeOK, House, HouseTypeOK
<1>3. Books'
  BY <1>1, <1>2, CallsLeaveBooks
<1>4. HouseTypeOK'
  BY <1>1 DEF House, HouseTypeOK
<1>5. CallsSpareFounder'
  BY <1>1 DEF House, HouseTypeOK, CallsSpareFounder
<1>6. FounderKeepsOrganization'
  BY <1>2 DEF House, FounderKeepsOrganization
<1> QED
  BY <1>3, <1>4, <1>5, <1>6 DEF House

\* What the arguments of an open call are.
LEMMA CallType ==
    ASSUME House, NEW h \in Handlers, call[h].op \in Ops
    PROVE  /\ call[h] # NoCall /\ call[h].person \in Persons /\ call[h].role \in Roles
           /\ call[h].invite \in Nat /\ call[h].at \in Nat
<1>1. call[h] # NoCall
  BY DEF NoCall, Ops
<1> QED
  BY <1>1 DEF House, HouseTypeOK

LEMMA NoMemberType ==
    /\ NoMember \in Memberships
    /\ [role |-> "owner", status |-> "active"] \in Memberships
BY OrganizationAssumption DEF OrganizationAssumption, NoMember, Memberships

LEMMA InviteType ==
    ASSUME House, NEW i \in InviteIds
    PROVE  i \in Nat /\ invites[i] \in Invitations /\ invites[i].person \in Persons
           /\ invites[i].role \in Roles
<1>1. invites[i] \in Invitations /\ i \in Nat
  BY DEF House, HouseTypeOK, InviteIds
<1> QED
  BY <1>1 DEF Invitations

LEMMA InviteMarked ==
    ASSUME invites \in Seq(Invitations), NEW i \in Nat, NEW s \in InviteStatuses,
           invites' = [invites EXCEPT ![i].status = s]
    PROVE  invites' \in Seq(Invitations)
<1> DEFINE m == [invites[i] EXCEPT !.status = s]
<1>1. invites' = [invites EXCEPT ![i] = m]
  OBVIOUS
<1>2. CASE i \in 1..Len(invites)
  <2>1. invites[i] \in Invitations
    BY <1>2
  <2>2. m \in Invitations
    BY <2>1 DEF Invitations
  <2> HIDE DEF m
  <2> QED
    BY <1>1, <1>2, <2>2
<1>3. CASE i \notin 1..Len(invites)
  <2> HIDE DEF m
  <2>1. invites' = invites
    BY <1>1, <1>3
  <2> QED
    BY <2>1
<1> QED
  BY <1>2, <1>3

LEMMA BeginsKeep ==
    ASSUME Books, House, OrganizationAssumption, NEW h \in Handlers, NEW a \in Persons,
           \/ \E p \in Persons : \/ \E r \in Roles : BeginInvite(h, a, p, r) \/ BeginRole(h, a, p, r)
                                 \/ BeginRemove(h, a, p)
           \/ \E i \in InviteIds : BeginRevoke(h, a, i) \/ BeginAccept(h, i)
           \/ BeginSpace(h, a) \/ BeginDelete(h, a)
    PROVE  Books' /\ House'
<1> USE DEF Ops
<1>1. "member" \in Roles /\ 0 \in Nat
  BY DEF OrganizationAssumption
<1>2. ASSUME NEW p \in Persons, NEW r \in Roles, BeginInvite(h, a, p, r)
      PROVE  Books' /\ House'
  BY <1>2, OpenKeeps, Zenon DEF BeginInvite
<1>3. ASSUME NEW p \in Persons, Manageable(a, p), row.org # 0, ~gaveUp
      PROVE  p # Founder
  BY <1>3 DEF Manageable, House, FounderKeepsOrganization
<1>4. ASSUME NEW p \in Persons, NEW r \in Roles, BeginRole(h, a, p, r)
      PROVE  Books' /\ House'
  <2>1. Open(h, "role", p, r, 0) /\ Manageable(a, p)
    BY <1>4 DEF BeginRole
  <2>2. row.org # 0
    BY <2>1 DEF Open
  <2> QED
    BY <1>3, <2>1, <2>2, OpenKeeps
<1>5. ASSUME NEW p \in Persons, BeginRemove(h, a, p)
      PROVE  Books' /\ House'
  <2>1. Open(h, "remove", p, "member", 0) /\ Manageable(a, p)
    BY <1>5 DEF BeginRemove
  <2>2. row.org # 0
    BY <2>1 DEF Open
  <2> QED
    BY <1>1, <1>3, <2>1, <2>2, OpenKeeps
<1>6. ASSUME NEW i \in InviteIds, BeginRevoke(h, a, i)
      PROVE  Books' /\ House'
  <2>1. Open(h, "revoke", invites[i].person, invites[i].role, i)
    BY <1>6 DEF BeginRevoke
  <2> QED
    BY <2>1, InviteType, OpenKeeps
<1>7. ASSUME NEW i \in InviteIds, BeginAccept(h, i)
      PROVE  Books' /\ House'
  <2>1. Open(h, "accept", invites[i].person, invites[i].role, i)
    BY <1>7 DEF BeginAccept
  <2> QED
    BY <2>1, InviteType, OpenKeeps
<1>8. ASSUME BeginSpace(h, a)
      PROVE  Books' /\ House'
  <2>1. Open(h, "space", a, "member", 0)
    BY <1>8 DEF BeginSpace
  <2> QED
    BY <1>1, <2>1, OpenKeeps
<1>9. ASSUME BeginDelete(h, a)
      PROVE  Books' /\ House'
  <2>1. Open(h, "delete", a, "member", 0)
    BY <1>9 DEF BeginDelete
  <2> QED
    BY <1>1, <2>1, OpenKeeps
<1> QED
  BY <1>2, <1>4, <1>5, <1>6, <1>7, <1>8, <1>9

LEMMA DropKeeps ==
    ASSUME Books, House, NEW h \in Handlers, Drop(h)
    PROVE  Books' /\ House'
<1>1. /\ call' = [call EXCEPT ![h] = NoCall] /\ UNCHANGED <<billing, founded, claimed, people, gaveUp, crossed>>
  BY DEF Drop
<1>2. UNCHANGED <<bound, row, retention, granted, races, raced, mixed, overtaken, outside, receipt, req, faults>>
  BY <1>1 DEF billing, ledger, races
<1>3. Books'
  BY <1>1, <1>2, CallsLeaveBooks DEF Books, TypeOK
<1>4. HouseTypeOK'
  BY <1>1 DEF House, HouseTypeOK, people
<1>5. CallsSpareFounder' /\ FounderKeepsOrganization'
  BY <1>1, <1>2 DEF House, HouseTypeOK, CallsSpareFounder, FounderKeepsOrganization, people
<1> QED
  BY <1>3, <1>4, <1>5 DEF House

LEMMA FinishInviteKeeps ==
    ASSUME Books, House, NEW h \in Handlers, InviteLife \in Nat, FinishInvite(h)
    PROVE  Books' /\ House'
<1> DEFINE c == call[h]
           new == [person |-> c.person, role |-> c.role, status |-> "pending",
                   expires |-> clock + InviteLife]
           Kept(i, first) == IF i \in Lapsed(c.seen.invites, c.at)
                             THEN [invites[i] EXCEPT !.status = "revoked"]
                             ELSE IF i = first
                             THEN [invites[i] EXCEPT !.status = "superseded"]
                             ELSE invites[i]
           kept(first) == [i \in InviteIds |-> Kept(i, first)]
<1>0. Finish(h, "invite") /\ UNCHANGED <<row, member, spaces, gaveUp>>
  BY Zenon DEF FinishInvite
<1>1. PICK first : invites' = Append(kept(first), new)
  BY Zenon DEF FinishInvite
<1>2. c.person \in Persons /\ c.role \in Roles /\ clock \in Nat
  BY <1>0, CallType DEF Finish, Ops, Books, TypeOK
<1>3. new \in Invitations
  BY <1>2 DEF Invitations, InviteStatuses
<1>4. ASSUME NEW i \in InviteIds PROVE Kept(i, first) \in Invitations
  <2>1. invites[i] \in Invitations
    BY InviteType
  <2>2. /\ [invites[i] EXCEPT !.status = "revoked"] \in Invitations
        /\ [invites[i] EXCEPT !.status = "superseded"] \in Invitations
    BY <2>1 DEF Invitations, InviteStatuses
  <2> QED
    BY <2>1, <2>2, Zenon
<1> HIDE DEF Kept, new
<1>5. kept(first) \in Seq(Invitations)
  <2>1. Len(invites) \in Nat /\ InviteIds = 1..Len(invites)
    BY DEF House, HouseTypeOK, InviteIds
  <2> QED
    BY <1>4, <2>1
<1> HIDE DEF kept
<1>6. invites' \in Seq(Invitations)
  BY <1>1, <1>3, <1>5
<1> QED
  BY <1>0, <1>6, FinishKeeps DEF House, HouseTypeOK

LEMMA FinishAcceptKeeps ==
    ASSUME Books, House, Founder \in Persons, NEW h \in Handlers, FinishAccept(h)
    PROVE  Books' /\ House'
<1> DEFINE c == call[h]
           was == c.seen.member[c.person]
           role == IF was.role = c.role /\ was.status # "none" THEN member[c.person].role ELSE c.role
           status == IF was.status = "active" THEN member[c.person].status ELSE "active"
           new == [role |-> role, status |-> status]
<1>1. /\ Finish(h, "accept") /\ member' = [member EXCEPT ![c.person] = new]
      /\ invites' = [invites EXCEPT ![c.invite].status = "accepted"]
      /\ gaveUp' = (gaveUp \/ c.person = Founder) /\ UNCHANGED <<row, spaces>>
  BY DEF FinishAccept
<1>2. c.person \in Persons /\ c.role \in Roles /\ c.invite \in Nat
  BY <1>1, CallType DEF Finish, Ops
<1>3. member \in [Persons -> Memberships] /\ invites \in Seq(Invitations) /\ spaces \in Nat /\ gaveUp \in BOOLEAN
  BY DEF House, HouseTypeOK
<1>4. new \in Memberships
  <2>1. member[c.person] \in Memberships
    BY <1>2, <1>3
  <2> HIDE DEF was
  <2> QED
    BY <1>2, <2>1 DEF Memberships
<1> HIDE DEF new
<1>5. member' \in [Persons -> Memberships] /\ (~gaveUp' => member'[Founder] = member[Founder])
  BY <1>1, <1>2, <1>3, <1>4
<1>6. invites' \in Seq(Invitations)
  BY <1>1, <1>2, <1>3, InviteMarked DEF InviteStatuses
<1> QED
  BY <1>1, <1>3, <1>5, <1>6, FinishKeeps

LEMMA FinishRevokeKeeps ==
    ASSUME Books, House, NEW h \in Handlers, FinishRevoke(h)
    PROVE  Books' /\ House'
<1>1. /\ Finish(h, "revoke") /\ invites' = [invites EXCEPT ![call[h].invite].status = "revoked"]
      /\ UNCHANGED <<row, member, spaces, gaveUp>>
  BY DEF FinishRevoke
<1>2. call[h].invite \in Nat
  BY <1>1, CallType DEF Finish, Ops
<1>3. invites' \in Seq(Invitations)
  BY <1>1, <1>2, InviteMarked DEF House, HouseTypeOK, InviteStatuses
<1> QED
  BY <1>1, <1>3, FinishKeeps DEF House, HouseTypeOK

LEMMA FinishRoleKeeps ==
    ASSUME Books, House, Founder \in Persons, NEW h \in Handlers, FinishRole(h) \/ FinishRemove(h)
    PROVE  Books' /\ House'
<1>1. PICK op \in {"role", "remove"} :
        /\ Finish(h, op) /\ call[h].op = op
        /\ \/ member' = member
           \/ member' = [member EXCEPT ![call[h].person].role = call[h].role]
           \/ member' = [member EXCEPT ![call[h].person].status = "suspended"]
        /\ UNCHANGED <<row, invites, spaces, gaveUp>>
  BY Zenon DEF FinishRole, FinishRemove, Finish
<1>2. call[h] # NoCall /\ call[h].person \in Persons /\ call[h].role \in Roles
  BY <1>1, CallType DEF Ops
<1>3. member' \in [Persons -> Memberships]
  <2>1. member \in [Persons -> Memberships]
    BY DEF House, HouseTypeOK
  <2>2. member[call[h].person] \in Memberships
    BY <1>2, <2>1
  <2>3. /\ [member[call[h].person] EXCEPT !.role = call[h].role] \in Memberships
        /\ [member[call[h].person] EXCEPT !.status = "suspended"] \in Memberships
    BY <1>2, <2>2 DEF Memberships
  <2> QED
    BY <1>1, <2>1, <2>2, <2>3
<1>4. ~gaveUp => member'[Founder] = member[Founder]
  <2>1. ~gaveUp => call[h].person # Founder
    BY <1>1, <1>2 DEF House, CallsSpareFounder, Finish
  <2> QED
    BY <1>1, <2>1 DEF House, HouseTypeOK
<1> QED
  BY <1>1, <1>3, <1>4, FinishKeeps DEF House, HouseTypeOK

LEMMA FinishSpaceKeeps ==
    ASSUME Books, House, NEW h \in Handlers, FinishSpace(h)
    PROVE  Books' /\ House'
<1>1. Finish(h, "space") /\ spaces' = spaces + 1 /\ UNCHANGED <<row, member, invites, gaveUp>>
  BY DEF FinishSpace
<1> QED
  BY <1>1, FinishKeeps DEF House, HouseTypeOK

LEMMA FinishDeleteKeeps ==
    ASSUME Books, House, NEW h \in Handlers, FinishDelete(h)
    PROVE  Books' /\ House'
<1>1. /\ Finish(h, "delete") /\ gaveUp' = gaveUp
      /\ call' = [call EXCEPT ![h] = NoCall] /\ crossed' = (crossed \/ call[h].seen # View)
      /\ raced' = (raced \/ call[h].seen.row # row) /\ mixed' = (mixed \/ call[h].seen.row # row)
      /\ UNCHANGED <<bound, retention, granted, overtaken, outside, receipt, req, faults, founded, claimed>>
  BY DEF FinishDelete, Finish
<1>2. CASE call[h].seen.spaces # 1
  <2>1. spaces > 0 /\ spaces' = spaces - 1 /\ UNCHANGED <<row, member, invites>>
    BY <1>2 DEF FinishDelete
  <2>2. /\ spaces \in Nat /\ member \in [Persons -> Memberships] /\ invites \in Seq(Invitations)
        /\ gaveUp \in BOOLEAN
    BY DEF House, HouseTypeOK
  <2>3. ~crossed' => spaces # 1
    <3>1. ~crossed' => call[h].seen = View
      BY <1>1, Zenon
    <3>2. View.spaces = spaces
      BY DEF View
    <3> QED
      BY <1>2, <3>1, <3>2, Zenon
  <2> QED
    BY <1>1, <2>1, <2>2, <2>3, FinishKeeps
<1>3. CASE call[h].seen.spaces = 1
  <2>1. /\ row' = NewRow(0, "trialing") /\ spaces' = 0 /\ invites' = <<>>
        /\ member' = [p \in Persons |-> NoMember]
    BY <1>3 DEF FinishDelete
  <2>2. row' \in Rows /\ row'.org = 0 /\ row'.id = 0 /\ row'.plan = "trial"
    BY <2>1, NewRowType DEF Statuses
  <2>3. /\ UNCHANGED <<bound, overtaken, clock, remote, events, receipt, req, faults, granted, retention, founded>>
        /\ Objects' = Objects /\ EventIds' = EventIds
    BY <1>1 DEF outside, Objects, EventIds
  <2>4. /\ raced' \in BOOLEAN /\ (raced => raced') /\ mixed' \in BOOLEAN
        /\ crossed' \in BOOLEAN
    BY <1>1 DEF Books, TypeOK, House, HouseTypeOK
  <2>5. TypeOK'
    BY <2>2, <2>3, <2>4 DEF Books, TypeOK
  <2>6. Linked'
    <3>1. \A r : Own(r)' <=> Own(r)
      BY <2>3 DEF Own
    <3>2. \A g \in Handlers : RequestOK(req[g])'
      BY <2>3, <3>1, Zenon DEF Books, Linked, RequestOK
    <3>3. Own(row)' /\ row'.org \in 0..founded'
      BY <2>2, <2>3 DEF Own, Books, Linked
    <3> QED
      BY <2>3, <3>2, <3>3 DEF Books, Linked
  <2>7. PaidRow' /\ GrantedOnce'
    <3>1. \A g \in Handlers : req[g].op = "answered" => req[g].arg # 0
      BY DEF Books, Linked, RequestOK, Objects
    <3> QED
      BY <2>2, <2>3, <2>4, <3>1 DEF Books, PaidRow, GrantedOnce, Fresh, Objects
  <2>8. Newest'
    <3>1. Processed' = {}
      BY <2>2, <2>3 DEF Processed, Books, Linked
    <3> QED
      BY <3>1 DEF Newest
  <2>9. HouseTypeOK'
    <3>1. member' \in [Persons -> Memberships]
      BY <2>1, NoMemberType
    <3> QED
      BY <1>1, <2>1, <2>4, <3>1 DEF House, HouseTypeOK
  <2>10. CallsSpareFounder'
    BY <1>1, <2>2 DEF House, HouseTypeOK, CallsSpareFounder
  <2>11. FounderKeepsOrganization'
    BY <2>2 DEF FounderKeepsOrganization
  <2> QED
    BY <2>5, <2>6, <2>7, <2>8, <2>9, <2>10, <2>11 DEF Books, House
<1> QED
  BY <1>2, <1>3
-----------------------------------------------------------------------------
(* The invariant *)

LEMMA ShortSeqs ==
    ASSUME NEW S
    PROVE  /\ \A t : t = <<>> => t \in Seq(S) /\ Len(t) = 0
           /\ \A x \in S : \A t : t = <<x>> => t \in Seq(S) /\ Len(t) = 1 /\ t[1] = x
<1>1. <<>> \in Seq(S) /\ Len(<<>>) = 0
  OBVIOUS
<1>2. ASSUME NEW x \in S PROVE <<x>> \in Seq(S) /\ Len(<<x>>) = 1 /\ <<x>>[1] = x
  OBVIOUS
<1> QED
  BY <1>1, <1>2, Zenon

LEMMA OrgInvInit ==
    ASSUME BillingAssumption, OrganizationAssumption, OrgInit
    PROVE  OrgInv
<1> DEFINE p == CHOOSE q \in bound.plans : TRUE
           end == 1 + Period
           object == [org |-> 1, plan |-> p, state |-> "active", paid |-> TRUE, end |-> end]
           event == [object |-> 1, state |-> "active", end |-> end, at |-> 1]
           paidRow == [NewRow(1, "active") EXCEPT !.id = 1, !.plan = p, !.end = end, !.eventAt = 1]
<1>1. /\ bound \in Bounds /\ clock = 1 /\ faults = 0
      /\ raced = FALSE /\ mixed = FALSE /\ overtaken = FALSE
      /\ req = [h \in Handlers |-> Idle]
      /\ founded = 1 /\ claimed = TRUE /\ gaveUp = FALSE /\ crossed = FALSE /\ invites = <<>> /\ spaces = 1
      /\ call = [h \in Handlers |-> NoCall]
      /\ member = [q \in Persons |-> IF q = Founder THEN [role |-> "owner", status |-> "active"]
                                     ELSE NoMember]
  BY Zenon DEF OrgInit, Init
<1>2. end \in Nat /\ (bound.paid => bound.mode = "subscription" /\ p \in PaidPlans)
  BY <1>1 DEF BillingAssumption
<1>3. /\ NewRow(1, "active") \in Rows /\ NewRow(1, "trialing") \in Rows
      /\ NewRow(1, "active").org = 1 /\ NewRow(1, "trialing").org = 1
      /\ NewRow(1, "trialing").id = 0 /\ NewRow(1, "trialing").plan = "trial"
      /\ NewRow(1, "active").status = "active"
  BY NewRowType DEF Statuses, RemoteStates
<1>4. /\ bound.paid => /\ remote = <<object>> /\ events = <<event>> /\ receipt = <<"processed">>
                       /\ granted = <<0>> /\ row = paidRow /\ retention = p
      /\ ~bound.paid => /\ remote = <<>> /\ events = <<>> /\ receipt = <<>> /\ granted = <<>>
                        /\ row = NewRow(1, "trialing") /\ retention = "default"
  BY Zenon DEF OrgInit, Init
<1>5. bound.paid => /\ object \in RemoteObjects /\ event \in ProviderEvents /\ paidRow \in Rows
                    /\ paidRow.org = 1 /\ paidRow.id = 1 /\ paidRow.plan = p /\ paidRow.eventAt = 1
  BY <1>2, <1>3 DEF RemoteObjects, ProviderEvents, Rows, Plans, RemoteStates
<1>6. object.org = 1 /\ object.paid /\ object.plan = p /\ event.object = 1 /\ event.at = 1
  OBVIOUS
<1> HIDE DEF object, event, paidRow, p, end
<1>7. /\ remote \in Seq(RemoteObjects) /\ Len(granted) = Len(remote) /\ granted \in Seq(Nat)
      /\ events \in Seq(ProviderEvents) /\ Len(receipt) = Len(events)
      /\ receipt \in Seq({"none", "received", "failed", "processed"})
      /\ row \in Rows /\ row.org = 1 /\ retention \in Plans \cup {"default"}
      /\ bound.paid => /\ Objects = {1} /\ remote[1] = object /\ granted[1] = 0
                       /\ EventIds = {1} /\ events[1] = event
      /\ ~bound.paid => Objects = {} /\ EventIds = {}
  <2> DEFINE Receipts == {"none", "received", "failed", "processed"}
  <2>1. CASE bound.paid
    <3>1. remote \in Seq(RemoteObjects) /\ Len(remote) = 1 /\ remote[1] = object
      BY <1>4, <1>5, <2>1, ShortSeqs, Zenon
    <3>5. events \in Seq(ProviderEvents) /\ Len(events) = 1 /\ events[1] = event
      BY <1>4, <1>5, <2>1, ShortSeqs, Zenon
    <3>a. 0 \in Nat /\ "processed" \in Receipts
      OBVIOUS
    <3> HIDE DEF Receipts
    <3>2. granted \in Seq(Nat) /\ Len(granted) = 1 /\ granted[1] = 0
      BY <1>4, <2>1, <3>a, ShortSeqs, Zenon
    <3>4. receipt \in Seq(Receipts) /\ Len(receipt) = 1
      BY <1>4, <2>1, <3>a, ShortSeqs, Zenon
    <3> USE DEF Receipts
    <3> QED
      BY <1>2, <1>4, <1>5, <2>1, <3>1, <3>2, <3>4, <3>5 DEF Plans, Objects, EventIds
  <2>2. CASE ~bound.paid
    <3>1. /\ remote \in Seq(RemoteObjects) /\ Len(remote) = 0
          /\ events \in Seq(ProviderEvents) /\ Len(events) = 0
          /\ granted \in Seq(Nat) /\ Len(granted) = 0
          /\ receipt \in Seq(Receipts) /\ Len(receipt) = 0
      <4> HIDE DEF Receipts
      <4> QED
        BY <1>4, <2>2, ShortSeqs, Zenon
    <3> QED
      BY <1>3, <1>4, <2>2, <3>1 DEF Objects, EventIds
  <2> QED
    BY <2>1, <2>2
<1>8. TypeOK
  <2>1. req \in [Handlers -> Requests]
    BY <1>1, IdleType
  <2>2. raced \in BOOLEAN /\ mixed \in BOOLEAN /\ overtaken \in BOOLEAN
    BY <1>1, Zenon
  <2> QED
    BY <1>1, <1>7, <2>1, <2>2 DEF TypeOK
<1>9. Linked
  <2>1. \A h \in Handlers : RequestOK(req[h])
    BY <1>1, IdleType DEF RequestOK, Own
  <2>2. CASE bound.paid
    BY <1>1, <1>2, <1>4, <1>5, <1>6, <1>7, <2>1, <2>2 DEF Linked, Own
  <2>3. CASE ~bound.paid
    BY <1>1, <1>3, <1>4, <1>7, <2>1, <2>3 DEF Linked, Own
  <2> QED
    BY <2>2, <2>3
<1>10. PaidRow /\ GrantedOnce
  <2>0. \A h \in Handlers : req[h].op # "answered"
    BY <1>1, IdleType
  <2>1. CASE bound.paid
    <3>1. bound.mode # "one_time" /\ Objects = {1} /\ remote[1] = object /\ row = paidRow
      BY <1>2, <1>4, <1>7, <2>1
    <3>2. /\ remote[1].org = row.org /\ remote[1].paid /\ remote[1].plan = row.plan
      BY <1>5, <1>6, <2>1, <3>1
    <3> QED
      BY <2>0, <3>1, <3>2 DEF PaidRow, GrantedOnce
  <2>2. CASE ~bound.paid
    BY <1>3, <1>4, <1>7, <2>0, <2>2 DEF PaidRow, GrantedOnce
  <2> QED
    BY <2>1, <2>2
<1>11. Newest
  BY <1>4, <1>5, <1>6, <1>7 DEF Newest, Processed
<1>12. HouseTypeOK
  <2>1. member \in [Persons -> Memberships]
    BY <1>1, NoMemberType
  <2>2. claimed \in BOOLEAN /\ gaveUp \in BOOLEAN /\ crossed \in BOOLEAN
    BY <1>1, Zenon
  <2> QED
    BY <1>1, <2>1, <2>2 DEF HouseTypeOK
<1>13. CallsSpareFounder /\ FounderKeepsOrganization
  BY <1>1 DEF CallsSpareFounder, FounderKeepsOrganization, OrganizationAssumption
<1> QED
  BY <1>8, <1>9, <1>10, <1>11, <1>12, <1>13 DEF OrgInv, Books, House

LEMMA HouseStep ==
    ASSUME BillingAssumption, OrganizationAssumption, OrgInv, HouseNext
    PROVE  OrgInv'
<1>1. Books /\ House /\ Founder \in Persons /\ InviteLife \in Nat
  BY DEF OrgInv, OrganizationAssumption
<1>2. CASE EnsurePersonalWorkspace
  BY <1>1, <1>2, EnsureKeeps DEF OrgInv
<1>3. ASSUME NEW h \in Handlers, NEW a \in Persons,
             \/ \E p \in Persons : \/ \E r \in Roles : BeginInvite(h, a, p, r) \/ BeginRole(h, a, p, r)
                                   \/ BeginRemove(h, a, p)
             \/ \E i \in InviteIds : BeginRevoke(h, a, i) \/ BeginAccept(h, i)
             \/ BeginSpace(h, a) \/ BeginDelete(h, a)
      PROVE  OrgInv'
  BY <1>1, <1>3, BeginsKeep DEF OrgInv
<1>4. ASSUME NEW h \in Handlers,
             \/ FinishInvite(h) \/ FinishAccept(h) \/ FinishRevoke(h) \/ FinishRole(h)
             \/ FinishRemove(h) \/ FinishSpace(h) \/ FinishDelete(h) \/ Drop(h)
      PROVE  OrgInv'
  BY <1>1, <1>4, FinishInviteKeeps, FinishAcceptKeeps, FinishRevokeKeeps, FinishRoleKeeps,
     FinishSpaceKeeps, FinishDeleteKeeps, DropKeeps DEF OrgInv
<1> QED
  BY <1>1, <1>2, <1>3, <1>4, Zenon DEF HouseNext

LEMMA BillingStep ==
    ASSUME BillingAssumption, OrganizationAssumption, OrgInv, BillingNext, UNCHANGED house
    PROVE  OrgInv'
<1>1. Books /\ House /\ founded' = founded
  BY DEF OrgInv, house
<1>2. SUFFICES Books' /\ row'.org = row.org /\ (raced => raced')
  BY <1>1, BillingLeavesHouse DEF OrgInv
<1>3. ASSUME NEW i \in Objects, Move(i) \/ Pay(i)
      PROVE  Books' /\ row'.org = row.org /\ (raced => raced')
  <2>1. Books'
    BY <1>1, <1>3, MoveKeeps, PayKeeps
  <2>2. UNCHANGED ledger
    BY <1>3, Zenon DEF Move, Pay
  <2> QED
    BY <2>1, <2>2 DEF ledger, races
<1>4. CASE Tick
  BY <1>1, <1>4, TickKeeps DEF Tick, ledger, races
<1>5. ASSUME NEW h \in Handlers, NEW p \in bound.plans, BeginCheckout(h, p)
      PROVE  Books' /\ row'.org = row.org /\ (raced => raced')
  BY <1>1, <1>5, BeginCheckoutKeeps DEF BeginCheckout, ledger, races
<1>6. ASSUME NEW h \in Handlers, NEW i \in Objects, BeginVerify(h, i)
      PROVE  Books' /\ row'.org = row.org /\ (raced => raced')
  BY <1>1, <1>6, BeginVerifyKeeps DEF BeginVerify, ledger, races
<1>7. ASSUME NEW h \in Handlers, NEW e \in EventIds, Deliver(h, e)
      PROVE  Books' /\ row'.org = row.org /\ (raced => raced')
  <2>1. Books' /\ UNCHANGED ledger
    BY <1>1, <1>7, DeliverKeeps, Zenon DEF Deliver
  <2> QED
    BY <2>1 DEF ledger, races
<1>8. ASSUME NEW h \in Handlers, Abort(h) \/ FailEvent(h)
      PROVE  Books' /\ row'.org = row.org /\ (raced => raced')
  <2>1. Books'
    BY <1>1, <1>8, AbortKeeps
  <2>2. UNCHANGED ledger
    BY <1>8, Zenon DEF Abort, FailEvent
  <2> QED
    BY <2>1, <2>2 DEF ledger, races
<1>9. ASSUME NEW h \in Handlers, FinishCheckout(h) \/ FinishVerify(h) \/ Apply(h)
      PROVE  Books' /\ row'.org = row.org /\ (raced => raced')
  BY <1>1, <1>9, FinishCheckoutKeeps, FinishVerifyKeeps, ApplyKeeps
<1>10. ASSUME NEW h \in Handlers, LookUp(h)
       PROVE  Books' /\ row'.org = row.org /\ (raced => raced')
  BY <1>1, <1>10, LookUpKeeps DEF LookUp, ledger, races
<1>11. ASSUME NEW h \in Handlers, Create(h)
       PROVE  Books' /\ row'.org = row.org /\ (raced => raced')
  BY <1>1, <1>11, CreateKeeps DEF Create, races
<1> QED
  BY <1>3, <1>4, <1>5, <1>6, <1>7, <1>8, <1>9, <1>10, <1>11, Zenon DEF BillingNext

LEMMA OrgStep ==
    ASSUME BillingAssumption, OrganizationAssumption, OrgInv, [Next]_vars
    PROVE  OrgInv'
<1>1. CASE HouseNext
  BY <1>1, HouseStep
<1>2. CASE BillingNext /\ UNCHANGED house
  BY <1>2, BillingStep
<1>3. CASE UNCHANGED vars
  <2>1. /\ UNCHANGED <<bound, row, retention, granted, raced, mixed, overtaken, outside, receipt, req, faults>>
        /\ UNCHANGED house /\ founded' = founded
    BY <1>3 DEF vars, billing, ledger, races, house
  <2>2. Books'
    BY <2>1, CallsLeaveBooks DEF OrgInv, Books, TypeOK
  <2>3. House'
    BY <2>1, BillingLeavesHouse DEF OrgInv
  <2> QED
    BY <2>2, <2>3 DEF OrgInv
<1> QED
  BY <1>1, <1>2, <1>3, Zenon DEF Next

THEOREM OrgInvHolds == OrgSpec => []OrgInv
<1>1. OrgInit => OrgInv
  BY OrgInvInit, BillingAssumption, OrganizationAssumption
<1>2. OrgInv /\ [Next]_vars => OrgInv'
  BY OrgStep, BillingAssumption, OrganizationAssumption
<1> QED
  BY <1>1, <1>2, PTL DEF OrgSpec
-----------------------------------------------------------------------------
\* Every variable of the organization and of its subscription keeps its type,
\* whatever requests, people and provider events there are.
THEOREM OrgTyped == OrgSpec => []OrgTypeOK
<1>1. OrgInv => OrgTypeOK
  BY DEF OrgInv, Books, House, OrgTypeOK
<1> QED
  BY <1>1, OrgInvHolds, PTL

\* However late, often and out of order webhooks come, and whatever checkouts,
\* verifications and deletions they meet, the row goes back to an older event only
\* if another webhook has changed it between the reading and the commit of one
\* (billing_api.py:400-430); that it then can, the stale run shows.
THEOREM NewestUntilOvertaken == OrgSpec => []NewestKept
<1>1. OrgInv => NewestKept
  BY DEF OrgInv, Books, Newest, NewestKept, NewestWins
<1> QED
  BY <1>1, OrgInvHolds, PTL

\* No organization has a plan that nobody paid for, unless two requests wrote the
\* row at once.
THEOREM PlansArePaid == OrgSpec => []NoFreePlan
<1>1. OrgInv => NoFreePlan
  BY DEF OrgInv, Books, PaidRow, NoFreePlan, PaidActive, Active
<1> QED
  BY <1>1, OrgInvHolds, PTL

\* One payment buys one period, however often the browser reports it.
THEOREM PaymentsGrantOnce == OrgSpec => []OnePeriodPerPayment
<1>1. OrgInv => OnePeriodPerPayment
  BY DEF OrgInv, Books, GrantedOnce, OnePeriodPerPayment
<1> QED
  BY <1>1, OrgInvHolds, PTL

\* However many people manage members, invitations and workspaces at once, the
\* founder stays the owner, and the organization has a workspace.
THEOREM FounderStays == OrgSpec => []FounderKeepsOrganization
<1>1. OrgInv => FounderKeepsOrganization
  BY DEF OrgInv, House
<1> QED
  BY <1>1, OrgInvHolds, PTL
-----------------------------------------------------------------------------
(* The plan that is paid for *)

\* An event that decides about a subscription that is paid and running.
Clear(f) == Ruling(f) /\ Running(events[f].object)

Shows(i) ==
    /\ row.id = i /\ row.status = "active" /\ row.plan = remote[i].plan
    /\ row.end = remote[i].end /\ retention = remote[i].plan

Owner(f) == remote[events[f].object].org

\* An object is in the state of its newest event.
LastEvent ==
    \A f \in EventIds :
        (\A e \in EventIds \ {f} : events[e].object = events[f].object => events[e].at < events[f].at)
        => /\ remote[events[f].object].state = events[f].state
           /\ events[f].state = "active" => remote[events[f].object].end = events[f].end

Dated == clock >= 1 /\ \A e \in EventIds : events[e].at >= 1 /\ events[e].at <= clock

\* The time in a row is that of an event the organization has received.
Told(r) == r.eventAt = 0 \/ \E e \in EventIds :
    receipt[e] # "none" /\ Owner(e) = r.org /\ events[e].at = r.eventAt

\* A row with the time of the event that decides shows what that said, and is not
\* deleted once it is processed.
RowHonest ==
    /\ Told(row) /\ (mixed => raced)
    /\ \A f \in EventIds : Clear(f) =>
        /\ (~mixed /\ row.org = Owner(f) /\ row.eventAt = events[f].at) => Shows(events[f].object)
        /\ (~raced /\ ~overtaken /\ receipt[f] = "processed") => row.org = Owner(f)

\* No checkout has read a running payment, and no verification after the event that
\* decides has asked the provider before it.
RequestHonest(q) ==
    /\ Told(q.read)
    /\ q.op \in {"checkout", "answered"} => Payable(q.read)
    /\ \A f \in EventIds :
        (Clear(f) /\ q.op = "verify" /\ q.read.eventAt = events[f].at
            /\ q.read.id = events[f].object)
        => q.end = remote[events[f].object].end

\* Nothing that ends the organization has read a subscription.
DeletesBarred ==
    \A h \in Handlers : (call[h] # NoCall /\ call[h].op = "delete" /\ call[h].seen.spaces = 1) =>
        call[h].seen.row.id = 0 \/ call[h].seen.row.status \in {"canceled", "incomplete_expired"}

Received(q) == q.op = "webhook" => receipt[q.arg] # "none"

HonourInv ==
    /\ Dated /\ LastEvent /\ RowHonest /\ DeletesBarred
    /\ \A h \in Handlers : Received(req[h])
    /\ \A h \in Handlers : RequestHonest(req[h])

\* A step without news from the provider.
NoNews ==
    /\ events' = events /\ clock' \in Nat /\ clock <= clock'
    /\ \A i \in Objects :
        /\ remote'[i].state = remote[i].state /\ remote'[i].end = remote[i].end
        /\ remote'[i].plan = remote[i].plan /\ remote'[i].org = remote[i].org
    /\ \A e \in EventIds : receipt[e] # "none" => receipt'[e] # "none"

LEMMA EventKnown ==
    ASSUME Books, NEW f \in EventIds
    PROVE  /\ events[f].object \in Objects /\ events[f].object \in Nat \ {0}
           /\ events[f].at \in Nat /\ events[f].end \in Nat /\ f \in Nat
           /\ events[f].state \in RemoteStates
           /\ remote[events[f].object].end \in Nat
           /\ remote[events[f].object].plan \in PaidPlans
           /\ Owner(f) \in Nat /\ Owner(f) \in 1..founded
<1>1. events[f].object \in Objects /\ f \in Nat
  BY DEF Books, Linked, EventIds
<1>2. events[f].object \in Nat \ {0} /\ Owner(f) \in 1..founded
  BY <1>1 DEF Objects, Owner, Books, Linked
<1> QED
  BY <1>1, <1>2, EventType, ObjectType DEF Books

\* What decides is what the subscription is.
LEMMA ClearShown ==
    ASSUME Books, HonourInv, NEW f \in EventIds, Clear(f)
    PROVE  /\ events[f].state = "active" /\ events[f].end = remote[events[f].object].end
           /\ events[f].end > clock /\ events[f].at >= 1 /\ bound.mode # "one_time"
           /\ \A e \in EventIds \ {f} :
                (receipt[e] # "none" /\ Owner(e) = Owner(f)) => events[e].at < events[f].at
<1>1. /\ \A e \in EventIds \ {f} : events[e].object = events[f].object => events[e].at < events[f].at
      /\ \A e \in EventIds \ {f} :
            (receipt[e] # "none" /\ Owner(e) = Owner(f)) => events[e].at < events[f].at
  BY DEF Clear, Ruling, Owner
<1>2. remote[events[f].object].state = "active" /\ remote[events[f].object].end > clock
  BY DEF Clear, Running
<1>3. events[f].state = "active" /\ events[f].end = remote[events[f].object].end
  BY <1>1, <1>2 DEF HonourInv, LastEvent
<1>4. bound.mode # "one_time"
  BY <1>3 DEF Books, Linked
<1> QED
  BY <1>1, <1>2, <1>3, <1>4 DEF HonourInv, Dated

\* A row that has been told nothing newer has not been told of what decides later.
LEMMA ToldRuled ==
    ASSUME Books, HonourInv, NEW f \in EventIds, Clear(f), NEW r, Told(r), r.org = Owner(f)
    PROVE  r.eventAt <= events[f].at
<1>1. CASE r.eventAt = 0
  BY <1>1, EventKnown
<1>2. ASSUME NEW e \in EventIds, receipt[e] # "none", Owner(e) = r.org, events[e].at = r.eventAt
      PROVE  r.eventAt <= events[f].at
  BY <1>2, ClearShown, EventKnown
<1> QED
  BY <1>1, <1>2 DEF Told

\* The row of an organization that has processed the event that decides, and in which
\* no two webhooks have overlapped, shows that event.
LEMMA Decided ==
    ASSUME Books, HonourInv, NEW f \in EventIds, Clear(f), receipt[f] = "processed",
           ~overtaken, row.org = Owner(f)
    PROVE  row.eventAt = events[f].at
<1>1. f \in Processed
  BY ClearShown DEF Processed, Owner
<1>2. events[f].at <= row.eventAt
  BY <1>1 DEF Books, Newest
<1>3. row.eventAt <= events[f].at
  BY ToldRuled DEF HonourInv, RowHonest
<1>4. row.eventAt \in Nat /\ events[f].at \in Nat
  BY EventKnown DEF Books, TypeOK, Rows
<1> QED
  BY <1>2, <1>3, <1>4

LEMMA ClearStays ==
    ASSUME Books, NoNews, NEW f \in EventIds, Clear(f)'
    PROVE  /\ Clear(f) /\ events'[f] = events[f] /\ Owner(f)' = Owner(f)
           /\ remote'[events[f].object].end = remote[events[f].object].end
           /\ remote'[events[f].object].plan = remote[events[f].object].plan
<1> DEFINE i == events[f].object
<1>1. i \in Objects /\ remote[i].end \in Nat /\ clock \in Nat
  BY EventKnown DEF Books, TypeOK
<1>2. /\ events' = events /\ EventIds' = EventIds /\ remote'[i].state = remote[i].state
      /\ remote'[i].end = remote[i].end /\ remote'[i].plan = remote[i].plan
      /\ clock' \in Nat /\ clock <= clock'
  BY <1>1 DEF NoNews, EventIds
<1>3. \A e \in EventIds : remote'[events[e].object].org = remote[events[e].object].org
  BY EventKnown DEF NoNews
<1>4. Ruling(f)
  <2>1. SUFFICES ASSUME NEW e \in EventIds \ {f},
                        \/ events[e].object = i
                        \/ receipt[e] # "none" /\ remote[events[e].object].org = remote[i].org
                 PROVE  events[e].at < events[f].at
    BY DEF Ruling
  <2>2. \/ events'[e].object = i
        \/ receipt'[e] # "none" /\ remote'[events'[e].object].org = remote'[i].org
    BY <1>2, <1>3, <2>1 DEF NoNews
  <2> QED
    BY <1>2, <2>1, <2>2 DEF Clear, Ruling
<1>5. Running(i)
  BY <1>1, <1>2 DEF Clear, Running
<1> QED
  BY <1>2, <1>3, <1>4, <1>5 DEF Clear, Owner

LEMMA ToldStays == ASSUME Books, NoNews, NEW r, Told(r) PROVE Told(r)'
<1>1. EventIds' = EventIds /\ events' = events
  BY DEF NoNews, EventIds
<1>2. \A e \in EventIds : Owner(e)' = Owner(e) /\ (receipt[e] # "none" => receipt'[e] # "none")
  BY <1>1, EventKnown DEF NoNews, Owner
<1> QED
  BY <1>1, <1>2 DEF Told

LEMMA RequestStays ==
    ASSUME Books, NoNews, NEW q, q.read \in Rows, RequestHonest(q)
    PROVE  RequestHonest(q)'
<1>1. EventIds' = EventIds /\ Told(q.read)'
  BY ToldStays DEF NoNews, EventIds, RequestHonest
<1>2. Payable(q.read) => Payable(q.read)'
  <2>1. q.read.end \in Nat /\ clock \in Nat /\ clock' \in Nat /\ clock <= clock'
    BY DEF Rows, Books, TypeOK, NoNews
  <2> QED
    BY <2>1 DEF Payable, Active, Unexpired
<1>3. ASSUME NEW f \in EventIds, Clear(f)', q.op = "verify", q.read.eventAt = events'[f].at,
             q.read.id = events'[f].object
      PROVE  q.end = remote'[events'[f].object].end
  BY <1>3, ClearStays DEF RequestHonest
<1> QED
  BY <1>1, <1>2, <1>3 DEF RequestHonest

\* A row that stays, and a receipt that does not become processed.
LEMMA RowStays ==
    ASSUME Books, NoNews, HonourInv, row' = row, retention' = retention,
           raced => raced', overtaken => overtaken', mixed => mixed', mixed' => raced',
           \A e \in EventIds : receipt'[e] = "processed" => receipt[e] = "processed"
    PROVE  RowHonest'
<1>1. EventIds' = EventIds /\ events' = events /\ Told(row)'
  <2>1. Told(row)
    BY DEF HonourInv, RowHonest
  <2>2. \A r : Told(r) => Told(r)'
    BY ToldStays
  <2> QED
    BY <2>1, <2>2 DEF NoNews, EventIds, Told
<1>2. ASSUME NEW f \in EventIds, Clear(f)'
      PROVE  /\ (~mixed' /\ row'.org = Owner(f)' /\ row'.eventAt = events'[f].at)
                    => Shows(events[f].object)'
             /\ (~raced' /\ ~overtaken' /\ receipt'[f] = "processed") => row'.org = Owner(f)'
  BY <1>2, ClearStays DEF HonourInv, RowHonest, Shows
<1> QED
  BY <1>1, <1>2 DEF RowHonest

LEMMA HonourKept ==
    ASSUME Books, NoNews, HonourInv, RowHonest', DeletesBarred',
           \A h \in Handlers : \/ req'[h] = req[h]
                               \/ /\ req'[h].read \in Rows /\ RequestHonest(req'[h])
                                  /\ req'[h].op = "webhook" => receipt'[req'[h].arg] # "none"
    PROVE  HonourInv'
<1>0. EventIds' = EventIds /\ events' = events /\ \A f \in EventIds : events[f].object \in Objects
  BY EventKnown DEF NoNews, EventIds
<1>1. LastEvent'
  <2>1. ASSUME NEW f \in EventIds,
               \A e \in EventIds \ {f} : events[e].object = events[f].object => events[e].at < events[f].at
        PROVE  /\ remote'[events[f].object].state = events[f].state
               /\ events[f].state = "active" => remote'[events[f].object].end = events[f].end
    <3>1. /\ remote[events[f].object].state = events[f].state
          /\ events[f].state = "active" => remote[events[f].object].end = events[f].end
      BY <2>1 DEF HonourInv, LastEvent
    <3> QED
      BY <1>0, <3>1 DEF NoNews
  <2> QED
    BY <1>0, <2>1, Zenon DEF LastEvent
<1>2. ASSUME NEW h \in Handlers PROVE RequestHonest(req[h])'
  <2>1. req'[h].read \in Rows /\ RequestHonest(req'[h])
    <3>1. req[h].read \in Rows
      BY DEF Books, TypeOK, Requests
    <3> QED
      BY <3>1 DEF HonourInv
  <2>2. RequestHonest(req'[h]) => RequestHonest(req[h])'
    <3> DEFINE q == req'[h]
    <3>1. q.read \in Rows /\ RequestHonest(q)
      BY <2>1
    <3> QED
      BY <3>1, RequestStays
  <2> QED
    BY <2>1, <2>2
<1>4. ASSUME NEW h \in Handlers PROVE Received(req[h])'
  <2>1. req[h].op = "webhook" => req[h].arg \in EventIds /\ receipt[req[h].arg] # "none"
    BY DEF Books, Linked, RequestOK, HonourInv, Received
  <2> QED
    BY <2>1 DEF NoNews, Received
<1>3. Dated'
  BY <1>0, EventKnown DEF HonourInv, NoNews, Books, TypeOK, Dated
<1> QED
  BY <1>1, <1>2, <1>3, <1>4 DEF HonourInv

\* News: a row with an older time says nothing of it yet, and what decided about
\* the same subscription does not any more.
LEMMA NewsHonours ==
    ASSUME Books, HonourInv, NEW i \in Objects, NEW s \in RemoteStates, NEW end \in Nat,
           Emit(i, s, end), remote'[i].state = s, s = "active" => remote'[i].end = end,
           \A j \in Objects \ {i} : remote'[j] = remote[j],
           remote'[i].org = remote[i].org, Objects' = Objects,
           UNCHANGED <<clock, ledger, req, call>>
    PROVE  HonourInv'
<1> DEFINE new == [object |-> i, state |-> s, end |-> end, at |-> clock]
<1>0. PICK n \in Nat : n = Len(events) + 1
  BY DEF Books, TypeOK
<1>1. /\ events' = Append(events, new) /\ receipt' = Append(receipt, "none")
      /\ events \in Seq(ProviderEvents) /\ Len(receipt) = Len(events)
      /\ receipt \in Seq({"none", "received", "failed", "processed"})
  BY DEF Emit, Books, TypeOK
<1>2. new.object = i /\ new.state = s /\ new.end = end /\ new.at = clock /\ new \in ProviderEvents
  BY DEF ProviderEvents, Objects, Books, TypeOK
<1> HIDE DEF new
<1>3. /\ n \in Nat /\ EventIds' = EventIds \cup {n} /\ n \notin EventIds
      /\ events'[n] = new /\ receipt'[n] = "none"
      /\ \A e \in EventIds : events'[e] = events[e] /\ receipt'[e] = receipt[e]
  BY <1>0, <1>1, <1>2 DEF EventIds
<1>4. /\ row' = row /\ retention' = retention /\ raced' = raced /\ mixed' = mixed
      /\ overtaken' = overtaken /\ clock' = clock
      /\ req' = req /\ call' = call /\ clock \in Nat /\ clock >= 1
  BY DEF ledger, races, HonourInv, Dated, Books, TypeOK
<1>5. \A e \in EventIds : Owner(e)' = Owner(e)
  BY <1>3, EventKnown DEF Owner
<1>6. \A r : Told(r) => Told(r)'
  BY <1>3, <1>5 DEF Told
<1>7. ASSUME NEW f \in EventIds, Clear(f)'
      PROVE  /\ Clear(f) /\ remote'[events[f].object] = remote[events[f].object]
  <2>1. events[f].at <= clock /\ events[f].at \in Nat
    BY EventKnown DEF HonourInv, Dated
  <2>2. events[f].object # i
    BY <1>2, <1>3, <1>4, <1>7, <2>1 DEF Clear, Ruling
  <2>3. remote'[events[f].object] = remote[events[f].object]
    BY <2>2, EventKnown
  <2>4. Ruling(f)
    <3>1. SUFFICES ASSUME NEW e \in EventIds \ {f},
                          \/ events[e].object = events[f].object
                          \/ receipt[e] # "none" /\ Owner(e) = Owner(f)
                   PROVE  events[e].at < events[f].at
      BY DEF Ruling, Owner
    <3>2. /\ e \in EventIds' \ {f} /\ events'[e] = events[e] /\ events'[f] = events[f]
          /\ receipt'[e] = receipt[e]
      BY <1>3
    <3>3. Owner(e)' = Owner(e) /\ Owner(f)' = Owner(f)
      BY <1>5
    <3> QED
      BY <1>7, <3>1, <3>2, <3>3 DEF Clear, Ruling, Owner
  <2>5. Running(events[f].object)
    BY <1>3, <1>4, <1>7, <2>3 DEF Clear, Running
  <2> QED
    BY <2>3, <2>4, <2>5 DEF Clear
<1>8. ASSUME Clear(n)', NEW r, Told(r), r.org = Owner(n)' PROVE r.eventAt # events'[n].at
  <2>1. events'[n].at = clock /\ clock >= 1 /\ clock \in Nat
    BY <1>2, <1>3, <1>4
  <2>2. ASSUME NEW e \in EventIds, receipt[e] # "none", Owner(e) = r.org, events[e].at = r.eventAt
        PROVE  r.eventAt < clock
    <3>1. e \in EventIds' \ {n} /\ events'[e] = events[e] /\ receipt'[e] # "none" /\ Owner(e)' = Owner(n)'
      BY <1>3, <1>5, <1>8, <2>2
    <3>2. events'[e].at < events'[n].at
      BY <1>8, <3>1 DEF Clear, Ruling, Owner
    <3> QED
      BY <2>1, <2>2, <3>1, <3>2
  <2> QED
    BY <1>8, <2>1, <2>2 DEF Told
<1>9. LastEvent'
  <2>1. ASSUME NEW f \in EventIds',
               \A e \in EventIds' \ {f} : events'[e].object = events'[f].object => events'[e].at < events'[f].at
        PROVE  /\ remote'[events'[f].object].state = events'[f].state
               /\ events'[f].state = "active" => remote'[events'[f].object].end = events'[f].end
    <3>1. CASE f = n
      BY <1>2, <1>3, <3>1
    <3>2. CASE f \in EventIds
      <4>1. events[f].object # i
        <5>1. events[f].at <= clock /\ events[f].at \in Nat
          BY <3>2, EventKnown DEF HonourInv, Dated
        <5> QED
          BY <1>2, <1>3, <1>4, <2>1, <3>2, <5>1
      <4>2. /\ remote[events[f].object].state = events[f].state
            /\ events[f].state = "active" => remote[events[f].object].end = events[f].end
        BY <1>3, <2>1, <3>2 DEF HonourInv, LastEvent
      <4> QED
        BY <1>3, <3>2, <4>1, <4>2, EventKnown
    <3> QED
      BY <1>3, <3>1, <3>2
  <2> QED
    BY <2>1, Zenon DEF LastEvent
<1>10. RowHonest'
  <2>1. Told(row)' /\ (mixed' => raced')
    <3>1. Told(row) /\ (mixed => raced)
      BY DEF HonourInv, RowHonest
    <3>2. Told(row)'
      BY <1>4, <1>6, <3>1 DEF Told
    <3> QED
      BY <1>4, <3>1, <3>2
  <2>2. ASSUME NEW f \in EventIds, Clear(f)'
        PROVE  /\ (~mixed' /\ row'.org = Owner(f)' /\ row'.eventAt = events'[f].at)
                      => Shows(events[f].object)'
               /\ (~raced' /\ ~overtaken' /\ receipt'[f] = "processed") => row'.org = Owner(f)'
    <3>1. /\ Clear(f) /\ remote'[events[f].object] = remote[events[f].object]
          /\ events'[f] = events[f] /\ receipt'[f] = receipt[f] /\ Owner(f)' = Owner(f)
      BY <1>3, <1>5, <1>7, <2>2
    <3>2. Shows(events[f].object) => Shows(events[f].object)'
      BY <1>4, <3>1 DEF Shows
    <3> QED
      BY <1>4, <3>1, <3>2 DEF HonourInv, RowHonest
  <2>3. ASSUME Clear(n)' PROVE ~(row'.org = Owner(n)' /\ row'.eventAt = events'[n].at)
    BY <1>4, <1>8, <2>3 DEF HonourInv, RowHonest
  <2> QED
    BY <1>3, <2>1, <2>2, <2>3 DEF RowHonest
<1>11. ASSUME NEW h \in Handlers PROVE RequestHonest(req[h])'
  <2> DEFINE q == req[h]
  <2>1. RequestHonest(q) /\ req'[h] = q
    BY <1>4 DEF HonourInv
  <2>2. Payable(q.read) => Payable(req[h].read)'
    BY <1>4, <2>1 DEF Payable, Active, Unexpired
  <2>3. Told(req[h].read)'
    BY <1>6, <2>1 DEF RequestHonest, Told
  <2>5. ASSUME NEW f \in EventIds', Clear(f)', q.op = "verify", q.read.eventAt = events'[f].at,
               q.read.id = events'[f].object
        PROVE  q.end = remote'[events'[f].object].end
    <3>1. CASE f = n
      <4>1. Own(q.read)
        BY DEF Books, Linked, RequestOK
      <4>2. events'[n].object = i /\ i # 0 /\ remote[i].org = Owner(n)'
        BY <1>2, <1>3 DEF Owner, Objects
      <4>3. q.read.org = Owner(n)'
        BY <2>5, <3>1, <4>1, <4>2 DEF Own
      <4> QED
        BY <1>8, <2>1, <2>5, <3>1, <4>3 DEF RequestHonest
    <3>2. CASE f \in EventIds
      BY <1>3, <1>7, <2>1, <2>5, <3>2 DEF RequestHonest
    <3> QED
      BY <1>3, <3>1, <3>2
  <2> HIDE DEF q
  <2>6. q.op \in {"checkout", "answered"} => Payable(req[h].read)'
    BY <2>1, <2>2 DEF RequestHonest
  <2> QED
    BY <2>1, <2>3, <2>5, <2>6 DEF RequestHonest
<1>14. ASSUME NEW h \in Handlers PROVE Received(req[h])'
  <2>1. req[h].op = "webhook" => req[h].arg \in EventIds /\ receipt[req[h].arg] # "none"
    BY DEF Books, Linked, RequestOK, HonourInv, Received
  <2> QED
    BY <1>3, <1>4, <2>1 DEF Received
<1>12. DeletesBarred'
  BY <1>4 DEF HonourInv, DeletesBarred
<1>13. Dated'
  BY <1>2, <1>3, <1>4 DEF HonourInv, Dated
<1> QED
  BY <1>9, <1>10, <1>11, <1>12, <1>13, <1>14 DEF HonourInv

LEMMA ProviderHonours ==
    ASSUME Books, BillingAssumption, HonourInv, UNCHANGED house, NEW i \in Objects,
           Move(i) \/ Pay(i)
    PROVE  HonourInv'
<1>1. call' = call /\ TypeOK /\ bound.lives \subseteq RemoteStates /\ "paid" \in RemoteStates
      /\ Period \in Nat /\ clock \in Nat
  BY DEF house, Books, TypeOK, BillingAssumption, RemoteStates
<1>2. remote[i] \in RemoteObjects /\ remote[i].end \in Nat /\ remote \in Seq(RemoteObjects)
      /\ i \in 1..Len(remote)
  BY <1>1, ObjectType DEF TypeOK, Objects
<1>3. CASE Move(i)
  <2>1. PICK s \in bound.lives :
          LET o == remote[i]
              end == IF s = "active" THEN clock + Period ELSE o.end
          IN  /\ remote' = [remote EXCEPT ![i] = [@ EXCEPT !.state = s, !.end = end,
                                                          !.paid = o.paid \/ s = "active"]]
              /\ Emit(i, s, end)
    BY <1>3, Zenon DEF Move
  <2> DEFINE end == IF s = "active" THEN clock + Period ELSE remote[i].end
  <2>2. end \in Nat /\ s \in RemoteStates
    BY <1>1, <1>2
  <2>3. /\ remote'[i].state = s /\ remote'[i].end = end /\ remote'[i].org = remote[i].org
        /\ Objects' = Objects /\ \A j \in Objects \ {i} : remote'[j] = remote[j]
    BY <1>2, <2>1 DEF RemoteObjects, Objects
  <2>4. Emit(i, s, end)
    BY <2>1
  <2>5. UNCHANGED <<clock, ledger, req>>
    BY <1>3, Zenon DEF Move
  <2> HIDE DEF end
  <2> QED
    BY <1>1, <2>2, <2>3, <2>4, <2>5, NewsHonours
<1>4. CASE Pay(i)
  <2>1. Emit(i, "paid", 0) /\ UNCHANGED <<clock, ledger, req>>
    BY <1>4 DEF Pay
  <2>2. /\ remote'[i].state = "paid" /\ 0 \in Nat /\ remote'[i].org = remote[i].org
        /\ Objects' = Objects /\ \A j \in Objects \ {i} : remote'[j] = remote[j]
    BY <1>2, <1>4 DEF Pay, RemoteObjects, Objects
  <2> QED
    BY <1>1, <2>1, <2>2, NewsHonours
<1> QED
  BY <1>3, <1>4

LEMMA TickHonours ==
    ASSUME Books, HonourInv, UNCHANGED house, Tick
    PROVE  HonourInv'
<1>1. /\ NoNews /\ row' = row /\ retention' = retention /\ receipt' = receipt /\ req' = req /\ call' = call
      /\ raced' = raced /\ mixed' = mixed /\ overtaken' = overtaken
  BY DEF Tick, NoNews, ledger, races, house, Books, TypeOK
<1>2. RowHonest'
  BY <1>1, RowStays DEF HonourInv, RowHonest
<1>3. DeletesBarred'
  BY <1>1 DEF HonourInv, DeletesBarred
<1> QED
  BY <1>1, <1>2, <1>3, HonourKept

\* A request that begins, goes on, or ends with nothing done.
LEMMA RequestHonours ==
    ASSUME Books, HonourInv, UNCHANGED house, NoNews, UNCHANGED <<row, retention, races>>,
           NEW h \in Handlers, NEW q, \A g \in Handlers : req'[g] = req[g] \/ req'[g] = q,
           q.read \in Rows, RequestHonest(q), q.op = "webhook" => receipt'[q.arg] # "none",
           \A e \in EventIds : receipt'[e] = "processed" => receipt[e] = "processed"
    PROVE  HonourInv'
<1>1. /\ row' = row /\ retention' = retention /\ call' = call
      /\ raced' = raced /\ mixed' = mixed /\ overtaken' = overtaken
  BY DEF races, house
<1>2. RowHonest'
  BY <1>1, RowStays DEF HonourInv, RowHonest
<1>3. DeletesBarred'
  BY <1>1 DEF HonourInv, DeletesBarred
<1>4. \A g \in Handlers : \/ req'[g] = req[g]
                          \/ /\ req'[g].read \in Rows /\ RequestHonest(req'[g])
                             /\ req'[g].op = "webhook" => receipt'[req'[g].arg] # "none"
  <2>1. SUFFICES ASSUME NEW g \in Handlers, req'[g] = q
                 PROVE  /\ req'[g].read \in Rows /\ RequestHonest(req'[g])
                        /\ req'[g].op = "webhook" => receipt'[req'[g].arg] # "none"
    OBVIOUS
  <2> QED
    BY <2>1
<1> QED
  BY <1>2, <1>3, <1>4, HonourKept

\* What leaves the provider and the receipts' being there alone is no news.
LEMMA Quiet ==
    ASSUME Books, UNCHANGED outside, \A e \in EventIds : receipt[e] # "none" => receipt'[e] # "none"
    PROVE  NoNews
BY DEF NoNews, outside, Books, TypeOK

LEMMA IdleHonest ==
    /\ Idle.read \in Rows /\ RequestHonest(Idle) /\ Idle.op = "idle"
BY IdleType DEF Requests, RequestHonest, Told

LEMMA BeginHonours ==
    ASSUME Books, BillingAssumption, HonourInv, UNCHANGED house, NEW h \in Handlers,
           \/ \E p \in bound.plans : BeginCheckout(h, p)
           \/ \E i \in Objects : BeginVerify(h, i)
    PROVE  HonourInv'
<1>1. row \in Rows /\ Told(row)
  BY DEF Books, TypeOK, HonourInv, RowHonest
<1>2. ASSUME NEW p \in bound.plans, BeginCheckout(h, p) PROVE HonourInv'
  <2> DEFINE q == [Idle EXCEPT !.op = "checkout", !.arg = 0, !.plan = p, !.end = 0, !.read = row]
  <2>1. req' = [req EXCEPT ![h] = q] /\ UNCHANGED <<ledger, outside, receipt>> /\ Payable(row)
    BY <1>2, Zenon DEF BeginCheckout, Begin
  <2>2. q.read = row /\ q.op = "checkout"
    BY IdleType DEF Requests
  <2> HIDE DEF q
  <2>3. q.read \in Rows /\ RequestHonest(q)
    BY <1>1, <2>1, <2>2 DEF RequestHonest
  <2>4. NoNews /\ UNCHANGED <<row, retention, races>>
    BY <2>1, Quiet DEF ledger
  <2>5. \A g \in Handlers : req'[g] = req[g] \/ req'[g] = q
    BY <2>1 DEF Books, TypeOK
  <2> QED
    BY <2>1, <2>2, <2>3, <2>4, <2>5, RequestHonours
<1>3. ASSUME NEW i \in Objects, BeginVerify(h, i) PROVE HonourInv'
  <2> DEFINE q == [Idle EXCEPT !.op = "verify", !.arg = i, !.plan = remote[i].plan,
                               !.end = remote[i].end, !.read = row]
  <2>1. req' = [req EXCEPT ![h] = q] /\ UNCHANGED <<ledger, outside, receipt>> /\ row.id = i
    BY <1>3, Zenon DEF BeginVerify, Begin
  <2>2. q.read = row /\ q.op = "verify" /\ q.end = remote[i].end
    BY IdleType DEF Requests
  <2> HIDE DEF q
  <2>3. q.read \in Rows /\ RequestHonest(q)
    BY <1>1, <2>1, <2>2 DEF RequestHonest
  <2>4. NoNews /\ UNCHANGED <<row, retention, races>>
    BY <2>1, Quiet DEF ledger
  <2>5. \A g \in Handlers : req'[g] = req[g] \/ req'[g] = q
    BY <2>1 DEF Books, TypeOK
  <2> QED
    BY <2>1, <2>2, <2>3, <2>4, <2>5, RequestHonours
<1> QED
  BY <1>2, <1>3

LEMMA DeliverHonours ==
    ASSUME Books, HonourInv, UNCHANGED house, NEW h \in Handlers, NEW e \in EventIds, Deliver(h, e)
    PROVE  HonourInv'
<1> DEFINE q == [Idle EXCEPT !.op = "webhook", !.arg = e, !.read = row]
<1>1. req' = [req EXCEPT ![h] = q] /\ UNCHANGED <<ledger, outside>>
  BY Zenon DEF Deliver
<1>2. q.read = row /\ q.op = "webhook" /\ q.arg = e
  BY IdleType DEF Requests
<1> HIDE DEF q
<1>3. /\ receipt'[e] # "none"
      /\ \A f \in EventIds : /\ receipt'[f] = "processed" => receipt[f] = "processed"
                             /\ receipt[f] # "none" => receipt'[f] # "none"
  <2>1. receipt' = [receipt EXCEPT ![e] = IF receipt[e] = "none" THEN "received" ELSE receipt[e]]
    BY DEF Deliver
  <2>2. /\ receipt \in Seq({"none", "received", "failed", "processed"})
        /\ EventIds = 1..Len(receipt)
    BY DEF Books, TypeOK, EventIds
  <2> QED
    BY <2>1, <2>2
<1>4. NoNews /\ UNCHANGED <<row, retention, races>>
  BY <1>1, <1>3, Quiet DEF ledger
<1>5. q.read \in Rows /\ RequestHonest(q)
  BY <1>2 DEF Books, TypeOK, HonourInv, RowHonest, RequestHonest
<1>6. \A g \in Handlers : req'[g] = req[g] \/ req'[g] = q
  BY <1>1 DEF Books, TypeOK
<1> QED
  BY <1>2, <1>3, <1>4, <1>5, <1>6, RequestHonours

LEMMA AbortHonours ==
    ASSUME Books, HonourInv, UNCHANGED house, NEW h \in Handlers, Abort(h) \/ FailEvent(h)
    PROVE  HonourInv'
<1>1. req' = [req EXCEPT ![h] = Idle] /\ UNCHANGED <<ledger, outside>>
  BY Zenon DEF Abort, FailEvent, Close
<1>2. \A e \in EventIds : /\ receipt'[e] = "processed" => receipt[e] = "processed"
                          /\ receipt[e] # "none" => receipt'[e] # "none"
  <2>1. receipt' = receipt \/ receipt' = [receipt EXCEPT ![req[h].arg] = "failed"]
    BY Zenon DEF Abort, FailEvent
  <2> QED
    BY <2>1 DEF Books, TypeOK, EventIds
<1>3. NoNews /\ UNCHANGED <<row, retention, races>>
  BY <1>1, <1>2, Quiet DEF ledger
<1>4. \A g \in Handlers : req'[g] = req[g] \/ req'[g] = Idle
  BY <1>1 DEF Books, TypeOK
<1> QED
  BY <1>2, <1>3, <1>4, IdleHonest, RequestHonours

\* A checkout goes on with what it has read.
LEMMA AskHonours ==
    ASSUME Books, HonourInv, UNCHANGED house, founded' = founded, NEW h \in Handlers,
           LookUp(h) \/ Create(h)
    PROVE  HonourInv'
<1> DEFINE q == req'[h]
<1>1. /\ q.read = req[h].read /\ q.op = "answered" /\ req[h].op = "checkout"
      /\ \A g \in Handlers \ {h} : req'[g] = req[g]
      /\ UNCHANGED <<row, retention, races, clock, events, receipt>>
      /\ \A j \in Objects : remote'[j] = remote[j]
  <2>1. CASE LookUp(h)
    <3>1. /\ req' = [req EXCEPT ![h].op = "answered", ![h].arg = req[h].read.id,
                                ![h].status = remote[req[h].read.id].state]
          /\ req[h].op = "checkout" /\ UNCHANGED <<ledger, outside, receipt>>
      BY <2>1 DEF LookUp, Answered
    <3>2. req \in [Handlers -> Requests]
      BY DEF Books, TypeOK
    <3> QED
      BY <3>1, <3>2 DEF ledger, outside, Requests
  <2>2. CASE Create(h)
    BY <2>2, Created
  <2> QED
    BY <2>1, <2>2
<1>2. req[h].read \in Rows /\ RequestHonest(req[h])
  BY DEF Books, TypeOK, Requests, HonourInv
<1>3. q.read \in Rows /\ RequestHonest(q)
  BY <1>1, <1>2 DEF RequestHonest
<1>4. NoNews
  BY <1>1 DEF NoNews, Books, TypeOK
<1>5. \A g \in Handlers : req'[g] = req[g] \/ req'[g] = req'[h]
  BY <1>1
<1>6. req'[h].read \in Rows /\ RequestHonest(req'[h]) /\ req'[h].op # "webhook"
  BY <1>1, <1>3
<1> HIDE DEF q
<1>7. RowHonest'
  BY <1>1, <1>4, RowStays DEF races, HonourInv, RowHonest
<1>8. DeletesBarred'
  BY DEF HonourInv, DeletesBarred, house
<1> QED
  BY <1>4, <1>5, <1>6, <1>7, <1>8, HonourKept

\* A commit whose row is not the one it has read makes a race of it.
LEMMA FinishCheckoutHonours ==
    ASSUME Books, BillingAssumption, HonourInv, UNCHANGED house,
           NEW h \in Handlers, FinishCheckout(h)
    PROVE  HonourInv'
<1> DEFINE q == req[h]
<1>1. /\ UNCHANGED <<bound, retention, overtaken, outside, receipt, faults>> /\ call' = call
      /\ req' = [req EXCEPT ![h] = Idle]
  BY Zenon DEF FinishCheckout, Close, house
<1>2. /\ row'.eventAt = row.eventAt /\ row'.org = row.org /\ (raced => raced')
      /\ ~mixed' => ~mixed /\ row = q.read
      /\ mixed' => raced' \/ mixed
  BY FinishCheckoutKeeps, house = house' DEF house
<1>3. NoNews
  BY <1>1, Quiet
<1>4. Payable(q.read)
  BY DEF FinishCheckout, HonourInv, RequestHonest
<1>5. ASSUME NEW f \in EventIds, Clear(f)'
      PROVE  /\ ~(~mixed' /\ row'.org = Owner(f)' /\ row'.eventAt = events'[f].at)
             /\ (~raced' /\ ~overtaken' /\ receipt'[f] = "processed") => row'.org = Owner(f)'
  <2>1. Clear(f) /\ events'[f] = events[f] /\ Owner(f)' = Owner(f)
    BY <1>3, <1>5, ClearStays
  <2>2. ASSUME ~mixed', row'.org = Owner(f)', row'.eventAt = events'[f].at PROVE FALSE
    <3>1. Shows(events[f].object)
      BY <1>2, <2>1, <2>2 DEF HonourInv, RowHonest
    <3>2. Active(row)
      BY <2>1, <3>1 DEF Shows, Clear, Running, Active, Unexpired
    <3> QED
      BY <1>2, <1>4, <2>2, <3>2 DEF Payable
  <2> QED
    BY <1>1, <1>2, <2>1, <2>2 DEF HonourInv, RowHonest
<1>6. RowHonest'
  <2>1. EventIds' = EventIds /\ Told(row)'
    <3>1. Told(row)
      BY DEF HonourInv, RowHonest
    <3>2. Told(row) => Told(row)'
      BY <1>1, <1>2 DEF Told, EventIds, Owner, outside
    <3> QED
      BY <1>1, <3>1, <3>2 DEF EventIds, outside
  <2> QED
    BY <1>2, <1>5, <2>1 DEF HonourInv, RowHonest
<1>7. DeletesBarred'
  BY <1>1 DEF HonourInv, DeletesBarred
<1>8. \A g \in Handlers : req'[g] = req[g] \/ req'[g] = Idle
  BY <1>1 DEF Books, TypeOK
<1> QED
  BY <1>3, <1>6, <1>7, <1>8, IdleHonest, HonourKept

LEMMA FinishVerifyHonours ==
    ASSUME Books, BillingAssumption, HonourInv, UNCHANGED house,
           NEW h \in Handlers, FinishVerify(h)
    PROVE  HonourInv'
<1> DEFINE q == req[h]
           end == IF bound.mode = "one_time" \/ q.end = 0 THEN clock + Period ELSE q.end
           customer == IF bound.mode = "one_time" THEN q.arg ELSE 0
           new == [q.read EXCEPT !.customer = customer, !.plan = q.plan, !.status = "active",
                                 !.end = end]
<1>1. /\ UNCHANGED <<bound, overtaken, outside, receipt, faults>> /\ call' = call
      /\ req' = [req EXCEPT ![h] = Idle] /\ retention' = q.plan /\ Write(h, new)
  BY Zenon DEF FinishVerify, Close, house
<1>2. /\ q \in Requests /\ q.read \in Rows /\ q.op = "verify" /\ q.arg \in Objects /\ q.arg = q.read.id
      /\ q.plan = remote[q.arg].plan /\ q.plan \in Plans /\ q.end \in Nat /\ q.arg \in Nat
  BY DEF Books, TypeOK, Linked, RequestOK, Requests, FinishVerify, Objects
<1>3. /\ new \in Rows /\ new.org = q.read.org /\ new.id = q.read.id /\ new.plan = q.plan
      /\ new.eventAt = q.read.eventAt /\ new.status = "active" /\ new.end = end
  <2>1. customer \in Nat /\ end \in Nat /\ "active" \in Statuses
    BY <1>2 DEF Books, TypeOK, Statuses, RemoteStates, BillingAssumption
  <2> HIDE DEF end, customer
  <2> QED
    BY <1>2, <2>1 DEF Rows
<1> HIDE DEF new
<1>4. /\ row'.eventAt = row.eventAt /\ row'.org = row.org /\ (~raced' => ~raced)
      /\ ~mixed' => ~mixed /\ row = q.read /\ row' = new
      /\ mixed' => raced' \/ mixed
  BY <1>1, <1>2, <1>3, Written DEF Books, TypeOK
<1>5. NoNews
  BY <1>1, Quiet
<1>6. ASSUME NEW f \in EventIds, Clear(f)'
      PROVE  /\ (~mixed' /\ row'.org = Owner(f)' /\ row'.eventAt = events'[f].at)
                    => Shows(events[f].object)'
             /\ (~raced' /\ ~overtaken' /\ receipt'[f] = "processed") => row'.org = Owner(f)'
  <2>1. Clear(f) /\ events'[f] = events[f] /\ Owner(f)' = Owner(f)
    BY <1>5, <1>6, ClearStays
  <2>2. bound.mode # "one_time" /\ remote[events[f].object].end # 0
    BY <2>1, ClearShown DEF Clear, Running, HonourInv, Dated, Books, TypeOK
  <2>4. ASSUME ~mixed', row'.org = Owner(f)', row'.eventAt = events'[f].at
        PROVE  Shows(events[f].object)'
    <3>1. Shows(events[f].object) /\ row = q.read /\ row' = new
      BY <1>4, <2>1, <2>4 DEF HonourInv, RowHonest
    <3>2. q.arg = events[f].object /\ q.read.eventAt = events[f].at
      BY <1>2, <1>4, <2>1, <2>4, <3>1 DEF Shows
    <3>3. q.end = remote[events[f].object].end
      BY <1>2, <2>1, <3>1, <3>2 DEF HonourInv, RequestHonest, Shows
    <3>4. end = remote[events[f].object].end
      BY <2>2, <3>3
    <3>5. UNCHANGED <<events, remote>>
      BY <1>1 DEF outside
    <3> QED
      BY <1>1, <1>2, <1>3, <3>1, <3>2, <3>4, <3>5 DEF Shows
  <2> QED
    BY <1>1, <1>4, <2>1, <2>4 DEF HonourInv, RowHonest
<1>7. RowHonest'
  <2>1. EventIds' = EventIds /\ events' = events /\ Told(row)'
    <3>1. Told(row)
      BY DEF HonourInv, RowHonest
    <3>2. Told(row) => Told(row)'
      BY <1>1, <1>4 DEF Told, EventIds, Owner, outside
    <3> QED
      BY <1>1, <3>1, <3>2 DEF EventIds, outside
  <2> QED
    BY <1>4, <1>6, <2>1 DEF HonourInv, RowHonest
<1>8. DeletesBarred'
  BY <1>1 DEF HonourInv, DeletesBarred
<1>9. \A g \in Handlers : req'[g] = req[g] \/ req'[g] = Idle
  BY <1>1 DEF Books, TypeOK
<1> QED
  BY <1>5, <1>7, <1>8, <1>9, IdleHonest, HonourKept

LEMMA ApplyHonours ==
    ASSUME Books, BillingAssumption, HonourInv, UNCHANGED house, NEW h \in Handlers, Apply(h)
    PROVE  HonourInv'
<1> DEFINE e == req[h].arg
           r == req[h].read
           new == Snapshot(e, r)
<1>1. /\ UNCHANGED <<bound, outside, granted, faults>> /\ call' = call
      /\ req' = [req EXCEPT ![h] = Idle] /\ receipt' = [receipt EXCEPT ![e] = "processed"]
      /\ r.org = Owner(e) /\ overtaken' = (overtaken \/ row.eventAt # r.eventAt)
      /\ \/ /\ events[e].state = "paid" \/ Stale(e, r)
            /\ row' = row /\ retention' = retention /\ raced' = raced /\ mixed' = mixed
         \/ /\ events[e].state # "paid" /\ ~Stale(e, r)
            /\ Write(h, new) /\ retention' = new.plan
  BY Zenon DEF Apply, Close, outside, house, Owner
<1>2. /\ r \in Rows /\ e \in EventIds /\ Told(r) /\ receipt[e] # "none"
  <2>1. r \in Rows /\ e \in EventIds /\ req[h].op = "webhook"
    BY DEF Apply, Books, TypeOK, Linked, RequestOK, Requests
  <2>2. Told(r) /\ receipt[e] # "none"
    BY <2>1 DEF HonourInv, RequestHonest, Received
  <2> QED
    BY <2>1, <2>2
<1>3. /\ new \in Rows /\ new.org = r.org /\ new.id = events[e].object /\ new.eventAt = events[e].at
      /\ new.status = StatusOf(events[e].state) /\ new.end = events[e].end
      /\ events[e].state = "active" => new.plan = remote[events[e].object].plan
  BY <1>2, EventKnown, StatusType DEF Snapshot, Rows, Plans, Ended, StatusOf
<1> HIDE DEF new
<1>4. /\ (raced => raced') /\ row'.org = row.org /\ (mixed' => raced' \/ mixed)
      /\ \/ /\ events[e].state = "paid" \/ Stale(e, r)
            /\ row' = row /\ retention' = retention /\ mixed' = mixed
         \/ /\ events[e].state # "paid" /\ ~Stale(e, r) /\ retention' = new.plan
            /\ row.org = r.org /\ row'.eventAt \in {row.eventAt, events[e].at}
            /\ ~mixed' => row = r /\ row' = new
  BY <1>1, <1>3, Written DEF Books, TypeOK
<1>5. /\ receipt'[e] = "processed" /\ events' = events /\ remote' = remote
      /\ \A f \in EventIds : f # e => receipt'[f] = receipt[f]
  BY <1>1, <1>2 DEF Books, TypeOK, EventIds, outside
<1>6. NoNews
  BY <1>1, <1>5, Quiet
<1>7. ASSUME NEW f \in EventIds, Clear(f)'
      PROVE  /\ (~mixed' /\ row'.org = Owner(f)' /\ row'.eventAt = events'[f].at)
                    => Shows(events[f].object)'
             /\ (~raced' /\ ~overtaken' /\ receipt'[f] = "processed") => row'.org = Owner(f)'
  <2>1. Clear(f) /\ events'[f] = events[f] /\ Owner(f)' = Owner(f)
    BY <1>6, <1>7, ClearStays
  <2>2. /\ events[f].state = "active" /\ events[f].end = remote[events[f].object].end
        /\ events[f].at \in Nat /\ events[e].at \in Nat /\ row.eventAt \in Nat /\ r.eventAt \in Nat
        /\ (f # e /\ Owner(e) = Owner(f)) => events[e].at < events[f].at
    BY <1>2, <2>1, ClearShown, EventKnown DEF Books, TypeOK, Rows
  <2>3. e = f => ~Stale(f, r)
    <3>1. e = f => r.eventAt <= events[f].at
      BY <1>1, <1>2, <2>1, ToldRuled
    <3> QED
      BY <2>2, <3>1 DEF Stale
  <2>4. CASE row' = row /\ retention' = retention /\ mixed' = mixed
             /\ (events[e].state = "paid" \/ Stale(e, r))
    <3>1. e # f
      BY <2>2, <2>3, <2>4
    <3>2. receipt'[f] = receipt[f] /\ (~raced' => ~raced) /\ (~overtaken' => ~overtaken)
      BY <1>1, <1>4, <1>5, <3>1
    <3> QED
      BY <1>5, <2>1, <2>4, <3>2 DEF HonourInv, RowHonest, Shows
  <2>5. CASE /\ retention' = new.plan /\ row.org = r.org /\ row'.eventAt \in {row.eventAt, events[e].at}
             /\ ~mixed' => row = r /\ row' = new
    <3>1. CASE e = f
      <4>1. row'.org = Owner(f)
        BY <1>1, <1>4, <2>5, <3>1
      <4>2. ASSUME ~mixed' PROVE Shows(events[f].object)'
        BY <1>3, <1>5, <2>2, <2>5, <3>1, <4>2 DEF Shows, StatusOf
      <4> QED
        BY <2>1, <4>1, <4>2
    <3>2. CASE e # f
      <4>1. receipt'[f] = receipt[f] /\ (~raced' => ~raced) /\ (~overtaken' => ~overtaken)
        BY <1>1, <1>4, <1>5, <3>2
      <4>2. ASSUME ~mixed', row'.org = Owner(f) PROVE row'.eventAt # events[f].at
        BY <1>1, <1>3, <1>4, <2>2, <2>5, <3>2, <4>2
      <4> QED
        BY <1>4, <2>1, <4>1, <4>2 DEF HonourInv, RowHonest
    <3> QED
      BY <3>1, <3>2
  <2> QED
    BY <1>4, <2>4, <2>5
<1>8. RowHonest'
  <2>1. EventIds' = EventIds
    BY <1>5 DEF EventIds
  <2>2. Told(row)'
    <3>1. Told(row)
      BY DEF HonourInv, RowHonest
    <3>2. \A g \in EventIds : Owner(g)' = Owner(g) /\ (receipt[g] # "none" => receipt'[g] # "none")
      BY <1>5 DEF Owner
    <3>3. CASE row'.eventAt = row.eventAt
      BY <1>4, <1>5, <2>1, <3>1, <3>2, <3>3 DEF Told
    <3>4. CASE row'.eventAt = events[e].at /\ row.org = r.org
      BY <1>1, <1>2, <1>4, <1>5, <2>1, <3>2, <3>4 DEF Told
    <3> QED
      BY <1>4, <3>3, <3>4
  <2> QED
    BY <1>4, <1>5, <1>7, <2>1, <2>2 DEF HonourInv, RowHonest
<1>9. DeletesBarred'
  BY <1>1 DEF HonourInv, DeletesBarred
<1>10. \A g \in Handlers : req'[g] = req[g] \/ req'[g] = Idle
  BY <1>1 DEF Books, TypeOK
<1> QED
  BY <1>6, <1>8, <1>9, <1>10, IdleHonest, HonourKept

\* A call that leaves the subscription alone.
LEMMA CallHonours ==
    ASSUME Books, HonourInv, UNCHANGED <<row, retention, overtaken, outside, receipt, req>>,
           raced => raced', mixed => mixed', mixed' => raced', DeletesBarred'
    PROVE  HonourInv'
<1>1. NoNews /\ row' = row /\ retention' = retention /\ receipt' = receipt /\ req' = req
  BY Quiet
<1>2. RowHonest'
  BY <1>1, RowStays
<1> QED
  BY <1>1, <1>2, HonourKept

LEMMA OpenHonours ==
    ASSUME Books, House, HonourInv, NEW h \in Handlers, NEW op, NEW p, NEW r, NEW i,
           Open(h, op, p, r, i),
           (op = "delete" /\ spaces = 1) => row.id = 0 \/ row.status \in {"canceled", "incomplete_expired"}
    PROVE  HonourInv'
<1> DEFINE c == [op |-> op, person |-> p, role |-> r, invite |-> i, at |-> clock, seen |-> View]
<1>1. /\ call' = [call EXCEPT ![h] = c]
      /\ UNCHANGED <<row, retention, overtaken, outside, receipt, req, raced, mixed>>
  BY DEF Open, billing, ledger, races
<1>2. c.op = op /\ c.seen.spaces = spaces /\ c.seen.row = row
  BY DEF View
<1> HIDE DEF c
<1>3. \A g \in Handlers : call'[g] = call[g] \/ call'[g] = c
  BY <1>1 DEF House, HouseTypeOK
<1>4. DeletesBarred'
  BY <1>2, <1>3, Zenon DEF HonourInv, DeletesBarred
<1> QED
  BY <1>1, <1>4, CallHonours DEF HonourInv, RowHonest

LEMMA CallEndHonours ==
    ASSUME Books, House, HonourInv, NEW h \in Handlers, call' = [call EXCEPT ![h] = NoCall]
    PROVE  DeletesBarred'
<1>1. \A g \in Handlers : call'[g] = call[g] \/ call'[g] = NoCall
  BY DEF House, HouseTypeOK
<1> QED
  BY <1>1, Zenon DEF HonourInv, DeletesBarred

\* The organization ends or a new one begins: there is nothing the row would show,
\* and nothing it would have to.
LEMMA NewRowHonours ==
    ASSUME Books, HonourInv, UNCHANGED <<overtaken, outside, receipt, req>>,
           raced => raced', mixed' => raced', DeletesBarred',
           NEW o \in Nat, NEW s \in Statuses, row' = NewRow(o, s),
           \A f \in EventIds : (Clear(f) /\ receipt[f] = "processed" /\ ~overtaken) => raced'
    PROVE  HonourInv'
<1>1. NoNews /\ events' = events /\ receipt' = receipt /\ req' = req
  BY Quiet DEF outside
<1>2. row'.eventAt = 0
  BY NewRowType
<1>3. RowHonest'
  <2>1. EventIds' = EventIds
    BY <1>1 DEF EventIds
  <2>2. ASSUME NEW f \in EventIds, Clear(f)'
        PROVE  /\ events'[f].at # 0
               /\ ~(~raced' /\ ~overtaken' /\ receipt'[f] = "processed")
    <3>1. Clear(f)
      BY <1>1, <2>2, ClearStays
    <3> QED
      BY <1>1, <3>1, EventKnown DEF HonourInv, Dated
  <2> QED
    BY <1>1, <1>2, <2>1, <2>2 DEF RowHonest, Told
<1> QED
  BY <1>1, <1>3, HonourKept

LEMMA HouseHonours ==
    ASSUME Books, House, OrganizationAssumption, HonourInv, HouseNext
    PROVE  HonourInv'
<1>0. mixed => raced
  BY DEF HonourInv, RowHonest
<1>1. CASE EnsurePersonalWorkspace
  <2>1. /\ row.org = 0 /\ row' = NewRow(founded + 1, IF claimed THEN "trial_used" ELSE "trialing")
        /\ UNCHANGED <<raced, mixed, overtaken, outside, receipt, req, call>>
    BY <1>1 DEF EnsurePersonalWorkspace, races
  <2>2. ASSUME NEW f \in EventIds, Clear(f), receipt[f] = "processed", ~overtaken PROVE raced
    BY <2>1, <2>2, EventKnown DEF HonourInv, RowHonest, Books, Linked
  <2>3. founded + 1 \in Nat /\ (IF claimed THEN "trial_used" ELSE "trialing") \in Statuses
    BY DEF Books, Linked, Statuses
  <2>4. DeletesBarred'
    BY <2>1 DEF HonourInv, DeletesBarred
  <2> QED
    BY <1>0, <2>1, <2>2, <2>3, <2>4, NewRowHonours
<1>2. ASSUME NEW h \in Handlers, NEW a \in Persons,
             \/ \E p \in Persons : \/ \E r \in Roles : BeginInvite(h, a, p, r) \/ BeginRole(h, a, p, r)
                                   \/ BeginRemove(h, a, p)
             \/ \E i \in InviteIds : BeginRevoke(h, a, i) \/ BeginAccept(h, i)
             \/ BeginSpace(h, a)
      PROVE  HonourInv'
  <2>1. PICK op, p, r, i : op \in Ops \ {"delete"} /\ Open(h, op, p, r, i)
    BY <1>2, Zenon DEF BeginInvite, BeginRole, BeginRemove, BeginRevoke, BeginAccept, BeginSpace, Ops
  <2> QED
    BY <2>1, OpenHonours
<1>3. ASSUME NEW h \in Handlers, NEW a \in Persons, BeginDelete(h, a)
      PROVE  HonourInv'
  BY <1>3, OpenHonours DEF BeginDelete
<1>4. ASSUME NEW h \in Handlers, Drop(h) PROVE HonourInv'
  <2>1. /\ call' = [call EXCEPT ![h] = NoCall]
        /\ UNCHANGED <<row, retention, overtaken, outside, receipt, req, raced, mixed>>
    BY <1>4 DEF Drop, billing, ledger, races
  <2> QED
    BY <1>0, <2>1, CallEndHonours, CallHonours
<1>5. ASSUME NEW h \in Handlers, NEW op, Finish(h, op), row' = row PROVE HonourInv'
  <2>1. /\ call' = [call EXCEPT ![h] = NoCall] /\ (raced => raced')
        /\ (mixed => mixed') /\ (mixed' => raced')
        /\ UNCHANGED <<row, retention, overtaken, outside, receipt, req>>
    BY <1>0, <1>5 DEF Finish
  <2> QED
    BY <2>1, CallEndHonours, CallHonours
<1>6. ASSUME NEW h \in Handlers, FinishDelete(h), row' # row PROVE HonourInv'
  <2>1. /\ call[h].op = "delete" /\ call' = [call EXCEPT ![h] = NoCall]
        /\ raced' = (raced \/ call[h].seen.row # row)
        /\ mixed' = (mixed \/ call[h].seen.row # row)
        /\ UNCHANGED <<overtaken, outside, receipt, req>>
    BY <1>6 DEF FinishDelete, Finish
  <2>2. call[h].seen.spaces = 1 /\ row' = NewRow(0, "trialing")
    BY <1>6 DEF FinishDelete
  <2>3. call[h].seen.row.id = 0 \/ call[h].seen.row.status # "active"
    BY <2>1, <2>2 DEF HonourInv, DeletesBarred, NoCall
  <2>4. ASSUME NEW f \in EventIds, Clear(f), receipt[f] = "processed", ~overtaken PROVE raced'
    <3>1. SUFFICES ASSUME ~raced, row = call[h].seen.row PROVE FALSE
      BY <2>1
    <3>2. row.org = Owner(f)
      BY <2>4, <3>1 DEF HonourInv, RowHonest
    <3>3. Shows(events[f].object)
      BY <1>0, <2>4, <3>1, <3>2, Decided DEF HonourInv, RowHonest
    <3> QED
      BY <2>3, <3>1, <3>3, EventKnown DEF Shows
  <2>5. 0 \in Nat /\ "trialing" \in Statuses /\ (raced => raced') /\ (mixed' => raced')
    BY <1>0, <2>1 DEF Statuses
  <2> QED
    BY <2>1, <2>2, <2>4, <2>5, CallEndHonours, NewRowHonours
<1>7. ASSUME NEW h \in Handlers,
             \/ FinishInvite(h) \/ FinishAccept(h) \/ FinishRevoke(h) \/ FinishRole(h)
             \/ FinishRemove(h) \/ FinishSpace(h) \/ FinishDelete(h)
      PROVE  (\E op : Finish(h, op) /\ row' = row) \/ (FinishDelete(h) /\ row' # row)
  BY <1>7, Zenon DEF FinishInvite, FinishAccept, FinishRevoke, FinishRole, FinishRemove,
     FinishSpace, FinishDelete
<1> QED
  BY <1>1, <1>2, <1>3, <1>4, <1>5, <1>6, <1>7, Zenon DEF HouseNext

LEMMA HonourStep ==
    ASSUME BillingAssumption, OrganizationAssumption, OrgInv, HonourInv, [Next]_vars
    PROVE  HonourInv'
<1>1. Books /\ House
  BY DEF OrgInv
<1>2. CASE HouseNext
  BY <1>1, <1>2, HouseHonours
<1>3. CASE BillingNext /\ UNCHANGED house
  <2>1. ASSUME NEW h \in Handlers, FinishCheckout(h) \/ FinishVerify(h) \/ Apply(h)
        PROVE  HonourInv'
    BY <1>1, <1>3, <2>1, FinishCheckoutHonours, FinishVerifyHonours, ApplyHonours
  <2>2. ASSUME NEW h \in Handlers, LookUp(h) \/ Create(h)
        PROVE  HonourInv'
    BY <1>1, <1>3, <2>2, AskHonours DEF house
  <2>3. ASSUME NEW h \in Handlers, NEW e \in EventIds, Deliver(h, e)
        PROVE  HonourInv'
    BY <1>1, <1>3, <2>3, DeliverHonours
  <2> QED
    BY <1>1, <1>3, <2>1, <2>2, <2>3, ProviderHonours, TickHonours, BeginHonours, AbortHonours, Zenon
       DEF BillingNext
<1>4. CASE UNCHANGED vars
  <2>1. UNCHANGED <<row, retention, overtaken, outside, receipt, req, raced, mixed, call>>
    BY <1>4 DEF vars, billing, ledger, races, house
  <2>2. DeletesBarred'
    BY <2>1 DEF HonourInv, DeletesBarred
  <2> QED
    BY <1>1, <2>1, <2>2, CallHonours DEF HonourInv, RowHonest
<1> QED
  BY <1>2, <1>3, <1>4, Zenon DEF Next

LEMMA HonourInit ==
    ASSUME BillingAssumption, OrgInit
    PROVE  HonourInv
<1> DEFINE p == CHOOSE q \in bound.plans : TRUE
           end == 1 + Period
           object == [org |-> 1, plan |-> p, state |-> "active", paid |-> TRUE, end |-> end]
           event == [object |-> 1, state |-> "active", end |-> end, at |-> 1]
           paidRow == [NewRow(1, "active") EXCEPT !.id = 1, !.plan = p, !.end = end, !.eventAt = 1]
<1>1. /\ clock = 1 /\ req = [h \in Handlers |-> Idle] /\ call = [h \in Handlers |-> NoCall]
      /\ bound.paid => /\ remote = <<object>> /\ events = <<event>> /\ receipt = <<"processed">>
                       /\ row = paidRow /\ retention = p
      /\ ~bound.paid => events = <<>> /\ row = NewRow(1, "trialing")
  BY Zenon DEF OrgInit, Init
<1>a. raced = FALSE /\ mixed = FALSE
  BY DEF OrgInit, Init
<1>2. /\ paidRow.id = 1 /\ paidRow.plan = p /\ paidRow.end = end /\ paidRow.eventAt = 1
      /\ paidRow.status = "active" /\ paidRow.org = 1
  BY DEF NewRow
<1>3. /\ object.plan = p /\ object.end = end /\ object.state = "active" /\ object.org = 1
      /\ event.object = 1 /\ event.state = "active" /\ event.end = end /\ event.at = 1
  OBVIOUS
<1> HIDE DEF object, event, paidRow, p, end
<1>b. \A h \in Handlers : Received(req[h]) /\ RequestHonest(req[h])
  BY <1>1, IdleHonest DEF Received
<1>c. DeletesBarred
  BY <1>1 DEF DeletesBarred
<1>4. CASE bound.paid
  <2>1. /\ remote[1] = object /\ events[1] = event /\ Len(events) = 1 /\ row = paidRow
        /\ retention = p /\ receipt[1] = "processed"
    BY <1>1, <1>4, ShortSeqs, Zenon
  <2>a. EventIds = {1} /\ Owner(1) = 1
    BY <1>3, <2>1 DEF EventIds, Owner
  <2>2. Dated /\ LastEvent
    BY <1>1, <1>3, <2>1, <2>a DEF Dated, LastEvent
  <2>3. RowHonest
    BY <1>2, <1>3, <1>a, <2>1, <2>a DEF RowHonest, Told, Shows
  <2> QED
    BY <1>b, <1>c, <2>2, <2>3 DEF HonourInv
<1>5. CASE ~bound.paid
  <2>1. EventIds = {} /\ row.eventAt = 0
    BY <1>1, <1>5, NewRowType DEF EventIds, Statuses
  <2>2. Dated /\ LastEvent /\ RowHonest
    BY <1>1, <1>a, <2>1 DEF Dated, LastEvent, RowHonest, Told
  <2> QED
    BY <1>b, <1>c, <2>2 DEF HonourInv
<1> QED
  BY <1>4, <1>5

\* A subscription that is paid and running gives the organization its plan once the
\* event that decides about it is processed, until two webhooks have overlapped:
\* neither another checkout (billing_api.py:146), nor a verification that asked the
\* provider earlier, nor an older event, nor a deletion takes it away, and whatever
\* requests have overwritten before, the next webhook has set right.
THEOREM PaidPlansHonoured == OrgSpec => []PaidPlanHonoured
<1>1. OrgInit => OrgInv /\ HonourInv
  BY OrgInvInit, HonourInit, BillingAssumption, OrganizationAssumption
<1>2. (OrgInv /\ HonourInv) /\ [Next]_vars => (OrgInv /\ HonourInv)'
  BY OrgStep, HonourStep, BillingAssumption, OrganizationAssumption
<1>3. OrgInv /\ HonourInv => PaidPlanHonoured
  <2>1. SUFFICES ASSUME OrgInv, HonourInv, NEW f \in EventIds, Clear(f), receipt[f] = "processed",
                        ~overtaken
                 PROVE  LET i == events[f].object IN
                        /\ ~raced => row.org = remote[i].org
                        /\ ~mixed /\ row.org = remote[i].org =>
                              Entitled(row) = remote[i].plan /\ retention = remote[i].plan
    BY DEF PaidPlanHonoured, Clear
  <2>2. ~raced => row.org = Owner(f)
    BY <2>1 DEF HonourInv, RowHonest
  <2>3. ASSUME ~mixed, row.org = Owner(f)
        PROVE  /\ Entitled(row) = remote[events[f].object].plan
               /\ retention = remote[events[f].object].plan
    <3>1. Shows(events[f].object)
      BY <2>1, <2>3, Decided DEF OrgInv, HonourInv, RowHonest
    <3>2. remote[events[f].object].plan # "trial"
      BY <2>1, EventKnown, BillingAssumption DEF OrgInv, BillingAssumption
    <3>3. remote[events[f].object].end > clock
      BY <2>1 DEF Clear, Running
    <3> QED
      BY <3>1, <3>2, <3>3 DEF Shows, Entitled, PaidActive, Active, Unexpired
  <2> QED
    BY <2>2, <2>3 DEF Owner
<1> QED
  BY <1>1, <1>2, <1>3, PTL DEF OrgSpec
-----------------------------------------------------------------------------
(* Seats *)

\* The plan of a row is one of an object of its organization, paid for or not.
PlanKnown ==
    row.plan # "trial" => \E i \in Objects : remote[i].org = row.org /\ remote[i].plan = row.plan

\* The invitations that hold a seat at time t, the calls of this organization that
\* began by then and will add one, and the people without a seat whom an open call
\* lets in though their invitation no longer holds one.
Live(t) == {i \in InviteIds : invites[i].status = "pending" /\ invites[i].expires > t}
Here(h, op) == call[h].op = op /\ call[h].seen.row.org = row.org
Inviting(t) == {h \in Handlers : Here(h, "invite") /\ call[h].at <= t}
Hanging(t) ==
    {p \in Persons \ ActiveIn(member) :
        \E h \in Handlers : Here(h, "accept") /\ call[h].person = p /\ call[h].invite \notin Live(t)}
Claims(t) ==
    Cardinality(ActiveIn(member)) + Cardinality(Live(t)) + Cardinality(Inviting(t))
        + Cardinality(Hanging(t))

\* Every open call but one can bring a seat too many.
ClaimsBounded ==
    \A t \in 0..clock : \E n \in Limit : Claims(t) <= n + Cardinality(Handlers) - 1

\* Without overlapping calls there is none too many.
InOrder == ~crossed => \E n \in Limit : SeatsTaken <= n

\* What an open call of this organization has read.
CallFits(c) ==
    (c.op \in Ops /\ c.seen.row.org = row.org) =>
        /\ c.at <= clock
        /\ \A i \in InviteIds : invites[i].status = "pending" =>
            invites[i].expires > c.at \/ i \in Lapsed(c.seen.invites, c.at)
        /\ c.op = "invite" => \E n \in Limit :
            Cardinality(ActiveIn(c.seen.member))
                + Cardinality(PendingIn(c.seen.invites) \ Lapsed(c.seen.invites, c.at)) < n
        /\ c.op = "accept" =>
            /\ c.invite \in InviteIds /\ invites[c.invite].person = c.person
            /\ c.seen.invites[c.invite].status = "pending"

Empty == row.org = 0 => ActiveIn(member) = {} /\ invites = <<>>

SeatInv ==
    /\ PlanKnown /\ Empty /\ \A i \in InviteIds : invites[i].expires > 0
    /\ \A h \in Handlers : CallFits(call[h])
    /\ ClaimsBounded /\ InOrder

\* Whoever is in G and not in H is there because of an element of D of their own.
DueTo(G, H, D) == \E f : \A p \in G : p \in H \/ \E i \in D : f[i] = p

\* Invitations that end free at least as many seats as they leave people hanging.
LEMMA Released ==
    ASSUME NEW L, IsFiniteSet(L), NEW M \in SUBSET L, NEW H, IsFiniteSet(H), NEW G,
           DueTo(G, H, L \ M)
    PROVE  /\ Cardinality(L) \in Nat /\ Cardinality(M) \in Nat /\ Cardinality(H) \in Nat
           /\ Cardinality(G) \in Nat /\ IsFiniteSet(M) /\ IsFiniteSet(G)
           /\ Cardinality(M) + Cardinality(G) <= Cardinality(L) + Cardinality(H)
<1>a. PICK g : \A p \in G : p \in H \/ \E i \in L \ M : g[i] = p
  BY DEF DueTo
<1> DEFINE D == L \ M
           T == {g[i] : i \in D}
           f == [i \in D |-> g[i]]
<1>1. IsFiniteSet(M) /\ Cardinality(M) \in Nat /\ Cardinality(L) \in Nat /\ Cardinality(H) \in Nat
  BY FS_Subset, FS_CardinalityType
<1>2. IsFiniteSet(D) /\ Cardinality(D) = Cardinality(L) - Cardinality(M)
  <2>1. L \cap M = M
    OBVIOUS
  <2> QED
    BY <2>1, FS_Difference
<1>3. f \in Surjection(D, T)
  BY DEF Surjection
<1>4. IsFiniteSet(T) /\ Cardinality(T) <= Cardinality(D) /\ Cardinality(T) \in Nat
  <2> HIDE DEF f, T, D
  <2> QED
    BY <1>2, <1>3, FS_Surjection, FS_CardinalityType
<1>5. /\ IsFiniteSet(H \cup T) /\ Cardinality(H \cup T) <= Cardinality(H) + Cardinality(T)
      /\ Cardinality(H \cup T) \in Nat
  <2> HIDE DEF T
  <2>1. IsFiniteSet(H \cup T) /\ IsFiniteSet(H \cap T)
    BY <1>4, FS_Union, FS_Intersection
  <2>2. Cardinality(H \cup T) = Cardinality(H) + Cardinality(T) - Cardinality(H \cap T)
    BY <1>4, FS_Union
  <2>3. Cardinality(H \cap T) \in Nat /\ Cardinality(H \cup T) \in Nat
    BY <2>1, FS_CardinalityType
  <2> QED
    BY <1>1, <1>4, <2>1, <2>2, <2>3
<1>6. G \subseteq H \cup T
  BY <1>a
<1> HIDE DEF T, D
<1>7. IsFiniteSet(G) /\ Cardinality(G) <= Cardinality(H \cup T) /\ Cardinality(G) \in Nat
  BY <1>5, <1>6, FS_Subset, FS_CardinalityType
<1> QED
  BY <1>1, <1>2, <1>4, <1>5, <1>7

LEMMA LimitType ==
    ASSUME TypeOK, OrganizationAssumption, NEW n \in Limit
    PROVE  n \in Nat \ {0}
BY ObjectType DEF Limit, OrganizationAssumption, Plans

LEMMA LimitGrows ==
    ASSUME row'.org = row.org, ObjectsKept, raced => raced'
    PROVE  Limit \subseteq Limit'
BY DEF Limit, ObjectsKept

\* The seats of the plan that is shown are among them.
LEMMA LimitShown ==
    ASSUME Books, PlanKnown
    PROVE  Seats[Entitled(row)] \in Limit /\ Seats["trial"] \in Limit
<1>1. CASE Entitled(row) = "trial"
  BY <1>1 DEF Limit
<1>2. CASE Entitled(row) # "trial"
  <2>1. row.plan # "trial" /\ row.status = "active" /\ Entitled(row) = row.plan
    BY <1>2 DEF Entitled, PaidActive, Active
  <2>2. PICK i \in Objects : remote[i].org = row.org /\ remote[i].plan = row.plan
                             /\ (raced \/ remote[i].paid)
    BY <2>1 DEF Books, PaidRow, PlanKnown
  <2> QED
    BY <2>1, <2>2 DEF Limit
<1> QED
  BY <1>1, <1>2

LEMMA PeopleFinite ==
    ASSUME House, OrganizationAssumption, NEW t
    PROVE  /\ IsFiniteSet(ActiveIn(member)) /\ IsFiniteSet(Live(t)) /\ IsFiniteSet(Inviting(t))
           /\ IsFiniteSet(Hanging(t)) /\ IsFiniteSet(PendingIn(invites))
           /\ Cardinality(ActiveIn(member)) \in Nat /\ Cardinality(Live(t)) \in Nat
           /\ Cardinality(Inviting(t)) \in Nat /\ Cardinality(Hanging(t)) \in Nat
           /\ Cardinality(PendingIn(invites)) \in Nat /\ Cardinality(Handlers) \in Nat \ {0}
<1>1. IsFiniteSet(InviteIds) /\ DOMAIN invites = InviteIds
  BY FS_Interval DEF House, HouseTypeOK, InviteIds
<1>2. /\ ActiveIn(member) \in SUBSET Persons /\ Hanging(t) \in SUBSET Persons
      /\ Live(t) \in SUBSET InviteIds /\ PendingIn(invites) \in SUBSET InviteIds
      /\ Inviting(t) \in SUBSET Handlers
  BY <1>1 DEF ActiveIn, Hanging, Live, PendingIn, Inviting
<1>3. IsFiniteSet(Persons) /\ IsFiniteSet(Handlers) /\ Handlers # {}
  BY DEF OrganizationAssumption
<1>4. /\ IsFiniteSet(ActiveIn(member)) /\ IsFiniteSet(Live(t)) /\ IsFiniteSet(Inviting(t))
      /\ IsFiniteSet(Hanging(t)) /\ IsFiniteSet(PendingIn(invites))
  BY <1>1, <1>2, <1>3, FS_Subset
<1> QED
  BY <1>3, <1>4, FS_CardinalityType, FS_EmptySet

\* A person is left hanging by an invitation that ends, or by losing a seat.
LEMMA HangingGrows ==
    ASSUME \A h \in Handlers : CallFits(call[h]), row'.org = row.org, NEW t, NEW u,
           \A g \in Handlers : \/ call'[g] = call[g] \/ ~Here(g, "accept")'
                               \/ call'[g].invite \in Live(u)'
    PROVE  \A p \in Hanging(u)' :
                \/ p \in ActiveIn(member) \/ p \in Hanging(t)
                \/ \E i \in Live(t) \ Live(u)' : invites[i].person = p
<1>1. SUFFICES ASSUME NEW p \in Hanging(u)', p \notin ActiveIn(member), p \notin Hanging(t)
               PROVE  \E i \in Live(t) \ Live(u)' : invites[i].person = p
  OBVIOUS
<1>2. p \in Persons /\ \E g \in Handlers : Here(g, "accept")' /\ call'[g].person = p
                                           /\ call'[g].invite \notin Live(u)'
  BY DEF Hanging
<1>3. PICK g \in Handlers : Here(g, "accept")' /\ call'[g].person = p /\ call'[g].invite \notin Live(u)'
  BY <1>2
<1>4. call'[g] = call[g]
  BY <1>3
<1>5. Here(g, "accept") /\ call[g].person = p /\ call[g].invite \notin Live(u)'
  BY <1>3, <1>4 DEF Here
<1>6. call[g].invite \in Live(t)
  BY <1>1, <1>2, <1>5 DEF Hanging
<1>7. call[g].invite \in InviteIds /\ invites[call[g].invite].person = p
  BY <1>5 DEF CallFits, Here, Ops
<1> QED
  BY <1>5, <1>6, <1>7

LEMMA ClaimsNat ==
    ASSUME House, OrganizationAssumption, NEW t
    PROVE  Claims(t) \in Nat
BY PeopleFinite DEF Claims

\* A step that gives nobody a seat and adds no invitation.
LEMMA ClaimsFall ==
    ASSUME House, OrganizationAssumption, NEW t, NEW u,
           \A h \in Handlers : CallFits(call[h]), row'.org = row.org,
           \A g \in Handlers : \/ call'[g] = call[g] \/ ~Here(g, "accept")'
                               \/ call'[g].invite \in Live(u)',
           ActiveIn(member') = ActiveIn(member),
           Live(u)' \subseteq Live(t), Inviting(u)' \subseteq Inviting(t)
    PROVE  Claims(u)' \in Nat /\ Claims(u)' <= Claims(t)
<1> DEFINE A == Cardinality(ActiveIn(member))
           L == Cardinality(Live(t))
           I == Cardinality(Inviting(t))
           H == Cardinality(Hanging(t))
           M == Cardinality(Live(u)')
           J == Cardinality(Inviting(u)')
           G == Cardinality(Hanging(u)')
<1>1. /\ IsFiniteSet(Live(t)) /\ IsFiniteSet(Hanging(t)) /\ IsFiniteSet(Inviting(t))
      /\ A \in Nat /\ L \in Nat /\ I \in Nat /\ H \in Nat
  BY PeopleFinite
<1>2. DueTo(Hanging(u)', Hanging(t), Live(t) \ Live(u)')
  <2> DEFINE f == [i \in InviteIds |-> invites[i].person]
  <2>1. \A p \in Hanging(u)' : p \notin ActiveIn(member')
    BY DEF Hanging, ActiveIn
  <2>2. \A p \in Hanging(u)' : p \in Hanging(t) \/ \E i \in Live(t) \ Live(u)' : invites[i].person = p
    BY <2>1, HangingGrows
  <2>3. \A i \in Live(t) : f[i] = invites[i].person
    BY DEF Live
  <2> HIDE DEF f
  <2> QED
    BY <2>2, <2>3 DEF DueTo
<1>3. M \in Nat /\ G \in Nat /\ M + G <= L + H
  <2>1. Live(u)' \in SUBSET Live(t)
    OBVIOUS
  <2> QED
    BY <1>1, <1>2, <2>1, Released
<1>4. J \in Nat /\ J <= I
  BY <1>1, FS_Subset, FS_CardinalityType
<1>5. Claims(t) = A + L + I + H /\ Claims(u)' = Cardinality(ActiveIn(member')) + M + J + G
  BY DEF Claims, ActiveIn
<1> QED
  BY <1>1, <1>3, <1>4, <1>5

LEMMA BoundKept ==
    ASSUME Books, House, OrganizationAssumption, SeatInv, Limit \subseteq Limit',
           \A u \in 0..clock' : Claims(u)' \in Nat /\
                \/ \E t \in 0..clock : Claims(u)' <= Claims(t)
                \/ \E n \in Limit' : Claims(u)' <= n + Cardinality(Handlers) - 1
    PROVE  ClaimsBounded'
<1>1. SUFFICES ASSUME NEW u \in 0..clock'
               PROVE  \E n \in Limit' : Claims(u)' <= n + Cardinality(Handlers) - 1
  BY DEF ClaimsBounded
<1>2. SUFFICES ASSUME NEW t \in 0..clock, Claims(u)' <= Claims(t)
               PROVE  \E n \in Limit' : Claims(u)' <= n + Cardinality(Handlers) - 1
  BY <1>1
<1>3. PICK n \in Limit : Claims(t) <= n + Cardinality(Handlers) - 1
  BY DEF SeatInv, ClaimsBounded
<1>4. /\ Claims(t) \in Nat /\ Claims(u)' \in Nat /\ n \in Nat /\ Cardinality(Handlers) \in Nat
      /\ n \in Limit'
  BY ClaimsNat, LimitType, PeopleFinite DEF Books
<1> QED
  BY <1>2, <1>3, <1>4

\* A step that leaves the organization in place, and begins no call.
LEMMA SeatsKept ==
    ASSUME Books, House, OrganizationAssumption, SeatInv, PlanKnown', Empty',
           row'.org = row.org, Limit \subseteq Limit', clock' \in Nat, clock <= clock',
           \A h \in Handlers : call'[h] = call[h] \/ call'[h] = NoCall \/ CallFits(call[h])',
           InviteIds \subseteq InviteIds',
           \A i \in InviteIds : /\ invites'[i].person = invites[i].person
                                /\ invites'[i].expires = invites[i].expires
                                /\ invites'[i].status = "pending" => invites[i].status = "pending",
           \A i \in InviteIds' : i \in InviteIds \/ (invites'[i].expires \in Nat /\ invites'[i].expires > clock),
           ClaimsBounded', InOrder'
    PROVE  SeatInv'
<1>1. clock \in Nat
  BY DEF Books, TypeOK
<1>2. \A i \in InviteIds' : invites'[i].expires > 0
  BY <1>1 DEF SeatInv
<1>3. ASSUME NEW h \in Handlers, call'[h] = call[h] \/ call'[h] = NoCall
      PROVE  CallFits(call[h])'
  <2>1. SUFFICES ASSUME call'[h].op \in Ops, call'[h].seen.row.org = row'.org
        PROVE  /\ call'[h].at <= clock'
               /\ \A i \in InviteIds' : invites'[i].status = "pending" =>
                    invites'[i].expires > call'[h].at \/ i \in Lapsed(call'[h].seen.invites, call'[h].at)
               /\ call'[h].op = "invite" => \E n \in Limit' :
                    Cardinality(ActiveIn(call'[h].seen.member))
                        + Cardinality(PendingIn(call'[h].seen.invites)
                                        \ Lapsed(call'[h].seen.invites, call'[h].at)) < n
               /\ call'[h].op = "accept" =>
                    /\ call'[h].invite \in InviteIds' /\ invites'[call'[h].invite].person = call'[h].person
                    /\ call'[h].seen.invites[call'[h].invite].status = "pending"
    BY DEF CallFits, Lapsed, PendingIn, ActiveIn
  <2>2. call'[h] = call[h]
    BY <1>3, <2>1 DEF NoCall, Ops
  <2> DEFINE c == call[h]
  <2>3. c.op \in Ops /\ c.seen.row.org = row.org
    BY <2>1, <2>2
  <2>4. c.at \in Nat /\ c.at <= clock
    BY <2>3, CallType DEF SeatInv, CallFits
  <2>5. \A i \in InviteIds : invites[i].status = "pending" =>
            invites[i].expires > c.at \/ i \in Lapsed(c.seen.invites, c.at)
    BY <2>3 DEF SeatInv, CallFits
  <2>6. c.op = "invite" => \E n \in Limit :
            Cardinality(ActiveIn(c.seen.member))
                + Cardinality(PendingIn(c.seen.invites) \ Lapsed(c.seen.invites, c.at)) < n
    BY <2>3 DEF SeatInv, CallFits
  <2>7. c.op = "accept" =>
            /\ c.invite \in InviteIds /\ invites[c.invite].person = c.person
            /\ c.seen.invites[c.invite].status = "pending"
    BY <2>3 DEF SeatInv, CallFits
  <2> HIDE DEF c
  <2>8. call'[h] = c
    BY <2>2 DEF c
  <2>9. \A i \in InviteIds' : invites'[i].status = "pending" =>
            invites'[i].expires > c.at \/ i \in Lapsed(c.seen.invites, c.at)
    BY <1>1, <2>4, <2>5
  <2>10. c.at <= clock'
    BY <1>1, <2>4
  <2> QED
    BY <2>6, <2>7, <2>8, <2>9, <2>10
<1> QED
  BY <1>2, <1>3 DEF SeatInv

LEMMA InviteTimes ==
    ASSUME House, NEW i \in InviteIds
    PROVE  invites[i].expires \in Nat
<1>1. invites[i] \in Invitations
  BY DEF House, HouseTypeOK, InviteIds
<1> QED
  BY <1>1 DEF Invitations

\* A step that changes neither who has a seat nor the invitations.
LEMMA QuietSeats ==
    ASSUME Books, House, OrganizationAssumption, SeatInv, PlanKnown',
           row'.org = row.org, Limit \subseteq Limit', clock' \in Nat, clock <= clock',
           \A h \in Handlers : call'[h] = call[h] \/ call'[h] = NoCall,
           invites' = invites, ActiveIn(member') = ActiveIn(member), crossed => crossed'
    PROVE  SeatInv'
<1>1. clock \in Nat /\ InviteIds' = InviteIds
  BY DEF Books, TypeOK, InviteIds
<1>2. ASSUME NEW g \in Handlers, NEW op \in Ops, Here(g, op)'
      PROVE  call'[g] = call[g] /\ Here(g, op)
  BY <1>2 DEF Here, NoCall, Ops
<1>3. ASSUME NEW u \in 0..clock'
      PROVE  Claims(u)' \in Nat /\ \E t \in 0..clock : Claims(u)' <= Claims(t)
  <2>1. PICK t \in 0..clock : t <= u /\ (t = u \/ t = clock)
    <3>1. CASE u <= clock
      BY <1>1, <3>1
    <3>2. CASE ~(u <= clock)
      BY <1>1, <3>2
    <3> QED
      BY <3>1, <3>2
  <2>2. Live(u)' \subseteq Live(t)
    BY <1>1, <2>1, InviteTimes DEF Live
  <2>3. Inviting(u)' \subseteq Inviting(t)
    <3>1. SUFFICES ASSUME NEW g \in Inviting(u)' PROVE g \in Inviting(t)
      OBVIOUS
    <3>2. g \in Handlers /\ Here(g, "invite")' /\ call'[g].at <= u
      BY <3>1 DEF Inviting
    <3>3. call'[g] = call[g] /\ Here(g, "invite")
      BY <1>2, <3>2 DEF Ops
    <3>4. call[g].at <= clock
      BY <3>2, <3>3 DEF SeatInv, CallFits, Here, Ops
    <3> QED
      BY <2>1, <3>2, <3>3, <3>4 DEF Inviting
  <2>4. \A g \in Handlers : call'[g] = call[g] \/ ~Here(g, "accept")'
    BY <1>2 DEF Ops
  <2>5. \A h \in Handlers : CallFits(call[h])
    BY DEF SeatInv
  <2> QED
    BY <2>2, <2>3, <2>4, <2>5, ClaimsFall
<1>4. ClaimsBounded'
  BY <1>3, BoundKept
<1>5. SeatsTaken' = SeatsTaken
  BY DEF SeatsTaken, ActiveIn, PendingIn
<1>6. InOrder'
  BY <1>5 DEF SeatInv, InOrder
<1>7. Empty'
  BY DEF SeatInv, Empty, ActiveIn
<1> QED
  BY <1>1, <1>4, <1>6, <1>7, SeatsKept

\* What billing does to the seats there may be: there are only more.
LEMMA PlanStays ==
    ASSUME PlanKnown, ObjectsKept, row'.org = row.org,
           row'.plan \in {row.plan, "trial"} \/
                \E i \in Objects : remote[i].org = row.org /\ remote[i].plan = row'.plan
    PROVE  PlanKnown'
BY DEF PlanKnown, ObjectsKept

LEMMA FinishVerifyPlan ==
    ASSUME Books, BillingAssumption, NEW h \in Handlers, FinishVerify(h)
    PROVE  row'.plan \in {row.plan, req[h].plan} /\ row.org = req[h].read.org
<1> DEFINE q == req[h]
           end == IF bound.mode = "one_time" \/ q.end = 0 THEN clock + Period ELSE q.end
           customer == IF bound.mode = "one_time" THEN q.arg ELSE 0
           new == [q.read EXCEPT !.customer = customer, !.plan = q.plan, !.status = "active",
                                 !.end = end]
<1>1. Write(h, new)
  BY Zenon DEF FinishVerify
<1>2. q \in Requests /\ q.read \in Rows /\ q.plan \in Plans /\ q.end \in Nat /\ q.arg \in Nat
  BY DEF Books, TypeOK, Requests
<1>3. new \in Rows /\ new.org = q.read.org /\ new.plan = q.plan
  <2>1. customer \in Nat /\ end \in Nat /\ "active" \in Statuses
    BY <1>2 DEF Books, TypeOK, Statuses, RemoteStates, BillingAssumption
  <2> HIDE DEF end, customer
  <2> QED
    BY <1>2, <2>1 DEF Rows
<1> HIDE DEF new
<1> QED
  BY <1>1, <1>3, Written DEF Books

LEMMA ApplyPlan ==
    ASSUME Books, NEW h \in Handlers, Apply(h)
    PROVE  row'.plan \in {row.plan, "trial"} \/
                \E i \in Objects : remote[i].org = row.org /\ remote[i].plan = row'.plan
<1> DEFINE e == req[h].arg
           r == req[h].read
           i == events[e].object
           new == Snapshot(e, r)
<1>1. r \in Rows /\ e \in EventIds /\ r.org = remote[i].org
  BY DEF Apply, Books, TypeOK, Linked, RequestOK, Requests
<1>2. row' = row \/ Write(h, new)
  BY Zenon DEF Apply
<1>3. i \in Objects /\ new \in Rows /\ new.org = r.org /\ new.plan \in {"trial", remote[i].plan}
  BY <1>1, EventKnown, StatusType DEF Snapshot, Rows, Plans
<1> HIDE DEF new
<1>4. CASE Write(h, new)
  <2>1. row.org = r.org /\ row'.plan \in {row.plan, new.plan}
    BY <1>3, <1>4, Written DEF Books
  <2> QED
    BY <1>1, <1>3, <2>1
<1> QED
  BY <1>2, <1>4

LEMMA BillingSeats ==
    ASSUME Books, House, BillingAssumption, OrganizationAssumption, SeatInv, BillingNext,
           UNCHANGED house
    PROVE  SeatInv'
<1>1. founded' = founded /\ call' = call /\ invites' = invites /\ member' = member /\ crossed' = crossed
      /\ clock \in Nat /\ PlanKnown
  BY DEF house, people, Books, TypeOK, SeatInv
<1>2. SUFFICES /\ PlanKnown' /\ row'.org = row.org /\ ObjectsKept /\ (raced => raced')
               /\ clock' \in Nat /\ clock <= clock'
  BY <1>1, LimitGrows, QuietSeats
<1>3. ASSUME NEW i \in Objects, Move(i) \/ Pay(i)
      PROVE  /\ PlanKnown' /\ row'.org = row.org /\ ObjectsKept /\ (raced => raced')
             /\ clock' \in Nat /\ clock <= clock'
  <2>1. ObjectsKept
    BY <1>1, <1>3, MoveKeeps, PayKeeps
  <2>2. UNCHANGED <<clock, ledger>>
    BY <1>3, Zenon DEF Move, Pay
  <2>3. row' = row /\ raced' = raced /\ clock' = clock
    BY <2>2 DEF ledger, races
  <2> QED
    BY <1>1, <2>1, <2>3, PlanStays
<1>4. CASE Tick
  <2>1. ObjectsKept
    BY <1>1, <1>4, TickKeeps
  <2>2. row' = row /\ raced' = raced /\ clock' = clock + 1
    BY <1>4 DEF Tick, ledger, races
  <2> QED
    BY <1>1, <2>1, <2>2, PlanStays
<1>5. ASSUME UNCHANGED <<ledger, outside>>
      PROVE  /\ PlanKnown' /\ row'.org = row.org /\ ObjectsKept /\ (raced => raced')
             /\ clock' \in Nat /\ clock <= clock'
  <2>1. row' = row /\ raced' = raced /\ clock' = clock /\ remote' = remote
    BY <1>5 DEF ledger, races, outside
  <2>2. ObjectsKept
    BY <2>1 DEF ObjectsKept, Objects
  <2> QED
    BY <1>1, <2>1, <2>2, PlanStays
<1>6. ASSUME NEW h \in Handlers, FinishCheckout(h)
      PROVE  /\ PlanKnown' /\ row'.org = row.org /\ ObjectsKept /\ (raced => raced')
             /\ clock' \in Nat /\ clock <= clock'
  <2>1. clock' = clock /\ remote' = remote
    BY <1>6 DEF FinishCheckout, outside
  <2>2. ObjectsKept
    BY <2>1 DEF ObjectsKept, Objects
  <2> QED
    BY <1>1, <1>6, <2>1, <2>2, FinishCheckoutKeeps, PlanStays
<1>7. ASSUME NEW h \in Handlers, FinishVerify(h)
      PROVE  /\ PlanKnown' /\ row'.org = row.org /\ ObjectsKept /\ (raced => raced')
             /\ clock' \in Nat /\ clock <= clock'
  <2> DEFINE q == req[h]
  <2>1. clock' = clock /\ remote' = remote /\ row'.org = row.org /\ (raced => raced')
    <3>1. UNCHANGED outside
      BY <1>7, Zenon DEF FinishVerify
    <3> QED
      BY <1>1, <1>7, <3>1, FinishVerifyKeeps DEF outside
  <2>2. ObjectsKept
    BY <2>1 DEF ObjectsKept, Objects
  <2>3. /\ row'.plan \in {row.plan, q.plan} /\ row.org = q.read.org
    BY <1>7, FinishVerifyPlan
  <2>4. q.arg \in Objects /\ remote[q.arg].org = q.read.org /\ q.plan = remote[q.arg].plan
    <3>1. q.op = "verify"
      BY <1>7, Zenon DEF FinishVerify
    <3>2. RequestOK(q) /\ Own(q.read)
      BY DEF Books, Linked, RequestOK
    <3> QED
      BY <3>1, <3>2 DEF RequestOK, Own, Objects
  <2> QED
    BY <1>1, <2>1, <2>2, <2>3, <2>4, PlanStays
<1>8. ASSUME NEW h \in Handlers, Apply(h)
      PROVE  /\ PlanKnown' /\ row'.org = row.org /\ ObjectsKept /\ (raced => raced')
             /\ clock' \in Nat /\ clock <= clock'
  <2>1. clock' = clock /\ remote' = remote /\ row'.org = row.org /\ (raced => raced')
    BY <1>1, <1>8, ApplyKeeps DEF Apply, outside
  <2>2. ObjectsKept
    BY <2>1 DEF ObjectsKept, Objects
  <2> QED
    BY <1>1, <1>8, <2>1, <2>2, ApplyPlan, PlanStays
<1>9. ASSUME NEW h \in Handlers, Create(h)
      PROVE  /\ PlanKnown' /\ row'.org = row.org /\ ObjectsKept /\ (raced => raced')
             /\ clock' \in Nat /\ clock <= clock'
  <2>1. ObjectsKept /\ row' = row /\ raced' = raced /\ clock' = clock
    BY <1>9, Created DEF races
  <2> QED
    BY <1>1, <2>1, PlanStays
<1>10. ASSUME NEW h \in Handlers,
             \/ \E p \in bound.plans : BeginCheckout(h, p)
             \/ \E i \in Objects : BeginVerify(h, i)
             \/ \E e \in EventIds : Deliver(h, e)
             \/ LookUp(h) \/ FailEvent(h) \/ Abort(h)
      PROVE  UNCHANGED <<ledger, outside>>
  BY <1>10, Zenon DEF BeginCheckout, BeginVerify, Deliver, LookUp, FailEvent, Abort
<1> QED
  BY <1>3, <1>4, <1>5, <1>6, <1>7, <1>8, <1>9, <1>10, Zenon DEF BillingNext

\* A call that begins leaves the seats, and the calls that are open, as they are.
LEMMA OpenSeats ==
    ASSUME Books, House, OrganizationAssumption, SeatInv, NEW h \in Handlers, NEW op \in Ops,
           NEW p, NEW r, NEW i, Open(h, op, p, r, i), op = "invite" => SeatFree,
           op = "accept" => i \in Live(clock) /\ p = invites[i].person
    PROVE  SeatInv'
<1>1. PICK c :
        /\ c = [op |-> op, person |-> p, role |-> r, invite |-> i, at |-> clock, seen |-> View]
        /\ call' = [call EXCEPT ![h] = c]
        /\ UNCHANGED <<billing, founded, claimed, people, gaveUp, crossed>>
  BY DEF Open
<1>2. /\ row' = row /\ remote' = remote /\ raced' = raced /\ clock' = clock /\ member' = member
      /\ invites' = invites /\ crossed' = crossed /\ InviteIds' = InviteIds
  BY <1>1 DEF billing, ledger, races, outside, people, InviteIds
<1>3. clock \in Nat /\ DOMAIN call = Handlers
  BY DEF Books, TypeOK, House, HouseTypeOK
<1>4. call'[h] = c /\ \A g \in Handlers \ {h} : call'[g] = call[g]
  BY <1>1, <1>3
<1>5. /\ c.op = op /\ c.person = p /\ c.invite = i /\ c.at = clock /\ c.seen.row = row
      /\ c.seen.member = member /\ c.seen.invites = invites
  BY <1>1 DEF View
<1>6. Limit' = Limit
  BY <1>2 DEF Limit, Objects
<1>7. /\ Live(clock) = PendingIn(invites) \ Lapsed(invites, clock)
      /\ \A t : Live(t)' = Live(t)
  <2>1. DOMAIN invites = InviteIds
    BY DEF House, HouseTypeOK, InviteIds
  <2>2. \A j \in InviteIds : invites[j].expires > clock <=> ~(invites[j].expires <= clock)
    BY <1>3, InviteTimes
  <2>3. Live(clock) = PendingIn(invites) \ Lapsed(invites, clock)
    BY <2>1, <2>2 DEF Live, PendingIn, Lapsed
  <2>4. \A t : Live(t)' = Live(t)
    BY <1>2 DEF Live
  <2> QED
    BY <2>3, <2>4
<1>8. op = "invite" => \E n \in Limit :
            Cardinality(ActiveIn(member)) + Cardinality(Live(clock)) < n
  BY <1>7, LimitShown DEF SeatFree, SeatInv
<1>9. CallFits(call[h])'
  <2>1. \A j \in InviteIds : invites[j].status = "pending" =>
            invites[j].expires > clock \/ j \in Lapsed(invites, clock)
    BY <1>3, InviteTimes DEF Lapsed, House, HouseTypeOK, InviteIds
  <2>2. op = "accept" => i \in InviteIds /\ invites[i].person = p /\ invites[i].status = "pending"
    BY DEF Live
  <2>3. CallFits(c)'
    BY <1>2, <1>3, <1>5, <1>6, <1>7, <1>8, <2>1, <2>2 DEF CallFits, Lapsed, PendingIn, ActiveIn
  <2> QED
    BY <1>4, <2>3
<1>10. ASSUME NEW u \in 0..clock
       PROVE  Claims(u)' \in Nat /\
                \/ \E t \in 0..clock : Claims(u)' <= Claims(t)
                \/ \E n \in Limit' : Claims(u)' <= n + Cardinality(Handlers) - 1
  <2>1. ActiveIn(member') = ActiveIn(member) /\ Live(u)' = Live(u)
    BY <1>2, <1>7
  <2>2. CASE ~(op = "invite" /\ u = clock)
    <3>1. Inviting(u)' \subseteq Inviting(u)
      BY <1>2, <1>3, <1>4, <1>5, <2>2 DEF Inviting, Here
    <3>2. op = "accept" => i \in Live(u)
      BY <1>3, InviteTimes DEF Live
    <3>3. \A g \in Handlers : \/ call'[g] = call[g] \/ ~Here(g, "accept")'
                              \/ call'[g].invite \in Live(u)'
      BY <1>4, <1>5, <2>1, <3>2 DEF Here
    <3>4. row'.org = row.org /\ \A g \in Handlers : CallFits(call[g])
      BY <1>2 DEF SeatInv
    <3> QED
      BY <2>1, <3>1, <3>3, <3>4, ClaimsFall
  <2>3. CASE op = "invite" /\ u = clock
    <3> DEFINE A == Cardinality(ActiveIn(member))
               L == Cardinality(Live(clock))
               I == Cardinality(Inviting(u)')
               H == Cardinality(Hanging(u)')
    <3>1. PICK n \in Limit : A + L < n
      BY <1>8, <2>3
    <3>2. A \in Nat /\ L \in Nat /\ n \in Nat /\ Cardinality(Handlers) \in Nat
      BY PeopleFinite, LimitType, <3>1 DEF Books
    <3>3. DueTo(Hanging(u)', {}, Handlers \ Inviting(u)')
      <4> DEFINE f == [g \in Handlers |-> call'[g].person]
      <4>1. \A q \in Hanging(u)' : \E g \in Handlers : call'[g].op = "accept" /\ f[g] = q
        BY DEF Hanging, Here
      <4>2. \A g \in Inviting(u)' : call'[g].op = "invite"
        BY DEF Inviting, Here
      <4> HIDE DEF f
      <4>3. \A q \in Hanging(u)' : \E g \in Handlers \ Inviting(u)' : f[g] = q
        BY <4>1, <4>2
      <4> QED
        BY <4>3 DEF DueTo
    <3>4. Inviting(u)' \in SUBSET Handlers /\ IsFiniteSet(Handlers)
      BY DEF Inviting, OrganizationAssumption
    <3>5. I \in Nat /\ H \in Nat /\ I + H <= Cardinality(Handlers)
      <4>1. IsFiniteSet({}) /\ Cardinality({}) = 0
        BY FS_EmptySet
      <4>2. /\ I \in Nat /\ H \in Nat
            /\ I + H <= Cardinality(Handlers) + Cardinality({})
        BY <3>3, <3>4, <4>1, Released
      <4> QED
        BY <3>2, <4>1, <4>2
    <3>6. Claims(u)' = A + L + I + H
      BY <2>1, <2>3 DEF Claims
    <3> QED
      BY <1>6, <3>1, <3>2, <3>5, <3>6
  <2> QED
    BY <2>2, <2>3
<1>11. ClaimsBounded'
  BY <1>2, <1>6, <1>10, BoundKept
<1>12. InOrder'
  <2>1. SeatsTaken' = SeatsTaken
    BY <1>2 DEF SeatsTaken
  <2> QED
    BY <1>2, <1>6, <2>1 DEF SeatInv, InOrder
<1>13. PlanKnown' /\ Empty'
  BY <1>2 DEF SeatInv, PlanKnown, Empty, Objects
<1>14. \A g \in Handlers : call'[g] = call[g] \/ call'[g] = NoCall \/ CallFits(call[g])'
  BY <1>4, <1>9
<1> QED
  BY <1>2, <1>3, <1>6, <1>11, <1>12, <1>13, <1>14, SeatsKept

\* What every call that ends, and leaves the organization, does to the others.
LEMMA FinishRest ==
    ASSUME Books, House, SeatInv, NEW h \in Handlers, NEW op \in Ops, Finish(h, op),
           row'.org = row.org
    PROVE  /\ Here(h, op) /\ CallFits(call[h]) /\ call[h].at \in 0..clock
           /\ clock' = clock /\ clock \in Nat /\ Limit \subseteq Limit'
           /\ \A g \in Handlers : call'[g] = call[g] \/ call'[g] = NoCall
           /\ \A g \in Handlers : call'[g] = call[g] \/ ~Here(g, "accept")'
           /\ \A t : Inviting(t)' \subseteq Inviting(t) \ {h}
           /\ PlanKnown' \/ row' # row
           /\ crossed => crossed'
           /\ ~crossed' => /\ ~crossed /\ call[h].seen.member = member
                           /\ call[h].seen.invites = invites
<1>1. /\ call[h].op = op /\ row.org = call[h].seen.row.org
      /\ call' = [call EXCEPT ![h] = NoCall]
      /\ crossed' = (crossed \/ call[h].seen # View) /\ (raced => raced')
      /\ clock' = clock /\ remote' = remote
  BY DEF Finish, outside, Books, TypeOK
<1>2. DOMAIN call = Handlers /\ clock \in Nat
  BY DEF Books, TypeOK, House, HouseTypeOK
<1>3. call'[h] = NoCall /\ \A g \in Handlers \ {h} : call'[g] = call[g]
  BY <1>1, <1>2
<1>4. Here(h, op) /\ CallFits(call[h]) /\ call[h].at \in 0..clock
  <2>1. Here(h, op) /\ CallFits(call[h])
    BY <1>1 DEF Here, SeatInv
  <2>2. call[h].at \in Nat
    BY <1>1, CallType
  <2>3. call[h].at <= clock
    BY <1>1, <2>1 DEF CallFits
  <2> QED
    BY <1>2, <2>1, <2>2, <2>3
<1>5. Limit \subseteq Limit'
  <2>1. ObjectsKept
    BY <1>1 DEF ObjectsKept, Objects
  <2> QED
    BY <1>1, <2>1, LimitGrows
<1>6. \A g \in Handlers, o \in Ops : Here(g, o)' => g # h /\ call'[g] = call[g] /\ Here(g, o)
  BY <1>3 DEF Here, NoCall, Ops
<1>7. \A t : Inviting(t)' \subseteq Inviting(t) \ {h}
  BY <1>6 DEF Inviting, Ops
<1>8. ~crossed' => /\ ~crossed /\ call[h].seen.member = member
                   /\ call[h].seen.invites = invites
  <2>1. ~crossed' => ~crossed /\ call[h].seen = View
    BY <1>1, Zenon
  <2>2. View.member = member /\ View.invites = invites
    BY DEF View
  <2> QED
    BY <2>1, <2>2, Zenon
<1>9. PlanKnown' \/ row' # row
  BY <1>1 DEF SeatInv, PlanKnown, Objects
<1>10. crossed => crossed'
  BY <1>1 DEF House, HouseTypeOK
<1> QED
  BY <1>1, <1>2, <1>3, <1>4, <1>5, <1>6, <1>7, <1>8, <1>9, <1>10 DEF Ops

LEMMA Taken ==
    ASSUME House, OrganizationAssumption, InOrder, Limit \subseteq Limit', Books,
           ~crossed' => /\ ~crossed /\ SeatsTaken' \in Nat
                        /\ SeatsTaken' <= SeatsTaken \/ \E n \in Limit : SeatsTaken' <= n
    PROVE  InOrder'
<1>1. SUFFICES ASSUME ~crossed', SeatsTaken' <= SeatsTaken
               PROVE  \E n \in Limit' : SeatsTaken' <= n
  BY DEF InOrder
<1>2. PICK n \in Limit : SeatsTaken <= n
  BY <1>1 DEF InOrder
<1>3. n \in Nat /\ SeatsTaken \in Nat /\ SeatsTaken' \in Nat /\ n \in Limit'
  BY <1>1, <1>2, PeopleFinite, LimitType DEF SeatsTaken, Books
<1> QED
  BY <1>1, <1>2, <1>3

\* An invitation that is marked keeps its person and its end.
LEMMA Marked ==
    ASSUME House, NEW j \in InviteIds, NEW s, s # "pending",
           invites' = [invites EXCEPT ![j].status = s]
    PROVE  /\ InviteIds' = InviteIds /\ DOMAIN invites = InviteIds
           /\ \A i \in InviteIds : /\ invites'[i].person = invites[i].person
                                   /\ invites'[i].expires = invites[i].expires
                                   /\ invites'[i].status = "pending"
                                        <=> i # j /\ invites[i].status = "pending"
           /\ \A t : Live(t)' = Live(t) \ {j}
           /\ PendingIn(invites') = PendingIn(invites) \ {j}
<1>1. /\ invites \in Seq(Invitations) /\ DOMAIN invites = InviteIds /\ InviteIds = 1..Len(invites)
      /\ \A i \in InviteIds : invites[i] \in Invitations
  BY DEF House, HouseTypeOK, InviteIds
<1> DEFINE m == [invites[j] EXCEPT !.status = s]
<1>2. m.person = invites[j].person /\ m.expires = invites[j].expires /\ m.status = s
  <2>1. invites[j] \in Invitations
    BY <1>1
  <2> QED
    BY <2>1 DEF Invitations
<1>3. invites' = [invites EXCEPT ![j] = m]
  OBVIOUS
<1> HIDE DEF m
<1>4. /\ DOMAIN invites' = InviteIds /\ Len(invites') = Len(invites)
      /\ invites'[j] = m /\ \A i \in InviteIds \ {j} : invites'[i] = invites[i]
  BY <1>1, <1>3
<1>5. InviteIds' = InviteIds
  BY <1>4 DEF InviteIds
<1>6. \A i \in InviteIds : /\ invites'[i].person = invites[i].person
                           /\ invites'[i].expires = invites[i].expires
                           /\ invites'[i].status = "pending"
                                <=> i # j /\ invites[i].status = "pending"
  BY <1>2, <1>4
<1>7. \A t : Live(t)' = Live(t) \ {j}
  BY <1>5, <1>6 DEF Live
<1>8. PendingIn(invites') = PendingIn(invites) \ {j}
  BY <1>1, <1>4, <1>6 DEF PendingIn
<1> QED
  BY <1>1, <1>5, <1>6, <1>7, <1>8

LEMMA FinishRevokeSeats ==
    ASSUME Books, House, OrganizationAssumption, SeatInv, House', NEW h \in Handlers, FinishRevoke(h)
    PROVE  SeatInv'
<1>1. PICK j :
        /\ Finish(h, "revoke") /\ "revoke" \in Ops /\ invites' = [invites EXCEPT ![j].status = "revoked"]
        /\ row' = row /\ member' = member /\ ActiveIn(member') = ActiveIn(member)
  BY DEF FinishRevoke, Ops
<1>2. /\ clock' = clock /\ clock \in Nat /\ Limit \subseteq Limit'
      /\ \A g \in Handlers : call'[g] = call[g] \/ call'[g] = NoCall
      /\ \A g \in Handlers : call'[g] = call[g] \/ ~Here(g, "accept")'
      /\ \A t : Inviting(t)' \subseteq Inviting(t)
      /\ PlanKnown' /\ (crossed => crossed') /\ row'.org = row.org
      /\ clock' \in Nat /\ clock <= clock'
  BY <1>1, FinishRest
<1>3. CASE j \notin InviteIds
  <2>1. invites' = invites
    BY <1>1, <1>3 DEF House, HouseTypeOK, InviteIds
  <2> QED
    BY <1>1, <1>2, <2>1, QuietSeats
<1>4. CASE j \in InviteIds
  <2>1. /\ InviteIds' = InviteIds
        /\ \A k \in InviteIds : /\ invites'[k].person = invites[k].person
                                /\ invites'[k].expires = invites[k].expires
                                /\ invites'[k].status = "pending"
                                     <=> k # j /\ invites[k].status = "pending"
        /\ \A t : Live(t)' = Live(t) \ {j}
        /\ PendingIn(invites') = PendingIn(invites) \ {j}
    BY <1>1, <1>4, Marked
  <2>2. ASSUME NEW u \in 0..clock'
        PROVE  Claims(u)' \in Nat /\ \E t \in 0..clock : Claims(u)' <= Claims(t)
    <3>1. Live(u)' \subseteq Live(u) /\ u \in 0..clock
      BY <1>2, <2>1
    <3> QED
      BY <1>1, <1>2, <3>1, ClaimsFall DEF SeatInv
  <2>3. ClaimsBounded'
    BY <1>2, <2>2, BoundKept
  <2>4. SeatsTaken' \in Nat /\ SeatsTaken' <= SeatsTaken
    <3>1. /\ IsFiniteSet(PendingIn(invites)) /\ Cardinality(ActiveIn(member)) \in Nat
          /\ PendingIn(invites') \subseteq PendingIn(invites)
      BY <2>1, PeopleFinite
    <3>2. /\ Cardinality(PendingIn(invites')) <= Cardinality(PendingIn(invites))
          /\ Cardinality(PendingIn(invites')) \in Nat /\ Cardinality(PendingIn(invites)) \in Nat
      BY <3>1, FS_Subset, FS_CardinalityType
    <3>3. SeatsTaken' = Cardinality(ActiveIn(member)) + Cardinality(PendingIn(invites'))
      BY <1>1 DEF SeatsTaken, ActiveIn, PendingIn
    <3> QED
      BY <3>1, <3>2, <3>3 DEF SeatsTaken
  <2>5. InOrder'
    BY <1>1, <1>2, <2>4, Taken DEF SeatInv, House, HouseTypeOK
  <2>6. Empty'
    BY <1>1, <2>1 DEF SeatInv, Empty, InviteIds, House, HouseTypeOK
  <2> QED
    BY <1>1, <1>2, <2>1, <2>3, <2>5, <2>6, SeatsKept
<1> QED
  BY <1>3, <1>4

\* Somebody loses a seat: nobody but this person can be left hanging.
LEMMA FinishRemoveSeats ==
    ASSUME Books, House, OrganizationAssumption, SeatInv, House', NEW h \in Handlers, FinishRemove(h)
    PROVE  SeatInv'
<1>1. PICK p \in Persons :
        /\ Finish(h, "remove") /\ "remove" \in Ops /\ row' = row /\ invites' = invites
        /\ member' = [member EXCEPT ![p].status = "suspended"]
  BY CallType DEF FinishRemove, Ops, Finish
<1>2. /\ clock' = clock /\ clock \in Nat /\ Limit \subseteq Limit'
      /\ \A g \in Handlers : call'[g] = call[g] \/ call'[g] = NoCall
      /\ \A g \in Handlers : call'[g] = call[g] \/ ~Here(g, "accept")'
      /\ \A t : Inviting(t)' \subseteq Inviting(t)
      /\ PlanKnown' /\ (crossed => crossed') /\ row'.org = row.org
      /\ clock' \in Nat /\ clock <= clock'
  BY <1>1, FinishRest
<1>3. ActiveIn(member') = ActiveIn(member) \ {p}
  <2>1. member \in [Persons -> Memberships]
    BY DEF House, HouseTypeOK
  <2>2. member[p] \in Memberships
    BY <2>1
  <2>3. [member[p] EXCEPT !.status = "suspended"].status = "suspended"
    BY <2>2 DEF Memberships
  <2>4. member'[p].status = "suspended" /\ \A q \in Persons \ {p} : member'[q] = member[q]
    BY <1>1, <2>1, <2>3
  <2> QED
    BY <2>4 DEF ActiveIn
<1>4. InviteIds' = InviteIds /\ \A t : Live(t)' = Live(t)
  BY <1>1 DEF InviteIds, Live
<1>5. CASE p \notin ActiveIn(member)
  BY <1>1, <1>2, <1>3, <1>5, QuietSeats
<1>6. CASE p \in ActiveIn(member)
  <2>1. /\ IsFiniteSet(ActiveIn(member)) /\ Cardinality(ActiveIn(member)) \in Nat
        /\ Cardinality(ActiveIn(member')) = Cardinality(ActiveIn(member)) - 1
        /\ Cardinality(PendingIn(invites)) \in Nat
    <3>1. /\ IsFiniteSet(ActiveIn(member)) /\ Cardinality(ActiveIn(member)) \in Nat
          /\ Cardinality(PendingIn(invites)) \in Nat
      BY PeopleFinite
    <3>2. Cardinality(ActiveIn(member) \ {p}) = Cardinality(ActiveIn(member)) - 1
      BY <1>6, <3>1, FS_RemoveElement
    <3> QED
      BY <1>3, <3>1, <3>2
  <2>2. ASSUME NEW u \in 0..clock'
        PROVE  Claims(u)' \in Nat /\ \E t \in 0..clock : Claims(u)' <= Claims(t)
    <3> DEFINE A == Cardinality(ActiveIn(member))
               L == Cardinality(Live(u))
               I == Cardinality(Inviting(u))
               H == Cardinality(Hanging(u))
               J == Cardinality(Inviting(u)')
               G == Cardinality(Hanging(u)')
    <3>1. /\ IsFiniteSet(Hanging(u)) /\ IsFiniteSet(Inviting(u)) /\ u \in 0..clock
          /\ A \in Nat /\ L \in Nat /\ I \in Nat /\ H \in Nat
      BY <1>2, PeopleFinite
    <3>2. Hanging(u)' \subseteq Hanging(u) \cup {p}
      <4>1. \A q \in Hanging(u)' : q \notin ActiveIn(member') /\ q \in Persons
        BY DEF Hanging, ActiveIn
      <4>2. \A q \in Hanging(u)' : q \in ActiveIn(member) \/ q \in Hanging(u)
        BY <1>2, <1>4, HangingGrows DEF SeatInv
      <4> QED
        BY <1>3, <4>1, <4>2
    <3>3. G \in Nat /\ G <= H + 1
      <4>1. /\ IsFiniteSet(Hanging(u) \cup {p})
            /\ Cardinality(Hanging(u) \cup {p}) \in {H, H + 1}
        BY <3>1, FS_AddElement
      <4>2. G \in Nat /\ G <= Cardinality(Hanging(u) \cup {p})
        BY <3>2, <4>1, FS_Subset, FS_CardinalityType
      <4> QED
        BY <3>1, <4>1, <4>2
    <3>4. J \in Nat /\ J <= I
      BY <1>2, <3>1, FS_Subset, FS_CardinalityType
    <3>5. /\ Claims(u) = A + L + I + H
          /\ Claims(u)' = Cardinality(ActiveIn(member')) + L + J + G
      BY <1>4 DEF Claims, ActiveIn
    <3>6. Claims(u)' \in Nat /\ Claims(u)' <= Claims(u)
      <4>1. Cardinality(ActiveIn(member')) \in Nat
        BY <1>3, <2>1, FS_Subset, FS_CardinalityType
      <4> QED
        BY <2>1, <3>1, <3>3, <3>4, <3>5, <4>1
    <3> QED
      BY <3>1, <3>6
  <2>3. ClaimsBounded'
    BY <1>2, <2>2, BoundKept
  <2>4. SeatsTaken' \in Nat /\ SeatsTaken' <= SeatsTaken
    <3>1. Cardinality(ActiveIn(member')) \in Nat
      BY <1>3, <2>1, FS_Subset, FS_CardinalityType
    <3>2. SeatsTaken' = Cardinality(ActiveIn(member')) + Cardinality(PendingIn(invites))
      BY <1>1 DEF SeatsTaken, ActiveIn, PendingIn
    <3> QED
      BY <2>1, <3>1, <3>2 DEF SeatsTaken
  <2>5. InOrder'
    BY <1>1, <1>2, <2>4, Taken DEF SeatInv, House, HouseTypeOK
  <2>6. Empty'
    BY <1>1, <1>3 DEF SeatInv, Empty, ActiveIn
  <2> QED
    BY <1>1, <1>2, <1>4, <2>3, <2>5, <2>6, SeatsKept
<1> QED
  BY <1>5, <1>6

\* The calls that change no seat.
LEMMA QuietCalls ==
    ASSUME Books, House, OrganizationAssumption, SeatInv, House', NEW h \in Handlers,
           \/ FinishRole(h) \/ FinishSpace(h) \/ Drop(h)
           \/ FinishDelete(h) /\ call[h].seen.spaces # 1
    PROVE  SeatInv'
<1>1. ASSUME NEW op \in Ops, Finish(h, op), row' = row, invites' = invites,
             ActiveIn(member') = ActiveIn(member)
      PROVE  SeatInv'
  <2>1. /\ clock' = clock /\ clock \in Nat /\ Limit \subseteq Limit'
        /\ \A g \in Handlers : call'[g] = call[g] \/ call'[g] = NoCall
        /\ PlanKnown' /\ (crossed => crossed')
    BY <1>1, FinishRest
  <2> QED
    BY <1>1, <2>1, QuietSeats
<1>2. CASE FinishRole(h)
  <2>1. PICK p, r : /\ Finish(h, "role") /\ row' = row /\ invites' = invites
                    /\ member' = member \/ member' = [member EXCEPT ![p].role = r]
    BY <1>2 DEF FinishRole
  <2>2. ActiveIn(member') = ActiveIn(member)
    <3>1. member \in [Persons -> Memberships] /\ \A q \in Persons : member[q] \in Memberships
      BY DEF House, HouseTypeOK
    <3>2. \A q \in Persons : [member[q] EXCEPT !.role = r].status = member[q].status
      BY <3>1 DEF Memberships
    <3>3. \A q \in Persons : member'[q].status = member[q].status
      BY <2>1, <3>1, <3>2
    <3> QED
      BY <3>3 DEF ActiveIn
  <2> QED
    BY <1>1, <2>1, <2>2 DEF Ops
<1>3. CASE FinishSpace(h)
  BY <1>1, <1>3 DEF FinishSpace, Ops
<1>4. CASE FinishDelete(h) /\ call[h].seen.spaces # 1
  BY <1>1, <1>4 DEF FinishDelete, Ops
<1>5. CASE Drop(h)
  <2>1. /\ call' = [call EXCEPT ![h] = NoCall] /\ row' = row /\ remote' = remote /\ raced' = raced
        /\ clock' = clock /\ member' = member /\ invites' = invites /\ crossed' = crossed
    BY <1>5 DEF Drop, billing, ledger, races, outside, people
  <2>2. /\ Limit' = Limit /\ clock \in Nat /\ PlanKnown'
        /\ \A g \in Handlers : call'[g] = call[g] \/ call'[g] = NoCall
    BY <2>1 DEF Limit, Objects, SeatInv, PlanKnown, Books, TypeOK, House, HouseTypeOK
  <2> QED
    BY <2>1, <2>2, QuietSeats
<1> QED
  BY <1>2, <1>3, <1>4, <1>5

\* An invitation is accepted: the seat it holds, or the place of one who hangs,
\* becomes a member's.
LEMMA FinishAcceptSeats ==
    ASSUME Books, House, OrganizationAssumption, SeatInv, House', NEW h \in Handlers, FinishAccept(h)
    PROVE  SeatInv'
<1>1. PICK p, j, was, role :
        /\ p \in Persons /\ p = call[h].person /\ j = call[h].invite /\ was = call[h].seen.member[p].status
        /\ Finish(h, "accept") /\ "accept" \in Ops /\ row' = row
        /\ invites' = [invites EXCEPT ![j].status = "accepted"]
        /\ member' = [member EXCEPT ![p] =
                        [role |-> role,
                         status |-> IF was = "active" THEN member[p].status ELSE "active"]]
  BY CallType DEF FinishAccept, Ops, Finish
<1>2. /\ clock' = clock /\ clock \in Nat /\ Limit \subseteq Limit'
      /\ \A g \in Handlers : call'[g] = call[g] \/ call'[g] = NoCall
      /\ \A g \in Handlers : call'[g] = call[g] \/ ~Here(g, "accept")'
      /\ \A t : Inviting(t)' \subseteq Inviting(t)
      /\ PlanKnown' /\ (crossed => crossed') /\ row'.org = row.org
      /\ clock' \in Nat /\ clock <= clock'
      /\ Here(h, "accept") /\ CallFits(call[h])
      /\ ~crossed' => ~crossed /\ call[h].seen.invites = invites
  BY <1>1, FinishRest
<1>3. /\ j \in InviteIds /\ invites[j].person = p
      /\ call[h].seen.invites[j].status = "pending"
  BY <1>1, <1>2 DEF CallFits, Here
<1>4. /\ InviteIds' = InviteIds /\ DOMAIN invites = InviteIds
      /\ \A k \in InviteIds : /\ invites'[k].person = invites[k].person
                              /\ invites'[k].expires = invites[k].expires
                              /\ invites'[k].status = "pending"
                                   <=> k # j /\ invites[k].status = "pending"
      /\ \A t : Live(t)' = Live(t) \ {j}
      /\ PendingIn(invites') = PendingIn(invites) \ {j}
  BY <1>1, <1>3, Marked
<1>5. ActiveIn(member') = ActiveIn(member) \/
        (p \notin ActiveIn(member) /\ ActiveIn(member') = ActiveIn(member) \cup {p})
  <2>1. member \in [Persons -> Memberships]
    BY DEF House, HouseTypeOK
  <2>2. /\ member'[p].status = IF was = "active" THEN member[p].status ELSE "active"
        /\ \A q \in Persons \ {p} : member'[q] = member[q]
    BY <1>1, <2>1
  <2> QED
    BY <2>2 DEF ActiveIn
<1>6. Empty'
  BY <1>1, <1>3 DEF SeatInv, Empty, InviteIds, House, HouseTypeOK
<1>7. SUFFICES ClaimsBounded' /\ InOrder'
  BY <1>1, <1>2, <1>4, <1>6, SeatsKept
<1>8. /\ IsFiniteSet(ActiveIn(member)) /\ Cardinality(ActiveIn(member)) \in Nat
      /\ IsFiniteSet(PendingIn(invites)) /\ Cardinality(PendingIn(invites)) \in Nat
      /\ Cardinality(PendingIn(invites')) \in Nat
      /\ Cardinality(PendingIn(invites')) <= Cardinality(PendingIn(invites))
      /\ ~crossed' => Cardinality(PendingIn(invites')) = Cardinality(PendingIn(invites)) - 1
  <2>1. /\ IsFiniteSet(ActiveIn(member)) /\ Cardinality(ActiveIn(member)) \in Nat
        /\ IsFiniteSet(PendingIn(invites)) /\ Cardinality(PendingIn(invites)) \in Nat
    BY PeopleFinite
  <2>2. Cardinality(PendingIn(invites')) = IF j \in PendingIn(invites)
            THEN Cardinality(PendingIn(invites)) - 1 ELSE Cardinality(PendingIn(invites))
    <3>1. PendingIn(invites') = PendingIn(invites) \ {j} /\ IsFiniteSet(PendingIn(invites))
      BY <1>4, <2>1
    <3> QED
      BY <3>1, FS_RemoveElement, Zenon
  <2>3. ~crossed' => j \in PendingIn(invites)
    BY <1>2, <1>3, <1>4 DEF PendingIn
  <2>4. Cardinality(PendingIn(invites')) \in Nat
    BY <1>4, <2>1, FS_Subset, FS_CardinalityType
  <2> QED
    BY <2>1, <2>2, <2>3, <2>4
<1>9. CASE ActiveIn(member') = ActiveIn(member)
  <2>1. ASSUME NEW u \in 0..clock'
        PROVE  Claims(u)' \in Nat /\ \E t \in 0..clock : Claims(u)' <= Claims(t)
    <3>1. Live(u)' \subseteq Live(u) /\ u \in 0..clock
      BY <1>2, <1>4
    <3> QED
      BY <1>9, <1>2, <3>1, ClaimsFall DEF SeatInv
  <2>2. ClaimsBounded'
    BY <1>2, <2>1, BoundKept
  <2>3. SeatsTaken' = Cardinality(ActiveIn(member)) + Cardinality(PendingIn(invites'))
    BY <1>9 DEF SeatsTaken, ActiveIn, PendingIn
  <2>4. SeatsTaken' \in Nat /\ SeatsTaken' <= SeatsTaken
    BY <1>8, <2>3 DEF SeatsTaken
  <2>5. InOrder'
    BY <1>2, <2>4, Taken DEF SeatInv, House, HouseTypeOK
  <2> QED
    BY <2>2, <2>5
<1>10. CASE p \notin ActiveIn(member) /\ ActiveIn(member') = ActiveIn(member) \cup {p}
  <2>1. /\ Cardinality(ActiveIn(member')) = Cardinality(ActiveIn(member)) + 1
        /\ Cardinality(ActiveIn(member')) \in Nat
    <3>1. /\ Cardinality(ActiveIn(member) \cup {p}) = Cardinality(ActiveIn(member)) + 1
      BY <1>8, <1>10, FS_AddElement
    <3> QED
      BY <1>8, <1>10, <3>1
  <2>2. ASSUME NEW u \in 0..clock'
        PROVE  Claims(u)' \in Nat /\ \E t \in 0..clock : Claims(u)' <= Claims(t)
    <3> DEFINE A == Cardinality(ActiveIn(member))
               L == Cardinality(Live(u))
               I == Cardinality(Inviting(u))
               H == Cardinality(Hanging(u))
               M == Cardinality(Live(u)')
               J == Cardinality(Inviting(u)')
               G == Cardinality(Hanging(u)')
    <3>1. /\ IsFiniteSet(Live(u)) /\ IsFiniteSet(Hanging(u)) /\ IsFiniteSet(Inviting(u))
          /\ A \in Nat /\ L \in Nat /\ I \in Nat /\ H \in Nat /\ u \in 0..clock
      BY <1>2, PeopleFinite
    <3>2. Hanging(u)' \subseteq Hanging(u) \ {p}
      <4>1. \A q \in Hanging(u)' : q \notin ActiveIn(member')
        BY DEF Hanging, ActiveIn
      <4>2. \A q \in Hanging(u)' : \/ q \in ActiveIn(member) \/ q \in Hanging(u)
                                   \/ \E i \in Live(u) \ Live(u)' : invites[i].person = q
        BY <1>2, HangingGrows DEF SeatInv
      <4> QED
        BY <1>3, <1>4, <1>10, <4>1, <4>2
    <3>3. J \in Nat /\ J <= I
      BY <1>2, <3>1, FS_Subset, FS_CardinalityType
    <3>4. M \in Nat /\ G \in Nat /\ M + G + 1 <= L + H
      <4>1. G \in Nat /\ M \in Nat /\ M <= L
        BY <1>4, <3>1, <3>2, FS_Subset, FS_CardinalityType
      <4>2. G <= H /\ (p \in Hanging(u) => G <= H - 1)
        <5>1. /\ IsFiniteSet(Hanging(u) \ {p})
              /\ Cardinality(Hanging(u) \ {p}) = IF p \in Hanging(u) THEN H - 1 ELSE H
          BY <3>1, FS_RemoveElement
        <5>2. G <= Cardinality(Hanging(u) \ {p})
          BY <3>2, <5>1, FS_Subset
        <5> QED
          BY <3>1, <4>1, <5>1, <5>2
      <4>3. CASE j \in Live(u)
        <5>1. M = L - 1
          BY <1>4, <3>1, <4>3, FS_RemoveElement
        <5> QED
          BY <3>1, <4>1, <4>2, <5>1
      <4>4. CASE j \notin Live(u)
        <5>1. p \in Hanging(u)
          BY <1>1, <1>2, <1>10, <4>4 DEF Hanging
        <5> QED
          BY <3>1, <4>1, <4>2, <5>1
      <4> QED
        BY <4>3, <4>4
    <3>5. /\ Claims(u) = A + L + I + H
          /\ Claims(u)' = Cardinality(ActiveIn(member')) + M + J + G
      BY DEF Claims, ActiveIn
    <3>6. Claims(u)' \in Nat /\ Claims(u)' <= Claims(u)
      BY <2>1, <1>8, <3>1, <3>3, <3>4, <3>5
    <3> QED
      BY <3>1, <3>6
  <2>3. ClaimsBounded'
    BY <1>2, <2>2, BoundKept
  <2>4. SeatsTaken' = Cardinality(ActiveIn(member')) + Cardinality(PendingIn(invites'))
    BY DEF SeatsTaken, ActiveIn, PendingIn
  <2>5. SeatsTaken' \in Nat /\ (~crossed' => SeatsTaken' <= SeatsTaken)
    BY <1>8, <2>1, <2>4 DEF SeatsTaken
  <2>6. InOrder'
    BY <1>2, <2>5, Taken DEF SeatInv, House, HouseTypeOK
  <2> QED
    BY <2>3, <2>6
<1> QED
  BY <1>5, <1>9, <1>10

\* What an invitation leaves of the others: those that had not lapsed when the
\* call began.
LEMMA Invited ==
    ASSUME Books, House, OrganizationAssumption, NEW h \in Handlers, FinishInvite(h)
    PROVE  \E w \in Nat :
        /\ w \notin InviteIds /\ InviteIds' = InviteIds \cup {w}
        /\ invites'[w].expires \in Nat /\ invites'[w].expires > clock
        /\ \A i \in InviteIds :
            /\ invites'[i].person = invites[i].person
            /\ invites'[i].expires = invites[i].expires
            /\ invites'[i].status = "pending" =>
                /\ invites[i].status = "pending"
                /\ i \notin Lapsed(call[h].seen.invites, call[h].at)
        /\ PendingIn(invites') \subseteq {i \in InviteIds : invites'[i].status = "pending"} \cup {w}
        /\ (call[h].seen.invites = invites) =>
                PendingIn(invites') \subseteq
                    (PendingIn(invites) \ Lapsed(invites, call[h].at)) \cup {w}
<1> DEFINE c == call[h]
           new == [person |-> c.person, role |-> c.role, status |-> "pending",
                   expires |-> clock + InviteLife]
           Marks(i, first) == IF i \in Lapsed(c.seen.invites, c.at)
                              THEN [invites[i] EXCEPT !.status = "revoked"]
                              ELSE IF i = first
                              THEN [invites[i] EXCEPT !.status = "superseded"]
                              ELSE invites[i]
           w == Len(invites) + 1
<1>0. PICK first : invites' = Append([i \in InviteIds |-> Marks(i, first)], new)
  BY Zenon DEF FinishInvite
<1> DEFINE Kept(i) == Marks(i, first)
           kept == [i \in InviteIds |-> Kept(i)]
<1>1. invites' = Append(kept, new)
  BY <1>0
<1>2. /\ Len(invites) \in Nat /\ InviteIds = 1..Len(invites) /\ clock \in Nat
      /\ InviteLife \in Nat /\ InviteLife > 0
  BY DEF House, HouseTypeOK, InviteIds, Books, TypeOK, OrganizationAssumption
<1>3. new.expires = clock + InviteLife
  OBVIOUS
<1>4. ASSUME NEW i \in InviteIds
      PROVE  /\ Kept(i).person = invites[i].person /\ Kept(i).expires = invites[i].expires
             /\ Kept(i).status = "pending" =>
                    invites[i].status = "pending" /\ i \notin Lapsed(c.seen.invites, c.at)
  <2> DEFINE a == [invites[i] EXCEPT !.status = "revoked"]
             b == [invites[i] EXCEPT !.status = "superseded"]
  <2>1. invites[i] \in Invitations
    BY InviteType
  <2>2. /\ a.person = invites[i].person /\ a.expires = invites[i].expires /\ a.status = "revoked"
        /\ b.person = invites[i].person /\ b.expires = invites[i].expires /\ b.status = "superseded"
    BY <2>1 DEF Invitations
  <2>3. Kept(i) = a \/ Kept(i) = b \/ (Kept(i) = invites[i] /\ i \notin Lapsed(c.seen.invites, c.at))
    BY Zenon DEF Kept, Marks
  <2> HIDE DEF Kept, Marks, a, b
  <2> QED
    BY <2>2, <2>3
<1> HIDE DEF Kept, Marks, new
<1>5. /\ Len(kept) = Len(invites) /\ DOMAIN kept = InviteIds
      /\ \A i \in InviteIds : kept[i] = Kept(i)
  BY <1>2
<1>6. \E S : kept \in Seq(S)
  <2> DEFINE S == {Kept(i) : i \in InviteIds}
  <2>1. kept \in Seq(S)
    BY <1>2
  <2> QED
    BY <2>1
<1> HIDE DEF kept
<1>7. /\ Len(invites') = w /\ DOMAIN invites' = 1..w /\ invites'[w] = new
      /\ \A i \in InviteIds : invites'[i] = kept[i]
  BY <1>1, <1>2, <1>5, <1>6
<1>8. /\ w \in Nat /\ w \notin InviteIds /\ InviteIds' = InviteIds \cup {w}
      /\ DOMAIN invites' = InviteIds \cup {w}
  <2>1. InviteIds' = 1..w
    BY <1>7 DEF InviteIds
  <2> QED
    BY <1>2, <1>7, <2>1
<1>9. invites'[w].expires \in Nat /\ invites'[w].expires > clock
  BY <1>2, <1>3, <1>7
<1>10. \A i \in InviteIds :
            /\ invites'[i].person = invites[i].person
            /\ invites'[i].expires = invites[i].expires
            /\ invites'[i].status = "pending" =>
                /\ invites[i].status = "pending"
                /\ i \notin Lapsed(call[h].seen.invites, call[h].at)
  BY <1>4, <1>5, <1>7
<1>11. PendingIn(invites') \subseteq {i \in InviteIds : invites'[i].status = "pending"} \cup {w}
  BY <1>8 DEF PendingIn
<1>12. ASSUME call[h].seen.invites = invites
       PROVE  PendingIn(invites') \subseteq
                    (PendingIn(invites) \ Lapsed(invites, call[h].at)) \cup {w}
  <2>1. DOMAIN invites = InviteIds
    BY DEF House, HouseTypeOK, InviteIds
  <2>2. \A i \in InviteIds : invites'[i].status = "pending" =>
                i \in PendingIn(invites) \ Lapsed(invites, call[h].at)
    BY <1>10, <1>12, <2>1 DEF PendingIn
  <2> QED
    BY <1>11, <2>2
<1>13. PICK v \in Nat : v = w
  BY <1>8
<1> HIDE DEF w
<1> QED
  BY <1>8, <1>9, <1>10, <1>11, <1>12, <1>13

\* An invitation takes the seat its call stood for, from the time the call began.
LEMMA FinishInviteSeats ==
    ASSUME Books, House, OrganizationAssumption, SeatInv, House', NEW h \in Handlers, FinishInvite(h)
    PROVE  SeatInv'
<1>1. PICK at, seen : at = call[h].at /\ seen = call[h].seen
  OBVIOUS
<1>2. /\ Finish(h, "invite") /\ "invite" \in Ops /\ row' = row /\ member' = member
  BY DEF FinishInvite, Ops
<1>3. PICK w \in Nat :
        /\ w \notin InviteIds /\ InviteIds' = InviteIds \cup {w}
        /\ invites'[w].expires \in Nat /\ invites'[w].expires > clock
        /\ \A i \in InviteIds :
            /\ invites'[i].person = invites[i].person
            /\ invites'[i].expires = invites[i].expires
            /\ invites'[i].status = "pending" =>
                /\ invites[i].status = "pending"
                /\ i \notin Lapsed(seen.invites, at)
        /\ PendingIn(invites') \subseteq {i \in InviteIds : invites'[i].status = "pending"} \cup {w}
        /\ (seen.invites = invites) =>
                PendingIn(invites') \subseteq (PendingIn(invites) \ Lapsed(invites, at)) \cup {w}
  BY <1>1, Invited
<1>4. /\ clock' = clock /\ clock \in Nat /\ Limit \subseteq Limit'
      /\ \A g \in Handlers : call'[g] = call[g] \/ call'[g] = NoCall
      /\ \A g \in Handlers : call'[g] = call[g] \/ ~Here(g, "accept")'
      /\ \A t : Inviting(t)' \subseteq Inviting(t) \ {h}
      /\ PlanKnown' /\ (crossed => crossed') /\ row'.org = row.org
      /\ clock' \in Nat /\ clock <= clock'
      /\ Here(h, "invite") /\ CallFits(call[h]) /\ at \in 0..clock
      /\ ~crossed' => ~crossed /\ seen.member = member /\ seen.invites = invites
  BY <1>1, <1>2, FinishRest
<1>5. /\ \A i \in InviteIds : invites[i].status = "pending" =>
            invites[i].expires > at \/ i \in Lapsed(seen.invites, at)
      /\ \E n \in Limit :
            Cardinality(ActiveIn(seen.member))
                + Cardinality(PendingIn(seen.invites) \ Lapsed(seen.invites, at)) < n
  BY <1>1, <1>2, <1>4 DEF CallFits, Here
<1>6. ActiveIn(member') = ActiveIn(member)
  BY <1>2
<1>7. ASSUME NEW u \in 0..clock, at <= u
      PROVE  Claims(u)' \in Nat /\ Claims(u)' <= Claims(u)
  <2> DEFINE A == Cardinality(ActiveIn(member))
             L == Cardinality(Live(u))
             I == Cardinality(Inviting(u))
             H == Cardinality(Hanging(u))
             M == Cardinality(Live(u)' \ {w})
             J == Cardinality(Inviting(u)')
             G == Cardinality(Hanging(u)')
  <2>1. /\ IsFiniteSet(Live(u)) /\ IsFiniteSet(Hanging(u)) /\ IsFiniteSet(Inviting(u))
        /\ A \in Nat /\ L \in Nat /\ I \in Nat /\ H \in Nat
    BY PeopleFinite
  <2>2. Live(u)' \ {w} \in SUBSET Live(u) /\ w \notin Live(u)
    BY <1>3 DEF Live
  <2>3. DueTo(Hanging(u)', Hanging(u), Live(u) \ (Live(u)' \ {w}))
    <3> DEFINE f == [i \in InviteIds |-> invites[i].person]
    <3>1. \A p \in Hanging(u)' : p \notin ActiveIn(member')
      BY DEF Hanging, ActiveIn
    <3>2. \A p \in Hanging(u)' : p \in Hanging(u) \/ \E i \in Live(u) \ Live(u)' : invites[i].person = p
      BY <1>4, <1>6, <3>1, HangingGrows DEF SeatInv
    <3>3. \A i \in Live(u) : f[i] = invites[i].person
      BY DEF Live
    <3> HIDE DEF f
    <3> QED
      BY <3>2, <3>3 DEF DueTo
  <2>4. /\ M \in Nat /\ G \in Nat /\ M + G <= L + H /\ IsFiniteSet(Live(u)' \ {w})
    BY <2>1, <2>2, <2>3, Released
  <2>5. Cardinality(Live(u)') \in Nat /\ Cardinality(Live(u)') <= M + 1
    <3>1. /\ IsFiniteSet((Live(u)' \ {w}) \cup {w})
          /\ Cardinality((Live(u)' \ {w}) \cup {w}) = M + 1
      BY <2>4, FS_AddElement
    <3>2. Live(u)' \in SUBSET ((Live(u)' \ {w}) \cup {w})
      OBVIOUS
    <3>3. /\ IsFiniteSet(Live(u)')
          /\ Cardinality(Live(u)') <= Cardinality((Live(u)' \ {w}) \cup {w})
      BY <3>1, <3>2, FS_Subset
    <3> QED
      BY <3>1, <3>3, FS_CardinalityType
  <2>6. J \in Nat /\ J + 1 <= I
    <3>1. h \in Inviting(u)
      BY <1>1, <1>4, <1>7 DEF Inviting
    <3>2. IsFiniteSet(Inviting(u) \ {h}) /\ Cardinality(Inviting(u) \ {h}) = I - 1
      BY <2>1, <3>1, FS_RemoveElement
    <3>3. IsFiniteSet(Inviting(u)') /\ J <= Cardinality(Inviting(u) \ {h})
      BY <1>4, <3>2, FS_Subset
    <3> QED
      BY <2>1, <3>2, <3>3, FS_CardinalityType
  <2>7. /\ Claims(u) = A + L + I + H
        /\ Claims(u)' = A + Cardinality(Live(u)') + J + G
    BY <1>6 DEF Claims, ActiveIn
  <2> QED
    BY <2>1, <2>4, <2>5, <2>6, <2>7
<1>8. ASSUME NEW u \in 0..clock, ~(at <= u)
      PROVE  Claims(u)' \in Nat /\ Claims(u)' <= Claims(at)
  <2>1. u < at /\ at \in 0..clock
    BY <1>4, <1>8
  <2>2. \A i \in InviteIds' : /\ invites'[i].expires \in Nat
                              /\ invites'[i].status = "pending" => invites'[i].expires > at
    <3>1. \A i \in InviteIds : invites[i].expires \in Nat
      BY InviteTimes
    <3>2. invites'[w].expires > at
      BY <1>3, <1>4
    <3> QED
      BY <1>3, <1>5, <3>1, <3>2
  <2>3. Live(u)' = Live(at)'
    BY <2>1, <2>2 DEF Live
  <2>4. Hanging(u)' = Hanging(at)'
    BY <2>3 DEF Hanging
  <2>5. Inviting(u)' \subseteq Inviting(at)'
    <3>1. SUFFICES ASSUME NEW g \in Inviting(u)' PROVE g \in Inviting(at)'
      OBVIOUS
    <3>2. g \in Handlers /\ Here(g, "invite")' /\ call'[g].at <= u
      BY <3>1 DEF Inviting
    <3>3. call'[g] = call[g]
      BY <1>4, <3>2 DEF Here, NoCall
    <3>4. call[g].at \in Nat
      BY <3>2, <3>3, CallType DEF Here, Ops
    <3> QED
      BY <2>1, <3>2, <3>3, <3>4 DEF Inviting
  <2>6. Claims(at)' \in Nat /\ Claims(at)' <= Claims(at) /\ Claims(at) \in Nat
    BY <1>7, <2>1, ClaimsNat
  <2> DEFINE A == Cardinality(ActiveIn(member))
             M == Cardinality(Live(at)')
             G == Cardinality(Hanging(at)')
             J == Cardinality(Inviting(u)')
             K == Cardinality(Inviting(at)')
  <2>7. A \in Nat /\ M \in Nat /\ G \in Nat /\ J \in Nat /\ K \in Nat /\ J <= K
    <3>1. /\ IsFiniteSet(Handlers) /\ Inviting(at)' \subseteq Handlers
          /\ IsFiniteSet(Persons) /\ Hanging(at)' \subseteq Persons
      BY DEF OrganizationAssumption, Inviting, Hanging
    <3>2. IsFiniteSet(InviteIds') /\ Live(at)' \subseteq InviteIds'
      BY FS_Interval DEF Live, InviteIds, House, HouseTypeOK
    <3>3. IsFiniteSet(Inviting(at)') /\ IsFiniteSet(Live(at)') /\ IsFiniteSet(Hanging(at)')
      BY <3>1, <3>2, FS_Subset
    <3>4. IsFiniteSet(Inviting(u)') /\ J <= K
      BY <2>5, <3>3, FS_Subset
    <3> QED
      BY <3>3, <3>4, FS_CardinalityType, PeopleFinite
  <2>8. Claims(at)' = A + M + K + G /\ Claims(u)' = A + M + J + G
    BY <1>6, <2>3, <2>4 DEF Claims, ActiveIn
  <2> QED
    BY <2>6, <2>7, <2>8
<1>9. ASSUME NEW u \in 0..clock'
      PROVE  Claims(u)' \in Nat /\ \E t \in 0..clock : Claims(u)' <= Claims(t)
  <2>1. u \in 0..clock /\ at \in 0..clock
    BY <1>4
  <2>2. CASE at <= u
    BY <1>7, <2>1, <2>2
  <2>3. CASE ~(at <= u)
    BY <1>8, <2>1, <2>3
  <2> QED
    BY <2>2, <2>3
<1>10. ClaimsBounded'
  BY <1>4, <1>9, BoundKept
<1>11. ASSUME ~crossed'
       PROVE  SeatsTaken' \in Nat /\ \E n \in Limit : SeatsTaken' <= n
  <2> DEFINE A == Cardinality(ActiveIn(member))
             old == PendingIn(invites) \ Lapsed(invites, at)
             P == Cardinality(PendingIn(invites'))
  <2>1. PICK n \in Limit : A + Cardinality(old) < n
    BY <1>4, <1>5, <1>11
  <2>2. IsFiniteSet(old) /\ Cardinality(old) \in Nat /\ A \in Nat /\ n \in Nat
    <3>1. IsFiniteSet(PendingIn(invites)) /\ A \in Nat /\ old \subseteq PendingIn(invites)
      BY PeopleFinite
    <3>2. n \in Nat
      BY LimitType DEF Books
    <3> QED
      BY <3>1, <3>2, FS_Subset, FS_CardinalityType
  <2>3. PendingIn(invites') \subseteq old \cup {w}
    BY <1>3, <1>4, <1>11
  <2>4. P \in Nat /\ P <= Cardinality(old) + 1
    <3> HIDE DEF old
    <3>1. IsFiniteSet(old \cup {w}) /\ Cardinality(old \cup {w}) \in {Cardinality(old), Cardinality(old) + 1}
      BY <2>2, FS_AddElement
    <3>2. IsFiniteSet(PendingIn(invites')) /\ P <= Cardinality(old \cup {w})
      BY <2>3, <3>1, FS_Subset
    <3> QED
      BY <2>2, <3>1, <3>2, FS_CardinalityType
  <2>5. SeatsTaken' = A + P
    BY <1>2 DEF SeatsTaken, ActiveIn, PendingIn
  <2> QED
    BY <2>1, <2>2, <2>4, <2>5
<1>12. InOrder'
  BY <1>4, <1>11, Taken DEF SeatInv
<1>13. Empty'
  BY <1>1, <1>2, <1>4 DEF Here, Empty, House, CallsSpareFounder, NoCall
<1> QED
  BY <1>2, <1>3, <1>4, <1>10, <1>12, <1>13, SeatsKept

\* An organization that is new, or has ended, has one member or none.
LEMMA FreshSeats ==
    ASSUME House, House', OrganizationAssumption, NEW o,
           call' = call \/ (\E h \in Handlers : call' = [call EXCEPT ![h] = NoCall]),
           row'.plan = "trial", row'.org = o, o = 0 \/ o \notin 1..founded, invites' = <<>>,
           ActiveIn(member') \subseteq {Founder}, o = 0 => ActiveIn(member') = {}
    PROVE  SeatInv'
<1>1. \A h \in Handlers, op \in Ops : ~Here(h, op)' /\ ~(call'[h].op \in Ops /\ call'[h].seen.row.org = o)
  <2>1. \A h \in Handlers : call[h] # NoCall => call[h].seen.row.org \in 1..founded
    BY DEF House, CallsSpareFounder
  <2>2. \A h \in Handlers : call'[h] = call[h] \/ call'[h] = NoCall
    BY DEF House, HouseTypeOK
  <2>3. \A h \in Handlers : call'[h].op \in Ops => call'[h].seen.row.org \in 1..founded
    BY <2>1, <2>2 DEF NoCall, Ops
  <2>4. o \notin 1..founded
    OBVIOUS
  <2> QED
    BY <2>3, <2>4 DEF Here
<1>2. InviteIds' = {} /\ PendingIn(invites') = {} /\ \A t : Live(t)' = {}
  BY DEF InviteIds, PendingIn, Live
<1>3. \A t : Inviting(t)' = {} /\ Hanging(t)' = {}
  BY <1>1 DEF Inviting, Hanging, Ops
<1>4. Cardinality({}) = 0 /\ Cardinality(ActiveIn(member')) \in {0, 1}
  <2>1. Cardinality({Founder}) = 1 /\ IsFiniteSet({Founder}) /\ Cardinality({}) = 0
    BY FS_Singleton, FS_EmptySet
  <2>2. ActiveIn(member') = {} \/ ActiveIn(member') = {Founder}
    OBVIOUS
  <2> QED
    BY <2>1, <2>2
<1>5. /\ Seats["trial"] \in Limit' /\ Seats["trial"] \in Nat \ {0}
      /\ Cardinality(Handlers) \in Nat \ {0}
  BY PeopleFinite DEF Limit, OrganizationAssumption, Plans
<1>6. ClaimsBounded'
  <2>1. \A t : Claims(t)' = Cardinality(ActiveIn(member')) + 0 + 0 + 0
    BY <1>2, <1>3, <1>4 DEF Claims, ActiveIn
  <2>2. \A t : Claims(t)' <= Seats["trial"] + Cardinality(Handlers) - 1
    BY <1>4, <1>5, <2>1
  <2> QED
    BY <1>5, <2>2 DEF ClaimsBounded
<1>7. InOrder'
  <2>1. SeatsTaken' = Cardinality(ActiveIn(member')) + 0
    BY <1>2, <1>4 DEF SeatsTaken, ActiveIn, PendingIn
  <2>2. SeatsTaken' <= Seats["trial"]
    BY <1>4, <1>5, <2>1
  <2> QED
    BY <1>5, <2>2 DEF InOrder
<1>8. PlanKnown' /\ Empty'
  BY DEF PlanKnown, Empty, ActiveIn
<1>9. \A h \in Handlers : CallFits(call[h])'
  BY <1>1 DEF CallFits
<1> QED
  BY <1>2, <1>6, <1>7, <1>8, <1>9 DEF SeatInv

LEMMA EnsureSeats ==
    ASSUME Books, House, House', OrganizationAssumption, SeatInv, EnsurePersonalWorkspace
    PROVE  SeatInv'
<1>1. PICK o : o = founded + 1
  OBVIOUS
<1>2. /\ row.org = 0 /\ call' = call /\ invites' = invites
      /\ row' = NewRow(founded + 1, IF claimed THEN "trial_used" ELSE "trialing")
      /\ member' = [member EXCEPT ![Founder] = [role |-> "owner", status |-> "active"]]
  BY DEF EnsurePersonalWorkspace
<1>3. row'.org = o /\ row'.plan = "trial"
  BY <1>1, <1>2 DEF NewRow
<1>4. founded \in Nat /\ o # 0 /\ o \notin 1..founded
  BY <1>1 DEF House, HouseTypeOK
<1>5. ActiveIn(member) = {} /\ invites' = <<>>
  BY <1>2 DEF SeatInv, Empty
<1>6. ActiveIn(member') \subseteq {Founder}
  <2>1. \A p \in Persons \ {Founder} : member'[p] = member[p]
    BY <1>2 DEF House, HouseTypeOK
  <2> QED
    BY <1>5, <2>1 DEF ActiveIn
<1> QED
  BY <1>2, <1>3, <1>4, <1>5, <1>6, FreshSeats

LEMMA LastDeleteSeats ==
    ASSUME House, House', OrganizationAssumption, NEW h \in Handlers, FinishDelete(h),
           call[h].seen.spaces = 1
    PROVE  SeatInv'
<1>1. /\ row' = NewRow(0, "trialing") /\ invites' = <<>> /\ member' = [p \in Persons |-> NoMember]
      /\ call' = [call EXCEPT ![h] = NoCall]
  BY DEF FinishDelete, Finish
<1>2. row'.plan = "trial" /\ row'.org = 0
  BY <1>1 DEF NewRow
<1>3. ActiveIn(member') = {}
  BY <1>1 DEF ActiveIn, NoMember
<1> QED
  BY <1>1, <1>2, <1>3, FreshSeats

LEMMA SeatStep ==
    ASSUME BillingAssumption, OrganizationAssumption, OrgInv, OrgInv', SeatInv, [Next]_vars
    PROVE  SeatInv'
<1>1. Books /\ House /\ House'
  BY DEF OrgInv
<1>2. CASE EnsurePersonalWorkspace
  BY <1>1, <1>2, EnsureSeats
<1>3. ASSUME NEW h \in Handlers, NEW a \in Persons,
             \/ \E p \in Persons : \/ \E r \in Roles : BeginInvite(h, a, p, r) \/ BeginRole(h, a, p, r)
                                   \/ BeginRemove(h, a, p)
             \/ \E i \in InviteIds : BeginRevoke(h, a, i)
             \/ BeginSpace(h, a) \/ BeginDelete(h, a)
      PROVE  SeatInv'
  <2>1. PICK op, p, r, i :
            op \in Ops \ {"accept"} /\ Open(h, op, p, r, i) /\ (op = "invite" => SeatFree)
    <3>1. {"invite", "role", "remove", "revoke", "space", "delete"} \subseteq Ops \ {"accept"}
      BY DEF Ops
    <3>2. ASSUME NEW p \in Persons, NEW r \in Roles, BeginInvite(h, a, p, r)
          PROVE  Open(h, "invite", p, r, 0) /\ SeatFree
      BY <3>2 DEF BeginInvite
    <3>3. ASSUME NEW p \in Persons, NEW r \in Roles, BeginRole(h, a, p, r)
          PROVE  Open(h, "role", p, r, 0)
      BY <3>3 DEF BeginRole
    <3>4. ASSUME NEW p \in Persons, BeginRemove(h, a, p) PROVE Open(h, "remove", p, "member", 0)
      BY <3>4 DEF BeginRemove
    <3>5. ASSUME NEW i \in InviteIds, BeginRevoke(h, a, i)
          PROVE  Open(h, "revoke", invites[i].person, invites[i].role, i)
      BY <3>5 DEF BeginRevoke
    <3>6. BeginSpace(h, a) => Open(h, "space", a, "member", 0)
      BY DEF BeginSpace
    <3>7. BeginDelete(h, a) => Open(h, "delete", a, "member", 0)
      BY DEF BeginDelete
    <3> QED
      BY <1>3, <3>1, <3>2, <3>3, <3>4, <3>5, <3>6, <3>7
  <2> QED
    BY <1>1, <2>1, OpenSeats
<1>4. ASSUME NEW h \in Handlers, NEW i \in InviteIds, BeginAccept(h, i)
      PROVE  SeatInv'
  <2>1. PICK p, r : /\ Open(h, "accept", p, r, i) /\ p = invites[i].person
                    /\ i \in Live(clock)
    BY <1>4 DEF BeginAccept, Live
  <2> QED
    BY <1>1, <2>1, OpenSeats DEF Ops
<1>5. ASSUME NEW h \in Handlers, FinishDelete(h)
      PROVE  SeatInv'
  BY <1>1, <1>5, LastDeleteSeats, QuietCalls
<1>6. ASSUME NEW h \in Handlers,
             \/ FinishInvite(h) \/ FinishAccept(h) \/ FinishRevoke(h) \/ FinishRole(h)
             \/ FinishRemove(h) \/ FinishSpace(h) \/ Drop(h)
      PROVE  SeatInv'
  BY <1>1, <1>6, FinishInviteSeats, FinishAcceptSeats, FinishRevokeSeats, FinishRemoveSeats,
     QuietCalls
<1>7. CASE BillingNext /\ UNCHANGED house
  BY <1>1, <1>7, BillingSeats
<1>8. CASE UNCHANGED vars
  <2>1. /\ row' = row /\ remote' = remote /\ raced' = raced /\ clock' = clock /\ member' = member
        /\ invites' = invites /\ crossed' = crossed /\ call' = call
    BY <1>8 DEF vars, billing, ledger, races, outside, house, people
  <2>2. Limit' = Limit /\ clock \in Nat /\ PlanKnown'
    BY <1>1, <2>1 DEF Limit, Objects, SeatInv, PlanKnown, Books, TypeOK
  <2> QED
    BY <1>1, <2>1, <2>2, QuietSeats
<1> QED
  BY <1>2, <1>3, <1>4, <1>5, <1>6, <1>7, <1>8, Zenon DEF Next, HouseNext

LEMMA SeatInit ==
    ASSUME BillingAssumption, OrganizationAssumption, OrgInv, OrgInit
    PROVE  SeatInv
<1>1. /\ clock = 1 /\ invites = <<>> /\ call = [h \in Handlers |-> NoCall]
      /\ member = [p \in Persons |-> IF p = Founder THEN [role |-> "owner", status |-> "active"]
                                   ELSE NoMember]
  BY Zenon DEF OrgInit, Init
<1>2. ActiveIn(member) = {Founder} /\ Cardinality({Founder}) = 1 /\ Cardinality({}) = 0
  <2>1. ActiveIn(member) = {Founder}
    BY <1>1 DEF ActiveIn, NoMember, OrganizationAssumption
  <2> QED
    BY <2>1, FS_Singleton, FS_EmptySet
<1>3. InviteIds = {} /\ PendingIn(invites) = {} /\ \A t : Live(t) = {}
  BY <1>1 DEF InviteIds, PendingIn, Live
<1>4. \A h \in Handlers : call[h].op \notin Ops
  BY <1>1 DEF NoCall, Ops
<1>5. \A t : Inviting(t) = {} /\ Hanging(t) = {}
  BY <1>4 DEF Inviting, Hanging, Here, Ops
<1>6. /\ Seats["trial"] \in Limit /\ Seats["trial"] \in Nat \ {0}
      /\ Cardinality(Handlers) \in Nat \ {0}
  BY PeopleFinite DEF Limit, OrganizationAssumption, Plans, OrgInv
<1>7. ClaimsBounded
  <2>1. \A t : Claims(t) = 1 + 0 + 0 + 0
    BY <1>2, <1>3, <1>5 DEF Claims
  <2> QED
    BY <1>6, <2>1 DEF ClaimsBounded
<1>8. InOrder
  BY <1>2, <1>3, <1>6 DEF InOrder, SeatsTaken
<1>9. row.org = 1 /\ PlanKnown
  <2> DEFINE p == CHOOSE q \in bound.plans : TRUE
             paidRow == [NewRow(1, "active") EXCEPT !.id = 1, !.plan = p, !.end = 1 + Period,
                                                    !.eventAt = 1]
  <2>1. \/ row = NewRow(1, "trialing")
        \/ raced = FALSE /\ row = paidRow
    BY Zenon DEF OrgInit, Init
  <2>2. NewRow(1, "trialing").plan = "trial" /\ NewRow(1, "trialing").org = 1
    BY DEF NewRow
  <2>3. paidRow.status = "active" /\ paidRow.org = 1
    BY DEF NewRow
  <2> HIDE DEF paidRow
  <2> QED
    BY <2>1, <2>2, <2>3 DEF PlanKnown, OrgInv, Books, PaidRow
<1> QED
  BY <1>3, <1>4, <1>7, <1>8, <1>9 DEF SeatInv, CallFits, Empty

\* The members and the invitations of an organization fit in the seats of its plan
\* or of one it has paid for: calls that overlap can each take one seat too many
\* (saas_api.py:277 counts, saas_api.py:321 commits, and nothing locks), all but
\* one of them, and calls in sequence take none, whoever is invited, suspended or
\* taken back, and however long an invitation is left open.
THEOREM SeatsStayWithinPlan == OrgSpec => []SeatsWithinPlan
<1>1. OrgInit => OrgInv /\ SeatInv
  BY OrgInvInit, SeatInit, BillingAssumption, OrganizationAssumption
<1>2. (OrgInv /\ SeatInv) /\ [Next]_vars => (OrgInv /\ SeatInv)'
  BY OrgStep, SeatStep, BillingAssumption, OrganizationAssumption
<1>3. OrgInv /\ SeatInv => SeatsWithinPlan
  <2>1. SUFFICES ASSUME OrgInv, SeatInv PROVE SeatsWithinPlan
    OBVIOUS
  <2>2. CASE ~crossed
    <3>1. PICK n \in Limit : SeatsTaken <= n
      BY <2>1, <2>2 DEF SeatInv, InOrder
    <3>2. n \in Nat
      BY <2>1, LimitType, OrganizationAssumption DEF OrgInv, Books
    <3>3. SeatsTaken <= n + 0
      BY <3>1, <3>2
    <3> QED
      BY <2>2, <3>3 DEF SeatsWithinPlan
  <2>3. CASE crossed
    <3>1. 0 \in 0..clock /\ Live(0) = PendingIn(invites)
      <4>1. DOMAIN invites = InviteIds /\ clock \in Nat
        BY <2>1 DEF OrgInv, House, HouseTypeOK, Books, TypeOK, InviteIds
      <4> QED
        BY <2>1, <4>1 DEF SeatInv, Live, PendingIn
    <3>2. PICK n \in Limit : Claims(0) <= n + Cardinality(Handlers) - 1
      BY <2>1, <3>1 DEF SeatInv, ClaimsBounded
    <3>3. /\ Cardinality(ActiveIn(member)) \in Nat /\ Cardinality(Live(0)) \in Nat
          /\ Cardinality(Inviting(0)) \in Nat /\ Cardinality(Hanging(0)) \in Nat
          /\ Cardinality(Handlers) \in Nat /\ n \in Nat
      BY <2>1, PeopleFinite, LimitType, OrganizationAssumption DEF OrgInv, Books
    <3>4. SeatsTaken <= n + (Cardinality(Handlers) - 1)
      BY <3>1, <3>2, <3>3 DEF SeatsTaken, Claims
    <3> QED
      BY <2>3, <3>4 DEF SeatsWithinPlan
  <2> QED
    BY <2>2, <2>3
<1> QED
  BY <1>1, <1>2, <1>3, PTL DEF OrgSpec
=============================================================================
