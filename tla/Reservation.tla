---------------------------- MODULE Reservation ----------------------------
(***************************************************************************)
(* The arithmetic of one usage reservation (app/usage.py).  A reservation  *)
(* holds one credit per scenario of an evaluation.  Every run gives its    *)
(* credit back once: it is settled when the run completes and refunded     *)
(* when the run fails or is canceled.  The idempotency keys "settle:<run>" *)
(* and "refund:<run>" are the members of settles and refunds.              *)
(***************************************************************************)
EXTENDS Integers, FiniteSets

AtMost(a, b) == IF a <= b THEN a ELSE b

\* A row of usage_reservations together with its rows of usage_events.
\* charged holds the runs whose settlement event carries a unit.
Accounts(Run) ==
    [reserved : Nat, settled : Nat, refunded : Nat,
     status : {"reserved", "settled", "expired"},
     settles : SUBSET Run, refunds : SUBSET Run, charged : SUBSET Run]

NewAccount(units) ==
    [reserved |-> units, settled |-> 0, refunded |-> 0, status |-> "reserved",
     settles |-> {}, refunds |-> {}, charged |-> {}]

\* Units neither settled nor refunded yet.
Remaining(acct) ==
    LET open == acct.reserved - acct.settled - acct.refunded
    IN  IF open > 0 THEN open ELSE 0

StatusAfter(acct, settled, refunded) ==
    IF settled + refunded >= acct.reserved THEN "settled" ELSE acct.status

\* Mutant: the unit is taken whether or not one remains.
SettleRunUncapped(acct, r) ==
    IF r \in acct.settles
    THEN acct
    ELSE [acct EXCEPT
            !.settled = @ + 1,
            !.status  = StatusAfter(acct, acct.settled + 1, acct.refunded),
            !.settles = @ \cup {r},
            !.charged = @ \cup {r}]

\* settle_run: a second call for the same run finds its key and does nothing.
SettleRun(acct, r) ==
    LET units == AtMost(1, Remaining(acct))
    IN  IF r \in acct.settles
        THEN acct
        ELSE [acct EXCEPT
                !.settled = @ + units,
                !.status  = StatusAfter(acct, acct.settled + units, acct.refunded),
                !.settles = @ \cup {r},
                !.charged = IF units = 1 THEN @ \cup {r} ELSE @]

\* Mutants: the event's zero units are given back instead of the run's one; no
\* event is recorded once the reservation is used up.
RefundRunsNoUnits(acct, R) ==
    [acct EXCEPT !.refunds = @ \cup R]

RefundRunsWhileOpen(acct, R) ==
    LET new   == R \ acct.refunds
        units == AtMost(Cardinality(new), Remaining(acct))
    IN  IF new = {} \/ units = 0
        THEN acct
        ELSE [acct EXCEPT
                !.refunded = @ + units,
                !.status   = StatusAfter(acct, acct.settled, acct.refunded + units),
                !.refunds  = @ \cup new]

\* refund_run called once for every run of R in one transaction.  Every call
\* gives back one unit as long as one remains, so R gives back the smaller of
\* its new runs and what remains.
RefundRuns(acct, R) ==
    LET new   == R \ acct.refunds
        units == AtMost(Cardinality(new), Remaining(acct))
    IN  IF new = {}
        THEN acct
        ELSE [acct EXCEPT
                !.refunded = @ + units,
                !.status   = StatusAfter(acct, acct.settled, acct.refunded + units),
                !.refunds  = @ \cup new]

RefundRun(acct, r) == RefundRuns(acct, {r})

\* The reservation never gives back more than it holds, every settled unit is
\* a charged run's, no more units are refunded than runs, and the reservation is
\* closed exactly when nothing is left to give back.
Conserved(acct) ==
    /\ acct.settled + acct.refunded <= acct.reserved
    /\ acct.settled = Cardinality(acct.charged)
    /\ acct.charged \subseteq acct.settles
    /\ acct.refunded <= Cardinality(acct.refunds)
    /\ Remaining(acct) = 0 <=> acct.status = "settled"

\* Every run is settled at most once or refunded at most once, with its unit.
Exact(acct, Run) ==
    /\ acct.reserved = Cardinality(Run)
    /\ acct.settles \cap acct.refunds = {}
    /\ acct.charged = acct.settles
    /\ acct.settled = Cardinality(acct.settles)
    /\ acct.refunded = Cardinality(acct.refunds)
=============================================================================
