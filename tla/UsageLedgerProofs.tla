------------------------- MODULE UsageLedgerProofs -------------------------
(***************************************************************************)
(* Theorems about UsageLedger, for every finite set of keys, every set of  *)
(* requests, every plan and every bound.                                   *)
(***************************************************************************)
EXTENDS UsageLedger, ReservationProofs

\* A reservation as AccountInv wants it.
Sound(a) ==
    /\ a \in Accounts(RunIds) /\ Balanced(a)
    /\ IsFiniteSet(a.charged) /\ a.charged \subseteq a.settles

\* A new reservation is sound.
LEMMA NewAccountSound ==
    ASSUME NEW n \in Nat
    PROVE  /\ Sound(NewAccount(n)) /\ NewAccount(n).reserved = n
           /\ Remaining(NewAccount(n)) = n
  BY FS_EmptySet DEF NewAccount, Sound, Accounts, Balanced, Remaining

\* What settle_run does to a sound reservation.
LEMMA SettleSound ==
    ASSUME NEW a, Sound(a), NEW r \in RunIds
    PROVE  /\ Sound(SettleRun(a, r))
           /\ SettleRun(a, r).reserved = a.reserved
           /\ SettleRun(a, r).settled \in {a.settled, a.settled + 1}
           /\ Remaining(SettleRun(a, r)) = Remaining(a) - (SettleRun(a, r).settled - a.settled)
           /\ SettleRun(a, r).status = "reserved" => a.status = "reserved"
  <1> DEFINE units == AtMost(1, Remaining(a))
             next  == SettleRun(a, r)
  <1>0. /\ a.reserved \in Nat /\ a.settled \in Nat /\ a.refunded \in Nat
        /\ Remaining(a) = a.reserved - a.settled - a.refunded
    BY DEF Sound, Accounts, Balanced, Remaining
  <1>1. CASE r \in a.settles
    BY <1>0, <1>1 DEF SettleRun
  <1>2. CASE r \notin a.settles
    <2>1. units \in {0, 1} /\ units <= Remaining(a)
      BY RemainingNat DEF AtMost, Sound
    <2>2. next = [a EXCEPT
                    !.settled = @ + units,
                    !.status  = StatusAfter(a, a.settled + units, a.refunded),
                    !.settles = @ \cup {r},
                    !.charged = IF units = 1 THEN @ \cup {r} ELSE @]
      BY <1>2 DEF SettleRun
    <2>3. next \in Accounts(RunIds)
      BY SettleRunType DEF Sound
    <2> HIDE DEF units, next
    <2>4. /\ next.reserved = a.reserved /\ next.refunded = a.refunded
          /\ next.settled = a.settled + units
          /\ next.settles = a.settles \cup {r}
          /\ next.charged = IF units = 1 THEN a.charged \cup {r} ELSE a.charged
          /\ next.status = StatusAfter(a, a.settled + units, a.refunded)
      BY <2>2 DEF Sound, Accounts
    <2>5. /\ IsFiniteSet(a.charged \cup {r})
          /\ Cardinality(a.charged \cup {r}) = Cardinality(a.charged) + 1
      BY <1>2, FS_AddElement DEF Sound
    <2>6. /\ next.settled = Cardinality(next.charged)
          /\ IsFiniteSet(next.charged) /\ next.charged \subseteq next.settles
      <3>1. CASE units = 1
        BY <3>1, <2>4, <2>5 DEF Sound, Balanced
      <3>2. CASE units = 0
        BY <3>2, <1>0, <2>4 DEF Sound, Balanced
      <3>3. QED
        BY <2>1, <3>1, <3>2
    <2>7. Remaining(next) = Remaining(a) - units /\ next.settled + next.refunded <= next.reserved
      BY <1>0, <2>1, <2>4 DEF Remaining
    <2>8. next.reserved > 0 => (Remaining(next) = 0 <=> next.status # "reserved")
      BY <1>0, <2>1, <2>4, <2>7 DEF Sound, Balanced, StatusAfter
    <2>9. next.status = "reserved" => a.status = "reserved"
      BY <2>4 DEF StatusAfter
    <2>10. Sound(next)
      BY <2>3, <2>6, <2>7, <2>8 DEF Sound, Balanced
    <2>11. QED
      BY <1>0, <2>1, <2>4, <2>7, <2>9, <2>10 DEF next
  <1>3. QED
    BY <1>1, <1>2

\* What refund_run does to a sound reservation.
LEMMA RefundSound ==
    ASSUME NEW a, Sound(a), NEW r \in RunIds
    PROVE  /\ Sound(RefundRun(a, r))
           /\ RefundRun(a, r).reserved = a.reserved
           /\ RefundRun(a, r).settled = a.settled
           /\ Remaining(RefundRun(a, r)) <= Remaining(a)
           /\ RefundRun(a, r).status = "reserved" => a.status = "reserved"
  <1> DEFINE new   == {r} \ a.refunds
             units == AtMost(Cardinality(new), Remaining(a))
             next  == RefundRun(a, r)
  <1>0. /\ a.reserved \in Nat /\ a.settled \in Nat /\ a.refunded \in Nat
        /\ Remaining(a) = a.reserved - a.settled - a.refunded
    BY DEF Sound, Accounts, Balanced, Remaining
  <1>1. CASE new = {}
    BY <1>0, <1>1 DEF RefundRun, RefundRuns
  <1>2. CASE new # {}
    <2>1. new = {r} /\ Cardinality(new) = 1
      BY <1>2, FS_Singleton
    <2>2. units \in {0, 1} /\ units <= Remaining(a)
      BY <2>1, RemainingNat DEF AtMost, Sound
    <2>3. next = [a EXCEPT
                    !.refunded = @ + units,
                    !.status   = StatusAfter(a, a.settled, a.refunded + units),
                    !.refunds  = @ \cup new]
      BY <1>2 DEF RefundRun, RefundRuns
    <2> HIDE DEF units, next, new
    <2>4. /\ next.reserved = a.reserved /\ next.settled = a.settled
          /\ next.refunded = a.refunded + units
          /\ next.refunds = a.refunds \cup new
          /\ next.settles = a.settles /\ next.charged = a.charged
          /\ next.status = StatusAfter(a, a.settled, a.refunded + units)
      BY <2>3 DEF Sound, Accounts
    <2>5. next.status \in {"reserved", "settled", "expired"}
      BY <2>4 DEF StatusAfter, Sound, Accounts
    <2>6. next \in Accounts(RunIds)
      <3>1. a.refunded + units \in Nat /\ a.refunds \cup new \in SUBSET RunIds
        BY <1>0, <2>1, <2>2 DEF Sound, Accounts
      <3>2. QED
        BY <2>3, <2>4, <2>5, <3>1 DEF Sound, Accounts
    <2>7. Remaining(next) = Remaining(a) - units /\ next.settled + next.refunded <= next.reserved
      <3>1. next.reserved - next.settled - next.refunded = Remaining(a) - units
        BY <1>0, <2>2, <2>4
      <3>2. Remaining(a) - units \in Nat
        BY <1>0, <2>2
      <3>3. QED
        BY <1>0, <2>2, <2>4, <3>1, <3>2 DEF Remaining
    <2>8. next.reserved > 0 => (Remaining(next) = 0 <=> next.status # "reserved")
      BY <1>0, <2>2, <2>4, <2>7 DEF Sound, Balanced, StatusAfter
    <2>9. next.status = "reserved" => a.status = "reserved"
      BY <2>4 DEF StatusAfter
    <2>10. Sound(next)
      BY <2>4, <2>6, <2>7, <2>8 DEF Sound, Balanced
    <2>11. QED
      BY <1>0, <2>2, <2>4, <2>7, <2>9, <2>10 DEF next
  <1>3. QED
    BY <1>1, <1>2

\* Giving back at least what is left, as the check constraint lets it.
LEMMA ReleasedSound ==
    ASSUME NEW a, Sound(a), NEW d \in Nat \ {0}, a.settled + d >= a.reserved,
           TotalsAllowed(Released(a, d))
    PROVE  /\ Sound(Released(a, d))
           /\ Released(a, d).reserved = a.reserved /\ Released(a, d).settled = a.settled
           /\ Released(a, d).status # "reserved"
  <1> DEFINE next == Released(a, d)
  <1>1. /\ next.reserved = a.reserved /\ next.settled = a.settled
        /\ next.refunded = d /\ next.status = "expired"
        /\ next.charged = a.charged /\ next.settles = a.settles
    BY DEF Released, Sound, Accounts
  <1>2. next \in Accounts(RunIds)
    BY DEF Released, Sound, Accounts
  <1> HIDE DEF next
  <1>3. next.settled + next.refunded <= next.reserved
    BY DEF TotalsAllowed, next
  <1>4. Remaining(next) = 0
    BY <1>1, <1>2 DEF Remaining, Accounts, Sound
  <1>5. Sound(next)
    BY <1>1, <1>2, <1>3, <1>4 DEF Sound, Balanced
  <1>6. QED
    BY <1>1, <1>5 DEF next
-----------------------------------------------------------------------------
LedgerInv == TypeOK /\ AccountInv

\* The variables other than acct are well typed, and requests have keys.
RestOK ==
    /\ timing \in Timings
    /\ expired \in SUBSET Keys /\ live \in SUBSET Keys
    /\ made \in [Keys -> Nat]
    /\ open \in [Keys -> SUBSET RunIds]
    /\ billed \in Nat
    /\ pc \in [Requests -> {"new", "waiting", "summing", "attaching"} \cup Answers]
    /\ key \in [Requests -> Keys \cup {NoKey}]
    /\ size \in [Requests -> 0..MaxUnits]
    /\ used \in [Requests -> Nat]
    /\ due \in [Keys -> Nat]
    /\ deletes \in Nat /\ periods \in Nat
    /\ \A q \in Requests : pc[q] \in {"waiting", "summing", "attaching"} =>
         key[q] \in Keys /\ size[q] # 0

AcctOK ==
    /\ acct \in [Keys -> Accounts(RunIds)]
    /\ \A k \in Keys : Sound(acct[k]) /\ acct[k].reserved <= MaxUnits
    /\ DueCovers

LEMMA LedgerInvParts == LedgerInv <=> RestOK /\ AcctOK
  BY DEF LedgerInv, TypeOK, AccountInv, AccountsConserved, ChargesRecorded, Sound,
         CallsOK, RestOK, AcctOK

LEMMA LedgerInvPartsNext == LedgerInv' <=> RestOK' /\ AcctOK'
  BY DEF LedgerInv, TypeOK, AccountInv, AccountsConserved, ChargesRecorded, Sound,
         CallsOK, RestOK, AcctOK

LEMMA InitLedgerInv == Init => LedgerInv
  <1> SUFFICES ASSUME Init PROVE RestOK /\ AcctOK
    BY LedgerInvParts
  <1>1. RestOK
    BY LedgerAssumption DEF Init, RestOK, NothingDue
  <1>2. Sound(NewAccount(0)) /\ NewAccount(0).reserved = 0
    BY NewAccountSound
  <1>3. AcctOK
    BY <1>2, LedgerAssumption DEF Init, AcctOK, DueCovers, NothingDue, Sound
  <1>4. QED
    BY <1>1, <1>3

\* Changing one reservation without changing what it reserves, or what is
\* settled downwards, keeps all of them.
LEMMA OneAccount ==
    ASSUME AcctOK, NEW k \in Keys, NEW a, Sound(a),
           a.reserved = acct[k].reserved, a.settled >= acct[k].settled,
           acct' = [acct EXCEPT ![k] = a], UNCHANGED due, due \in [Keys -> Nat]
    PROVE  AcctOK'
  <1>1. acct' \in [Keys -> Accounts(RunIds)]
    BY DEF AcctOK, Sound
  <1>2. \A j \in Keys : Sound(acct'[j]) /\ acct'[j].reserved <= MaxUnits
    BY DEF AcctOK
  <1>3. DueCovers'
    <2> SUFFICES ASSUME NEW j \in Keys, due[j] > 0
                 PROVE  acct'[j].reserved > 0 /\ acct'[j].settled + due[j] >= acct'[j].reserved
      BY DEF DueCovers, Reserved
    <2>1. CASE j # k
      BY <2>1 DEF AcctOK, DueCovers, Reserved
    <2>2. CASE j = k
      <3>1. acct'[j] = a
        BY <2>2 DEF AcctOK
      <3>2. /\ a.settled \in Nat /\ acct[k].settled \in Nat /\ a.reserved \in Nat
            /\ acct[k].reserved > 0 /\ acct[k].settled + due[k] >= acct[k].reserved
            /\ due[k] \in Nat
        BY <2>2 DEF AcctOK, DueCovers, Reserved, Sound, Accounts
      <3>3. QED
        BY <2>2, <3>1, <3>2
    <2>3. QED
      BY <2>1, <2>2
  <1>4. QED
    BY <1>1, <1>2, <1>3 DEF AcctOK

\* Every step keeps types and accounts.
LEMMA NextLedgerInv == LedgerInv /\ [Next]_vars => LedgerInv'
  <1> SUFFICES ASSUME RestOK, AcctOK, [Next]_vars PROVE RestOK' /\ AcctOK'
    BY LedgerInvParts, LedgerInvPartsNext
  <1> USE DEF Answers
  <1>a. UNCHANGED <<acct, due>> => AcctOK'
    BY DEF AcctOK, DueCovers, Reserved
  <1>1. ASSUME NEW q \in Requests, NEW k \in Keys, NEW n \in 1..MaxUnits, Arrive(q, k, n)
        PROVE  RestOK' /\ AcctOK'
    <2>1. RestOK'
      BY <1>1, LedgerAssumption
      DEF Arrive, Replay, RestOK, ledger, suites, counters
    <2>2. QED
      BY <1>1, <1>a, <2>1 DEF Arrive, ledger
  <1>2. ASSUME NEW q \in Requests, ReadUsed(q) \/ Abort(q)
        PROVE  RestOK' /\ AcctOK'
    <2>1. RestOK'
      BY <1>2 DEF ReadUsed, Abort, Answer, RestOK, ledger, suites, counters
    <2>2. QED
      BY <1>2, <1>a, <2>1 DEF ReadUsed, Abort, ledger
  <1>3. ASSUME NEW k \in Keys, NEW n \in 1..MaxUnits, Create(k, n)
        PROVE  /\ made' \in [Keys -> Nat] /\ open' \in [Keys -> SUBSET RunIds]
               /\ live' \in SUBSET Keys
    <2>1. NewRuns(k, n) \in SUBSET RunIds
      <3>1. made[k] + 1 \in Nat /\ 1..n \subseteq Nat
        BY LedgerAssumption DEF RestOK
      <3>2. QED
        BY <3>1 DEF NewRuns, RunIds
    <2>2. QED
      BY <1>3, <2>1 DEF Create, RestOK
  <1>4. ASSUME NEW q \in Requests, Reserve(q) PROVE RestOK' /\ AcctOK'
    <2> DEFINE k == key[q]
               n == size[q]
    <2>1. k \in Keys /\ n \in 1..MaxUnits
      BY <1>4, LedgerAssumption DEF Reserve, RestOK
    <2>2. CASE UNCHANGED <<acct, suites>>
      <3>1. RestOK'
        BY <1>4, <2>1, <2>2 DEF Reserve, Answer, Replay, RestOK, suites, counters, Create
      <3>2. QED
        BY <1>4, <1>a, <2>2, <3>1 DEF Reserve
    <2>3. CASE /\ ~KeyTaken(k) /\ acct' = [acct EXCEPT ![k] = NewAccount(n)]
               /\ Create(k, n) /\ Answer(q, "accepted")
      <3>1. RestOK'
        BY <1>3, <1>4, <2>1, <2>3 DEF Reserve, Answer, RestOK, counters
      <3>2. Sound(NewAccount(n)) /\ NewAccount(n).reserved = n
        BY <2>1, NewAccountSound
      <3>3. acct' \in [Keys -> Accounts(RunIds)]
        BY <2>3, <3>2 DEF AcctOK, Sound
      <3>4. \A j \in Keys : Sound(acct'[j]) /\ acct'[j].reserved <= MaxUnits
        BY <2>1, <2>3, <3>2, LedgerAssumption DEF AcctOK
      <3>5. due' = due /\ due[k] = 0
        <4>1. ~(due[k] > 0) /\ due[k] \in Nat
          BY <2>1, <2>3 DEF AcctOK, DueCovers, KeyTaken, RestOK
        <4>2. QED
          BY <1>4, <4>1 DEF Reserve
      <3>6. DueCovers'
        BY <2>1, <2>3, <3>5 DEF AcctOK, DueCovers, Reserved
      <3>7. QED
        BY <3>1, <3>3, <3>4, <3>6 DEF AcctOK
    <2>4. QED
      BY <1>4, <2>2, <2>3 DEF Reserve, Answer
  <1>5. ASSUME NEW q \in Requests, Attach(q) PROVE RestOK' /\ AcctOK'
    <2>1. key[q] \in Keys /\ size[q] \in 1..MaxUnits
      BY <1>5, LedgerAssumption DEF Attach, RestOK
    <2>2. RestOK'
      BY <1>3, <1>5, <2>1 DEF Attach, Answer, RestOK, ledger, counters
    <2>3. QED
      BY <1>5, <1>a, <2>2 DEF Attach, ledger
  <1>6. ASSUME NEW k \in Keys, NEW r \in open[k], Settle(k, r)
        PROVE  RestOK' /\ AcctOK'
    <2>1. r \in RunIds /\ Sound(acct[k])
      BY DEF RestOK, AcctOK
    <2>2. /\ acct[k].settled \in Nat
          /\ SettleRun(acct[k], r).settled \in {acct[k].settled, acct[k].settled + 1}
          /\ Sound(SettleRun(acct[k], r)) /\ SettleRun(acct[k], r).reserved = acct[k].reserved
      BY <2>1, SettleSound DEF Sound, Accounts
    <2>3. acct' = [acct EXCEPT ![k] = SettleRun(acct[k], r)] /\ due' = due
      BY <1>6 DEF Settle
    <2>4. AcctOK'
      <3>1. SettleRun(acct[k], r).settled >= acct[k].settled /\ due \in [Keys -> Nat]
        BY <2>2 DEF RestOK
      <3>2. QED
        BY <2>2, <2>3, <3>1, OneAccount
    <2>5. billed' \in Nat
      <3>1. acct'[k] = SettleRun(acct[k], r)
        BY <2>3 DEF AcctOK
      <3>2. billed' = billed + SettleRun(acct[k], r).settled - acct[k].settled
        BY <1>6, <3>1 DEF Settle
      <3>3. billed \in Nat
        BY DEF RestOK
      <3>4. QED
        BY <2>2, <3>2, <3>3
    <2>6. RestOK'
      BY <1>6, <2>5 DEF Settle, EndRun, RestOK, calls, counters
    <2>7. QED
      BY <2>4, <2>6
  <1>7. ASSUME NEW k \in Keys, NEW r \in open[k], Refund(k, r)
        PROVE  RestOK' /\ AcctOK'
    <2>1. r \in RunIds /\ Sound(acct[k])
      BY DEF RestOK, AcctOK
    <2>2. /\ acct[k].settled \in Nat /\ RefundRun(acct[k], r).settled = acct[k].settled
          /\ Sound(RefundRun(acct[k], r)) /\ RefundRun(acct[k], r).reserved = acct[k].reserved
      BY <2>1, RefundSound DEF Sound, Accounts
    <2>3. acct' = [acct EXCEPT ![k] = RefundRun(acct[k], r)] /\ due' = due
      BY <1>7 DEF Refund
    <2>4. AcctOK'
      <3>1. RefundRun(acct[k], r).settled >= acct[k].settled /\ due \in [Keys -> Nat]
        BY <2>2 DEF RestOK
      <3>2. QED
        BY <2>2, <2>3, <3>1, OneAccount
    <2>5. RestOK'
      BY <1>7 DEF Refund, EndRun, RestOK, calls, counters
    <2>6. QED
      BY <2>4, <2>5
  <1>8. ASSUME NEW k \in Keys, DeleteEvaluation(k) \/ Expire(k)
        PROVE  RestOK' /\ AcctOK'
    <2>1. RestOK'
      BY <1>8 DEF DeleteEvaluation, Expire, RestOK, ledger, suites, calls, counters
    <2>2. QED
      BY <1>8, <1>a, <2>1 DEF DeleteEvaluation, Expire, ledger
  <1>9. ASSUME BeginPeriod PROVE RestOK' /\ AcctOK'
    <2>1. RestOK'
      BY <1>9 DEF BeginPeriod, RestOK, suites, calls
    <2>2. QED
      BY <1>9, <1>a, <2>1 DEF BeginPeriod
  <1>10. ASSUME RetentionRead PROVE RestOK' /\ AcctOK'
    <2>1. \A k \in Keys : /\ acct[k].reserved \in Nat /\ acct[k].settled \in Nat
                          /\ acct[k].refunded \in Nat /\ Remaining(acct[k]) \in Nat
                          /\ acct[k].settled + acct[k].refunded + Remaining(acct[k])
                                = acct[k].reserved
      BY DEF AcctOK, Sound, Accounts, Balanced, Remaining
    <2>2. \A k \in Keys : due'[k] > 0 =>
            Overdue(k) /\ due'[k] = acct[k].refunded + Remaining(acct[k])
      BY <1>10 DEF RetentionRead
    <2>3. due' \in [Keys -> Nat]
      BY <1>10, <2>1 DEF RetentionRead
    <2>4. RestOK'
      BY <1>10, <2>3 DEF RetentionRead, RestOK, ledger, suites, calls, counters
    <2>5. DueCovers'
      BY <1>10, <2>1, <2>2 DEF RetentionRead, DueCovers, Overdue, Reserved, ledger
    <2>6. QED
      BY <1>10, <2>4, <2>5 DEF RetentionRead, AcctOK, ledger
  <1>11. ASSUME RetentionWrite PROVE RestOK' /\ AcctOK'
    <2> DEFINE new == [k \in Keys |-> IF due[k] = 0 THEN acct[k] ELSE Released(acct[k], due[k])]
    <2>1. due' = NothingDue /\ DueCovers'
      BY <1>11 DEF RetentionWrite, DueCovers, NothingDue
    <2>2. RestOK'
      BY <1>11, <2>1 DEF RetentionWrite, RestOK, NothingDue, suites, calls, counters
    <2>3. CASE acct' = acct
      BY <2>1, <2>2, <2>3 DEF AcctOK
    <2>4. CASE acct' = new /\ \A k \in Keys : TotalsAllowed(new[k])
      <3>1. ASSUME NEW k \in Keys
            PROVE  Sound(acct'[k]) /\ acct'[k].reserved <= MaxUnits
        <4>1. CASE due[k] = 0
          BY <2>4, <4>1 DEF AcctOK
        <4>2. CASE due[k] # 0
          <5>1. /\ due[k] \in Nat \ {0} /\ acct[k].settled + due[k] >= acct[k].reserved
                /\ Sound(acct[k]) /\ acct[k].reserved <= MaxUnits
            BY <4>2 DEF AcctOK, DueCovers, RestOK
          <5>2. acct'[k] = Released(acct[k], due[k]) /\ TotalsAllowed(acct'[k])
            BY <2>4, <4>2
          <5>3. QED
            BY <5>1, <5>2, ReleasedSound
        <4>3. QED
          BY <4>1, <4>2
      <3>2. acct' \in [Keys -> Accounts(RunIds)]
        BY <2>4, <3>1 DEF Sound
      <3>3. QED
        BY <2>1, <2>2, <3>1, <3>2 DEF AcctOK
    <2>5. QED
      BY <1>11, <2>3, <2>4 DEF RetentionWrite
  <1>12. CASE UNCHANGED vars
    BY <1>12, <1>a DEF vars, ledger, suites, calls, counters, RestOK
  <1>13. QED
    BY <1>1, <1>2, <1>4, <1>5, <1>6, <1>7, <1>8, <1>9, <1>10, <1>11, <1>12
    DEF Next, Request, Retention

LEMMA LedgerInvariant == Spec => []LedgerInv
  BY InitLedgerInv, NextLedgerInv, PTL DEF Spec

\* Every variable keeps its type, under any timing.
THEOREM LedgerTyped == Spec => []TypeOK
  <1>1. LedgerInv => TypeOK
    BY DEF LedgerInv
  <1>2. QED
    BY <1>1, LedgerInvariant, PTL

\* Every reservation stays balanced, under any timing: retention's write of
\* what it read earlier is either complete or rejected by the constraint.
THEOREM AccountsStayBalanced == Spec => []AccountsConserved
  <1>1. LedgerInv => AccountsConserved
    BY DEF LedgerInv, AccountInv
  <1>2. QED
    BY <1>1, LedgerInvariant, PTL
-----------------------------------------------------------------------------
\* What the steps do to the reservations: one is made where none was, or one
\* settles or refunds, or retention closes some, or none changes.
LEMMA AccountSteps ==
    ASSUME LedgerInv, [Next]_vars
    PROVE  \/ UNCHANGED acct
           \/ \E q \in Requests : Reserve(q) /\ ~KeyTaken(key[q]) /\ Create(key[q], size[q])
                 /\ acct' = [acct EXCEPT ![key[q]] = NewAccount(size[q])]
           \/ \E k \in Keys : \E r \in open[k] : Settle(k, r) \/ Refund(k, r)
           \/ RetentionWrite /\ acct' = [k \in Keys |-> IF due[k] = 0 THEN acct[k]
                                                       ELSE Released(acct[k], due[k])]
  <1>1. CASE UNCHANGED vars
    BY <1>1 DEF vars, ledger
  <1>2. ASSUME NEW q \in Requests, Request(q)
        PROVE  \/ UNCHANGED acct
               \/ Reserve(q) /\ ~KeyTaken(key[q]) /\ Create(key[q], size[q])
                    /\ acct' = [acct EXCEPT ![key[q]] = NewAccount(size[q])]
    BY <1>2 DEF Request, Arrive, ReadUsed, Reserve, Attach, Abort, ledger
  <1>3. CASE BeginPeriod \/ Retention
    BY <1>3 DEF BeginPeriod, Retention, RetentionRead, RetentionWrite, ledger
  <1>4. ASSUME NEW k \in Keys, DeleteEvaluation(k) \/ Expire(k) PROVE UNCHANGED acct
    BY <1>4 DEF DeleteEvaluation, Expire, ledger
  <1>5. QED
    BY <1>1, <1>2, <1>3, <1>4 DEF Next

\* The units of a reservation change only when it is made.
LEMMA ReservedUnlessNew ==
    ASSUME LedgerInv, [Next]_vars,
           ~\E q \in Requests : /\ Reserve(q) /\ ~KeyTaken(key[q])
                               /\ Create(key[q], size[q])
                               /\ acct' = [acct EXCEPT ![key[q]] = NewAccount(size[q])]
    PROVE  \A k \in Keys : acct'[k].reserved = acct[k].reserved
  <1> SUFFICES ASSUME NEW k \in Keys PROVE acct'[k].reserved = acct[k].reserved
    OBVIOUS
  <1>a. RestOK /\ AcctOK
    BY LedgerInvParts
  <1>1. ASSUME NEW j \in Keys, NEW r \in open[j], Settle(j, r) \/ Refund(j, r)
        PROVE  acct'[k].reserved = acct[k].reserved
    <2>1. Sound(acct[j]) /\ r \in RunIds
      BY <1>a DEF RestOK, AcctOK
    <2>2. /\ SettleRun(acct[j], r).reserved = acct[j].reserved
          /\ RefundRun(acct[j], r).reserved = acct[j].reserved
      BY <2>1, SettleSound, RefundSound
    <2>3. \/ acct' = [acct EXCEPT ![j] = SettleRun(acct[j], r)]
          \/ acct' = [acct EXCEPT ![j] = RefundRun(acct[j], r)]
      BY <1>1 DEF Settle, Refund
    <2>4. QED
      BY <1>a, <2>2, <2>3 DEF AcctOK
  <1>2. ASSUME acct' = [j \in Keys |-> IF due[j] = 0 THEN acct[j]
                                       ELSE Released(acct[j], due[j])]
        PROVE  acct'[k].reserved = acct[k].reserved
    BY <1>2, <1>a DEF Released, AcctOK, Accounts
  <1>3. QED
    BY <1>1, <1>2, AccountSteps

LEMMA InitKeyInv == Init => KeyInv
  BY NewAccountSound DEF Init, KeyInv, Reserved

\* As long as nothing is deleted, every step keeps one evaluation per key.
LEMMA NextKeyInv == LedgerInv /\ KeyInv /\ [Next]_vars => KeyInv'
  <1> SUFFICES ASSUME LedgerInv, KeyInv, [Next]_vars, deletes' = 0 PROVE KeyInv'
    BY DEF KeyInv
  <1>a. RestOK /\ AcctOK
    BY LedgerInvParts
  <1>b. deletes = 0
    BY <1>a DEF RestOK, Next, vars, Request, Arrive, ReadUsed, Reserve, Attach, Abort, Settle,
                Refund, DeleteEvaluation, Expire, BeginPeriod, Retention, RetentionRead,
                RetentionWrite, counters
  <1>c. /\ \A k \in Keys : made[k] = 0 <=> ~Reserved(k)
        /\ \A k \in Keys : Reserved(k) => made[k] = 1 /\ k \in live
        /\ \A q \in Requests : pc[q] # "attaching"
    BY <1>b DEF KeyInv
  <1>1. ASSUME NEW q \in Requests, Reserve(q), ~KeyTaken(key[q]), Create(key[q], size[q]),
               acct' = [acct EXCEPT ![key[q]] = NewAccount(size[q])]
        PROVE  KeyInv'
    <2> DEFINE k == key[q]
    <2>1. k \in Keys /\ size[q] \in Nat \ {0}
      BY <1>1, <1>a, LedgerAssumption DEF Reserve, RestOK
    <2>2. made[k] = 0 /\ made \in [Keys -> Nat]
      BY <1>1, <1>a, <1>c, <2>1 DEF KeyTaken, RestOK
    <2>3. made' = [made EXCEPT ![k] = 1] /\ live' = live \cup {k}
      BY <1>1, <2>2 DEF Create
    <2>4. \A j \in Keys : Reserved(j)' <=> j = k \/ Reserved(j)
      <3>1. NewAccount(size[q]).reserved > 0
        BY <2>1, NewAccountSound
      <3>2. acct'[k] = NewAccount(size[q]) /\ \A j \in Keys \ {k} : acct'[j] = acct[j]
        BY <1>1, <1>a, <2>1 DEF AcctOK
      <3>3. QED
        BY <3>1, <3>2 DEF Reserved
    <2>5. \A p \in Requests : pc'[p] # "attaching"
      BY <1>1, <1>a, <1>c DEF Reserve, Answer, Replay, RestOK, KeyTaken
    <2>6. QED
      BY <1>c, <2>2, <2>3, <2>4, <2>5 DEF KeyInv
  <1>2. CASE \A k \in Keys : acct'[k].reserved = acct[k].reserved
    <2>1. \A k \in Keys : Reserved(k)' <=> Reserved(k)
      BY <1>2 DEF Reserved
    <2>2. UNCHANGED <<made, live>> /\ \A q \in Requests : pc'[q] # "attaching"
      <3>1. ASSUME NEW q \in Requests, NEW k \in Keys, NEW n \in 1..MaxUnits, Arrive(q, k, n)
            PROVE  UNCHANGED <<made, live>> /\ \A p \in Requests : pc'[p] # "attaching"
        BY <3>1, <1>a, <1>c DEF Arrive, Replay, suites, RestOK
      <3>2. ASSUME NEW q \in Requests, ReadUsed(q) \/ Abort(q) \/ Attach(q)
            PROVE  UNCHANGED <<made, live>> /\ \A p \in Requests : pc'[p] # "attaching"
        BY <3>2, <1>a, <1>c DEF ReadUsed, Abort, Attach, Answer, suites, RestOK
      <3>3. ASSUME NEW q \in Requests, Reserve(q)
            PROVE  UNCHANGED <<made, live>> /\ \A p \in Requests : pc'[p] # "attaching"
        <4>1. key[q] \in Keys /\ size[q] \in Nat \ {0}
          BY <3>3, <1>a, LedgerAssumption DEF Reserve, RestOK
        <4>2. KeyTaken(key[q]) \/ acct' # [acct EXCEPT ![key[q]] = NewAccount(size[q])]
          <5>1. NewAccount(size[q]).reserved = size[q]
            BY <4>1, NewAccountSound
          <5>2. QED
            BY <1>2, <1>a, <4>1, <5>1 DEF KeyTaken, Reserved, AcctOK, Sound, Accounts
        <4>3. QED
          BY <3>3, <1>a, <1>c, <4>1, <4>2
          DEF Reserve, Answer, Replay, suites, RestOK, KeyTaken
      <3>4. ASSUME NEW k \in Keys,
                   Expire(k) \/ \E r \in open[k] : Settle(k, r) \/ Refund(k, r)
            PROVE  UNCHANGED <<made, live>> /\ \A p \in Requests : pc'[p] # "attaching"
        BY <3>4, <1>c DEF Expire, Settle, Refund, EndRun, suites, calls
      <3>5. ASSUME NEW k \in Keys, DeleteEvaluation(k) PROVE FALSE
        BY <3>5, <1>a, <1>b DEF DeleteEvaluation, RestOK
      <3>6. ASSUME BeginPeriod \/ Retention \/ UNCHANGED vars
            PROVE  UNCHANGED <<made, live>> /\ \A p \in Requests : pc'[p] # "attaching"
        BY <3>6, <1>c DEF BeginPeriod, Retention, RetentionRead, RetentionWrite, vars, suites, calls
      <3>7. QED
        BY <3>1, <3>2, <3>3, <3>4, <3>5, <3>6 DEF Next, Request
    <2>3. QED
      BY <1>c, <2>1, <2>2 DEF KeyInv
  <1>3. QED
    <2>1. CASE \E q \in Requests : /\ Reserve(q) /\ ~KeyTaken(key[q])
                                  /\ Create(key[q], size[q])
                                  /\ acct' = [acct EXCEPT ![key[q]] = NewAccount(size[q])]
      BY <1>1, <2>1
    <2>2. CASE ~\E q \in Requests : /\ Reserve(q) /\ ~KeyTaken(key[q])
                                   /\ Create(key[q], size[q])
                                   /\ acct' = [acct EXCEPT ![key[q]] = NewAccount(size[q])]
      BY <1>2, <2>2, AccountSteps, ReservedUnlessNew
    <2>3. QED
      BY <2>1, <2>2

\* A key is evaluated once, however many requests carry it.
THEOREM KeysEvaluatedOnce == Spec => []KeyEvaluatedOnce
  <1>1. LedgerInv /\ KeyInv => KeyEvaluatedOnce
    BY LedgerInvParts DEF KeyInv, KeyEvaluatedOnce, RestOK
  <1>2. QED
    BY <1>1, InitKeyInv, NextKeyInv, LedgerInvariant, PTL DEF Spec
-----------------------------------------------------------------------------
\* What the organization holds is a number, in every state.
LEMMA HeldNat ==
    /\ IsFiniteSet(HeldUnits) /\ Held \in Nat
    /\ IsFiniteSet(HeldUnits') /\ Held' \in Nat
  <1>1. IsFiniteSet(Keys \X (1..MaxUnits))
    <2>1. 1 \in Int /\ MaxUnits \in Int
      BY LedgerAssumption
    <2>2. IsFiniteSet(1..MaxUnits)
      BY <2>1, FS_Interval
    <2>3. QED
      BY <2>2, FS_Product, LedgerAssumption
  <1>2. HeldUnits \subseteq Keys \X (1..MaxUnits) /\ HeldUnits' \subseteq Keys \X (1..MaxUnits)
    BY DEF HeldUnits
  <1>3. IsFiniteSet(HeldUnits) /\ IsFiniteSet(HeldUnits')
    BY <1>1, <1>2, FS_Subset
  <1>4. QED
    BY <1>3, FS_CardinalityType DEF Held

LEMMA HeldShrinks ==
    ASSUME HeldUnits' \subseteq HeldUnits
    PROVE  Held' <= Held
  BY HeldNat, FS_Subset DEF Held

\* A reservation that is made holds its suite's units, and the others what
\* they held.
LEMMA HeldGrows ==
    ASSUME AcctOK, NEW k \in Keys, NEW n \in 1..MaxUnits, UNCHANGED expired,
           acct' = [acct EXCEPT ![k] = NewAccount(n)]
    PROVE  Held' <= Held + n
  <1> DEFINE new == {k} \X (1..n)
  <1>1. HeldUnits' \subseteq HeldUnits \cup new
    BY NewAccountSound DEF HeldUnits, Counts, AcctOK
  <1>2. IsFiniteSet(new) /\ Cardinality(new) = n
    <2>1. /\ IsFiniteSet({k}) /\ Cardinality({k}) = 1
          /\ IsFiniteSet(1..n) /\ Cardinality(1..n) = n
      <3>1. 1 \in Int /\ n \in Int /\ 1 <= n
        OBVIOUS
      <3>2. IsFiniteSet(1..n) /\ Cardinality(1..n) = n - 1 + 1
        BY <3>1, FS_Interval
      <3>3. IsFiniteSet({k}) /\ Cardinality({k}) = 1
        BY FS_Singleton, Zenon
      <3>4. QED
        BY <3>1, <3>2, <3>3
    <2>2. IsFiniteSet(new) /\ Cardinality(new) = Cardinality({k}) * Cardinality(1..n)
      BY <2>1, FS_Product
    <2>3. QED
      BY <2>1, <2>2
  <1> HIDE DEF new
  <1>3. /\ IsFiniteSet(HeldUnits \cup new)
        /\ Cardinality(HeldUnits \cup new)
              = Held + n - Cardinality(HeldUnits \cap new)
    BY <1>2, HeldNat, FS_Union DEF Held
  <1>4. Cardinality(HeldUnits \cap new) \in Nat
    BY HeldNat, FS_Intersection, FS_CardinalityType
  <1>5. Held' <= Cardinality(HeldUnits \cup new)
    BY <1>1, <1>3, FS_Subset DEF Held
  <1>6. QED
    BY <1>3, <1>4, <1>5, HeldNat, FS_CardinalityType

\* A unit that is charged is no longer held.
LEMMA HeldSettles ==
    ASSUME RestOK, AcctOK, NEW k \in Keys, NEW r \in RunIds, k \notin expired,
           acct' = [acct EXCEPT ![k] = SettleRun(acct[k], r)], UNCHANGED expired
    PROVE  Held' + acct'[k].settled - acct[k].settled <= Held
  <1> DEFINE a    == acct[k]
             next == SettleRun(a, r)
  <1>1. /\ Sound(a) /\ Sound(next) /\ next.settled \in {a.settled, a.settled + 1}
        /\ Remaining(next) = Remaining(a) - (next.settled - a.settled)
        /\ next.status = "reserved" => a.status = "reserved"
    BY SettleSound DEF AcctOK
  <1>2. /\ Remaining(a) \in Nat /\ Remaining(next) \in Nat
        /\ a.settled \in Nat /\ a.reserved \in 0..MaxUnits
        /\ Remaining(a) <= a.reserved
        /\ a.reserved > 0 => (Remaining(a) = 0 <=> a.status # "reserved")
    BY <1>1, LedgerAssumption DEF AcctOK, Sound, Balanced, Accounts, Remaining
  <1>3. acct'[k] = next /\ \A j \in Keys \ {k} : acct'[j] = acct[j]
    BY DEF AcctOK
  <1> HIDE DEF next, a
  <1>4. HeldUnits' \subseteq HeldUnits
    <2> SUFFICES ASSUME NEW j \in Keys, NEW i \in 1..MaxUnits,
                        Counts(j)', i <= Remaining(acct'[j])
                 PROVE  Counts(j) /\ i <= Remaining(acct[j])
      BY DEF HeldUnits
    <2>1. CASE j # k
      BY <2>1, <1>3 DEF Counts
    <2>2. CASE j = k
      BY <2>2, <1>1, <1>2, <1>3, LedgerAssumption DEF Counts, a
    <2>3. QED
      BY <2>1, <2>2
  <1>5. CASE next.settled = a.settled
    BY <1>2, <1>3, <1>4, <1>5, HeldShrinks, HeldNat DEF a
  <1>6. CASE next.settled = a.settled + 1
    <2> DEFINE u == <<k, Remaining(a)>>
    <2>1. Remaining(a) \in 1..MaxUnits /\ a.status = "reserved"
      BY <1>1, <1>2, <1>6, LedgerAssumption
    <2>2. u \in HeldUnits
      BY <2>1 DEF HeldUnits, Counts, a
    <2>3. u \notin HeldUnits'
      BY <1>1, <1>2, <1>3, <1>6, <2>1 DEF HeldUnits
    <2> HIDE DEF u
    <2>4. Held' <= Cardinality(HeldUnits \ {u})
      BY <1>4, <2>3, HeldNat, FS_Subset, FS_RemoveElement DEF Held
    <2>5. Cardinality(HeldUnits \ {u}) = Held - 1
      BY <2>2, HeldNat, FS_RemoveElement DEF Held
    <2>6. QED
      BY <1>2, <1>3, <1>6, <2>4, <2>5, HeldNat DEF a
  <1>7. QED
    BY <1>1, <1>5, <1>6

LEMMA InitQuotaInv == Init => QuotaInv
  <1> SUFFICES ASSUME Init PROVE QuotaKept
    BY DEF Init, QuotaInv
  <1>1. Remaining(NewAccount(0)) = 0
    BY NewAccountSound
  <1>2. HeldUnits = {}
    BY <1>1 DEF Init, HeldUnits
  <1>3. QED
    BY <1>2, FS_EmptySet, LedgerAssumption DEF Init, QuotaKept, Held

\* What expired was reserved, and nothing runs on it.
LEMMA NextExpired ==
    ASSUME LedgerInv, QuotaInv, [Next]_vars, timing = "calm", NEW k \in expired'
    PROVE  Reserved(k)' /\ open'[k] = {}
  <1>a. RestOK /\ AcctOK
    BY LedgerInvParts
  <1>b. \A j \in expired : j \in Keys /\ Reserved(j) /\ open[j] = {}
    BY <1>a DEF QuotaInv, RestOK
  <1>1. CASE k \in expired
    <2>1. Reserved(k)'
      <3>1. ASSUME NEW q \in Requests, ~KeyTaken(key[q]), Reserve(q),
                   acct' = [acct EXCEPT ![key[q]] = NewAccount(size[q])]
            PROVE  Reserved(k)'
        BY <1>1, <1>a, <1>b, <3>1 DEF KeyTaken, Reserved, AcctOK
      <3>2. QED
        BY <1>1, <1>b, <3>1, ReservedUnlessNew DEF Reserved
    <2>2. open'[k] = {}
      <3>1. ASSUME NEW j \in Keys, NEW n \in 1..MaxUnits, Create(j, n), j # k
            PROVE  open'[k] = {}
        BY <1>1, <1>a, <1>b, <3>1 DEF Create, RestOK
      <3>2. ASSUME NEW q \in Requests, Request(q) PROVE open'[k] = {}
        <4>1. CASE Reserve(q) \/ Attach(q)
          <5>1. key[q] \in Keys /\ size[q] \in 1..MaxUnits
            BY <1>a, <4>1, LedgerAssumption DEF Reserve, Attach, RestOK
          <5>2. CASE UNCHANGED suites
            BY <1>1, <1>b, <5>2 DEF suites
          <5>3. CASE Create(key[q], size[q]) /\ key[q] \notin expired
            BY <1>1, <3>1, <5>1, <5>3
          <5>4. QED
            BY <1>b, <4>1, <5>2, <5>3 DEF Reserve, Attach, KeyTaken
        <4>2. CASE ~(Reserve(q) \/ Attach(q))
          BY <1>1, <1>b, <3>2, <4>2 DEF Request, Arrive, ReadUsed, Abort, suites
        <4>3. QED
          BY <4>1, <4>2
      <3>3. ASSUME NEW j \in Keys, DeleteEvaluation(j) \/ Expire(j)
                      \/ \E r \in open[j] : Settle(j, r) \/ Refund(j, r)
            PROVE  open'[k] = {}
        BY <1>1, <1>a, <1>b, <3>3
        DEF DeleteEvaluation, Expire, Settle, Refund, EndRun, suites, RestOK
      <3>4. ASSUME BeginPeriod \/ Retention \/ UNCHANGED vars PROVE open'[k] = {}
        BY <1>1, <1>b, <3>4
        DEF BeginPeriod, Retention, RetentionRead, RetentionWrite, vars, suites
      <3>5. QED
        BY <3>2, <3>3, <3>4 DEF Next
    <2>3. QED
      BY <2>1, <2>2
  <1>2. CASE k \notin expired
    <2>1. k \in Keys /\ Expire(k)
      BY <1>2 DEF Next, Request, Arrive, ReadUsed, Reserve, Attach, Abort, Settle, Refund,
                  DeleteEvaluation, Expire, BeginPeriod, Retention, RetentionRead,
                  RetentionWrite, vars
    <2>2. QED
      BY <2>1 DEF Expire, Reserved, ledger, suites
  <1>3. QED
    BY <1>1, <1>2

\* While a request is between its two sums, what is used does not grow.
LEMMA NextRead ==
    ASSUME LedgerInv, QuotaInv, [Next]_vars, timing = "calm",
           NEW q \in Requests, pc'[q] = "summing"
    PROVE  used'[q] >= billed'
  <1>a. RestOK /\ AcctOK
    BY LedgerInvParts
  <1>1. ASSUME NEW p \in Requests, Request(p) PROVE used'[q] >= billed'
    <2>1. CASE ReadUsed(p)
      BY <1>a, <2>1 DEF ReadUsed, RestOK, ledger, QuotaInv
    <2>2. CASE ~ReadUsed(p)
      <3>1. UNCHANGED <<used, billed>>
        BY <1>1, <2>2 DEF Request, Arrive, Reserve, Attach, Abort, Answer, ledger
      <3>2. pc[q] = "summing"
        BY <1>1, <1>a, <2>2
        DEF Request, Arrive, Replay, Reserve, Attach, Abort, Answer, RestOK
      <3>3. QED
        BY <3>1, <3>2 DEF QuotaInv
    <2>3. QED
      BY <2>1, <2>2
  <1>2. ASSUME NEW k \in Keys, NEW r \in open[k], Settle(k, r) PROVE used'[q] >= billed'
    BY <1>2 DEF Settle, calls
  <1>3. CASE BeginPeriod
    BY <1>3, <1>a DEF BeginPeriod, calls, RestOK
  <1>4. ASSUME UNCHANGED <<billed, calls>> PROVE used'[q] >= billed'
    BY <1>4 DEF QuotaInv, calls
  <1>5. ASSUME NEW k \in Keys, NEW r \in open[k], Refund(k, r) PROVE used'[q] >= billed'
    BY <1>4, <1>5 DEF Refund
  <1>6. ASSUME NEW k \in Keys, DeleteEvaluation(k) \/ Expire(k) PROVE used'[q] >= billed'
    BY <1>4, <1>6 DEF DeleteEvaluation, Expire, ledger
  <1>7. CASE Retention \/ UNCHANGED vars
    BY <1>4, <1>7 DEF Retention, RetentionRead, RetentionWrite, vars, ledger
  <1>8. QED
    BY <1>1, <1>2, <1>3, <1>5, <1>6, <1>7 DEF Next

\* The sums behind the plan's limit: less is spent and held, n credits are
\* granted, and some are charged.
LEMMA LessFits ==
    \A i, b, h, c, g \in Nat : b + h <= i /\ c <= b /\ g <= h => c + g <= i
  OBVIOUS

LEMMA GrantFits ==
    \A i, b, h, g, n, u \in Nat :
        n <= i - u - h /\ b <= u /\ g <= h + n => b + g <= i
  OBVIOUS

LEMMA ChargeFits ==
    \A i, b, h, g, x, y \in Nat :
        b + h <= i /\ g + x - y <= h => (b + x - y) + g <= i
  OBVIOUS

\* No step takes more than the plan has left.
LEMMA NextQuota ==
    ASSUME LedgerInv, QuotaInv, [Next]_vars, timing = "calm"
    PROVE  QuotaKept'
  <1>a. RestOK /\ AcctOK
    BY LedgerInvParts
  <1>b. /\ billed \in Nat /\ Held \in Nat /\ Held' \in Nat /\ Included \in Nat
        /\ billed + Held <= Included
    BY <1>a, HeldNat, LedgerAssumption DEF QuotaInv, QuotaKept, RestOK
  <1>1. ASSUME UNCHANGED acct, expired \subseteq expired', billed' \in Nat, billed' <= billed
        PROVE  QuotaKept'
    <2>1. HeldUnits' \subseteq HeldUnits
      BY <1>1 DEF HeldUnits, Counts
    <2>2. Held' <= Held
      BY <2>1, HeldShrinks
    <2>3. billed' \in Nat /\ billed' <= billed
      BY <1>1
    <2>4. billed' + Held' <= Included
      BY <1>b, <2>2, <2>3, LessFits
    <2>5. QED
      BY <2>4 DEF QuotaKept
  <1>2. ASSUME NEW q \in Requests, Reserve(q), ~KeyTaken(key[q]),
               acct' = [acct EXCEPT ![key[q]] = NewAccount(size[q])]
        PROVE  QuotaKept'
    <2>1. /\ key[q] \in Keys /\ size[q] \in 1..MaxUnits /\ used[q] \in Nat
          /\ used[q] >= billed
      BY <1>2, <1>a, LedgerAssumption DEF Reserve, RestOK, QuotaInv
    <2>2. acct' # acct
      <3>1. NewAccount(size[q]).reserved = size[q] /\ size[q] > 0
        BY <2>1, NewAccountSound
      <3>2. acct'[key[q]] = NewAccount(size[q])
        BY <1>2, <1>a, <2>1 DEF AcctOK
      <3>3. QED
        BY <1>2, <3>1, <3>2 DEF KeyTaken, Reserved
    <2>3. Fits(size[q], used[q]) /\ UNCHANGED <<billed, expired>>
      BY <1>2, <2>2 DEF Reserve
    <2>4. Held' <= Held + size[q]
      BY <1>2, <1>a, <2>1, <2>3, HeldGrows
    <2>5. size[q] \in Nat /\ size[q] <= Included - used[q] - Held /\ billed <= used[q]
      BY <1>b, <2>1, <2>3 DEF Fits
    <2>6. billed + Held' <= Included
      BY <1>b, <2>1, <2>4, <2>5, GrantFits
    <2>7. QED
      BY <2>3, <2>6 DEF QuotaKept
  <1>3. ASSUME NEW k \in Keys, NEW r \in open[k], Settle(k, r) PROVE QuotaKept'
    <2>1. r \in RunIds /\ k \notin expired
      BY <1>3, <1>a DEF RestOK, QuotaInv
    <2>2. Held' + acct'[k].settled - acct[k].settled <= Held
      BY <1>3, <1>a, <2>1, HeldSettles DEF Settle
    <2>3. acct'[k].settled \in Nat /\ acct[k].settled \in Nat
      <3>1. Sound(SettleRun(acct[k], r)) /\ Sound(acct[k])
        BY <1>a, <2>1, SettleSound DEF AcctOK
      <3>2. acct'[k] = SettleRun(acct[k], r)
        BY <1>3, <1>a DEF Settle, AcctOK
      <3>3. QED
        BY <3>1, <3>2 DEF Sound, Accounts
    <2>4. billed' = billed + acct'[k].settled - acct[k].settled
      BY <1>3 DEF Settle
    <2>5. (billed + acct'[k].settled - acct[k].settled) + Held' <= Included
      BY <1>b, <2>2, <2>3, ChargeFits
    <2>6. QED
      BY <2>4, <2>5 DEF QuotaKept
  <1>4. ASSUME NEW k \in Keys, NEW r \in open[k], Refund(k, r) PROVE QuotaKept'
    <2>1. r \in RunIds /\ Sound(acct[k])
      BY <1>a DEF RestOK, AcctOK
    <2>2. /\ Remaining(RefundRun(acct[k], r)) <= Remaining(acct[k])
          /\ RefundRun(acct[k], r).status = "reserved" => acct[k].status = "reserved"
          /\ Remaining(RefundRun(acct[k], r)) \in Nat /\ Remaining(acct[k]) \in Nat
      BY <2>1, RefundSound, RemainingNat DEF Sound
    <2>3. HeldUnits' \subseteq HeldUnits
      BY <1>4, <1>a, <2>2 DEF Refund, HeldUnits, Counts, AcctOK
    <2>4. Held' <= Held
      BY <2>3, HeldShrinks
    <2>5. billed' \in Nat /\ billed' <= billed
      BY <1>4, <1>b DEF Refund
    <2>6. billed' + Held' <= Included
      BY <1>b, <2>4, <2>5, LessFits
    <2>7. QED
      BY <2>6 DEF QuotaKept
  <1>5. ASSUME RetentionWrite,
               acct' = [k \in Keys |-> IF due[k] = 0 THEN acct[k] ELSE Released(acct[k], due[k])]
        PROVE  QuotaKept'
    <2>1. \A k \in Keys : Counts(k)' => Counts(k) /\ acct'[k] = acct[k]
      BY <1>5, <1>a DEF RetentionWrite, Counts, Released, AcctOK, Accounts
    <2>2. HeldUnits' \subseteq HeldUnits
      BY <2>1 DEF HeldUnits
    <2>3. billed' = billed /\ Held' <= Held
      BY <1>5, <2>2, HeldShrinks DEF RetentionWrite
    <2>4. billed' \in Nat /\ billed' <= billed
      BY <1>b, <2>3
    <2>5. billed' + Held' <= Included
      BY <1>b, <2>3, <2>4, LessFits
    <2>6. QED
      BY <2>5 DEF QuotaKept
  <1>6. CASE UNCHANGED acct /\ ~\E k \in Keys : \E r \in open[k] : Settle(k, r)
    <2>1. expired \subseteq expired' /\ (billed' = billed \/ billed' = 0)
      BY <1>6 DEF Next, Request, Arrive, ReadUsed, Reserve, Attach, Abort, Refund,
                  DeleteEvaluation, Expire, BeginPeriod, Retention, RetentionRead,
                  RetentionWrite, vars, ledger
    <2>2. QED
      BY <1>1, <1>6, <1>b, <2>1
  <1>7. QED
    BY <1>2, <1>3, <1>4, <1>5, <1>6, AccountSteps

LEMMA QuotaInvariant == Spec => []QuotaInv
  <1>1. LedgerInv /\ QuotaInv /\ [Next]_vars => QuotaInv'
    <2> SUFFICES ASSUME LedgerInv, QuotaInv, [Next]_vars, timing' = "calm" PROVE QuotaInv'
      BY DEF QuotaInv
    <2>1. timing = "calm"
      BY DEF Next, Request, Arrive, ReadUsed, Reserve, Attach, Abort, Settle, Refund,
             DeleteEvaluation, Expire, BeginPeriod, Retention, RetentionRead,
             RetentionWrite, vars
    <2>2. QED
      BY <2>1, NextQuota, NextRead, NextExpired DEF QuotaInv
  <1>2. QED
    BY <1>1, InitQuotaInv, LedgerInvariant, PTL DEF Spec

\* In calm timing, what is spent and held stays within the plan.
THEOREM PlanIsKept == Spec => []WithinPlan
  <1>1. QuotaInv => WithinPlan
    BY DEF QuotaInv, WithinPlan
  <1>2. QED
    BY <1>1, QuotaInvariant, PTL
-----------------------------------------------------------------------------
(* What a completed run costs.                                             *)

\* A run that settles while units remain is charged one.
LEMMA FullCharge ==
    ASSUME NEW a, Sound(a), NEW r \in RunIds, r \notin a.settles, Remaining(a) \in Nat \ {0}
    PROVE  /\ SettleRun(a, r).settles = a.settles \cup {r}
           /\ SettleRun(a, r).charged = a.charged \cup {r}
           /\ SettleRun(a, r).refunds = a.refunds
           /\ Remaining(SettleRun(a, r)) = Remaining(a) - 1
           /\ SettleRun(a, r).reserved = a.reserved
  <1> DEFINE next == SettleRun(a, r)
  <1>0. /\ a.reserved \in Nat /\ a.settled \in Nat /\ a.refunded \in Nat
        /\ Remaining(a) = a.reserved - a.settled - a.refunded
    BY DEF Sound, Accounts, Balanced, Remaining
  <1>1. AtMost(1, Remaining(a)) = 1
    BY DEF AtMost
  <1>2. next = [a EXCEPT
                  !.settled = @ + 1,
                  !.status  = StatusAfter(a, a.settled + 1, a.refunded),
                  !.settles = @ \cup {r},
                  !.charged = @ \cup {r}]
    BY <1>1 DEF SettleRun
  <1> HIDE DEF next
  <1>3. /\ next.reserved = a.reserved /\ next.refunded = a.refunded
        /\ next.settled = a.settled + 1 /\ next.refunds = a.refunds
        /\ next.settles = a.settles \cup {r} /\ next.charged = a.charged \cup {r}
    BY <1>2 DEF Sound, Accounts
  <1>4. Remaining(next) = Remaining(a) - 1
    BY <1>0, <1>3 DEF Remaining
  <1>5. QED
    BY <1>3, <1>4 DEF next

\* A run that is refunded while units remain gives one back.
LEMMA FullRefund ==
    ASSUME NEW a, Sound(a), NEW r \in RunIds, r \notin a.refunds, Remaining(a) \in Nat \ {0}
    PROVE  /\ RefundRun(a, r).refunds = a.refunds \cup {r}
           /\ RefundRun(a, r).settles = a.settles /\ RefundRun(a, r).charged = a.charged
           /\ Remaining(RefundRun(a, r)) = Remaining(a) - 1
           /\ RefundRun(a, r).reserved = a.reserved
  <1> DEFINE next == RefundRun(a, r)
  <1>0. /\ a.reserved \in Nat /\ a.settled \in Nat /\ a.refunded \in Nat
        /\ Remaining(a) = a.reserved - a.settled - a.refunded
    BY DEF Sound, Accounts, Balanced, Remaining
  <1>1. {r} \ a.refunds = {r} /\ Cardinality({r}) = 1
    BY FS_Singleton
  <1>2. AtMost(Cardinality({r}), Remaining(a)) = 1
    BY <1>1 DEF AtMost
  <1>3. next = [a EXCEPT
                  !.refunded = @ + 1,
                  !.status   = StatusAfter(a, a.settled, a.refunded + 1),
                  !.refunds  = @ \cup {r}]
    BY <1>1, <1>2 DEF RefundRun, RefundRuns
  <1> HIDE DEF next
  <1>4. /\ next.reserved = a.reserved /\ next.refunded = a.refunded + 1
        /\ next.settled = a.settled /\ next.refunds = a.refunds \cup {r}
        /\ next.settles = a.settles /\ next.charged = a.charged
    BY <1>3 DEF Sound, Accounts
  <1>5. Remaining(next) = Remaining(a) - 1
    BY <1>0, <1>4 DEF Remaining
  <1>6. QED
    BY <1>4, <1>5 DEF next

LEMMA InitChargeInv == Init => ChargeInv
  <1> SUFFICES ASSUME Init, NEW k \in Keys PROVE RunsCovered(k)
    BY DEF ChargeInv
  <1>1. NewAccount(0).settles = {} /\ NewAccount(0).charged = {}
    BY DEF NewAccount
  <1>2. QED
    BY <1>1, FS_EmptySet DEF Init, RunsCovered, NothingDue

\* As long as no run outlives its reservation and nothing is deleted, every open
\* run has a unit left.
LEMMA NextChargeInv == LedgerInv /\ KeyInv /\ ChargeInv /\ [Next]_vars => ChargeInv'
  <1> SUFFICES ASSUME LedgerInv, KeyInv, ChargeInv, [Next]_vars, timing' # "late", deletes' = 0,
                      NEW k \in Keys
               PROVE  RunsCovered(k)'
    BY DEF ChargeInv
  <1>a. RestOK /\ AcctOK
    BY LedgerInvParts
  <1>b. deletes = 0
    BY <1>a DEF RestOK, Next, vars, Request, Arrive, ReadUsed, Reserve, Attach, Abort, Settle,
                Refund, DeleteEvaluation, Expire, BeginPeriod, Retention, RetentionRead,
                RetentionWrite, counters
  <1>c. timing # "late"
    BY DEF Next, vars, Request, Arrive, ReadUsed, Reserve, Attach, Abort, Settle,
           Refund, DeleteEvaluation, Expire, BeginPeriod, Retention, RetentionRead,
           RetentionWrite
  <1>d. \A j \in Keys : RunsCovered(j)
    BY <1>b, <1>c DEF ChargeInv
  <1>e. \A q \in Requests : ~Attach(q)
    BY <1>b DEF KeyInv, Attach
  <1>f. ASSUME acct'[k] = acct[k], open'[k] = open[k], k \in expired' <=> k \in expired,
               due'[k] = due[k]
        PROVE  RunsCovered(k)'
    BY <1>d, <1>f DEF RunsCovered, Reserved
  <1>1. ASSUME NEW q \in Requests, Reserve(q), ~KeyTaken(key[q]), Create(key[q], size[q]),
               acct' = [acct EXCEPT ![key[q]] = NewAccount(size[q])]
        PROVE  RunsCovered(k)'
    <2>1. key[q] \in Keys /\ size[q] \in 1..MaxUnits
      BY <1>1, <1>a, LedgerAssumption DEF Reserve, RestOK
    <2>2. UNCHANGED <<expired, due>>
      BY <1>1 DEF Reserve
    <2>3. CASE k # key[q]
      BY <1>1, <1>a, <1>f, <2>1, <2>2, <2>3 DEF Create, RestOK, AcctOK
    <2>4. CASE k = key[q]
      <3>1. open[k] = {} /\ k \notin expired /\ due[k] \in Nat /\ ~(due[k] > 0)
        BY <1>1, <1>a, <1>d, <2>4 DEF KeyTaken, RunsCovered, RestOK
      <3>2. open'[k] = NewRuns(k, size[q]) /\ acct'[k] = NewAccount(size[q])
        BY <1>1, <1>a, <2>1, <2>4, <3>1 DEF Create, RestOK, AcctOK
      <3>3. IsFiniteSet(NewRuns(k, size[q])) /\ Cardinality(NewRuns(k, size[q])) = size[q]
        <4>1. /\ IsFiniteSet({made[k] + 1}) /\ Cardinality({made[k] + 1}) = 1
          BY FS_Singleton
        <4>2. 1 \in Int /\ size[q] \in Int /\ size[q] >= 1
          BY <2>1, LedgerAssumption
        <4>3. IsFiniteSet(1..size[q]) /\ Cardinality(1..size[q]) = size[q]
          BY <4>2, FS_Interval
        <4>4. /\ IsFiniteSet({made[k] + 1} \X (1..size[q]))
              /\ Cardinality({made[k] + 1} \X (1..size[q])) = 1 * size[q]
          BY <4>1, <4>3, FS_Product
        <4>5. QED
          BY <4>2, <4>4 DEF NewRuns
      <3>4. /\ NewAccount(size[q]).settles = {} /\ NewAccount(size[q]).charged = {}
            /\ NewAccount(size[q]).refunds = {} /\ NewAccount(size[q]).reserved = size[q]
        BY DEF NewAccount
      <3>5. Remaining(NewAccount(size[q])) = size[q] /\ size[q] > 0
        BY <2>1, NewAccountSound, LedgerAssumption
      <3>6. QED
        BY <2>2, <3>1, <3>2, <3>3, <3>4, <3>5 DEF RunsCovered, Reserved
    <2>5. QED
      BY <2>3, <2>4
  <1>2. ASSUME NEW j \in Keys, NEW r \in open[j], Settle(j, r) \/ Refund(j, r)
        PROVE  RunsCovered(k)'
    <2>1. UNCHANGED <<expired, due>> /\ open' = [open EXCEPT ![j] = @ \ {r}]
      BY <1>2 DEF Settle, Refund, EndRun
    <2>2. CASE k # j
      BY <1>2, <1>a, <1>f, <2>1, <2>2 DEF Settle, Refund, RestOK, AcctOK
    <2>3. CASE k = j
      <3> DEFINE a == acct[k]
      <3>1. RunsCovered(k) /\ Sound(a) /\ r \in RunIds /\ r \in open[k]
        BY <1>2, <1>a, <1>d, <2>3 DEF RestOK, AcctOK
      <3>2. open'[k] = open[k] \ {r}
        BY <1>a, <2>1, <2>3 DEF RestOK
      <3>3. /\ IsFiniteSet(open[k] \ {r})
            /\ Cardinality(open[k] \ {r}) = Cardinality(open[k]) - 1
            /\ Cardinality(open[k]) \in Nat \ {0}
        BY <3>1, FS_RemoveElement, FS_CardinalityType, FS_EmptySet DEF RunsCovered
      <3>4. /\ Remaining(a) = Cardinality(open[k]) /\ Remaining(a) \in Nat \ {0}
            /\ r \notin a.settles /\ r \notin a.refunds
            /\ Reserved(k) /\ k \notin expired
        BY <3>1, <3>3 DEF RunsCovered
      <3>5. CASE Settle(j, r)
        <4>1. acct'[k] = SettleRun(a, r)
          BY <1>a, <2>3, <3>5 DEF Settle, AcctOK
        <4>2. /\ Remaining(acct'[k]) = Remaining(a) - 1 /\ acct'[k].reserved = a.reserved
              /\ acct'[k].settles \cup acct'[k].refunds = a.settles \cup a.refunds \cup {r}
              /\ acct'[k].settles = acct'[k].charged
          <5>1. a.settles = a.charged
            BY <3>1 DEF RunsCovered
          <5>2. /\ acct'[k].settles = a.settles \cup {r} /\ acct'[k].charged = a.charged \cup {r}
                /\ acct'[k].refunds = a.refunds
                /\ Remaining(acct'[k]) = Remaining(a) - 1 /\ acct'[k].reserved = a.reserved
            BY <3>1, <3>4, <4>1, FullCharge
          <5> HIDE DEF a
          <5>3. acct'[k].settles \cup acct'[k].refunds = a.settles \cup a.refunds \cup {r}
            BY <5>2
          <5>4. QED
            BY <5>1, <5>2, <5>3
        <4>3. open'[k] \cap (acct'[k].settles \cup acct'[k].refunds) = {}
          BY <3>1, <3>2, <4>2 DEF RunsCovered
        <4>4. Remaining(acct'[k]) = Cardinality(open'[k]) /\ IsFiniteSet(open'[k])
          BY <3>2, <3>3, <3>4, <4>2
        <4>5. QED
          BY <2>1, <3>4, <4>2, <4>3, <4>4, <3>1 DEF RunsCovered, Reserved
      <3>6. CASE Refund(j, r)
        <4>1. acct'[k] = RefundRun(a, r)
          BY <1>a, <2>3, <3>6 DEF Refund, AcctOK
        <4>2. /\ Remaining(acct'[k]) = Remaining(a) - 1 /\ acct'[k].reserved = a.reserved
              /\ acct'[k].settles \cup acct'[k].refunds = a.settles \cup a.refunds \cup {r}
              /\ acct'[k].settles = acct'[k].charged
          BY <3>1, <3>4, <4>1, FullRefund DEF RunsCovered
        <4>3. open'[k] \cap (acct'[k].settles \cup acct'[k].refunds) = {}
          BY <3>1, <3>2, <4>2 DEF RunsCovered
        <4>4. Remaining(acct'[k]) = Cardinality(open'[k]) /\ IsFiniteSet(open'[k])
          BY <3>2, <3>3, <3>4, <4>2
        <4>5. QED
          BY <2>1, <3>4, <4>2, <4>3, <4>4, <3>1 DEF RunsCovered, Reserved
      <3>7. QED
        BY <1>2, <3>5, <3>6
    <2>4. QED
      BY <2>2, <2>3
  <1>3. ASSUME RetentionWrite,
               acct' = [j \in Keys |-> IF due[j] = 0 THEN acct[j] ELSE Released(acct[j], due[j])]
        PROVE  RunsCovered(k)'
    <2>1. UNCHANGED <<open, expired>> /\ due'[k] = 0
      BY <1>3 DEF RetentionWrite, suites, NothingDue
    <2>2. CASE due[k] = 0
      BY <1>3, <1>d, <2>1, <2>2 DEF RunsCovered, Reserved
    <2>3. CASE due[k] # 0
      <3>1. k \in expired /\ open[k] = {}
        BY <1>a, <1>d, <2>3 DEF RunsCovered, RestOK
      <3>2. /\ acct'[k].settles = acct[k].settles /\ acct'[k].charged = acct[k].charged
            /\ acct'[k].reserved = acct[k].reserved
        BY <1>3, <1>a, <2>3 DEF Released, AcctOK, Accounts
      <3>3. QED
        BY <1>d, <2>1, <3>1, <3>2 DEF RunsCovered, Reserved
    <2>4. QED
      BY <2>2, <2>3
  <1>4. ASSUME UNCHANGED <<acct, open>>
        PROVE  RunsCovered(k)'
    <2>1. CASE RetentionRead
      <3>1. UNCHANGED expired /\ (due'[k] > 0 => k \in expired)
        BY <2>1 DEF RetentionRead, Overdue
      <3>2. QED
        BY <1>d, <1>4, <3>1 DEF RunsCovered, Reserved
    <2>2. CASE RetentionWrite
      <3>1. UNCHANGED expired /\ due'[k] = 0
        BY <2>2 DEF RetentionWrite, NothingDue
      <3>2. QED
        BY <1>d, <1>4, <3>1 DEF RunsCovered, Reserved
    <2>3. ASSUME NEW j \in Keys, Expire(j)
          PROVE  RunsCovered(k)'
      <3>1. UNCHANGED due /\ expired' = expired \cup {j} /\ Reserved(j) /\ open[j] = {}
        BY <1>c, <2>3 DEF Expire
      <3>2. QED
        BY <1>d, <1>4, <3>1 DEF RunsCovered, Reserved
    <2>4. CASE ~RetentionRead /\ ~RetentionWrite /\ ~\E j \in Keys : Expire(j)
      <3>1. UNCHANGED <<due, expired>>
        BY <2>4 DEF Next, vars, Request, Arrive, ReadUsed, Reserve, Attach, Abort, Settle,
                    Refund, DeleteEvaluation, BeginPeriod, Retention
      <3>2. QED
        BY <1>4, <1>f, <3>1
    <2>5. QED
      BY <2>1, <2>2, <2>3, <2>4
  <1>5. CASE /\ ~\E q \in Requests : /\ Reserve(q) /\ ~KeyTaken(key[q]) /\ Create(key[q], size[q])
                                     /\ acct' = [acct EXCEPT ![key[q]] = NewAccount(size[q])]
             /\ ~\E j \in Keys : \E r \in open[j] : Settle(j, r) \/ Refund(j, r)
             /\ UNCHANGED acct
    <2>1. \A j \in Keys : ~DeleteEvaluation(j)
      BY <1>a, <1>b DEF DeleteEvaluation, RestOK
    <2>2. UNCHANGED open
      BY <1>5, <1>e, <2>1
      DEF Next, vars, Request, Arrive, ReadUsed, Reserve, Abort, Expire, BeginPeriod, Retention,
          RetentionRead, RetentionWrite, suites
    <2>3. QED
      BY <1>4, <1>5, <2>2
  <1>6. QED
    BY <1>1, <1>2, <1>3, <1>5, AccountSteps

\* A run that completes costs a credit, as long as no run outlives its
\* reservation and no evaluation is deleted.
THEOREM CompletedAreCharged == Spec => []CompletedRunsCharged
  <1>1. ChargeInv => CompletedRunsCharged
    BY DEF ChargeInv, RunsCovered, CompletedRunsCharged
  <1>2. QED
    BY <1>1, InitKeyInv, NextKeyInv, InitChargeInv, NextChargeInv, LedgerInvariant, PTL DEF Spec
-----------------------------------------------------------------------------
(* The account that the ledger implements.                                 *)

\* A step that spends nothing and holds nothing new releases what it no longer
\* holds.
LEMMA LessHeld ==
    ASSUME UNCHANGED billed, billed \in Nat, HeldUnits' \subseteq HeldUnits
    PROVE  Account!Next \/ UNCHANGED <<billed, Held>>
  <1>1. Held \in Nat /\ Held' \in Nat /\ Held' <= Held /\ Included \in Nat
    BY HeldNat, HeldShrinks, LedgerAssumption
  <1>2. CASE Held' = Held
    BY <1>2
  <1>3. CASE Held' # Held
    <2>1. PICK n \in 1..Held : Held' = Held - n
      <3>1. PICK h \in Nat : h = Held
        BY <1>1
      <3>2. PICK l \in Nat : l = Held'
        BY <1>1
      <3>3. l <= h /\ l # h
        BY <1>1, <1>3, <3>1, <3>2
      <3>4. h - l \in 1..h /\ l = h - (h - l)
        BY <3>3
      <3>5. QED
        BY <3>1, <3>2, <3>4
    <2>2. /\ Included - billed' - Held' = Included - billed - Held + n
          /\ UNCHANGED billed
      BY <1>1, <2>1
    <2>3. Account!Release(n)
      BY <2>1, <2>2 DEF Account!Release
    <2>4. QED
      BY <2>1, <2>3 DEF Account!Next
  <1>4. QED
    BY <1>2, <1>3

\* A new reservation holds exactly its suite's units more.
LEMMA HeldGrowsBy ==
    ASSUME AcctOK, NEW k \in Keys, NEW n \in 1..MaxUnits, UNCHANGED expired,
           k \notin expired, ~Reserved(k), acct' = [acct EXCEPT ![k] = NewAccount(n)]
    PROVE  Held' = Held + n
  <1> DEFINE new == {k} \X (1..n)
  <1>1. n \in Nat /\ n <= MaxUnits /\ MaxUnits \in Nat
    BY LedgerAssumption
  <1>2. acct'[k] = NewAccount(n) /\ \A j \in Keys \ {k} : acct'[j] = acct[j]
    BY DEF AcctOK
  <1>3. /\ Remaining(NewAccount(n)) = n /\ NewAccount(n).status = "reserved"
    BY <1>1, NewAccountSound DEF NewAccount
  <1>4. Remaining(acct[k]) = 0
    <2>1. acct[k] \in Accounts(RunIds) /\ acct[k].reserved = 0
      BY DEF AcctOK, Sound, Reserved, Accounts
    <2>2. QED
      BY <2>1 DEF Accounts, Remaining
  <1>5. HeldUnits \cap new = {}
    BY <1>4 DEF HeldUnits
  <1>6. HeldUnits' = HeldUnits \cup new
    <2>1. ASSUME NEW j \in Keys, NEW i \in 1..MaxUnits
          PROVE  <<j, i>> \in HeldUnits' <=> <<j, i>> \in HeldUnits \cup new
      <3>1. CASE j = k
        BY <1>1, <1>2, <1>3, <1>4, <3>1 DEF HeldUnits, Counts
      <3>2. CASE j # k
        BY <1>2, <3>2 DEF HeldUnits, Counts
      <3>3. QED
        BY <3>1, <3>2
    <2>2. new \subseteq Keys \X (1..MaxUnits)
      BY <1>1
    <2>3. HeldUnits' \subseteq Keys \X (1..MaxUnits) /\ HeldUnits \subseteq Keys \X (1..MaxUnits)
      BY DEF HeldUnits
    <2>4. QED
      BY <2>1, <2>2, <2>3
  <1>7. IsFiniteSet(new) /\ Cardinality(new) = n
    <2>1. 1 \in Int /\ n \in Int /\ 1 <= n
      BY <1>1
    <2>2. IsFiniteSet(1..n) /\ Cardinality(1..n) = n - 1 + 1
      BY <2>1, FS_Interval
    <2>3. IsFiniteSet({k}) /\ Cardinality({k}) = 1
      BY FS_Singleton, Zenon
    <2>4. IsFiniteSet(new) /\ Cardinality(new) = Cardinality({k}) * Cardinality(1..n)
      BY <2>2, <2>3, FS_Product
    <2>5. QED
      BY <1>1, <2>2, <2>3, <2>4
  <1> HIDE DEF new
  <1>8. Cardinality(HeldUnits \cup new) = Held + n - Cardinality(HeldUnits \cap new)
    BY <1>7, HeldNat, FS_Union DEF Held
  <1>9. Cardinality(HeldUnits \cap new) = 0
    BY <1>5, FS_EmptySet
  <1>10. QED
    BY <1>1, <1>6, <1>8, <1>9, HeldNat DEF Held

\* A unit that is charged is taken from the held ones.
LEMMA HeldSettlesOne ==
    ASSUME RestOK, AcctOK, NEW k \in Keys, NEW r \in RunIds, k \notin expired,
           acct' = [acct EXCEPT ![k] = SettleRun(acct[k], r)], UNCHANGED expired
    PROVE  \/ acct'[k].settled = acct[k].settled /\ Held' = Held
           \/ acct'[k].settled = acct[k].settled + 1 /\ Held > 0 /\ Held' = Held - 1
  <1> DEFINE a    == acct[k]
             next == SettleRun(a, r)
  <1>1. /\ Sound(a) /\ Sound(next) /\ next.settled \in {a.settled, a.settled + 1}
        /\ next.reserved = a.reserved
        /\ Remaining(next) = Remaining(a) - (next.settled - a.settled)
    BY SettleSound DEF AcctOK
  <1>2. /\ Remaining(a) \in Nat /\ Remaining(next) \in Nat
        /\ a.settled \in Nat /\ a.reserved \in 0..MaxUnits
        /\ Remaining(a) <= a.reserved
        /\ a.reserved > 0 => (Remaining(a) = 0 <=> a.status # "reserved")
        /\ a.reserved > 0 => (Remaining(next) = 0 <=> next.status # "reserved")
    BY <1>1, LedgerAssumption DEF AcctOK, Sound, Balanced, Accounts, Remaining
  <1>3. acct'[k] = next /\ \A j \in Keys \ {k} : acct'[j] = acct[j]
    BY DEF AcctOK
  <1>4. a = acct[k]
    OBVIOUS
  <1> HIDE DEF next, a
  \* A unit of the reservation is held exactly while it remains.
  <1>5. ASSUME NEW i \in 1..MaxUnits
        PROVE  /\ <<k, i>> \in HeldUnits <=> i <= Remaining(a)
               /\ <<k, i>> \in HeldUnits' <=> i <= Remaining(next)
    <2>1. i <= Remaining(a) => a.status = "reserved"
      BY <1>2, LedgerAssumption
    <2>2. i <= Remaining(next) => next.status = "reserved"
      BY <1>1, <1>2, LedgerAssumption
    <2>3. QED
      BY <1>3, <1>4, <2>1, <2>2 DEF HeldUnits, Counts
  <1>6. ASSUME NEW j \in Keys \ {k}, NEW i \in 1..MaxUnits
        PROVE  <<j, i>> \in HeldUnits <=> <<j, i>> \in HeldUnits'
    BY <1>3 DEF HeldUnits, Counts
  <1>7. HeldUnits \subseteq Keys \X (1..MaxUnits) /\ HeldUnits' \subseteq Keys \X (1..MaxUnits)
    BY DEF HeldUnits
  <1>8. CASE next.settled = a.settled
    <2>1. Remaining(next) = Remaining(a)
      BY <1>1, <1>2, <1>8
    <2>2. HeldUnits' = HeldUnits
      BY <1>5, <1>6, <1>7, <2>1
    <2>3. QED
      BY <1>3, <1>4, <1>8, <2>2 DEF Held
  <1>9. CASE next.settled = a.settled + 1
    <2> DEFINE u == <<k, Remaining(a)>>
    <2>1. Remaining(a) \in 1..MaxUnits /\ Remaining(next) = Remaining(a) - 1
      BY <1>1, <1>2, <1>9, LedgerAssumption
    <2>2. u \in HeldUnits
      BY <1>5, <2>1
    <2>3. HeldUnits' = HeldUnits \ {u}
      <3>1. ASSUME NEW i \in 1..MaxUnits
            PROVE  <<k, i>> \in HeldUnits' <=> <<k, i>> \in HeldUnits \ {u}
        BY <1>2, <1>5, <2>1
      <3>2. ASSUME NEW j \in Keys \ {k}, NEW i \in 1..MaxUnits
            PROVE  <<j, i>> \in HeldUnits' <=> <<j, i>> \in HeldUnits \ {u}
        BY <1>6
      <3>3. QED
        BY <1>7, <3>1, <3>2
    <2> HIDE DEF u
    <2>4. Held \in Nat /\ Cardinality(HeldUnits \ {u}) = Held - 1
      BY <2>2, HeldNat, FS_RemoveElement DEF Held
    <2>5. Held' = Held - 1 /\ Held' \in Nat
      BY <2>3, <2>4, HeldNat DEF Held
    <2>6. QED
      BY <1>3, <1>4, <1>9, <2>4, <2>5
  <1>10. QED
    BY <1>1, <1>8, <1>9

\* In calm timing every step of the ledger is a step of the account, or leaves
\* it alone.
LEMMA StepImplements ==
    ASSUME LedgerInv, QuotaInv, [Next]_vars, timing = "calm"
    PROVE  Account!Next \/ UNCHANGED <<billed, Held>>
  <1>a. RestOK /\ AcctOK
    BY LedgerInvParts
  <1>b. /\ billed \in Nat /\ Held \in Nat /\ Held' \in Nat /\ Included \in Nat
    BY <1>a, HeldNat, LedgerAssumption DEF RestOK
  <1>c. \A j \in expired : Reserved(j) /\ open[j] = {}
    BY DEF QuotaInv
  <1>1. ASSUME NEW q \in Requests, Reserve(q), ~KeyTaken(key[q]),
               acct' = [acct EXCEPT ![key[q]] = NewAccount(size[q])]
        PROVE  Account!Next
    <2>1. /\ key[q] \in Keys /\ size[q] \in 1..MaxUnits /\ used[q] \in Nat
          /\ used[q] >= billed /\ ~Reserved(key[q]) /\ key[q] \notin expired
      BY <1>1, <1>a, <1>c, LedgerAssumption DEF Reserve, RestOK, QuotaInv, KeyTaken
    <2>2. acct' # acct
      <3>1. NewAccount(size[q]).reserved = size[q] /\ size[q] > 0
        BY <2>1, NewAccountSound
      <3>2. acct'[key[q]] = NewAccount(size[q])
        BY <1>1, <1>a, <2>1 DEF AcctOK
      <3>3. QED
        BY <2>1, <3>1, <3>2 DEF Reserved
    <2>3. Fits(size[q], used[q]) /\ UNCHANGED <<billed, expired>>
      BY <1>1, <2>2 DEF Reserve
    <2>4. Held' = Held + size[q]
      BY <1>1, <1>a, <2>1, <2>3, HeldGrowsBy
    <2>5. size[q] \in 1..(Included - billed - Held)
      BY <1>b, <2>1, <2>3 DEF Fits
    <2>6. Account!Reserve(size[q])
      BY <1>b, <2>3, <2>4, <2>5 DEF Account!Reserve
    <2>7. QED
      BY <2>5, <2>6 DEF Account!Next
  <1>2. ASSUME NEW k \in Keys, NEW r \in open[k], Settle(k, r)
        PROVE  Account!Next \/ UNCHANGED <<billed, Held>>
    <2>1. r \in RunIds /\ k \notin expired
      BY <1>2, <1>a, <1>c DEF RestOK
    <2>2. /\ acct' = [acct EXCEPT ![k] = SettleRun(acct[k], r)] /\ UNCHANGED expired
          /\ billed' = billed + acct'[k].settled - acct[k].settled
      BY <1>2 DEF Settle
    <2>3. acct[k].settled \in Nat
      BY <1>a DEF AcctOK, Accounts
    <2>4. CASE acct'[k].settled = acct[k].settled /\ Held' = Held
      BY <1>b, <2>2, <2>3, <2>4
    <2>5. CASE acct'[k].settled = acct[k].settled + 1 /\ Held > 0 /\ Held' = Held - 1
      <3>1. billed' = billed + 1
        BY <1>b, <2>2, <2>3, <2>5
      <3>2. Account!Settle
        BY <1>b, <2>5, <3>1 DEF Account!Settle
      <3>3. QED
        BY <3>2 DEF Account!Next
    <2>6. QED
      BY <1>a, <2>1, <2>2, <2>4, <2>5, HeldSettlesOne
  <1>3. ASSUME NEW k \in Keys, NEW r \in open[k], Refund(k, r)
        PROVE  Account!Next \/ UNCHANGED <<billed, Held>>
    <2>1. r \in RunIds /\ Sound(acct[k])
      BY <1>a DEF RestOK, AcctOK
    <2>2. /\ Remaining(RefundRun(acct[k], r)) <= Remaining(acct[k])
          /\ RefundRun(acct[k], r).status = "reserved" => acct[k].status = "reserved"
          /\ Remaining(RefundRun(acct[k], r)) \in Nat /\ Remaining(acct[k]) \in Nat
      BY <2>1, RefundSound, RemainingNat DEF Sound
    <2>3. HeldUnits' \subseteq HeldUnits
      BY <1>3, <1>a, <2>2 DEF Refund, HeldUnits, Counts, AcctOK
    <2>4. UNCHANGED billed
      BY <1>3 DEF Refund
    <2>5. QED
      BY <1>b, <2>3, <2>4, LessHeld
  <1>4. ASSUME RetentionWrite,
               acct' = [k \in Keys |-> IF due[k] = 0 THEN acct[k] ELSE Released(acct[k], due[k])]
        PROVE  Account!Next \/ UNCHANGED <<billed, Held>>
    <2>1. \A k \in Keys : Counts(k)' => Counts(k) /\ acct'[k] = acct[k]
      BY <1>4, <1>a DEF RetentionWrite, Counts, Released, AcctOK, Accounts
    <2>2. HeldUnits' \subseteq HeldUnits
      BY <2>1 DEF HeldUnits
    <2>3. UNCHANGED billed
      BY <1>4 DEF RetentionWrite
    <2>4. QED
      BY <1>b, <2>2, <2>3, LessHeld
  <1>5. CASE UNCHANGED acct /\ BeginPeriod
    <2>1. UNCHANGED <<acct, expired>> /\ billed' = 0
      BY <1>5 DEF BeginPeriod
    <2>2. Held' = Held
      BY <2>1 DEF Held, HeldUnits, Counts
    <2>3. Account!Renew
      BY <1>b, <2>1, <2>2 DEF Account!Renew
    <2>4. QED
      BY <2>3 DEF Account!Next
  <1>6. CASE UNCHANGED acct /\ ~BeginPeriod /\ ~\E k \in Keys : \E r \in open[k] : Settle(k, r)
    <2>1. expired \subseteq expired' /\ UNCHANGED billed
      BY <1>6 DEF Next, Request, Arrive, ReadUsed, Reserve, Attach, Abort, Refund,
                  DeleteEvaluation, Expire, Retention, RetentionRead, RetentionWrite,
                  vars, ledger
    <2>2. HeldUnits' \subseteq HeldUnits
      BY <1>6, <2>1 DEF HeldUnits, Counts
    <2>3. QED
      BY <1>b, <2>1, <2>2, LessHeld
  <1>7. QED
    BY <1>1, <1>2, <1>3, <1>4, <1>5, <1>6, AccountSteps

\* The ledger implements the abstract account: in calm timing, credits are only
\* ever reserved from what is free, spent or released from what is held, and
\* freed again by the next period.
THEOREM LedgerImplementsAccount == Spec => ImplementsAccount
  <1>1. Init => Account!Init
    <2> SUFFICES ASSUME Init PROVE Account!Init
      OBVIOUS
    <2>1. Remaining(NewAccount(0)) = 0
      BY NewAccountSound
    <2>2. HeldUnits = {}
      BY <2>1 DEF Init, HeldUnits
    <2>3. Held = 0 /\ billed = 0 /\ Included \in Nat
      BY <2>2, FS_EmptySet, LedgerAssumption DEF Init, Held
    <2>4. QED
      BY <2>3 DEF Account!Init
  <1>2. LedgerInv /\ QuotaInv /\ [Next]_vars
            => [timing = "calm" => Account!Next \/ UNCHANGED <<billed, Held>>]_vars
    BY StepImplements
  <1>3. QED
    BY <1>1, <1>2, QuotaInvariant, LedgerInvariant, PTL DEF Spec, ImplementsAccount

\* A request is refused only when its credits are not free, or when what it has
\* read as used was more than what is.
THEOREM RefusalsAreDue == Spec => RefusedOnlyWhenFull
  <1>1. ASSUME LedgerInv, Next, NEW q \in Requests, pc[q] = "summing", pc'[q] = "refused"
        PROVE  used[q] > billed \/ size[q] + billed + Held > Included
    <2>1. RestOK
      BY <1>1, LedgerInvParts
    <2>2. Reserve(q)
      BY <1>1, <2>1
      DEF RestOK, Next, Request, Arrive, Replay, ReadUsed, Reserve, Attach, Abort, Answer,
          Settle, Refund, DeleteEvaluation, Expire, BeginPeriod, Retention, RetentionRead,
          RetentionWrite, calls
    <2>3. ~Fits(size[q], used[q])
      BY <1>1, <2>1, <2>2 DEF Reserve, Replay, Answer, RestOK
    <2>4. /\ size[q] \in Nat /\ used[q] \in Nat /\ billed \in Nat /\ Held \in Nat
          /\ Included \in Nat
      BY <2>1, HeldNat, LedgerAssumption DEF RestOK
    <2>5. QED
      BY <2>3, <2>4 DEF Fits
  <1>2. LedgerInv /\ [Next]_vars
            => [\A q \in Requests : pc[q] = "summing" /\ pc'[q] = "refused" =>
                  used[q] > billed \/ size[q] + billed + Held > Included]_vars
    BY <1>1
  <1>3. QED
    BY <1>2, LedgerInvariant, PTL DEF Spec, RefusedOnlyWhenFull
=============================================================================
