------------------------- MODULE ReservationProofs -------------------------
(***************************************************************************)
(* What settle_run and refund_run keep true of a reservation, for every    *)
(* finite set of runs.                                                     *)
(***************************************************************************)
EXTENDS Reservation, FiniteSetTheorems, TLAPS

\* The units a reservation has left are a natural number.
LEMMA RemainingNat ==
    ASSUME NEW Run, NEW acct \in Accounts(Run)
    PROVE  Remaining(acct) \in Nat
  BY DEF Accounts, Remaining

\* The status a settlement or a refund leaves.
LEMMA StatusAfterType ==
    ASSUME NEW Run, NEW acct \in Accounts(Run), NEW s \in Nat, NEW f \in Nat
    PROVE  StatusAfter(acct, s, f) \in {"reserved", "settled", "expired"}
  BY DEF StatusAfter, Accounts

\* settle_run yields a reservation.
LEMMA SettleRunType ==
    ASSUME NEW Run, NEW acct \in Accounts(Run), NEW r \in Run
    PROVE  SettleRun(acct, r) \in Accounts(Run)
  <1> DEFINE units   == AtMost(1, Remaining(acct))
             settled == acct.settled + units
             status  == StatusAfter(acct, settled, acct.refunded)
             settles == acct.settles \cup {r}
             charged == IF units = 1 THEN acct.charged \cup {r} ELSE acct.charged
  <1>1. units \in Nat
    BY RemainingNat DEF AtMost
  <1>2. settled \in Nat /\ acct.refunded \in Nat
    BY <1>1 DEF Accounts
  <1>3. status \in {"reserved", "settled", "expired"}
    BY <1>2, StatusAfterType
  <1>4. settles \in SUBSET Run /\ charged \in SUBSET Run
    BY DEF Accounts
  <1>5. SettleRun(acct, r) =
          IF r \in acct.settles
          THEN acct
          ELSE [acct EXCEPT !.settled = settled, !.status = status,
                            !.settles = settles, !.charged = charged]
    BY DEF SettleRun
  <1> HIDE DEF settled, status, settles, charged
  <1>6. QED
    BY <1>2, <1>3, <1>4, <1>5 DEF Accounts

\* refund_run yields a reservation, for any number of runs.
LEMMA RefundRunsType ==
    ASSUME NEW Run, IsFiniteSet(Run), NEW acct \in Accounts(Run), NEW R \in SUBSET Run
    PROVE  RefundRuns(acct, R) \in Accounts(Run)
  <1> DEFINE new      == R \ acct.refunds
             units    == AtMost(Cardinality(new), Remaining(acct))
             refunded == acct.refunded + units
             status   == StatusAfter(acct, acct.settled, refunded)
             refunds  == acct.refunds \cup new
  <1>1. IsFiniteSet(new)
    BY FS_Subset, FS_Difference
  <1>2. units \in Nat
    BY <1>1, FS_CardinalityType, RemainingNat DEF AtMost
  <1>3. refunded \in Nat /\ acct.settled \in Nat
    BY <1>2 DEF Accounts
  <1>4. status \in {"reserved", "settled", "expired"}
    BY <1>3, StatusAfterType
  <1>5. refunds \in SUBSET Run
    BY DEF Accounts
  <1>6. RefundRuns(acct, R) =
          IF new = {}
          THEN acct
          ELSE [acct EXCEPT !.refunded = refunded, !.status = status, !.refunds = refunds]
    BY DEF RefundRuns
  <1> HIDE DEF new, refunded, status, refunds
  <1>7. QED
    BY <1>3, <1>4, <1>5, <1>6 DEF Accounts

\* A new reservation for at least one run conserves its units.
LEMMA NewAccountConserved ==
    ASSUME NEW Run, NEW units \in Nat \ {0}
    PROVE  NewAccount(units) \in Accounts(Run) /\ Conserved(NewAccount(units))
  BY FS_EmptySet DEF NewAccount, Accounts, Conserved, Remaining

\* settle_run conserves the units: it charges at most what remains, once per run.
LEMMA SettleRunConserves ==
    ASSUME NEW Run, IsFiniteSet(Run), NEW acct \in Accounts(Run), NEW r \in Run,
           Conserved(acct)
    PROVE  Conserved(SettleRun(acct, r))
  <1> DEFINE units == AtMost(1, Remaining(acct))
             next  == SettleRun(acct, r)
  <1>1. CASE r \in acct.settles
    BY <1>1 DEF SettleRun
  <1>2. CASE r \notin acct.settles
    <2>1. units \in {0, 1} /\ units <= Remaining(acct)
      BY RemainingNat DEF AtMost
    <2>2. next = [acct EXCEPT
                    !.settled = @ + units,
                    !.status  = StatusAfter(acct, acct.settled + units, acct.refunded),
                    !.settles = @ \cup {r},
                    !.charged = IF units = 1 THEN @ \cup {r} ELSE @]
      BY <1>2 DEF SettleRun
    <2> HIDE DEF units, next
    <2>3. IsFiniteSet(acct.charged) /\ r \notin acct.charged
      BY <1>2, FS_Subset DEF Accounts, Conserved
    <2>4. Cardinality(acct.charged \cup {r}) = Cardinality(acct.charged) + 1
      BY <2>3, FS_AddElement
    <2>5. /\ next.reserved = acct.reserved /\ next.refunded = acct.refunded
          /\ next.settled = acct.settled + units
          /\ next.refunds = acct.refunds
          /\ next.settles = acct.settles \cup {r}
          /\ next.charged = IF units = 1 THEN acct.charged \cup {r} ELSE acct.charged
          /\ next.status = StatusAfter(acct, acct.settled + units, acct.refunded)
      BY <2>2 DEF Accounts
    <2>6. next.settled + next.refunded <= next.reserved
      BY <2>1, <2>5 DEF Accounts, Conserved, Remaining
    <2>7. next.settled = Cardinality(next.charged)
      <3>1. CASE units = 1
        BY <3>1, <2>4, <2>5 DEF Conserved
      <3>2. CASE units = 0
        BY <3>2, <2>5 DEF Accounts, Conserved
      <3>3. QED
        BY <3>1, <3>2, <2>1
    <2>8. next.charged \subseteq next.settles
      BY <2>5 DEF Conserved
    <2>9. Remaining(next) = 0 <=> next.status = "settled"
      BY <2>1, <2>5 DEF Accounts, Conserved, Remaining, StatusAfter
    <2>10. next.refunded <= Cardinality(next.refunds)
      BY <2>5 DEF Conserved
    <2>11. Conserved(next)
      BY <2>6, <2>7, <2>8, <2>9, <2>10 DEF Conserved
    <2>12. QED
      BY <2>11 DEF next
  <1>3. QED
    BY <1>1, <1>2

\* refund_run conserves the units, for any number of runs refunded together.
LEMMA RefundRunsConserves ==
    ASSUME NEW Run, IsFiniteSet(Run), NEW acct \in Accounts(Run), NEW R \in SUBSET Run,
           Conserved(acct)
    PROVE  Conserved(RefundRuns(acct, R))
  <1> DEFINE new   == R \ acct.refunds
             units == AtMost(Cardinality(new), Remaining(acct))
             next  == RefundRuns(acct, R)
  <1>1. CASE new = {}
    BY <1>1 DEF RefundRuns
  <1>2. CASE new # {}
    <2>1. IsFiniteSet(new) /\ IsFiniteSet(acct.refunds)
      BY FS_Subset, FS_Difference DEF Accounts
    <2>2. /\ Cardinality(new) \in Nat /\ Cardinality(acct.refunds) \in Nat
          /\ Cardinality(acct.refunds \cup new) = Cardinality(acct.refunds) + Cardinality(new)
      <3>1. new \cap acct.refunds = {}
        OBVIOUS
      <3>2. Cardinality(acct.refunds \cap new) = 0
        BY <3>1, FS_EmptySet
      <3> HIDE DEF new
      <3>3. Cardinality(acct.refunds) \in Nat /\ Cardinality(new) \in Nat
        BY <2>1, FS_CardinalityType
      <3>4. Cardinality(acct.refunds \cup new)
              = Cardinality(acct.refunds) + Cardinality(new) - Cardinality(acct.refunds \cap new)
        BY <2>1, FS_Union
      <3>5. QED
        BY <3>2, <3>3, <3>4
    <2>3. units \in Nat /\ units <= Cardinality(new) /\ units <= Remaining(acct)
      BY <2>2, RemainingNat DEF AtMost
    <2>4. next = [acct EXCEPT
                    !.refunded = @ + units,
                    !.status   = StatusAfter(acct, acct.settled, acct.refunded + units),
                    !.refunds  = @ \cup new]
      BY <1>2 DEF RefundRuns
    <2> HIDE DEF units, next, new
    <2>5. /\ next.reserved = acct.reserved /\ next.settled = acct.settled
          /\ next.refunded = acct.refunded + units
          /\ next.refunds = acct.refunds \cup new
          /\ next.settles = acct.settles /\ next.charged = acct.charged
          /\ next.status = StatusAfter(acct, acct.settled, acct.refunded + units)
      BY <2>4 DEF Accounts
    <2>6. next.settled + next.refunded <= next.reserved
      BY <2>3, <2>5 DEF Accounts, Conserved, Remaining
    <2>7. next.refunded <= Cardinality(next.refunds)
      BY <2>2, <2>3, <2>5 DEF Accounts, Conserved
    <2>8. Remaining(next) = 0 <=> next.status = "settled"
      BY <2>3, <2>5 DEF Accounts, Conserved, Remaining, StatusAfter
    <2>9. next.settled = Cardinality(next.charged) /\ next.charged \subseteq next.settles
      BY <2>5 DEF Conserved
    <2>10. Conserved(next)
      BY <2>6, <2>7, <2>8, <2>9 DEF Conserved
    <2>11. QED
      BY <2>10 DEF next
  <1>3. QED
    BY <1>1, <1>2

\* In an exact reservation, what remains is what the other runs still hold.
LEMMA ExactRemaining ==
    ASSUME NEW Run, IsFiniteSet(Run), NEW acct \in Accounts(Run), Exact(acct, Run)
    PROVE  Remaining(acct) = Cardinality(Run \ (acct.settles \cup acct.refunds))
  <1> DEFINE moved == acct.settles \cup acct.refunds
  <1>1. /\ IsFiniteSet(acct.settles) /\ IsFiniteSet(acct.refunds) /\ IsFiniteSet(moved)
        /\ moved \in SUBSET Run
    BY FS_Subset, FS_Union DEF Accounts
  <1>2. Cardinality(moved) = Cardinality(acct.settles) + Cardinality(acct.refunds)
    <2>1. Cardinality(acct.settles \cap acct.refunds) = 0
      BY FS_EmptySet DEF Exact
    <2>2. /\ Cardinality(acct.settles) \in Nat /\ Cardinality(acct.refunds) \in Nat
          /\ Cardinality(moved) = Cardinality(acct.settles) + Cardinality(acct.refunds)
                                    - Cardinality(acct.settles \cap acct.refunds)
      BY <1>1, FS_CardinalityType, FS_Union
    <2>3. QED
      BY <2>1, <2>2
  <1>3. Cardinality(Run \ moved) = Cardinality(Run) - Cardinality(moved)
    <2>1. Run \cap moved = moved
      BY <1>1
    <2>2. Cardinality(Run \ moved) = Cardinality(Run) - Cardinality(Run \cap moved)
      BY FS_Difference
    <2>3. QED
      BY <2>1, <2>2
  <1>4. Cardinality(Run \ moved) \in Nat
    BY FS_CardinalityType, FS_Difference
  <1> HIDE DEF moved
  <1>5. acct.reserved - acct.settled - acct.refunded = Cardinality(Run \ moved)
    <2>1. /\ acct.reserved = Cardinality(Run) /\ acct.settled = Cardinality(acct.settles)
          /\ acct.refunded = Cardinality(acct.refunds)
      BY DEF Exact
    <2>2. acct.reserved \in Nat /\ acct.settled \in Nat /\ acct.refunded \in Nat
      BY DEF Accounts
    <2>3. QED
      BY <1>2, <1>3, <2>1, <2>2
  <1>6. Remaining(acct) = Cardinality(Run \ moved)
    BY <1>4, <1>5 DEF Remaining
  <1>7. QED
    BY <1>6 DEF moved

\* settle_run of a run whose unit has not moved keeps a reservation exact.
LEMMA SettleRunExact ==
    ASSUME NEW Run, IsFiniteSet(Run), NEW acct \in Accounts(Run), Exact(acct, Run),
           NEW r \in Run, r \notin acct.settles \cup acct.refunds
    PROVE  /\ Exact(SettleRun(acct, r), Run)
           /\ SettleRun(acct, r).settles = acct.settles \cup {r}
           /\ SettleRun(acct, r).refunds = acct.refunds
  <1> DEFINE open == Run \ (acct.settles \cup acct.refunds)
             next == SettleRun(acct, r)
  <1>1. Remaining(acct) \in Nat /\ Remaining(acct) # 0
    <2>1. IsFiniteSet(open) /\ open # {}
      BY FS_Difference
    <2>2. Cardinality(open) \in Nat /\ Cardinality(open) # 0
      BY <2>1, FS_CardinalityType, FS_EmptySet
    <2>3. QED
      BY <2>2, ExactRemaining
  <1>2. AtMost(1, Remaining(acct)) = 1
    BY <1>1 DEF AtMost
  <1>3. next = [acct EXCEPT
                  !.settled = @ + 1,
                  !.status  = StatusAfter(acct, acct.settled + 1, acct.refunded),
                  !.settles = @ \cup {r},
                  !.charged = @ \cup {r}]
    BY <1>2 DEF SettleRun
  <1> HIDE DEF next
  <1>4. /\ next.reserved = acct.reserved /\ next.refunded = acct.refunded
        /\ next.settled = acct.settled + 1
        /\ next.refunds = acct.refunds
        /\ next.settles = acct.settles \cup {r} /\ next.charged = acct.charged \cup {r}
    BY <1>3 DEF Accounts
  <1>5. Cardinality(acct.settles \cup {r}) = Cardinality(acct.settles) + 1
    BY FS_Subset, FS_AddElement DEF Accounts
  <1>6. Exact(next, Run)
    BY <1>4, <1>5 DEF Exact
  <1>7. QED
    BY <1>4, <1>6 DEF next

\* refund_run of runs whose units have not moved keeps a reservation exact.
LEMMA RefundRunsExact ==
    ASSUME NEW Run, IsFiniteSet(Run), NEW acct \in Accounts(Run), Exact(acct, Run),
           NEW R \in SUBSET Run, R \cap (acct.settles \cup acct.refunds) = {}
    PROVE  /\ Exact(RefundRuns(acct, R), Run)
           /\ RefundRuns(acct, R).refunds = acct.refunds \cup R
           /\ RefundRuns(acct, R).settles = acct.settles
  <1> DEFINE open == Run \ (acct.settles \cup acct.refunds)
             next == RefundRuns(acct, R)
  <1>1. R \ acct.refunds = R /\ R \subseteq open
    OBVIOUS
  <1>2. /\ IsFiniteSet(R) /\ IsFiniteSet(acct.refunds)
        /\ Cardinality(R) \in Nat /\ Cardinality(acct.refunds) \in Nat
    BY FS_Subset, FS_CardinalityType DEF Accounts
  <1>3. Cardinality(R) <= Remaining(acct)
    <2>1. IsFiniteSet(open)
      BY FS_Difference
    <2>2. Remaining(acct) = Cardinality(open)
      BY ExactRemaining
    <2> HIDE DEF open
    <2>3. Cardinality(R) <= Cardinality(open)
      BY <1>1, <2>1, FS_Subset
    <2>4. QED
      BY <2>2, <2>3
  <1>4. AtMost(Cardinality(R), Remaining(acct)) = Cardinality(R)
    BY <1>3 DEF AtMost
  <1>5. CASE R = {}
    <2>1. next = acct
      BY <1>1, <1>5 DEF RefundRuns
    <2>2. QED
      BY <1>5, <2>1
  <1>6. CASE R # {}
    <2>1. next = [acct EXCEPT
                    !.refunded = @ + Cardinality(R),
                    !.status   = StatusAfter(acct, acct.settled, acct.refunded + Cardinality(R)),
                    !.refunds  = @ \cup R]
      BY <1>1, <1>4, <1>6 DEF RefundRuns
    <2> HIDE DEF next
    <2>2. /\ next.reserved = acct.reserved /\ next.settled = acct.settled
          /\ next.refunded = acct.refunded + Cardinality(R)
          /\ next.refunds = acct.refunds \cup R
          /\ next.settles = acct.settles /\ next.charged = acct.charged
      BY <2>1 DEF Accounts
    <2>3. Cardinality(acct.refunds \cup R) = Cardinality(acct.refunds) + Cardinality(R)
      <3>1. Cardinality(acct.refunds \cap R) = 0
        <4>1. acct.refunds \cap R = {}
          OBVIOUS
        <4>2. QED
          BY <4>1, FS_EmptySet
      <3>2. Cardinality(acct.refunds \cup R) = Cardinality(acct.refunds) + Cardinality(R)
                                                - Cardinality(acct.refunds \cap R)
        BY <1>2, FS_Union
      <3>3. QED
        BY <1>2, <3>1, <3>2
    <2>4. Exact(next, Run)
      BY <2>2, <2>3 DEF Exact
    <2>5. QED
      BY <2>2, <2>4 DEF next
  <1>7. QED
    BY <1>5, <1>6
=============================================================================
