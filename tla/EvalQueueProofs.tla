-------------------------- MODULE EvalQueueProofs --------------------------
(***************************************************************************)
(* Theorems about EvalQueue, for every finite set of runs, every set of    *)
(* executors and every bound.                                              *)
(***************************************************************************)
EXTENDS EvalQueue, ReservationProofs

\* The account after refunding some runs, and after finalizing one.
LEMMA RefundedType ==
    ASSUME TypeOK, NEW R \in SUBSET Runs
    PROVE  RefundRuns(acct, R) \in Accounts(Runs)
  BY ConstantsAssumption, RefundRunsType DEF TypeOK

LEMMA FinalizedType ==
    ASSUME TypeOK, NEW r \in Runs
    PROVE  SettleRun(acct, r) \in Accounts(Runs) /\ RefundRun(acct, r) \in Accounts(Runs)
  <1>1. {r} \in SUBSET Runs
    OBVIOUS
  <1>2. QED
    BY <1>1, RefundedType, SettleRunType DEF TypeOK, RefundRun

\* The variables are well typed initially.
LEMMA InitTypeOK == Init => TypeOK
  <1> SUFFICES ASSUME Init PROVE TypeOK
    OBVIOUS
  <1>1. Cardinality(Runs) \in Nat \ {0}
    BY ConstantsAssumption, FS_CardinalityType, FS_EmptySet
  <1>2. acct \in Accounts(Runs)
    BY <1>1, NewAccountConserved DEF Init
  <1>3. QED
    BY <1>2, ConstantsAssumption
    DEF Init, TypeOK, JobStatuses, RunStatuses, Errors, Leases, Points, Snapshots,
        Recoveries, NothingSeen, NothingStale, NothingWanted

\* What the executors' own variables are typed.
ExecOK ==
    /\ pc \in [Executors -> Points]
    /\ held \in [Executors -> Runs \cup {NoRun}]
    /\ \A e \in Executors : held[e] = NoRun <=> pc[e] \in {"idle", "recovering"}
    /\ attempt \in [Executors -> Nat]
    /\ turns \in [Executors -> Nat]
    /\ seen \in [Executors -> Snapshots]
    /\ stale \in [Executors -> Recoveries]

\* Letting go of a run, taking one up and moving on keep the executors typed.
LEMMA ExecSteps ==
    ASSUME TypeOK, NEW e \in Executors
    PROVE  /\ Release(e) => ExecOK'
           /\ \A r \in Runs, point \in Points \ {"idle", "recovering"} :
                Hold(e, r, point) => ExecOK'
           /\ held[e] # NoRun =>
                \A point \in Points \ {"idle", "recovering"} : MoveTo(e, point) => ExecOK'
  <1>1. NothingSeen \in Snapshots /\ NothingStale \in Recoveries
    BY DEF NothingSeen, NothingStale, Snapshots, Recoveries, JobStatuses, Leases,
           RunStatuses, Errors
  <1>2. Release(e) => ExecOK'
    BY <1>1, ConstantsAssumption DEF TypeOK, ExecOK, Release, Points
  <1>3. ASSUME NEW r \in Runs, NEW point \in Points \ {"idle", "recovering"}, Hold(e, r, point)
        PROVE  ExecOK'
    BY <1>3, ConstantsAssumption DEF TypeOK, ExecOK, Hold, Points
  <1>4. ASSUME held[e] # NoRun, NEW point \in Points \ {"idle", "recovering"}, MoveTo(e, point)
        PROVE  ExecOK'
    BY <1>4 DEF TypeOK, ExecOK, MoveTo, Points
  <1>5. QED
    BY <1>2, <1>3, <1>4

\* What the rows, the account and the rest are typed.
RowsOK ==
    /\ jobStatus \in [Runs -> JobStatuses]
    /\ attempts \in [Runs -> Nat]
    /\ lease \in [Runs -> Leases]
    /\ runStatus \in [Runs -> RunStatuses]
    /\ runError \in [Runs -> Errors]
    /\ trace \in [Runs -> SUBSET Nat]

RestOK ==
    /\ mode \in Modes
    /\ acct \in Accounts(Runs)
    /\ want \in [Runs -> {"none", "queued", "running"}]
    /\ todo \in SUBSET Runs
    /\ crashes \in Nat /\ cancels \in Nat /\ deletes \in Nat

LEMMA TypeOKParts == TypeOK <=> RowsOK /\ ExecOK /\ RestOK
  BY DEF TypeOK, RowsOK, ExecOK, RestOK

LEMMA TypeOKPartsNext == TypeOK' <=> RowsOK' /\ ExecOK' /\ RestOK'
  BY DEF TypeOK, RowsOK, ExecOK, RestOK

\* An executor that is past its first step holds a run.
LEMMA HeldRun ==
    ASSUME TypeOK, NEW e \in Executors, pc[e] \notin {"idle", "recovering"}
    PROVE  held[e] \in Runs /\ held[e] # NoRun
  BY DEF TypeOK

\* Every step keeps the variables typed.
LEMMA NextTypeOK == TypeOK /\ [Next]_vars => TypeOK'
  <1> SUFFICES ASSUME TypeOK, [Next]_vars PROVE RowsOK' /\ ExecOK' /\ RestOK'
    BY TypeOKPartsNext
  <1> USE DEF JobStatuses, RunStatuses, Errors, Leases
  <1>a. RowsOK /\ ExecOK /\ RestOK
    BY TypeOKParts
  <1>1. ASSUME NEW e \in Executors, NEW r \in Runs, ClaimNextJob(e, r)
        PROVE  RowsOK' /\ ExecOK' /\ RestOK'
    <2>1. Hold(e, r, "claimed") /\ "claimed" \in Points \ {"idle", "recovering"}
      BY <1>1 DEF ClaimNextJob, Points
    <2>2. ExecOK'
      BY <2>1, ExecSteps
    <2>3. RowsOK'
      BY <1>1, <1>a DEF ClaimNextJob, StartAttempt, PurgeAttempt, RowsOK
    <2>4. RestOK'
      BY <1>1, <1>a DEF ClaimNextJob, RestOK, sched, boundVars
    <2>5. QED
      BY <2>2, <2>3, <2>4
  <1>2. ASSUME NEW e \in Executors, NEW r \in Runs, ExecuteQueued(e, r)
        PROVE  RowsOK' /\ ExecOK' /\ RestOK'
    <2>1. AfterStart(r) \in Points \ {"idle", "recovering"}
      BY DEF AfterStart, Points
    <2>2. ExecOK'
      BY <1>2, <2>1, <1>a, ExecSteps DEF ExecuteQueued, execVars, ExecOK
    <2>3. RowsOK'
      BY <1>2, <1>a DEF ExecuteQueued, StartAttempt, RowsOK, jobVars, runVars
    <2>4. RestOK'
      BY <1>2, <1>a DEF ExecuteQueued, RestOK, boundVars
    <2>5. QED
      BY <2>2, <2>3, <2>4
  <1>3. ASSUME NEW e \in Executors, ExecuteClaimed(e)
        PROVE  RowsOK' /\ ExecOK' /\ RestOK'
    <2> DEFINE r == held[e]
    <2>1. r \in Runs /\ r # NoRun
      BY <1>3, HeldRun DEF ExecuteClaimed
    <2>2. AfterStart(r) \in Points \ {"idle", "recovering"}
      BY DEF AfterStart, Points
    <2>3. ExecOK'
      BY <1>3, <2>1, <2>2, ExecSteps DEF ExecuteClaimed
    <2>4. RowsOK'
      BY <1>3, <1>a, <2>1 DEF ExecuteClaimed, StartAttempt, RowsOK, jobVars, runVars
    <2>5. RestOK'
      BY <1>3, <1>a DEF ExecuteClaimed, RestOK, sched, boundVars
    <2>6. QED
      BY <2>3, <2>4, <2>5
  <1>4. ASSUME NEW e \in Executors, ClaimRun(e)
        PROVE  RowsOK' /\ ExecOK' /\ RestOK'
    <2>1. held[e] \in Runs /\ held[e] # NoRun
      BY <1>4, HeldRun DEF ClaimRun
    <2>2. ExecOK'
      <3>1. {"polling", "finalizing"} \subseteq Points \ {"idle", "recovering"}
        BY DEF Points
      <3>2. QED
        BY <1>4, <2>1, <3>1, ExecSteps DEF ClaimRun
    <2>3. RowsOK'
      BY <1>4, <1>a, <2>1 DEF ClaimRun, AddTrace, RowsOK, ExecOK, jobVars
    <2>4. RestOK'
      BY <1>4, <1>a DEF ClaimRun, RestOK, sched, boundVars
    <2>5. QED
      BY <2>2, <2>3, <2>4
  <1>5. ASSUME NEW e \in Executors, Poll(e)
        PROVE  RowsOK' /\ ExecOK' /\ RestOK'
    <2>1. ExecOK'
      BY <1>5, <1>a DEF Poll, ExecOK, Points
    <2>2. RowsOK' /\ RestOK'
      BY <1>5, <1>a DEF Poll, RowsOK, RestOK, jobVars, runVars, sched, boundVars
    <2>3. QED
      BY <2>1, <2>2
  <1>6. ASSUME NEW e \in Executors, NEW status \in {"error", "canceled"},
               NEW error \in {"retryable", "fatal"},
               pc[e] \notin {"idle", "recovering"}, EndRun(e, status, error)
        PROVE  RowsOK' /\ ExecOK' /\ RestOK'
    <2>1. held[e] \in Runs /\ held[e] # NoRun /\ attempt[e] \in Nat
      BY <1>6, HeldRun DEF TypeOK
    <2>2. ExecOK'
      <3>1. "finalizing" \in Points \ {"idle", "recovering"}
        BY DEF Points
      <3>2. QED
        BY <1>6, <2>1, <3>1, ExecSteps DEF EndRun
    <2>3. RowsOK'
      BY <1>6, <1>a, <2>1 DEF EndRun, AddTrace, RowsOK, jobVars
    <2>4. RestOK'
      BY <1>6, <1>a DEF EndRun, RestOK, sched, boundVars
    <2>5. QED
      BY <2>2, <2>3, <2>4
  <1>7. ASSUME NEW e \in Executors, AbortCanceled(e)
        PROVE  RowsOK' /\ ExecOK' /\ RestOK'
    BY <1>6, <1>7 DEF AbortCanceled
  <1>8. ASSUME NEW e \in Executors, NEW error \in {"retryable", "fatal"}, Fail(e, error)
        PROVE  RowsOK' /\ ExecOK' /\ RestOK'
    BY <1>6, <1>8 DEF Fail
  <1>9. ASSUME NEW e \in Executors,
               ExceedLimit(e) \/ (\E final \in BOOLEAN : Act(e, final)) \/ Complete(e)
        PROVE  RowsOK' /\ ExecOK' /\ RestOK'
    <2>1. held[e] \in Runs /\ held[e] # NoRun /\ attempt[e] \in Nat
      BY <1>9, HeldRun DEF ExceedLimit, Act, Complete, TypeOK
    <2>2. ExecOK'
      <3>1. {"polling", "scoring", "finalizing"} \subseteq Points \ {"idle", "recovering"}
        BY DEF Points
      <3>2. QED
        BY <1>9, <2>1, <3>1, ExecSteps DEF ExceedLimit, Act, Complete
    <2>3. RowsOK'
      BY <1>9, <1>a, <2>1 DEF ExceedLimit, Act, Complete, AddTrace, RowsOK, jobVars
    <2>4. RestOK'
      BY <1>9, <1>a DEF ExceedLimit, Act, Complete, RestOK, sched, boundVars
    <2>5. QED
      BY <2>2, <2>3, <2>4
  <1>10. ASSUME NEW e \in Executors, ReadOutcome(e)
         PROVE  RowsOK' /\ ExecOK' /\ RestOK'
    <2>1. held[e] \in Runs
      BY <1>10, HeldRun DEF ReadOutcome
    <2>2. [job |-> jobStatus[held[e]], attempts |-> attempts[held[e]], lease |-> lease[held[e]],
           run |-> runStatus[held[e]], error |-> runError[held[e]]] \in Snapshots
      BY <1>a, <2>1 DEF RowsOK, Snapshots
    <2>3. ExecOK'
      BY <1>10, <1>a, <2>2 DEF ReadOutcome, ExecOK, Points
    <2>4. RowsOK' /\ RestOK'
      BY <1>10, <1>a DEF ReadOutcome, RowsOK, RestOK, jobVars, runVars, sched, boundVars
    <2>5. QED
      BY <2>3, <2>4
  <1>11. ASSUME NEW e \in Executors, FinalizeJob(e)
         PROVE  RowsOK' /\ ExecOK' /\ RestOK'
    <2>1. held[e] \in Runs /\ seen[e] \in Snapshots
      BY <1>11, <1>a, HeldRun DEF FinalizeJob, ExecOK
    <2>2. Verdict(seen[e]) \in JobStatuses
      BY DEF Verdict
    <2>3. ExecOK'
      BY <1>11, ExecSteps DEF FinalizeJob
    <2>4. RowsOK'
      BY <1>11, <1>a, <2>1, <2>2 DEF FinalizeJob, PurgeAttempt, Written, RowsOK
    <2>5. acct' \in Accounts(Runs)
      BY <1>11, <1>a, <2>1, FinalizedType DEF FinalizeJob, RestOK
    <2>6. RestOK'
      BY <1>11, <1>a, <2>5 DEF FinalizeJob, RestOK, sched, boundVars
    <2>7. QED
      BY <2>3, <2>4, <2>6
  <1>12. ASSUME NEW e \in Executors, FindDeleted(e) \/ Crash(e)
         PROVE  RowsOK' /\ ExecOK' /\ RestOK'
    <2>1. ExecOK'
      BY <1>12, ExecSteps DEF FindDeleted, Crash
    <2>2. RowsOK' /\ RestOK'
      BY <1>12, <1>a DEF FindDeleted, Crash, RowsOK, RestOK, jobVars, runVars, sched, boundVars
    <2>3. QED
      BY <2>1, <2>2
  <1>13. ASSUME NEW s \in Recoveries, RecoverJobs(s)
         PROVE  RowsOK' /\ RestOK'
    <2>1. acct' \in Accounts(Runs)
      BY <1>13, RefundedType DEF RecoverJobs, Recoveries
    <2>2. RowsOK' /\ RestOK'
      BY <1>13, <1>a, <2>1 DEF RecoverJobs, PurgeAttempt, RowsOK, RestOK, sched, boundVars
    <2>3. QED
      BY <2>2
  <1>14. ReadInterrupted \in Recoveries
    BY DEF ReadInterrupted, Recoveries, Interrupted
  <1>15. ASSUME NEW e \in Executors, Recover(e) \/ RecoverRead(e) \/ RecoverWrite(e)
         PROVE  RowsOK' /\ ExecOK' /\ RestOK'
    <2>1. CASE Recover(e)
      BY <2>1, <1>13, <1>14, <1>a DEF Recover, execVars, ExecOK
    <2>2. CASE RecoverRead(e)
      <3>1. ExecOK'
        BY <2>2, <1>14, <1>a DEF RecoverRead, ExecOK, Points
      <3>2. QED
        BY <2>2, <3>1, <1>a DEF RecoverRead, RowsOK, RestOK, jobVars, runVars, sched, boundVars
    <2>3. CASE RecoverWrite(e)
      <3>1. ExecOK'
        BY <2>3, ExecSteps DEF RecoverWrite
      <3>2. stale[e] \in Recoveries
        BY <1>a DEF ExecOK
      <3>3. RowsOK' /\ RestOK'
        BY <2>3, <3>2, <1>13, <1>a
        DEF RecoverWrite, RowsOK, RestOK, jobVars, runVars, sched, boundVars
      <3>4. QED
        BY <3>1, <3>3
    <2>4. QED
      BY <1>15, <2>1, <2>2, <2>3
  <1>16. ReadCancelable \in [Runs -> {"none", "queued", "running"}]
    BY DEF ReadCancelable
  <1>17. ASSUME NEW w \in [Runs -> {"none", "queued", "running"}], CancelJobs(w)
         PROVE  /\ RowsOK' /\ ExecOK' /\ acct' \in Accounts(Runs)
                /\ UNCHANGED <<sched, crashes, deletes>>
    <2>1. acct' \in Accounts(Runs)
      <3>1. {r \in Runs : w[r] = "queued"} \in SUBSET Runs
        OBVIOUS
      <3>2. QED
        BY <1>17, <3>1, RefundedType DEF CancelJobs
    <2>2. RowsOK'
      BY <1>17, <1>a DEF CancelJobs, RowsOK
    <2>3. ExecOK'
      BY <1>17, <1>a DEF CancelJobs, ExecOK, execVars
    <2>4. QED
      BY <1>17, <2>1, <2>2, <2>3 DEF CancelJobs
  <1>18. CASE Cancel \/ CancelRead \/ CancelWrite
    <2>1. NothingWanted \in [Runs -> {"none", "queued", "running"}]
      BY DEF NothingWanted
    <2>2. CASE Cancel
      BY <2>2, <1>16, <1>17, <1>a DEF Cancel, RestOK, sched
    <2>3. CASE CancelRead
      BY <2>3, <1>16, <1>a
      DEF CancelRead, RowsOK, ExecOK, RestOK, jobVars, runVars, execVars, sched
    <2>4. CASE CancelWrite
      <3>1. CASE \E r \in Runs : want[r] # "none" /\ Deleted(r)
        BY <2>4, <3>1, <2>1, <1>a
        DEF CancelWrite, RowsOK, ExecOK, RestOK, jobVars, runVars, execVars, sched
      <3>2. CASE ~ \E r \in Runs : want[r] # "none" /\ Deleted(r)
        <4>1. CancelJobs(want) /\ want \in [Runs -> {"none", "queued", "running"}]
          BY <2>4, <3>2, <1>a DEF CancelWrite, RestOK
        <4>2. QED
          BY <4>1, <2>4, <2>1, <1>17, <1>a DEF CancelWrite, RestOK, sched
      <3>3. QED
        BY <3>1, <3>2
    <2>5. QED
      BY <1>18, <2>2, <2>3, <2>4
  <1>19. CASE DeleteAgent
    BY <1>19, <1>a
    DEF DeleteAgent, PurgeAttempt, RowsOK, ExecOK, RestOK, execVars, sched
  <1>20. ASSUME NEW r \in Runs, LeaseExpires(r)
         PROVE  RowsOK' /\ ExecOK' /\ RestOK'
    BY <1>20, <1>a
    DEF LeaseExpires, RowsOK, ExecOK, RestOK, runVars, execVars, sched, boundVars
  <1>21. CASE UNCHANGED vars
    BY <1>21, <1>a
    DEF vars, RowsOK, ExecOK, RestOK, jobVars, runVars, execVars, sched, boundVars
  <1>22. QED
    BY <1>1, <1>2, <1>3, <1>4, <1>5, <1>7, <1>8, <1>9, <1>10, <1>11, <1>12, <1>15,
       <1>18, <1>19, <1>20, <1>21
    DEF Next, Begin, Proceed

\* Every variable of the queue keeps its type.
THEOREM TypeCorrect == Spec => []TypeOK
  <1>1. QED
    BY InitTypeOK, NextTypeOK, PTL DEF Spec
-----------------------------------------------------------------------------
(* The account, whatever the timing.                                       *)

\* A step leaves the account alone, settles one run or refunds some.
LEMMA AccountSteps ==
    ASSUME TypeOK, [Next]_vars
    PROVE  \/ acct' = acct
           \/ \E r \in Runs : acct' = SettleRun(acct, r)
           \/ \E R \in SUBSET Runs : acct' = RefundRuns(acct, R)
  <1>1. ASSUME NEW e \in Executors, FinalizeJob(e)
        PROVE  \/ acct' = acct
               \/ \E r \in Runs : acct' = SettleRun(acct, r)
               \/ \E R \in SUBSET Runs : acct' = RefundRuns(acct, R)
    <2>1. held[e] \in Runs
      BY <1>1, HeldRun DEF FinalizeJob
    <2>2. \/ acct' = acct \/ acct' = SettleRun(acct, held[e])
          \/ acct' = RefundRuns(acct, {held[e]})
      BY <1>1 DEF FinalizeJob, RefundRun
    <2>3. {held[e]} \in SUBSET Runs
      BY <2>1
    <2>4. QED
      BY <2>1, <2>2, <2>3
  <1>2. ASSUME NEW e \in Executors, Recover(e) \/ RecoverWrite(e)
        PROVE  acct' = acct \/ \E R \in SUBSET Runs : acct' = RefundRuns(acct, R)
    <2>1. stale[e].fail \in SUBSET Runs /\ ReadInterrupted.fail \in SUBSET Runs
      BY DEF TypeOK, Recoveries, ReadInterrupted, Interrupted
    <2>2. \/ acct' = acct
          \/ acct' = RefundRuns(acct, ReadInterrupted.fail)
          \/ acct' = RefundRuns(acct, stale[e].fail)
      BY <1>2 DEF Recover, RecoverWrite, RecoverJobs
    <2>3. QED
      BY <2>1, <2>2
  <1>3. ASSUME Cancel \/ CancelWrite
        PROVE  acct' = acct \/ \E R \in SUBSET Runs : acct' = RefundRuns(acct, R)
    <2>1. ASSUME NEW w, CancelJobs(w)
          PROVE  \E R \in SUBSET Runs : acct' = RefundRuns(acct, R)
      BY <2>1 DEF CancelJobs
    <2>2. QED
      BY <1>3, <2>1 DEF Cancel, CancelWrite
  <1>4. QED
    BY <1>1, <1>2, <1>3
    DEF Next, Begin, Proceed, ClaimNextJob, ExecuteQueued, ExecuteClaimed, ClaimRun, Poll,
        AbortCanceled, ExceedLimit, Act, Fail, EndRun, Complete, ReadOutcome, FindDeleted,
        RecoverRead, CancelRead, DeleteAgent, LeaseExpires, Crash, vars

\* Every unit of the reservation is settled once, refunded once or still held,
\* however late leases are found expired and however requests interleave.
THEOREM UnitsAreConserved == Spec => []UnitsConserved
  <1>1. Init => UnitsConserved
    <2>1. Cardinality(Runs) \in Nat \ {0}
      BY ConstantsAssumption, FS_CardinalityType, FS_EmptySet
    <2>2. QED
      BY <2>1, NewAccountConserved DEF Init, UnitsConserved
  <1>2. TypeOK /\ UnitsConserved /\ [Next]_vars => UnitsConserved'
    <2> SUFFICES ASSUME TypeOK, UnitsConserved, [Next]_vars
                 PROVE  Conserved(acct')
      BY DEF UnitsConserved
    <2>1. acct \in Accounts(Runs) /\ IsFiniteSet(Runs) /\ Conserved(acct)
      BY ConstantsAssumption DEF TypeOK, UnitsConserved
    <2>2. QED
      BY <2>1, AccountSteps, SettleRunConserves, RefundRunsConserves
  <1>3. QED
    BY <1>1, <1>2, TypeCorrect, PTL DEF Spec

\* Usage events are never taken back.
LEMMA EventsStay ==
    ASSUME TypeOK, [Next]_vars
    PROVE  acct.settles \subseteq acct'.settles /\ acct.refunds \subseteq acct'.refunds
  <1>1. acct \in Accounts(Runs)
    BY DEF TypeOK
  <1>2. \A r \in Runs : /\ acct.settles \subseteq SettleRun(acct, r).settles
                        /\ acct.refunds \subseteq SettleRun(acct, r).refunds
    BY <1>1 DEF SettleRun, Accounts
  <1>3. \A R \in SUBSET Runs : /\ acct.settles \subseteq RefundRuns(acct, R).settles
                               /\ acct.refunds \subseteq RefundRuns(acct, R).refunds
    BY <1>1 DEF RefundRuns, Accounts
  <1>4. QED
    BY AccountSteps, <1>2, <1>3

\* What settle_run and refund_run record.
LEMMA EventRecorded ==
    ASSUME TypeOK
    PROVE  /\ \A r \in Runs : r \in SettleRun(acct, r).settles
           /\ \A r \in Runs : r \in RefundRun(acct, r).refunds
           /\ \A R \in SUBSET Runs : R \subseteq RefundRuns(acct, R).refunds
  <1>1. acct \in Accounts(Runs)
    BY DEF TypeOK
  <1>2. \A r \in Runs : r \in SettleRun(acct, r).settles
    BY <1>1 DEF SettleRun, Accounts
  <1>3. \A R \in SUBSET Runs : R \subseteq RefundRuns(acct, R).refunds
    BY <1>1 DEF RefundRuns, Accounts
  <1>4. QED
    BY <1>2, <1>3 DEF RefundRun

\* No job ends without its usage event, whatever the timing.
THEOREM EndedJobsAccounted == Spec => []EndedIsAccounted
  <1>1. Init => EndedIsAccounted
    BY DEF Init, EndedIsAccounted
  <1>2. TypeOK /\ EndedIsAccounted /\ [Next]_vars => EndedIsAccounted'
    <2> SUFFICES ASSUME TypeOK, EndedIsAccounted, [Next]_vars, NEW r \in Runs
                 PROVE  /\ jobStatus'[r] = "completed" => r \in acct'.settles
                        /\ jobStatus'[r] \in {"failed", "canceled"} => r \in acct'.refunds
      BY DEF EndedIsAccounted
    <2>1. CASE jobStatus'[r] = jobStatus[r] \/ jobStatus'[r] \notin Terminal
      BY <2>1, EventsStay DEF EndedIsAccounted, Terminal
    <2>2. ASSUME NEW e \in Executors, FinalizeJob(e), jobStatus'[r] # jobStatus[r]
          PROVE  /\ jobStatus'[r] = "completed" => r \in acct'.settles
                 /\ jobStatus'[r] \in {"failed", "canceled"} => r \in acct'.refunds
      <3>1. held[e] \in Runs
        BY <2>2, HeldRun DEF FinalizeJob
      <3>2. r = held[e] /\ jobStatus'[r] = Verdict(seen[e])
        BY <2>2, <3>1 DEF FinalizeJob, Written, TypeOK
      <3>3. /\ Verdict(seen[e]) = "completed" => acct' = SettleRun(acct, r)
            /\ Verdict(seen[e]) \in {"failed", "canceled"} => acct' = RefundRun(acct, r)
        BY <2>2, <3>2 DEF FinalizeJob
      <3>4. QED
        BY <3>2, <3>3, EventRecorded
    <2>3. ASSUME NEW s \in Recoveries, RecoverJobs(s), jobStatus'[r] # jobStatus[r]
          PROVE  jobStatus'[r] # "completed" /\ jobStatus'[r] # "canceled"
                 /\ (jobStatus'[r] = "failed" => r \in acct'.refunds)
      <3>1. s.fail \in SUBSET Runs
        BY DEF Recoveries
      <3>2. QED
        BY <2>3, <3>1, EventRecorded DEF RecoverJobs, TypeOK
    <2>4. ASSUME NEW e \in Executors, Recover(e) \/ RecoverWrite(e), jobStatus'[r] # jobStatus[r]
          PROVE  /\ jobStatus'[r] = "completed" => r \in acct'.settles
                 /\ jobStatus'[r] \in {"failed", "canceled"} => r \in acct'.refunds
      <3>1. stale[e] \in Recoveries /\ ReadInterrupted \in Recoveries
        BY DEF TypeOK, Recoveries, ReadInterrupted, Interrupted
      <3>2. RecoverJobs(ReadInterrupted) \/ RecoverJobs(stale[e])
        BY <2>4 DEF Recover, RecoverWrite, jobVars
      <3>3. QED
        BY <2>4, <3>1, <3>2, <2>3
    <2>5. ASSUME NEW w \in [Runs -> {"none", "queued", "running"}], CancelJobs(w),
                 jobStatus'[r] # jobStatus[r]
          PROVE  /\ jobStatus'[r] \notin {"completed", "failed"}
                 /\ jobStatus'[r] = "canceled" => r \in acct'.refunds
      <3>1. {q \in Runs : w[q] = "queued"} \subseteq acct'.refunds
        BY <2>5, EventRecorded DEF CancelJobs
      <3>2. QED
        BY <2>5, <3>1 DEF CancelJobs
    <2>6. ASSUME Cancel \/ CancelWrite, jobStatus'[r] # jobStatus[r]
          PROVE  /\ jobStatus'[r] = "completed" => r \in acct'.settles
                 /\ jobStatus'[r] \in {"failed", "canceled"} => r \in acct'.refunds
      <3>1. want \in [Runs -> {"none", "queued", "running"}]
            /\ ReadCancelable \in [Runs -> {"none", "queued", "running"}]
        BY DEF TypeOK, ReadCancelable
      <3>2. CancelJobs(want) \/ CancelJobs(ReadCancelable)
        BY <2>6 DEF Cancel, CancelWrite, jobVars
      <3>3. QED
        BY <2>6, <3>1, <3>2, <2>5
    <2>7. ASSUME NEW q \in Runs, StartAttempt(q)
          PROVE  jobStatus'[r] = jobStatus[r] \/ jobStatus'[r] \notin Terminal
      BY <2>7 DEF StartAttempt, TypeOK, Terminal
    <2>8. ASSUME NEW e \in Executors, ExecuteClaimed(e)
          PROVE  jobStatus'[r] = jobStatus[r] \/ jobStatus'[r] \notin Terminal
      <3>1. held[e] \in Runs
        BY <2>8, HeldRun DEF ExecuteClaimed
      <3>2. QED
        BY <2>8, <3>1, <2>7 DEF ExecuteClaimed, jobVars
    <2>9. ASSUME NEW e \in Executors, NEW q \in Runs, ClaimNextJob(e, q) \/ ExecuteQueued(e, q)
          PROVE  jobStatus'[r] = jobStatus[r] \/ jobStatus'[r] \notin Terminal
      BY <2>9, <2>7 DEF ClaimNextJob, ExecuteQueued, jobVars
    <2>10. CASE DeleteAgent
      BY <2>10, <2>1 DEF DeleteAgent, Terminal
    <2>11. QED
      BY <2>1, <2>2, <2>4, <2>6, <2>8, <2>9, <2>10
      DEF Next, Begin, Proceed, ClaimRun, Poll, AbortCanceled, ExceedLimit, Act, Fail, EndRun,
          Complete, ReadOutcome, FindDeleted, RecoverRead, CancelRead, LeaseExpires, Crash,
          jobVars, vars
  <1>3. QED
    BY <1>1, <1>2, TypeCorrect, PTL DEF Spec
=============================================================================
