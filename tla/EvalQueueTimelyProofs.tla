----------------------- MODULE EvalQueueTimelyProofs -----------------------
(***************************************************************************)
(* Theorems about EvalQueue when no lease runs out under its executor and  *)
(* cancellations and recoveries are not interleaved: a run has one         *)
(* executor, its plan's concurrency is respected, its unit moves once, its *)
(* trace is one attempt's, its job can run and its end is final.           *)
(***************************************************************************)
EXTENDS EvalQueueProofs

\* A job nobody executes may change, start or be claimed without disturbing the
\* executors of the others.
LEMMA FreeJob ==
    ASSUME ExecutionInv, NEW r \in Runs, ~Deleted(r),
           jobStatus[r] \notin InHand \/ lease[r] # "live"
    PROVE  \A e \in Executors : held[e] # r
  BY ConstantsAssumption DEF ExecutionInv, HeldJobInHand

\* The invariant holds initially.
LEMMA InitExecution == Init => ExecutionInv
  BY DEF Init, ExecutionInv, RequestsAtomic, ExclusiveExecution, HeldJobInHand, SeenJobInHand

\* An executor that lets go of its run, with the job rows of the runs the others
\* execute untouched.
LEMMA ReleaseExecution ==
    ASSUME TypeOK, ExecutionInv, NEW e \in Executors, Release(e), want' = want,
           \A d \in Executors \ {e} : held[d] # NoRun =>
               /\ jobStatus'[held[d]] = jobStatus[held[d]]
               /\ lease'[held[d]] = lease[held[d]]
    PROVE  ExecutionInv'
  <1>1. \A d \in Executors \ {e} : /\ pc'[d] = pc[d] /\ held'[d] = held[d]
                                   /\ seen'[d] = seen[d]
    BY DEF Release, TypeOK
  <1>2. pc'[e] = "idle" /\ held'[e] = NoRun
    BY DEF Release, TypeOK
  <1>3. RequestsAtomic'
    BY <1>1, <1>2 DEF ExecutionInv, RequestsAtomic, NothingWanted
  <1>4. ExclusiveExecution'
    BY <1>1, <1>2 DEF ExecutionInv, ExclusiveExecution
  <1>5. HeldJobInHand'
    BY <1>1, <1>2 DEF ExecutionInv, HeldJobInHand, Deleted
  <1>6. SeenJobInHand'
    <2> SUFFICES ASSUME NEW d \in Executors, pc'[d] = "deciding", ~Deleted(held[d])', held'[d] = held[d]
                 PROVE  seen'[d].job \in InHand /\ seen'[d].lease = "live"
      BY <1>1, <1>2 DEF SeenJobInHand
    <2>1. d # e /\ pc[d] = "deciding" /\ seen'[d] = seen[d]
      BY <1>1, <1>2
    <2>2. held[d] # NoRun
      BY <2>1 DEF TypeOK
    <2>3. ~Deleted(held[d])
      BY <2>1, <2>2 DEF Deleted
    <2>4. QED
      BY <2>1, <2>3 DEF ExecutionInv, SeenJobInHand
  <1>7. QED
    BY <1>3, <1>4, <1>5, <1>6 DEF ExecutionInv

\* An executor that stays on its run, with the job rows untouched.
LEMMA MoveExecution ==
    ASSUME TypeOK, ExecutionInv, NEW e \in Executors, NEW point \in Points \ {"recovering", "deciding"},
           MoveTo(e, point), UNCHANGED <<jobVars, want>>
    PROVE  ExecutionInv'
  <1>1. /\ \A d \in Executors \ {e} : pc'[d] = pc[d]
        /\ pc'[e] = point /\ held' = held /\ seen' = seen
    BY DEF MoveTo, TypeOK
  <1>2. jobStatus' = jobStatus /\ lease' = lease
    BY DEF jobVars
  <1>3. RequestsAtomic'
    BY <1>1 DEF ExecutionInv, RequestsAtomic, NothingWanted
  <1>4. ExclusiveExecution' /\ HeldJobInHand'
    BY <1>1, <1>2 DEF ExecutionInv, ExclusiveExecution, HeldJobInHand, Deleted
  <1>5. SeenJobInHand'
    BY <1>1, <1>2 DEF ExecutionInv, SeenJobInHand, Deleted
  <1>6. QED
    BY <1>3, <1>4, <1>5 DEF ExecutionInv

\* An idle executor that starts an attempt of a job nobody executes.
LEMMA StartExecution ==
    ASSUME TypeOK, ExecutionInv, NEW e \in Executors, pc[e] = "idle", NEW r \in Runs,
           \A d \in Executors : held[d] # r,
           NEW point \in {"claimed", "testing", "finalizing"},
           StartAttempt(r), Hold(e, r, point), want' = want
    PROVE  ExecutionInv'
  <1>1. /\ \A d \in Executors \ {e} : /\ pc'[d] = pc[d] /\ held'[d] = held[d]
        /\ pc'[e] = point /\ held'[e] = r /\ seen' = seen
    BY DEF Hold, TypeOK
  <1>2. \A q \in Runs \ {r} : jobStatus'[q] = jobStatus[q] /\ lease'[q] = lease[q]
    BY DEF StartAttempt, TypeOK
  <1>3. jobStatus'[r] = "running" /\ lease'[r] = "live"
    BY DEF StartAttempt, TypeOK
  <1>4. \A d \in Executors \ {e} : held[d] # NoRun => held[d] \in Runs \ {r}
    BY DEF TypeOK
  <1>5. RequestsAtomic'
    BY <1>1 DEF ExecutionInv, RequestsAtomic, NothingWanted
  <1>6. ExclusiveExecution'
    BY <1>1 DEF ExecutionInv, ExclusiveExecution
  <1>7. HeldJobInHand'
    BY <1>1, <1>2, <1>3, <1>4 DEF ExecutionInv, HeldJobInHand, Deleted, InHand
  <1>8. SeenJobInHand'
    <2> SUFFICES ASSUME NEW d \in Executors, pc'[d] = "deciding", ~Deleted(held[d])'
                 PROVE  seen'[d].job \in InHand /\ seen'[d].lease = "live"
      BY DEF SeenJobInHand
    <2>1. d # e /\ pc[d] = "deciding" /\ held'[d] = held[d]
      BY <1>1
    <2>2. held[d] \in Runs \ {r}
      BY <1>4, <2>1 DEF TypeOK
    <2>3. ~Deleted(held[d])
      BY <1>2, <2>1, <2>2 DEF Deleted
    <2>4. QED
      BY <1>1, <2>1, <2>3 DEF ExecutionInv, SeenJobInHand
  <1>9. QED
    BY <1>5, <1>6, <1>7, <1>8 DEF ExecutionInv

\* Executors stay where they are, and only jobs nobody executes change, or
\* change from running to cancel_requested, or are deleted.
LEMMA OutsideExecution ==
    ASSUME TypeOK, ExecutionInv, UNCHANGED <<execVars, want>>,
           \A r \in Runs :
               \/ \A e \in Executors : held[e] # r
               \/ jobStatus'[r] = "deleted"
               \/ /\ jobStatus[r] \in InHand => jobStatus'[r] \in InHand
                  /\ Deleted(r) => jobStatus'[r] = "deleted"
                  /\ lease'[r] = lease[r]
    PROVE  ExecutionInv'
  <1>1. /\ pc' = pc /\ held' = held /\ seen' = seen /\ want' = want
    BY DEF execVars
  <1>2. \A d \in Executors : held[d] # NoRun => held[d] \in Runs
    BY DEF TypeOK
  <1>3. \A d \in Executors : held[d] # NoRun /\ ~Deleted(held[d])' =>
            /\ ~Deleted(held[d])
            /\ jobStatus[held[d]] \in InHand => jobStatus'[held[d]] \in InHand
            /\ lease'[held[d]] = lease[held[d]]
    BY <1>1, <1>2 DEF Deleted
  <1>4. RequestsAtomic' /\ ExclusiveExecution'
    BY <1>1 DEF ExecutionInv, RequestsAtomic, NothingWanted, ExclusiveExecution
  <1>5. HeldJobInHand'
    BY <1>1, <1>3 DEF ExecutionInv, HeldJobInHand, Deleted
  <1>6. SeenJobInHand'
    <2> SUFFICES ASSUME NEW d \in Executors, pc[d] = "deciding", ~Deleted(held[d])'
                 PROVE  seen[d].job \in InHand /\ seen[d].lease = "live"
      BY <1>1 DEF SeenJobInHand, Deleted
    <2>1. held[d] # NoRun
      BY DEF TypeOK
    <2>2. QED
      BY <2>1, <1>3 DEF ExecutionInv, SeenJobInHand
  <1>7. QED
    BY <1>4, <1>5, <1>6 DEF ExecutionInv

\* Every step keeps a run to one executor.
LEMMA NextExecution ==
    ASSUME TimelyLease, AtomicRequests, TypeOK, ExecutionInv, [Next]_vars
    PROVE  ExecutionInv'
  <1>a. RequestsAtomic /\ HeldJobInHand
    BY DEF ExecutionInv
  <1>1. ASSUME NEW e \in Executors, NEW r \in Runs, ClaimNextJob(e, r)
        PROVE  ExecutionInv'
    <2>1. pc[e] = "idle" /\ StartAttempt(r) /\ Hold(e, r, "claimed") /\ want' = want
      BY <1>1 DEF ClaimNextJob
    <2>2. \A d \in Executors : held[d] # r
      BY <1>1, FreeJob DEF ClaimNextJob, Claimable, Deleted, InHand
    <2>3. QED
      BY <2>1, <2>2, StartExecution
  <1>2. ASSUME NEW e \in Executors, NEW r \in Runs, ExecuteQueued(e, r)
        PROVE  ExecutionInv'
    <2>1. CASE jobStatus[r] = "queued"
      <3>1. pc[e] = "idle" /\ StartAttempt(r) /\ Hold(e, r, AfterStart(r)) /\ want' = want
        BY <1>2, <2>1 DEF ExecuteQueued
      <3>2. \A d \in Executors : held[d] # r
        BY <2>1, FreeJob DEF Deleted, InHand
      <3>3. AfterStart(r) \in {"claimed", "testing", "finalizing"}
        BY DEF AfterStart
      <3>4. QED
        BY <3>1, <3>2, <3>3, StartExecution
    <2>2. CASE jobStatus[r] # "queued"
      <3>1. UNCHANGED <<jobVars, execVars, want>>
        BY <1>2, <2>2 DEF ExecuteQueued
      <3>2. QED
        BY <3>1, OutsideExecution DEF jobVars, Deleted
    <2>3. QED
      BY <2>1, <2>2
  <1>3. ASSUME NEW e \in Executors, ExecuteClaimed(e)
        PROVE  ExecutionInv'
    <2>1. held[e] # NoRun
      BY <1>3, HeldRun DEF ExecuteClaimed
    <2>2. jobStatus[held[e]] # "queued"
      BY <1>3, <2>1, <1>a DEF ExecuteClaimed, HeldJobInHand, InHand
    <2>3. MoveTo(e, AfterStart(held[e])) /\ UNCHANGED <<jobVars, want>>
      BY <1>3, <2>2 DEF ExecuteClaimed
    <2>4. AfterStart(held[e]) \in Points \ {"recovering", "deciding"}
      BY DEF AfterStart, Points
    <2>5. QED
      BY <2>3, <2>4, MoveExecution
  <1>4. ASSUME NEW e \in Executors, NEW final \in BOOLEAN,
               \/ ClaimRun(e) \/ AbortCanceled(e) \/ ExceedLimit(e) \/ Act(e, final)
               \/ \E error \in {"retryable", "fatal"} : Fail(e, error)
               \/ Complete(e)
        PROVE  ExecutionInv'
    <2>1. {"polling", "finalizing", "scoring"} \subseteq Points \ {"recovering", "deciding"}
      BY DEF Points
    <2>2. /\ \E point \in {"polling", "finalizing", "scoring"} : MoveTo(e, point)
          /\ UNCHANGED <<jobVars, want>>
      BY <1>4 DEF ClaimRun, AbortCanceled, ExceedLimit, Act, Fail, EndRun, Complete
    <2>3. QED
      BY <2>1, <2>2, MoveExecution
  <1>5. ASSUME NEW e \in Executors, Poll(e)
        PROVE  ExecutionInv'
    <2>1. /\ UNCHANGED <<jobStatus, lease, want, held, seen>>
          /\ pc' = [pc EXCEPT ![e] = "acting"]
      BY <1>5 DEF Poll, jobVars
    <2>2. \A d \in Executors : pc'[d] = pc[d] \/ pc'[d] = "acting"
      BY <2>1 DEF TypeOK
    <2>3. QED
      BY <2>1, <2>2
      DEF ExecutionInv, RequestsAtomic, NothingWanted, ExclusiveExecution, HeldJobInHand,
          SeenJobInHand, Deleted
  <1>6. ASSUME NEW e \in Executors, ReadOutcome(e)
        PROVE  ExecutionInv'
    <2>1. held[e] # NoRun /\ ~Deleted(held[e])
      BY <1>6, HeldRun DEF ReadOutcome
    <2>2. jobStatus[held[e]] \in InHand /\ lease[held[e]] = "live"
      BY <2>1, <1>a DEF HeldJobInHand
    <2>3. /\ UNCHANGED <<jobStatus, lease, want, held>>
          /\ pc' = [pc EXCEPT ![e] = "deciding"]
          /\ \A d \in Executors \ {e} : seen'[d] = seen[d]
          /\ seen'[e].job = jobStatus[held[e]] /\ seen'[e].lease = lease[held[e]]
      BY <1>6 DEF ReadOutcome, jobVars, TypeOK
    <2>4. \A d \in Executors \ {e} : pc'[d] = pc[d]
      BY <2>3 DEF TypeOK
    <2>5. pc'[e] = "deciding"
      BY <2>3 DEF TypeOK
    <2>6. RequestsAtomic' /\ ExclusiveExecution' /\ HeldJobInHand'
      BY <2>3, <2>4, <2>5
      DEF ExecutionInv, RequestsAtomic, NothingWanted, ExclusiveExecution, HeldJobInHand, Deleted
    <2>7. SeenJobInHand'
      BY <2>2, <2>3, <2>4 DEF ExecutionInv, SeenJobInHand, Deleted
    <2>8. QED
      BY <2>6, <2>7 DEF ExecutionInv
  <1>7. ASSUME NEW e \in Executors, FinalizeJob(e) \/ FindDeleted(e) \/ Crash(e)
        PROVE  ExecutionInv'
    <2>1. Release(e) /\ want' = want
      BY <1>7 DEF FinalizeJob, FindDeleted, Crash
    <2>2. CASE FinalizeJob(e)
      <3>1. held[e] \in Runs /\ held[e] # NoRun
        BY <2>2, HeldRun DEF FinalizeJob
      <3>2. \A r \in Runs \ {held[e]} : jobStatus'[r] = jobStatus[r] /\ lease'[r] = lease[r]
        BY <2>2, <3>1 DEF FinalizeJob, TypeOK
      <3>3. \A d \in Executors \ {e} : held[d] # NoRun => held[d] \in Runs \ {held[e]}
        BY <3>1 DEF TypeOK, ExecutionInv, ExclusiveExecution
      <3>4. QED
        BY <2>1, <3>2, <3>3, ReleaseExecution
    <2>3. CASE FindDeleted(e) \/ Crash(e)
      <3>1. UNCHANGED jobVars
        BY <2>3 DEF FindDeleted, Crash
      <3>2. QED
        BY <2>1, <3>1, ReleaseExecution DEF jobVars
    <2>4. QED
      BY <1>7, <2>2, <2>3
  <1>8. ASSUME NEW e \in Executors, Recover(e)
        PROVE  ExecutionInv'
    <2>1. UNCHANGED <<execVars, want>>
      BY <1>8 DEF Recover, RecoverJobs
    <2>2. ASSUME NEW r \in Runs
          PROVE  \/ \A d \in Executors : held[d] # r
                 \/ jobStatus'[r] = jobStatus[r] /\ lease'[r] = lease[r]
      <3>1. CASE r \in Interrupted
        <4>1. ~Deleted(r) /\ lease[r] # "live"
          BY <3>1 DEF Interrupted, Deleted
        <4>2. QED
          BY <4>1, FreeJob
      <3>2. CASE r \notin Interrupted
        <4>1. r \notin ReadInterrupted.requeue /\ r \notin ReadInterrupted.fail
          BY <3>2 DEF ReadInterrupted
        <4>2. QED
          BY <1>8, <4>1 DEF Recover, RecoverJobs
      <3>3. QED
        BY <3>1, <3>2
    <2>3. QED
      BY <2>1, <2>2, OutsideExecution DEF Deleted
  <1>9. CASE Cancel
    <2>1. UNCHANGED <<execVars, want, lease>>
      BY <1>9 DEF Cancel, CancelJobs
    <2>2. ASSUME NEW r \in Runs
          PROVE  \/ \A d \in Executors : held[d] # r
                 \/ jobStatus[r] = "running" /\ jobStatus'[r] = "cancel_requested"
                 \/ jobStatus'[r] = jobStatus[r]
      <3>1. CASE jobStatus[r] = "queued"
        BY <3>1, FreeJob DEF InHand, Deleted
      <3>2. CASE jobStatus[r] # "queued"
        BY <1>9, <3>2 DEF Cancel, CancelJobs, ReadCancelable
      <3>3. QED
        BY <3>1, <3>2
    <2>3. QED
      BY <2>1, <2>2, OutsideExecution DEF Deleted, InHand
  <1>10. CASE DeleteAgent
    <2>1. UNCHANGED <<execVars, want>> /\ \A r \in Runs : jobStatus'[r] = "deleted"
      BY <1>10 DEF DeleteAgent
    <2>2. QED
      BY <2>1, OutsideExecution
  <1>11. ASSUME NEW r \in Runs, LeaseExpires(r)
         PROVE  ExecutionInv'
    <2>1. UNCHANGED <<execVars, want>> /\ jobStatus' = jobStatus
      BY <1>11 DEF LeaseExpires
    <2>2. \A e \in Executors : held[e] # r
      BY <1>11 DEF LeaseExpires
    <2>3. \A q \in Runs \ {r} : lease'[q] = lease[q]
      BY <1>11 DEF LeaseExpires, TypeOK
    <2>4. QED
      BY <2>1, <2>2, <2>3, OutsideExecution DEF Deleted
  <1>12. CASE UNCHANGED vars
    BY <1>12, OutsideExecution DEF vars, jobVars, Deleted
  <1>13. \A e \in Executors : ~RecoverRead(e) /\ ~RecoverWrite(e)
    BY <1>a DEF RecoverRead, RecoverWrite, RequestsAtomic
  <1>14. ~CancelRead /\ ~CancelWrite
    BY <1>a DEF CancelRead, CancelWrite, RequestsAtomic
  <1>15. QED
    BY <1>1, <1>2, <1>3, <1>4, <1>5, <1>6, <1>7, <1>8, <1>9, <1>10, <1>11, <1>12, <1>13, <1>14
    DEF Next, Begin, Proceed

\* No two executors ever execute the same run: a job that is running belongs to
\* whoever claimed it, through retries, recoveries, cancellations and crashes.
THEOREM ExecutionIsExclusive ==
    ASSUME TimelyLease, AtomicRequests
    PROVE  Spec => []ExclusiveExecution
  <1>1. TypeOK /\ ExecutionInv /\ [Next]_vars => ExecutionInv'
    BY NextExecution
  <1>2. ExecutionInv => ExclusiveExecution
    BY DEF ExecutionInv
  <1>3. QED
    BY InitExecution, TypeCorrect, <1>1, <1>2, PTL DEF Spec
-----------------------------------------------------------------------------
(* The plan's concurrency.                                                 *)

\* claim_next_job never lets more jobs of a workspace run under a valid lease
\* than its plan allows.
THEOREM PlanConcurrencyRespected ==
    ASSUME TimelyLease, AtomicRequests
    PROVE  Spec => []PlanConcurrency
  <1>1. Init => PlanConcurrency
    <2>1. Init => ActiveJobs = {}
      BY DEF Init, ActiveJobs
    <2>2. QED
      BY <2>1, FS_EmptySet, ConstantsAssumption DEF PlanConcurrency
  <1>2. TypeOK /\ ExecutionInv /\ PlanConcurrency /\ [Next]_vars => PlanConcurrency'
    <2> SUFFICES ASSUME TypeOK, ExecutionInv, PlanConcurrency, [Next]_vars, mode' = "durable"
                 PROVE  Cardinality(ActiveJobs') <= Concurrency
      BY DEF PlanConcurrency
    <2>1. mode = "durable"
      BY DEF Next, Begin, Proceed, ClaimNextJob, ExecuteQueued, ExecuteClaimed, ClaimRun, Poll,
             AbortCanceled, ExceedLimit, Act, Fail, EndRun, Complete, ReadOutcome, FinalizeJob,
             FindDeleted, Recover, RecoverRead, RecoverWrite, RecoverJobs, Cancel, CancelRead,
             CancelWrite, CancelJobs, DeleteAgent, LeaseExpires, Crash, sched, vars
    <2>2. IsFiniteSet(ActiveJobs) /\ Cardinality(ActiveJobs) <= Concurrency
      BY <2>1, ConstantsAssumption, FS_Subset DEF ActiveJobs, PlanConcurrency
    <2>3. CASE ActiveJobs' \subseteq ActiveJobs
      <3>1. Cardinality(ActiveJobs') <= Cardinality(ActiveJobs)
        BY <2>2, <2>3, FS_Subset
      <3>2. Cardinality(ActiveJobs) \in Nat /\ Cardinality(ActiveJobs') \in Nat
        BY <2>2, <2>3, FS_CardinalityType, FS_Subset
      <3>3. QED
        BY <2>2, <3>1, <3>2, ConstantsAssumption
    <2>4. ASSUME NEW e \in Executors, NEW r \in Runs, ClaimNextJob(e, r)
          PROVE  Cardinality(ActiveJobs') <= Concurrency
      <3> DEFINE others == ActiveJobs \ {r}
      <3>1. Cardinality(others) < Concurrency /\ IsFiniteSet(others)
        BY <2>2, <2>4, FS_Difference DEF ClaimNextJob, SlotFree
      <3>2. ActiveJobs' \subseteq others \cup {r}
        BY <2>4 DEF ClaimNextJob, StartAttempt, ActiveJobs, TypeOK
      <3> HIDE DEF others
      <3>3. /\ Cardinality(others) \in Nat
            /\ Cardinality(others \cup {r}) <= Cardinality(others) + 1
            /\ IsFiniteSet(others \cup {r})
        <4>1. Cardinality(others) \in Nat
          BY <3>1, FS_CardinalityType
        <4>2. r \notin others
          BY DEF others
        <4>3. Cardinality(others \cup {r}) = Cardinality(others) + 1
              /\ IsFiniteSet(others \cup {r})
          BY <3>1, <4>2, FS_AddElement
        <4>4. QED
          BY <4>1, <4>3
      <3>4. /\ Cardinality(ActiveJobs') <= Cardinality(others \cup {r})
            /\ Cardinality(ActiveJobs') \in Nat /\ Cardinality(others \cup {r}) \in Nat
        BY <3>2, <3>3, FS_Subset, FS_CardinalityType
      <3>5. QED
        BY <3>1, <3>3, <3>4, ConstantsAssumption
    <2>5. ASSUME NEW e \in Executors, ExecuteClaimed(e)
          PROVE  UNCHANGED jobVars
      <3>1. held[e] # NoRun
        BY <2>5, HeldRun DEF ExecuteClaimed
      <3>2. jobStatus[held[e]] # "queued"
        BY <2>5, <3>1 DEF ExecuteClaimed, ExecutionInv, HeldJobInHand, InHand
      <3>3. QED
        BY <2>5, <3>2 DEF ExecuteClaimed
    <2>6. ASSUME NEW e \in Executors, FinalizeJob(e)
          PROVE  ActiveJobs' \subseteq ActiveJobs
      <3>1. held[e] \in Runs
        BY <2>6, HeldRun DEF FinalizeJob
      <3>2. ActiveJobs' \subseteq ActiveJobs \cup {held[e]}
        BY <2>6, <3>1 DEF FinalizeJob, ActiveJobs, TypeOK
      <3>3. seen[e].lease = "live"
        BY <2>6 DEF FinalizeJob, ExecutionInv, SeenJobInHand
      <3>4. lease'[held[e]] = "none"
        BY <2>6, <3>1, <3>3 DEF FinalizeJob, Written, TypeOK
      <3>5. QED
        BY <3>1, <3>2, <3>4 DEF ActiveJobs
    <2>7. \A e \in Executors, r \in Runs : ~ExecuteQueued(e, r)
      BY <2>1 DEF ExecuteQueued
    <2>8. \A e \in Executors : ~Recover(e) /\ ~RecoverRead(e) /\ ~RecoverWrite(e)
      BY <2>1 DEF Recover, RecoverRead, RecoverWrite, ExecutionInv, RequestsAtomic
    <2>9. CASE Cancel
      BY <2>3, <2>9 DEF Cancel, CancelJobs, ReadCancelable, ActiveJobs
    <2>10. CASE CancelRead \/ CancelWrite
      BY <2>10 DEF CancelRead, CancelWrite, ExecutionInv, RequestsAtomic
    <2>11. CASE DeleteAgent
      BY <2>3, <2>11 DEF DeleteAgent, ActiveJobs
    <2>12. ASSUME NEW r \in Runs, LeaseExpires(r)
           PROVE  ActiveJobs' \subseteq ActiveJobs
      BY <2>12 DEF LeaseExpires, ActiveJobs, TypeOK
    <2>13. CASE UNCHANGED jobVars
      BY <2>3, <2>13 DEF jobVars, ActiveJobs
    <2>14. QED
      BY <2>3, <2>4, <2>5, <2>6, <2>7, <2>8, <2>9, <2>10, <2>11, <2>12, <2>13
      DEF Next, Begin, Proceed, ClaimRun, Poll, AbortCanceled, ExceedLimit, Act, Fail, EndRun,
          Complete, ReadOutcome, FindDeleted, Crash, jobVars, vars
  <1>3. TypeOK /\ ExecutionInv /\ [Next]_vars => ExecutionInv'
    BY NextExecution
  <1>4. QED
    BY <1>1, <1>2, <1>3, InitExecution, TypeCorrect, PTL DEF Spec
-----------------------------------------------------------------------------
(* The account.                                                            *)

\* A step that leaves the account alone and opens no job that had ended.
LEMMA SameAccount ==
    ASSUME OpenUnmoved, Exact(acct, Runs), acct' = acct,
           \A r \in Runs : jobStatus'[r] \in {"queued"} \cup InHand =>
                            jobStatus[r] \in {"queued"} \cup InHand
    PROVE  (OpenUnmoved /\ Exact(acct, Runs))'
  BY DEF OpenUnmoved

\* A step that refunds open jobs and closes them.
LEMMA RefundedAccount ==
    ASSUME TypeOK, OpenUnmoved, Exact(acct, Runs), NEW R \in SUBSET Runs,
           \A r \in R : jobStatus[r] \in {"queued"} \cup InHand,
           acct' = RefundRuns(acct, R),
           \A r \in Runs : jobStatus'[r] \in {"queued"} \cup InHand =>
                            r \notin R /\ jobStatus[r] \in {"queued"} \cup InHand
    PROVE  (OpenUnmoved /\ Exact(acct, Runs))'
  <1>1. acct \in Accounts(Runs) /\ IsFiniteSet(Runs)
    BY ConstantsAssumption DEF TypeOK
  <1>2. R \cap (acct.settles \cup acct.refunds) = {}
    BY DEF OpenUnmoved
  <1>3. /\ Exact(acct', Runs)
        /\ acct'.refunds = acct.refunds \cup R /\ acct'.settles = acct.settles
    BY <1>1, <1>2, RefundRunsExact
  <1>4. QED
    BY <1>3 DEF OpenUnmoved

\* A step that settles an open job and closes it.
LEMMA SettledAccount ==
    ASSUME TypeOK, OpenUnmoved, Exact(acct, Runs), NEW q \in Runs,
           jobStatus[q] \in {"queued"} \cup InHand,
           acct' = SettleRun(acct, q),
           \A r \in Runs : jobStatus'[r] \in {"queued"} \cup InHand =>
                            r # q /\ jobStatus[r] \in {"queued"} \cup InHand
    PROVE  (OpenUnmoved /\ Exact(acct, Runs))'
  <1>1. acct \in Accounts(Runs) /\ IsFiniteSet(Runs)
    BY ConstantsAssumption DEF TypeOK
  <1>2. q \notin acct.settles \cup acct.refunds
    BY DEF OpenUnmoved
  <1>3. /\ Exact(acct', Runs)
        /\ acct'.settles = acct.settles \cup {q} /\ acct'.refunds = acct.refunds
    BY <1>1, <1>2, SettleRunExact
  <1>4. QED
    BY <1>3 DEF OpenUnmoved

\* The job a worker finalizes is still open.
LEMMA FinalizeAccount ==
    ASSUME TypeOK, ExecutionInv, OpenUnmoved, Exact(acct, Runs),
           NEW e \in Executors, FinalizeJob(e)
    PROVE  (OpenUnmoved /\ Exact(acct, Runs))'
  <1> DEFINE q == held[e]
             verdict == Verdict(seen[e])
  <1>1. q \in Runs /\ q # NoRun /\ ~Deleted(q)
    BY HeldRun DEF FinalizeJob
  <1>2. jobStatus[q] \in InHand /\ seen[e].job \in InHand
    BY <1>1 DEF FinalizeJob, ExecutionInv, HeldJobInHand, SeenJobInHand
  <1>3. verdict \in {"canceled", "completed", "queued", "failed"}
    BY DEF Verdict
  <1>4. \A r \in Runs : jobStatus'[r] = IF r = q THEN verdict ELSE jobStatus[r]
    BY <1>1, <1>2, <1>3 DEF FinalizeJob, Written, InHand, TypeOK
  <1> HIDE DEF q, verdict
  <1>5. CASE verdict = "completed"
    <2>1. acct' = SettleRun(acct, q)
      BY <1>5 DEF FinalizeJob, q, verdict
    <2>2. QED
      BY <1>1, <1>2, <1>4, <1>5, <2>1, SettledAccount DEF InHand
  <1>6. CASE verdict \in {"canceled", "failed"}
    <2>1. acct' = RefundRuns(acct, {q})
      BY <1>6 DEF FinalizeJob, RefundRun, q, verdict
    <2>2. {q} \in SUBSET Runs
      BY <1>1
    <2>3. QED
      BY <1>1, <1>2, <1>4, <1>6, <2>1, <2>2, RefundedAccount DEF InHand
  <1>7. CASE verdict = "queued"
    <2>1. acct' = acct
      BY <1>7 DEF FinalizeJob, q, verdict
    <2>2. QED
      BY <1>1, <1>2, <1>4, <1>7, <2>1, SameAccount
  <1>8. QED
    BY <1>3, <1>5, <1>6, <1>7

\* Every step keeps the account exact and the units of the open jobs in place.
LEMMA NextAccount ==
    ASSUME TimelyLease, AtomicRequests, TypeOK, ExecutionInv, OpenUnmoved, Exact(acct, Runs),
           [Next]_vars
    PROVE  (OpenUnmoved /\ Exact(acct, Runs))'
  <1>1. ASSUME NEW r \in Runs, StartAttempt(r), acct' = acct,
               jobStatus[r] \in {"queued"} \cup InHand
        PROVE  (OpenUnmoved /\ Exact(acct, Runs))'
    <2>1. \A q \in Runs \ {r} : jobStatus'[q] = jobStatus[q]
      BY <1>1 DEF StartAttempt, TypeOK
    <2>2. QED
      BY <1>1, <2>1, SameAccount
  <1>2. ASSUME NEW e \in Executors, NEW r \in Runs, ClaimNextJob(e, r)
        PROVE  (OpenUnmoved /\ Exact(acct, Runs))'
    BY <1>1, <1>2 DEF ClaimNextJob, Claimable, InHand
  <1>3. ASSUME NEW e \in Executors, NEW r \in Runs, ExecuteQueued(e, r)
        PROVE  (OpenUnmoved /\ Exact(acct, Runs))'
    <2>1. CASE jobStatus[r] = "queued"
      BY <1>1, <1>3, <2>1 DEF ExecuteQueued
    <2>2. CASE jobStatus[r] # "queued"
      BY <1>3, <2>2, SameAccount DEF ExecuteQueued, jobVars
    <2>3. QED
      BY <2>1, <2>2
  <1>4. ASSUME NEW e \in Executors, ExecuteClaimed(e)
        PROVE  (OpenUnmoved /\ Exact(acct, Runs))'
    <2>1. held[e] \in Runs
      BY <1>4, HeldRun DEF ExecuteClaimed
    <2>2. CASE jobStatus[held[e]] = "queued"
      BY <1>1, <1>4, <2>1, <2>2 DEF ExecuteClaimed
    <2>3. CASE jobStatus[held[e]] # "queued"
      BY <1>4, <2>3, SameAccount DEF ExecuteClaimed, jobVars
    <2>4. QED
      BY <2>2, <2>3
  <1>5. ASSUME NEW e \in Executors, Recover(e)
        PROVE  (OpenUnmoved /\ Exact(acct, Runs))'
    <2> DEFINE s == ReadInterrupted
    <2>1. s.requeue \subseteq Interrupted /\ s.fail \subseteq Interrupted
      BY DEF ReadInterrupted
    <2>2. s.requeue \cap s.fail = {}
      <3>1. \A r \in Runs : ~(attempts[r] < MaxAttempts /\ attempts[r] >= MaxAttempts)
        BY ConstantsAssumption DEF TypeOK
      <3>2. Interrupted \subseteq Runs
        BY DEF Interrupted
      <3>3. QED
        BY <3>1, <3>2 DEF ReadInterrupted
    <2>3. \A r \in Interrupted : r \in Runs /\ jobStatus[r] = "running"
      BY DEF Interrupted
    <2> HIDE DEF s
    <2>4. /\ acct' = RefundRuns(acct, s.fail)
          /\ \A r \in Runs : jobStatus'[r] = IF r \in s.requeue THEN "queued"
                                            ELSE IF r \in s.fail THEN "failed" ELSE jobStatus[r]
      BY <1>5 DEF Recover, RecoverJobs, s
    <2>5. s.fail \in SUBSET Runs
      BY <2>1, <2>3
    <2>6. \A r \in s.fail : jobStatus[r] \in {"queued"} \cup InHand
      BY <2>1, <2>3 DEF InHand
    <2>7. \A r \in Runs : jobStatus'[r] \in {"queued"} \cup InHand =>
                            r \notin s.fail /\ jobStatus[r] \in {"queued"} \cup InHand
      BY <2>1, <2>2, <2>3, <2>4 DEF InHand
    <2>8. QED
      BY <2>4, <2>5, <2>6, <2>7, RefundedAccount
  <1>6. CASE Cancel
    <2> DEFINE queued == {r \in Runs : ReadCancelable[r] = "queued"}
    <2>1. \A r \in Runs : r \in queued <=> jobStatus[r] = "queued"
      BY DEF ReadCancelable
    <2>2. acct' = RefundRuns(acct, queued) /\ queued \in SUBSET Runs
      BY <1>6 DEF Cancel, CancelJobs
    <2>3. \A r \in Runs : jobStatus'[r] \in {"queued"} \cup InHand =>
                            r \notin queued /\ jobStatus[r] \in {"queued"} \cup InHand
      BY <1>6 DEF Cancel, CancelJobs, ReadCancelable, InHand
    <2> HIDE DEF queued
    <2>4. QED
      BY <2>1, <2>2, <2>3, RefundedAccount
  <1>7. CASE DeleteAgent
    BY <1>7, SameAccount DEF DeleteAgent, InHand
  <1>8. \A e \in Executors : ~RecoverRead(e) /\ ~RecoverWrite(e)
    BY DEF RecoverRead, RecoverWrite, ExecutionInv, RequestsAtomic
  <1>9. ~CancelRead /\ ~CancelWrite
    BY DEF CancelRead, CancelWrite, ExecutionInv, RequestsAtomic
  <1>10. CASE UNCHANGED <<jobStatus, acct>>
    BY <1>10, SameAccount
  <1>11. QED
    BY <1>2, <1>3, <1>4, <1>5, <1>6, <1>7, <1>8, <1>9, <1>10, FinalizeAccount
    DEF Next, Begin, Proceed, ClaimRun, Poll, AbortCanceled, ExceedLimit, Act, Fail, EndRun,
        Complete, ReadOutcome, FindDeleted, LeaseExpires, Crash, jobVars, vars

\* The account stays exact.
LEMMA AccountExact ==
    ASSUME TimelyLease, AtomicRequests
    PROVE  Spec => [](OpenUnmoved /\ Exact(acct, Runs))
  <1>1. Init => OpenUnmoved /\ Exact(acct, Runs)
    BY FS_EmptySet DEF Init, OpenUnmoved, Exact, NewAccount
  <1>2. TypeOK /\ ExecutionInv /\ (OpenUnmoved /\ Exact(acct, Runs)) /\ [Next]_vars
          => (OpenUnmoved /\ Exact(acct, Runs))'
    BY NextAccount
  <1>3. TypeOK /\ ExecutionInv /\ [Next]_vars => ExecutionInv'
    BY NextExecution
  <1>4. QED
    BY <1>1, <1>2, <1>3, InitExecution, TypeCorrect, PTL DEF Spec

\* A run is settled once when it completes or refunded once when it does not,
\* and never both.
THEOREM RunsSettledOnce ==
    ASSUME TimelyLease, AtomicRequests
    PROVE  Spec => []SettledOnce
  <1>1. EndedIsAccounted /\ OpenUnmoved /\ Exact(acct, Runs) => SettledOnce
    BY DEF EndedIsAccounted, Exact, SettledOnce
  <1>2. QED
    BY <1>1, AccountExact, EndedJobsAccounted, PTL

\* Until the agent is deleted, the reservation holds exactly the units of the
\* jobs that are still open.
THEOREM HeldUnitsMatch ==
    ASSUME TimelyLease, AtomicRequests
    PROVE  Spec => []HeldUnitsMatchOpenJobs
  <1>1. TypeOK /\ EndedIsAccounted /\ OpenUnmoved /\ Exact(acct, Runs) => HeldUnitsMatchOpenJobs
    <2> SUFFICES ASSUME TypeOK, EndedIsAccounted, OpenUnmoved, Exact(acct, Runs),
                        \A r \in Runs : ~Deleted(r)
                 PROVE  Remaining(acct) = Cardinality({r \in Runs : jobStatus[r] \notin Terminal})
      BY DEF HeldUnitsMatchOpenJobs
    <2>1. \A r \in Runs : jobStatus[r] \in Terminal \/ jobStatus[r] \in {"queued"} \cup InHand
      BY DEF TypeOK, JobStatuses, Terminal, InHand, Deleted
    <2>2. \A r \in Runs : jobStatus[r] \in Terminal => r \in acct.settles \cup acct.refunds
      BY DEF EndedIsAccounted, Terminal
    <2>3. {r \in Runs : jobStatus[r] \notin Terminal} = Runs \ (acct.settles \cup acct.refunds)
      BY <2>1, <2>2 DEF OpenUnmoved, InHand, Terminal
    <2>4. acct \in Accounts(Runs) /\ IsFiniteSet(Runs)
      BY ConstantsAssumption DEF TypeOK
    <2>5. QED
      BY <2>3, <2>4, ExactRemaining
  <1>2. QED
    BY <1>1, AccountExact, EndedJobsAccounted, TypeCorrect, PTL
-----------------------------------------------------------------------------
(* Attempts: traces, retries and final states.                             *)

\* The invariant holds initially.
LEMMA InitAttempts == Init => AttemptInv
  <1> SUFFICES ASSUME Init PROVE AttemptInv
    OBVIOUS
  <1>1. \A r \in Runs : JobClean(r)
    BY ConstantsAssumption DEF Init, JobClean
  <1>2. \A e \in Executors : WorkClean(e)
    BY DEF Init, WorkClean
  <1>3. QED
    BY <1>1, <1>2 DEF AttemptInv

\* A step of one executor on one run: the other executors and the other runs
\* stay as they are, so it is enough to look at these two.
LEMMA OneStep ==
    ASSUME TypeOK, AttemptInv, NEW e \in Executors, NEW r \in Runs,
           \A d \in Executors \ {e} :
               /\ held[d] # r
               /\ pc'[d] = pc[d] /\ held'[d] = held[d]
               /\ attempt'[d] = attempt[d] /\ seen'[d] = seen[d],
           \A q \in Runs \ {r} :
               /\ jobStatus'[q] = jobStatus[q] /\ attempts'[q] = attempts[q]
               /\ runStatus'[q] = runStatus[q] /\ trace'[q] = trace[q],
           JobClean(r)', WorkClean(e)'
    PROVE  AttemptInv'
  <1>1. ASSUME NEW q \in Runs \ {r}
        PROVE  JobClean(q)'
    BY DEF AttemptInv, JobClean
  <1>2. ASSUME NEW d \in Executors \ {e}
        PROVE  WorkClean(d)'
    <2>1. CASE held[d] = NoRun
      <3>1. pc[d] \in {"idle", "recovering"}
        BY <2>1 DEF TypeOK
      <3>2. QED
        BY <3>1 DEF WorkClean
    <2>2. CASE held[d] # NoRun
      <3>1. held[d] \in Runs \ {r}
        BY <2>2 DEF TypeOK
      <3>2. WorkClean(d)
        BY DEF AttemptInv
      <3>3. QED
        BY <3>1, <3>2 DEF WorkClean, Deleted
    <2>3. QED
      BY <2>1, <2>2
  <1>3. QED
    BY <1>1, <1>2 DEF AttemptInv

\* A step beside the executors: what it changes nobody executes, except that a
\* job may be asked to cancel or be deleted.
LEMMA OutsideStep ==
    ASSUME TypeOK, AttemptInv, UNCHANGED <<pc, held, attempt, seen>>,
           \A r \in Runs : JobClean(r)',
           \A r \in Runs :
               \/ \A e \in Executors : held[e] # r
               \/ jobStatus'[r] = "deleted"
               \/ /\ Deleted(r) => jobStatus'[r] = "deleted"
                  /\ attempts'[r] = attempts[r]
                  /\ runStatus'[r] = runStatus[r] /\ trace'[r] = trace[r]
    PROVE  AttemptInv'
  <1>1. ASSUME NEW d \in Executors
        PROVE  WorkClean(d)'
    <2>1. CASE held[d] = NoRun
      <3>1. pc[d] \in {"idle", "recovering"}
        BY <2>1 DEF TypeOK
      <3>2. QED
        BY <3>1 DEF WorkClean
    <2>2. CASE held[d] # NoRun
      <3>1. held[d] \in Runs
        BY <2>2 DEF TypeOK
      <3>2. WorkClean(d)
        BY DEF AttemptInv
      <3>3. QED
        BY <3>1, <3>2 DEF WorkClean, Deleted
    <2>3. QED
      BY <2>1, <2>2
  <1>2. QED
    BY <1>1 DEF AttemptInv

\* An idle executor starts an attempt of a job that has one left.
LEMMA StartAttempts ==
    ASSUME TypeOK, AttemptInv, NEW e \in Executors, pc[e] = "idle", NEW r \in Runs,
           \A d \in Executors : held[d] # r,
           NEW point \in {"claimed", "testing", "finalizing"},
           StartAttempt(r), Hold(e, r, point), attempts[r] < MaxAttempts,
           \/ UNCHANGED <<runStatus, trace>>
           \/ /\ \A q \in Runs \ {r} : runStatus'[q] = runStatus[q] /\ trace'[q] = trace[q]
              /\ trace'[r] = {}
    PROVE  AttemptInv'
  <1>1. \A d \in Executors \ {e} :
            /\ pc'[d] = pc[d] /\ held'[d] = held[d]
            /\ attempt'[d] = attempt[d] /\ seen'[d] = seen[d]
    BY DEF Hold, TypeOK
  <1>2. pc'[e] = point
    BY DEF Hold, TypeOK
  <1>3. \A q \in Runs \ {r} :
            /\ jobStatus'[q] = jobStatus[q] /\ attempts'[q] = attempts[q]
            /\ runStatus'[q] = runStatus[q] /\ trace'[q] = trace[q]
    BY DEF StartAttempt, TypeOK
  <1>4. jobStatus'[r] = "running" /\ attempts'[r] = attempts[r] + 1
    BY DEF StartAttempt, TypeOK
  <1>5. JobClean(r)'
    <2>1. JobClean(r) /\ attempts[r] \in Nat
      BY DEF AttemptInv, TypeOK
    <2>2. attempts'[r] <= MaxAttempts
      BY <1>4, <2>1, ConstantsAssumption
    <2>3. QED
      BY <1>4, <2>1, <2>2 DEF JobClean
  <1>6. WorkClean(e)'
    BY <1>2 DEF WorkClean
  <1>7. QED
    BY <1>1, <1>3, <1>5, <1>6, OneStep

\* The executor that executes a run works on its trace and its status.
LEMMA WorkAttempts ==
    ASSUME TypeOK, ExecutionInv, AttemptInv, NEW e \in Executors,
           held[e] \in Runs, ~Deleted(held[e]),
           UNCHANGED jobVars,
           \A d \in Executors \ {e} :
               /\ pc'[d] = pc[d] /\ held'[d] = held[d]
               /\ attempt'[d] = attempt[d] /\ seen'[d] = seen[d],
           \A q \in Runs \ {held[e]} : runStatus'[q] = runStatus[q] /\ trace'[q] = trace[q],
           runStatus'[held[e]] = "pending" => trace'[held[e]] = {},
           trace'[held[e]] \subseteq trace[held[e]] \cup {attempt[e]},
           trace'[held[e]] = trace[held[e]] \/ trace[held[e]] \subseteq {attempt[e]},
           WorkClean(e)'
    PROVE  AttemptInv'
  <1>0. PICK r \in Runs : r = held[e]
    OBVIOUS
  <1>1. r \in Runs /\ r # NoRun /\ ~Deleted(r)
    BY <1>0, ConstantsAssumption
  <1>2. jobStatus[r] # "queued"
    BY <1>0, <1>1 DEF ExecutionInv, HeldJobInHand, InHand
  <1>3. \A d \in Executors \ {e} : held[d] # r
    BY <1>0, <1>1 DEF ExecutionInv, ExclusiveExecution
  <1>4. JobClean(r)'
    <2>1. JobClean(r)
      BY DEF AttemptInv
    <2>2. jobStatus' = jobStatus /\ attempts' = attempts
      BY DEF jobVars
    <2>3. QED
      BY <1>0, <1>2, <2>1, <2>2 DEF JobClean
  <1>5. \A q \in Runs : jobStatus'[q] = jobStatus[q] /\ attempts'[q] = attempts[q]
    BY DEF jobVars
  <1>6. QED
    BY <1>0, <1>1, <1>3, <1>4, <1>5, OneStep

\* An executor lets go of its run and leaves the rows as they are.
LEMMA ReleaseAttempts ==
    ASSUME TypeOK, AttemptInv, NEW e \in Executors, Release(e), UNCHANGED <<jobVars, runVars>>
    PROVE  AttemptInv'
  <1>1. \A d \in Executors \ {e} :
            /\ pc'[d] = pc[d] /\ held'[d] = held[d]
            /\ attempt'[d] = attempt[d] /\ seen'[d] = seen[d]
    BY DEF Release, TypeOK
  <1>2. pc'[e] = "idle"
    BY DEF Release, TypeOK
  <1>3. UNCHANGED <<jobStatus, attempts, runStatus, trace>>
    BY DEF jobVars, runVars
  <1>4. \A r \in Runs : JobClean(r)'
    BY <1>3 DEF AttemptInv, JobClean
  <1>5. ASSUME NEW d \in Executors \ {e}
        PROVE  WorkClean(d)'
    <2>1. WorkClean(d)
      BY DEF AttemptInv
    <2>2. QED
      BY <1>1, <1>3, <2>1 DEF WorkClean, Deleted
  <1>6. WorkClean(e)'
    BY <1>2 DEF WorkClean
  <1>7. QED
    BY <1>4, <1>5, <1>6 DEF AttemptInv

\* Every step keeps attempts, traces and run statuses in agreement.
LEMMA NextAttempts ==
    ASSUME TimelyLease, AtomicRequests, TypeOK, ExecutionInv, AttemptInv, [Next]_vars
    PROVE  AttemptInv'
  <1>a. RequestsAtomic /\ HeldJobInHand
    BY DEF ExecutionInv
  <1>b. /\ \A r \in Runs : JobClean(r)
        /\ \A d \in Executors : WorkClean(d)
    BY DEF AttemptInv
  <1>1. ASSUME NEW e \in Executors, NEW r \in Runs, ClaimNextJob(e, r)
        PROVE  AttemptInv'
    <2>1. /\ pc[e] = "idle" /\ StartAttempt(r) /\ Hold(e, r, "claimed")
          /\ attempts[r] < MaxAttempts
      BY <1>1 DEF ClaimNextJob, Claimable
    <2>2. \A d \in Executors : held[d] # r
      BY <1>1, FreeJob DEF ClaimNextJob, Claimable, Deleted, InHand
    <2>3. \A q \in Runs \ {r} : runStatus'[q] = runStatus[q] /\ trace'[q] = trace[q]
      BY <1>1 DEF ClaimNextJob, PurgeAttempt
    <2>4. CASE DiedMidRun(r)
      <3>1. trace'[r] = {}
        BY <1>1, <2>4 DEF ClaimNextJob, PurgeAttempt
      <3>2. QED
        BY <2>1, <2>2, <2>3, <3>1, StartAttempts
    <2>5. CASE ~DiedMidRun(r)
      <3>1. {q \in {r} : DiedMidRun(q)} = {}
        BY <2>5
      <3>2. UNCHANGED <<runStatus, trace>>
        BY <1>1, <3>1 DEF ClaimNextJob, PurgeAttempt, TypeOK
      <3>3. QED
        BY <2>1, <2>2, <3>2, StartAttempts
    <2>6. QED
      BY <2>4, <2>5
  <1>2. ASSUME NEW e \in Executors, NEW r \in Runs, ExecuteQueued(e, r)
        PROVE  AttemptInv'
    <2>1. UNCHANGED runVars
      BY <1>2 DEF ExecuteQueued
    <2>2. CASE jobStatus[r] = "queued"
      <3>1. pc[e] = "idle" /\ StartAttempt(r) /\ Hold(e, r, AfterStart(r))
        BY <1>2, <2>2 DEF ExecuteQueued
      <3>2. \A d \in Executors : held[d] # r
        BY <2>2, FreeJob DEF Deleted, InHand
      <3>3. AfterStart(r) \in {"claimed", "testing", "finalizing"}
        BY DEF AfterStart
      <3>4. attempts[r] < MaxAttempts
        BY <1>b, <2>2 DEF JobClean
      <3>5. UNCHANGED <<runStatus, trace>>
        BY <2>1 DEF runVars
      <3>6. QED
        BY <3>1, <3>2, <3>3, <3>4, <3>5, StartAttempts
    <2>3. CASE jobStatus[r] # "queued"
      <3>1. UNCHANGED <<jobVars, execVars>>
        BY <1>2, <2>3 DEF ExecuteQueued
      <3>2. QED
        BY <1>b, <2>1, <3>1, OutsideStep DEF jobVars, execVars, runVars, JobClean, Deleted
    <2>4. QED
      BY <2>2, <2>3
  <1>3. ASSUME NEW e \in Executors, ExecuteClaimed(e)
        PROVE  AttemptInv'
    <2>1. held[e] \in Runs /\ held[e] # NoRun /\ ~Deleted(held[e])
      BY <1>3, HeldRun DEF ExecuteClaimed
    <2>2. jobStatus[held[e]] # "queued"
      BY <1>3, <2>1, <1>a DEF ExecuteClaimed, HeldJobInHand, InHand
    <2>3. MoveTo(e, AfterStart(held[e])) /\ UNCHANGED <<jobVars, runVars>>
      BY <1>3, <2>2 DEF ExecuteClaimed
    <2>4. /\ \A d \in Executors \ {e} : pc'[d] = pc[d]
          /\ pc'[e] \in {"testing", "finalizing"}
          /\ UNCHANGED <<held, attempt, seen>>
      BY <2>3 DEF MoveTo, AfterStart, TypeOK
    <2>5. WorkClean(e)'
      BY <2>4 DEF WorkClean
    <2>6. UNCHANGED <<runStatus, trace>>
      BY <2>3 DEF runVars
    <2>7. runStatus[held[e]] = "pending" => trace[held[e]] = {}
      BY <1>b, <2>1 DEF JobClean
    <2>8. QED
      BY <2>1, <2>3, <2>4, <2>5, <2>6, <2>7, WorkAttempts
  <1>4. ASSUME NEW e \in Executors, ClaimRun(e)
        PROVE  AttemptInv'
    <2>1. held[e] \in Runs /\ held[e] # NoRun /\ ~Deleted(held[e])
      BY <1>4, HeldRun DEF ClaimRun
    <2>2. /\ \A d \in Executors \ {e} : pc'[d] = pc[d]
          /\ UNCHANGED <<held, attempt, seen, jobVars>>
      BY <1>4 DEF ClaimRun, MoveTo, TypeOK
    <2>3. runStatus[held[e]] = "pending" => trace[held[e]] = {}
      BY <1>b, <2>1 DEF JobClean
    <2>4. CASE runStatus[held[e]] = "pending"
      <3>1. /\ pc'[e] = "polling" /\ runStatus'[held[e]] = "running"
            /\ trace'[held[e]] = trace[held[e]] \cup {attempt[e]}
            /\ \A q \in Runs \ {held[e]} : runStatus'[q] = runStatus[q] /\ trace'[q] = trace[q]
        BY <1>4, <2>1, <2>4 DEF ClaimRun, MoveTo, AddTrace, TypeOK
      <3>2. WorkClean(e)'
        BY <2>2, <2>3, <2>4, <3>1 DEF WorkClean
      <3>3. QED
        BY <2>1, <2>2, <2>3, <2>4, <3>1, <3>2, WorkAttempts
    <2>5. CASE runStatus[held[e]] # "pending"
      <3>1. pc'[e] = "finalizing" /\ UNCHANGED <<runStatus, trace>>
        BY <1>4, <2>1, <2>5 DEF ClaimRun, MoveTo, TypeOK
      <3>2. WorkClean(e)'
        BY <3>1 DEF WorkClean
      <3>3. QED
        BY <2>1, <2>2, <2>3, <3>1, <3>2, WorkAttempts
    <2>6. QED
      BY <2>4, <2>5
  <1>5. ASSUME NEW e \in Executors, NEW final \in BOOLEAN,
               \/ Poll(e) \/ AbortCanceled(e) \/ ExceedLimit(e) \/ Act(e, final)
               \/ \E error \in {"retryable", "fatal"} : Fail(e, error)
               \/ Complete(e)
        PROVE  AttemptInv'
    <2>1. pc[e] \in {"polling", "acting", "scoring"} /\ ~Deleted(held[e])
      BY <1>5 DEF Poll, AbortCanceled, ExceedLimit, Act, Fail, Complete
    <2>2. held[e] \in Runs /\ held[e] # NoRun
      BY <2>1, HeldRun
    <2>3. runStatus[held[e]] = "running" /\ trace[held[e]] \subseteq {attempt[e]}
      BY <1>b, <2>1, <2>2 DEF WorkClean
    <2>4. /\ \A d \in Executors \ {e} : pc'[d] = pc[d]
          /\ UNCHANGED <<held, attempt, seen, jobVars>>
      BY <1>5
      DEF Poll, AbortCanceled, ExceedLimit, Act, Fail, EndRun, Complete, MoveTo, TypeOK
    <2>5. /\ \A q \in Runs \ {held[e]} : runStatus'[q] = runStatus[q] /\ trace'[q] = trace[q]
          /\ runStatus'[held[e]] # "pending"
          /\ \/ trace'[held[e]] = trace[held[e]]
             \/ trace'[held[e]] = trace[held[e]] \cup {attempt[e]}
          /\ \/ pc'[e] = "finalizing"
             \/ runStatus' = runStatus
      <3>1. CASE Poll(e)
        BY <3>1, <2>3 DEF Poll, runVars
      <3>2. CASE AbortCanceled(e)
        BY <3>2, <2>2 DEF AbortCanceled, EndRun, AddTrace, MoveTo, TypeOK
      <3>3. CASE ExceedLimit(e)
        BY <3>3, <2>2, <2>3 DEF ExceedLimit, AddTrace, MoveTo, TypeOK
      <3>4. CASE Act(e, final)
        BY <3>4, <2>2, <2>3 DEF Act, AddTrace, MoveTo, TypeOK
      <3>5. ASSUME NEW error \in {"retryable", "fatal"}, Fail(e, error)
            PROVE  /\ \A q \in Runs \ {held[e]} :
                        runStatus'[q] = runStatus[q] /\ trace'[q] = trace[q]
                   /\ runStatus'[held[e]] # "pending"
                   /\ trace'[held[e]] = trace[held[e]] \cup {attempt[e]}
                   /\ pc'[e] = "finalizing"
        BY <3>5, <2>2 DEF Fail, EndRun, AddTrace, MoveTo, TypeOK
      <3>6. CASE Complete(e)
        BY <3>6, <2>2, <2>3 DEF Complete, MoveTo, TypeOK
      <3>7. QED
        BY <1>5, <3>1, <3>2, <3>3, <3>4, <3>5, <3>6
    <2>6. pc'[e] # "deciding"
      BY <1>5
      DEF Poll, AbortCanceled, ExceedLimit, Act, Fail, EndRun, Complete, MoveTo, TypeOK
    <2>7. WorkClean(e)'
      BY <2>2, <2>3, <2>4, <2>5, <2>6 DEF WorkClean
    <2>8. QED
      BY <2>1, <2>2, <2>3, <2>4, <2>5, <2>7, WorkAttempts
  <1>6. ASSUME NEW e \in Executors, ReadOutcome(e)
        PROVE  AttemptInv'
    <2>1. held[e] \in Runs /\ held[e] # NoRun /\ ~Deleted(held[e])
      BY <1>6, HeldRun DEF ReadOutcome
    <2>2. /\ \A d \in Executors \ {e} : pc'[d] = pc[d] /\ seen'[d] = seen[d]
          /\ UNCHANGED <<held, attempt, jobVars, runVars>>
          /\ pc'[e] = "deciding"
          /\ seen'[e].attempts = attempts[held[e]] /\ seen'[e].run = runStatus[held[e]]
      BY <1>6 DEF ReadOutcome, TypeOK
    <2>3. UNCHANGED <<attempts, runStatus, trace>>
      BY <2>2 DEF jobVars, runVars
    <2>4. WorkClean(e)'
      BY <2>2, <2>3 DEF WorkClean
    <2>5. runStatus[held[e]] = "pending" => trace[held[e]] = {}
      BY <1>b, <2>1 DEF JobClean
    <2>6. QED
      BY <2>1, <2>2, <2>3, <2>4, <2>5, WorkAttempts
  <1>7. ASSUME NEW e \in Executors, FinalizeJob(e)
        PROVE  AttemptInv'
    <2> DEFINE verdict == Verdict(seen[e])
    <2>0. PICK r \in Runs : r = held[e]
      BY <1>7, HeldRun DEF FinalizeJob
    <2>1. r = held[e] /\ r # NoRun /\ ~Deleted(r) /\ pc[e] = "deciding" /\ Release(e)
      BY <1>7, <2>0, HeldRun DEF FinalizeJob
    <2>2. /\ \A d \in Executors \ {e} :
                /\ pc'[d] = pc[d] /\ held'[d] = held[d]
                /\ attempt'[d] = attempt[d] /\ seen'[d] = seen[d]
          /\ pc'[e] = "idle"
      BY <2>1 DEF Release, TypeOK
    <2>3. \A d \in Executors \ {e} : held[d] # r
      BY <2>1 DEF ExecutionInv, ExclusiveExecution
    <2>4. WorkClean(e)'
      BY <2>2 DEF WorkClean
    <2>5. \A q \in Runs \ {r} :
              /\ jobStatus'[q] = jobStatus[q] /\ attempts'[q] = attempts[q]
              /\ runStatus'[q] = runStatus[q] /\ trace'[q] = trace[q]
      BY <1>7, <2>1 DEF FinalizeJob, PurgeAttempt, TypeOK
    <2>6. attempts' = attempts
      BY <1>7 DEF FinalizeJob
    <2>7. seen[e].job \in InHand /\ seen[e].attempts = attempts[r] /\ seen[e].run = runStatus[r]
      BY <1>b, <2>1 DEF ExecutionInv, SeenJobInHand, WorkClean
    <2>8. JobClean(r)
      BY <1>b, <2>1
    <2>9. CASE verdict = "queued"
      <3>1. attempts[r] < MaxAttempts
        BY <2>7, <2>9 DEF Verdict
      <3>2. trace'[r] = {}
        BY <1>7, <2>1, <2>9 DEF FinalizeJob, PurgeAttempt
      <3>3. runStatus'[r] = "pending"
        BY <1>7, <2>1, <2>7, <2>9 DEF FinalizeJob, Written
      <3>4. JobClean(r)'
        BY <2>6, <2>8, <3>1, <3>2, <3>3 DEF JobClean
      <3>5. QED
        BY <2>1, <2>2, <2>3, <2>4, <2>5, <3>4, OneStep
    <2>10. CASE verdict # "queued"
      <3>1. runStatus'[r] = runStatus[r] /\ trace'[r] = trace[r]
        BY <1>7, <2>1, <2>10 DEF FinalizeJob, PurgeAttempt
      <3>2. jobStatus[r] # "queued"
        BY <1>a, <2>1 DEF HeldJobInHand, InHand
      <3>3. jobStatus'[r] # "queued"
        BY <1>7, <2>1, <2>10, <3>2 DEF FinalizeJob, Written, TypeOK
      <3>4. JobClean(r)'
        BY <2>6, <2>8, <3>1, <3>3 DEF JobClean
      <3>5. QED
        BY <2>1, <2>2, <2>3, <2>4, <2>5, <3>4, OneStep
    <2>11. QED
      BY <2>9, <2>10
  <1>8. ASSUME NEW e \in Executors, FindDeleted(e) \/ Crash(e)
        PROVE  AttemptInv'
    <2>1. Release(e) /\ UNCHANGED <<jobVars, runVars>>
      BY <1>8 DEF FindDeleted, Crash
    <2>2. QED
      BY <2>1, ReleaseAttempts
  <1>9. ASSUME NEW e \in Executors, Recover(e)
        PROVE  AttemptInv'
    <2>1. UNCHANGED <<pc, held, attempt, seen, attempts>>
      BY <1>9 DEF Recover, RecoverJobs, execVars
    <2>2. ASSUME NEW r \in Runs
          PROVE  /\ JobClean(r)'
                 /\ \/ \A d \in Executors : held[d] # r
                    \/ UNCHANGED <<jobStatus[r], attempts[r], runStatus[r], trace[r]>>
      <3>1. CASE r \in ReadInterrupted.requeue
        <4>1. attempts[r] < MaxAttempts /\ ~Deleted(r) /\ lease[r] # "live"
          BY <3>1 DEF ReadInterrupted, Interrupted, Deleted
        <4>2. runStatus'[r] = "pending" /\ trace'[r] = {} /\ attempts'[r] = attempts[r]
          BY <1>9, <2>1, <3>1 DEF Recover, RecoverJobs, PurgeAttempt
        <4>3. JobClean(r)'
          BY <1>b, <4>1, <4>2 DEF JobClean
        <4>4. QED
          BY <4>1, <4>3, FreeJob
      <3>2. CASE r \in ReadInterrupted.fail
        <4>1. r \notin ReadInterrupted.requeue /\ ~Deleted(r) /\ lease[r] # "live"
          BY <3>2, ConstantsAssumption DEF ReadInterrupted, Interrupted, Deleted, TypeOK
        <4>2. /\ jobStatus'[r] = "failed" /\ runStatus'[r] = "error"
              /\ trace'[r] = trace[r] /\ attempts'[r] = attempts[r]
          BY <1>9, <2>1, <3>2, <4>1 DEF Recover, RecoverJobs, PurgeAttempt
        <4>3. JobClean(r)'
          BY <1>b, <4>2 DEF JobClean
        <4>4. QED
          BY <4>1, <4>3, FreeJob
      <3>3. CASE r \notin ReadInterrupted.requeue \cup ReadInterrupted.fail
        <4>1. UNCHANGED <<jobStatus[r], attempts[r], runStatus[r], trace[r]>>
          BY <1>9, <2>1, <3>3 DEF Recover, RecoverJobs, PurgeAttempt
        <4>2. QED
          BY <1>b, <4>1 DEF JobClean
      <3>4. QED
        BY <3>1, <3>2, <3>3
    <2>3. QED
      BY <2>1, <2>2, OutsideStep DEF Deleted
  <1>10. CASE Cancel
    <2>1. UNCHANGED <<pc, held, attempt, seen, attempts, trace>>
      BY <1>10 DEF Cancel, CancelJobs, execVars
    <2>2. ASSUME NEW r \in Runs
          PROVE  /\ JobClean(r)'
                 /\ \/ \A d \in Executors : held[d] # r
                    \/ /\ Deleted(r) => jobStatus'[r] = "deleted"
                       /\ runStatus'[r] = runStatus[r]
      <3>1. CASE jobStatus[r] = "queued"
        <4>1. jobStatus'[r] = "canceled" /\ runStatus'[r] = "canceled"
          BY <1>10, <3>1 DEF Cancel, CancelJobs, ReadCancelable
        <4>2. QED
          BY <1>b, <2>1, <3>1, <4>1, FreeJob DEF JobClean, InHand, Deleted
      <3>2. CASE jobStatus[r] # "queued"
        <4>1. /\ jobStatus'[r] \in {jobStatus[r], "cancel_requested"}
              /\ Deleted(r) => jobStatus'[r] = "deleted"
              /\ runStatus'[r] = runStatus[r]
          BY <1>10, <3>2 DEF Cancel, CancelJobs, ReadCancelable, Deleted
        <4>2. QED
          BY <1>b, <2>1, <3>2, <4>1 DEF JobClean
      <3>3. QED
        BY <3>1, <3>2
    <2>3. QED
      BY <2>1, <2>2, OutsideStep
  <1>11. CASE DeleteAgent
    <2>1. /\ UNCHANGED <<pc, held, attempt, seen, attempts>>
          /\ \A r \in Runs : /\ jobStatus'[r] = "deleted" /\ runStatus'[r] = "deleted"
                             /\ trace'[r] = {}
      BY <1>11 DEF DeleteAgent, PurgeAttempt, execVars
    <2>2. \A r \in Runs : JobClean(r)'
      BY <1>b, <2>1 DEF JobClean
    <2>3. QED
      BY <2>1, <2>2, OutsideStep
  <1>12. CASE (\E r \in Runs : LeaseExpires(r)) \/ UNCHANGED vars
    <2>1. UNCHANGED <<pc, held, attempt, seen, jobStatus, attempts, runStatus, trace>>
      BY <1>12 DEF LeaseExpires, vars, jobVars, runVars, execVars
    <2>2. \A r \in Runs : JobClean(r)'
      BY <1>b, <2>1 DEF JobClean
    <2>3. QED
      BY <2>1, <2>2, OutsideStep DEF Deleted
  <1>13. \A e \in Executors : ~RecoverRead(e) /\ ~RecoverWrite(e)
    BY <1>a DEF RecoverRead, RecoverWrite, RequestsAtomic
  <1>14. ~CancelRead /\ ~CancelWrite
    BY <1>a DEF CancelRead, CancelWrite, RequestsAtomic
  <1>15. QED
    BY <1>1, <1>2, <1>3, <1>4, <1>5, <1>6, <1>7, <1>8, <1>9, <1>10, <1>11, <1>12, <1>13, <1>14
    DEF Next, Begin, Proceed

\* The attempts of every run stay in order.
LEMMA AttemptsInOrder ==
    ASSUME TimelyLease, AtomicRequests
    PROVE  Spec => [](ExecutionInv /\ AttemptInv)
  <1>1. TypeOK /\ ExecutionInv /\ [Next]_vars => ExecutionInv'
    BY NextExecution
  <1>2. TypeOK /\ ExecutionInv /\ AttemptInv /\ [Next]_vars => AttemptInv'
    BY NextAttempts
  <1>3. QED
    BY InitExecution, InitAttempts, TypeCorrect, <1>1, <1>2, PTL DEF Spec

\* A trace never mixes the rows of two attempts, and a run that waits in the
\* queue has none: retries and recoveries begin from a clean trace.
THEOREM TracesStayClean ==
    ASSUME TimelyLease, AtomicRequests
    PROVE  Spec => []CleanTrace
  <1>1. AttemptInv => CleanTrace
    <2> SUFFICES ASSUME AttemptInv, NEW r \in Runs
                 PROVE  /\ Cardinality(trace[r]) <= 1
                        /\ jobStatus[r] = "queued" => trace[r] = {}
      BY DEF CleanTrace
    <2>1. JobClean(r)
      BY DEF AttemptInv
    <2>2. CASE trace[r] = {}
      BY <2>2, FS_EmptySet
    <2>3. CASE trace[r] # {}
      <3>1. PICK a \in trace[r] : TRUE
        BY <2>3
      <3>2. trace[r] = {a}
        BY <2>1, <3>1 DEF JobClean
      <3>3. Cardinality(trace[r]) = 1
        BY <3>2, FS_Singleton
      <3>4. QED
        BY <2>1, <3>3 DEF JobClean
    <2>4. QED
      BY <2>2, <2>3
  <1>2. QED
    BY <1>1, AttemptsInOrder, PTL

\* A job in the queue can always be run: it has an attempt left, and its run
\* waits for drain_pending to find it.
THEOREM QueuedJobsCanRun ==
    ASSUME TimelyLease, AtomicRequests
    PROVE  Spec => []QueuedCanRun
  <1>1. AttemptInv => QueuedCanRun
    BY DEF AttemptInv, JobClean, QueuedCanRun
  <1>2. QED
    BY <1>1, AttemptsInOrder, PTL

\* A job that has ended stays as it ended, and in the durable queue a scored run
\* keeps its verdict, whatever retries, recoveries and cancellations follow.
THEOREM EndsAreFinal ==
    ASSUME TimelyLease, AtomicRequests
    PROVE  Spec => EndIsFinal
  <1> USE DEF KeepsEnd
  <1>1. ASSUME TypeOK, ExecutionInv, AttemptInv, Next, NEW r \in Runs
        PROVE  KeepsEnd(r)
    <2>a. /\ RequestsAtomic /\ HeldJobInHand /\ JobClean(r)
          /\ \A d \in Executors : WorkClean(d)
      BY <1>1 DEF ExecutionInv, AttemptInv
    <2>1. ASSUME NEW e \in Executors, NEW q \in Runs, ClaimNextJob(e, q)
          PROVE  KeepsEnd(r)
      <3>1. jobStatus[q] \in {"queued", "running"}
        BY <1>1, <2>1 DEF ClaimNextJob, Claimable
      <3>2. r # q => jobStatus'[r] = jobStatus[r]
        BY <1>1, <2>1 DEF ClaimNextJob, StartAttempt, TypeOK
      <3>3. runStatus[r] = "complete" => runStatus'[r] = "complete"
        BY <1>1, <2>1 DEF ClaimNextJob, DiedMidRun
      <3>4. QED
        BY <1>1, <3>1, <3>2, <3>3 DEF Terminal
    <2>2. ASSUME NEW e \in Executors, NEW q \in Runs, ExecuteQueued(e, q)
          PROVE  KeepsEnd(r)
      BY <1>1, <2>2 DEF ExecuteQueued, StartAttempt, Terminal, jobVars, runVars, TypeOK
    <2>3. ASSUME NEW e \in Executors, ExecuteClaimed(e)
          PROVE  KeepsEnd(r)
      <3>1. held[e] \in Runs /\ held[e] # NoRun
        BY <1>1, <2>3, HeldRun DEF ExecuteClaimed
      <3>2. QED
        BY <1>1, <2>3, <3>1 DEF ExecuteClaimed, StartAttempt, Terminal, jobVars, runVars, TypeOK
    <2>4. ASSUME NEW e \in Executors, ClaimRun(e)
          PROVE  KeepsEnd(r)
      BY <1>1, <2>4 DEF ClaimRun, jobVars, TypeOK
    <2>5. ASSUME NEW e \in Executors, NEW final \in BOOLEAN,
                 \/ Poll(e) \/ AbortCanceled(e) \/ ExceedLimit(e) \/ Act(e, final)
                 \/ \E error \in {"retryable", "fatal"} : Fail(e, error)
                 \/ Complete(e) \/ ReadOutcome(e) \/ FindDeleted(e) \/ Crash(e)
          PROVE  KeepsEnd(r)
      <3>1. UNCHANGED jobVars
        BY <1>1, <2>5
        DEF Poll, AbortCanceled, ExceedLimit, Act, Fail, EndRun, Complete, ReadOutcome,
            FindDeleted, Crash
      <3>2. CASE pc[e] \in {"polling", "acting", "scoring"} /\ ~Deleted(held[e])
        <4>1. held[e] \in Runs /\ runStatus[held[e]] = "running"
          BY <1>1, <2>a, <3>2, HeldRun DEF WorkClean
        <4>2. r # held[e] => runStatus'[r] = runStatus[r]
          BY <1>1, <2>5, <4>1
          DEF Poll, AbortCanceled, ExceedLimit, Act, Fail, EndRun, Complete, ReadOutcome,
              FindDeleted, Crash, runVars, TypeOK
        <4>3. QED
          BY <1>1, <3>1, <4>1, <4>2 DEF jobVars
      <3>3. CASE ~(pc[e] \in {"polling", "acting", "scoring"} /\ ~Deleted(held[e]))
        <4>1. UNCHANGED runStatus
          BY <1>1, <2>5, <3>3
          DEF Poll, AbortCanceled, ExceedLimit, Act, Fail, Complete, ReadOutcome,
              FindDeleted, Crash, runVars
        <4>2. QED
          BY <1>1, <3>1, <4>1 DEF jobVars
      <3>4. QED
        BY <1>1, <3>2, <3>3
    <2>6. ASSUME NEW e \in Executors, FinalizeJob(e)
          PROVE  KeepsEnd(r)
      <3>1. held[e] \in Runs /\ held[e] # NoRun /\ ~Deleted(held[e]) /\ pc[e] = "deciding"
        BY <1>1, <2>6, HeldRun DEF FinalizeJob
      <3>2. jobStatus[held[e]] \in InHand /\ seen[e].run = runStatus[held[e]]
        BY <1>1, <2>a, <3>1 DEF HeldJobInHand, WorkClean
      <3>3. r # held[e] => jobStatus'[r] = jobStatus[r] /\ runStatus'[r] = runStatus[r]
        BY <1>1, <2>6, <3>1 DEF FinalizeJob, TypeOK
      <3>4. runStatus[held[e]] = "complete" => runStatus'[held[e]] = "complete"
        <4>1. runStatus[held[e]] = "complete" => Verdict(seen[e]) # "queued"
          BY <1>1, <3>2 DEF Verdict
        <4>2. QED
          BY <1>1, <2>6, <3>1, <4>1 DEF FinalizeJob
      <3>5. QED
        BY <1>1, <3>2, <3>3, <3>4 DEF InHand, Terminal
    <2>7. ASSUME NEW e \in Executors, Recover(e)
          PROVE  KeepsEnd(r)
      BY <1>1, <2>7 DEF Recover, RecoverJobs, ReadInterrupted, Interrupted, Terminal
    <2>8. CASE Cancel
      <3>1. jobStatus[r] \in Terminal => jobStatus'[r] = jobStatus[r]
        BY <1>1, <2>8 DEF Cancel, CancelJobs, ReadCancelable, Terminal
      <3>2. runStatus[r] = "complete" => jobStatus[r] # "queued"
        BY <1>1, <2>a DEF JobClean
      <3>3. runStatus[r] = "complete" => runStatus'[r] = "complete"
        BY <1>1, <2>8, <3>2 DEF Cancel, CancelJobs, ReadCancelable
      <3>4. QED
        BY <1>1, <3>1, <3>3
    <2>9. CASE DeleteAgent
      BY <1>1, <2>9 DEF DeleteAgent
    <2>10. ASSUME NEW q \in Runs, LeaseExpires(q)
           PROVE  KeepsEnd(r)
      BY <1>1, <2>10 DEF LeaseExpires, runVars
    <2>11. \A e \in Executors : ~RecoverRead(e) /\ ~RecoverWrite(e)
      BY <1>1, <2>a DEF RecoverRead, RecoverWrite, RequestsAtomic
    <2>12. ~CancelRead /\ ~CancelWrite
      BY <1>1, <2>a DEF CancelRead, CancelWrite, RequestsAtomic
    <2>13. QED
      BY <1>1, <2>1, <2>2, <2>3, <2>4, <2>5, <2>6, <2>7, <2>8, <2>9, <2>10, <2>11, <2>12
      DEF Next, Begin, Proceed
  <1>2. TypeOK /\ ExecutionInv /\ AttemptInv /\ [Next]_vars
          => [\A r \in Runs : KeepsEnd(r)]_vars
    BY <1>1
  <1>3. QED
    BY <1>2, AttemptsInOrder, TypeCorrect, PTL DEF Spec, EndIsFinal, KeepsEnd
=============================================================================
