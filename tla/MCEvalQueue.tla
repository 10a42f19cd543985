---------------------------- MODULE MCEvalQueue ----------------------------
(* Bounded instances of EvalQueue for TLC.                                 *)
EXTENDS EvalQueue, TLC

\* Executors are interchangeable in every safety property.  Runs are not:
\* drain_pending takes them in the order of their ids.
Symmetry == Permutations(Executors)

\* No guard reads trace or attempt, so a run whose properties do not mention
\* them may identify the states that differ only there.
WithoutTraces ==
    <<jobVars, runStatus, runError, acct, pc, held, turns, seen, stale,
      want, sched, boundVars>>

\* Bound of the hostile run: without workers nobody cancels.
CancelOnlyDurable == mode = "sync" => cancels = 0
=============================================================================
