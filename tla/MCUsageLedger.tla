--------------------------- MODULE MCUsageLedger ---------------------------
(* Bounded instances of UsageLedger for TLC.                               *)
EXTENDS UsageLedger, TLC

\* Keys and requests are interchangeable where no liveness is checked.
Symmetry == Permutations(Keys) \cup Permutations(Requests)
=============================================================================
