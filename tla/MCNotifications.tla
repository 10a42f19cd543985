-------------------------- MODULE MCNotifications --------------------------
(* Bounded instances of Notifications for TLC.                             *)
EXTENDS Notifications, TLC

\* Senders are interchangeable where no liveness is checked.
Symmetry == Permutations(Senders)
=============================================================================
