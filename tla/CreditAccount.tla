--------------------------- MODULE CreditAccount ---------------------------
(***************************************************************************)
(* What app/usage.py promises an organization: its plan's credits of one   *)
(* period are free, held for an evaluation, or spent.  None appears and    *)
(* none disappears, and an evaluation holds credits that were free.        *)
(***************************************************************************)
EXTENDS Integers

CONSTANT Included    \* credits of the plan per period

VARIABLES free, held, spent

Init == free = Included /\ held = 0 /\ spent = 0

\* An evaluation of n scenarios is accepted.
Reserve(n) ==
    /\ free' = free - n
    /\ held' = held + n
    /\ UNCHANGED spent

\* A run has completed.
Settle ==
    /\ held > 0
    /\ held' = held - 1
    /\ spent' = spent + 1
    /\ UNCHANGED free

\* Runs have failed or were canceled, or their reservation has expired.
Release(n) ==
    /\ held' = held - n
    /\ free' = free + n
    /\ UNCHANGED spent

\* The next period begins.
Renew ==
    /\ spent' = 0
    /\ free' = free + spent
    /\ UNCHANGED held

Next ==
    \/ \E n \in 1..free : Reserve(n)
    \/ Settle
    \/ \E n \in 1..held : Release(n)
    \/ Renew

Spec == Init /\ [][Next]_<<free, held, spent>>
=============================================================================
