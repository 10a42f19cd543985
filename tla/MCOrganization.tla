--------------------------- MODULE MCOrganization ---------------------------
(* Bounded instances of Organization for TLC.                              *)
EXTENDS Organization, TLC

\* A subscription for sale, one checkout, one event, and no calls.
Least == [mode |-> "subscription", plans |-> {"starter"}, lives |-> {"active"},
          clock |-> 1, paid |-> FALSE, requests |-> 2, hooks |-> 1, objects |-> 1, events |-> 1,
          faults |-> 0, ops |-> {}, invites |-> 0, orgs |-> 1]
Paid == [Least EXCEPT !.paid = TRUE, !.requests = 0]

\* What the behaviours of the run are about, one instance each: the order of
\* webhooks, every provider status and failures, orders, two subscriptions,
\* deletion, members, invitations that expire with the plan, removed people
\* who come back, and workspaces.
MCBounds == {
    [Paid EXCEPT !.requests = 2, !.lives = {"active", "pending", "cancelled"},
                 !.clock = 3, !.hooks = 2, !.events = 3],
    [Least EXCEPT !.lives = RemoteStates, !.events = 2, !.faults = 1],
    [Least EXCEPT !.mode = "one_time", !.plans = PaidPlans, !.clock = 2, !.objects = 2],
    [Paid EXCEPT !.requests = 1, !.plans = PaidPlans, !.lives = {"active", "pending"},
                 !.clock = 2, !.objects = 2, !.events = 3],
    [Least EXCEPT !.lives = {"active", "cancelled"}, !.requests = 1, !.events = 2,
                  !.orgs = 2, !.ops = {"delete"}],
    [Paid EXCEPT !.ops = {"invite", "accept", "revoke", "role", "remove"}, !.invites = 1],
    [Paid EXCEPT !.ops = {"invite", "accept", "revoke"}, !.invites = 2],
    [Paid EXCEPT !.ops = {"invite", "accept"}, !.clock = 2, !.invites = 2],
    [Paid EXCEPT !.ops = {"invite", "accept", "remove"}, !.invites = 2],
    [Paid EXCEPT !.plans = {"team"}, !.lives = {"cancelled"}, !.requests = 1,
                 !.events = 2, !.orgs = 2, !.ops = {"space", "delete"}] }

\* The smallest instance in which two webhooks overlap.
StaleBounds == {[Least EXCEPT !.lives = {"authenticated", "active"}, !.clock = 2,
                              !.requests = 1, !.hooks = 2, !.events = 2]}

\* The smallest instance in which a second organization opens a checkout.
TrialBounds == {[Least EXCEPT !.orgs = 2, !.ops = {"delete"}]}

\* Fewer seats and workspaces than the plans have, in the same order.
MCSeats == [p \in Plans |-> CASE p = "trial" -> 1 [] p = "starter" -> 2 [] OTHER -> 3]
MCSpaces == [p \in Plans |-> IF p = "team" THEN 2 ELSE 1]
=============================================================================
