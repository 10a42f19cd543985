---------------------------- MODULE Organization ----------------------------
(***************************************************************************)
(* The organizations of one person, one after the other: the workspaces,   *)
(* members and invitations (app/saas_api.py), the creation of a personal   *)
(* organization on sign-in and the one trial a person has                  *)
(* (app/tenancy.py), composed with the subscription that decides how many  *)
(* seats and workspaces there are (Billing).  Calls read, decide and       *)
(* commit later, and lock nothing.                                         *)
(***************************************************************************)
EXTENDS Billing

CONSTANTS
    Persons,     \* people who sign in; a person has one email address
    Founder,     \* the one whose organization this is
    Roles,       \* roles that can be given: {"admin", "member", "viewer"}
    Seats,       \* Plan.members of each plan
    Spaces,      \* Plan.workspaces of each plan
    InviteLife   \* ticks an invitation is good for

\* The calls of app/saas_api.py.
Ops == {"invite", "accept", "revoke", "role", "remove", "space", "delete"}

ASSUME OrganizationAssumption ==
    /\ Founder \in Persons /\ IsFiniteSet(Persons) /\ IsFiniteSet(Handlers) /\ Handlers # {}
    /\ "member" \in Roles /\ Roles \subseteq {"admin", "member", "viewer"}
    /\ Seats \in [Plans -> Nat \ {0}] /\ Spaces \in [Plans -> Nat \ {0}]
    /\ InviteLife \in Nat \ {0}
    /\ \A b \in Bounds : b.invites \in Nat /\ b.orgs \in Nat /\ b.ops \subseteq Ops

VARIABLES
    founded,   \* organizations created
    claimed,   \* user_profiles.trial_claimed_at of the founder is set
    member,    \* organization_memberships of the organization
    invites,   \* workspace_invitations, in order of creation
    spaces,    \* workspaces of the organization
    call,      \* the membership calls being worked on
    gaveUp,    \* the founder has accepted an invitation
    crossed    \* a call has committed to an organization that was not what it read

people == <<member, invites, spaces>>
house == <<founded, claimed, people, call, gaveUp, crossed>>
vars == <<billing, house>>
-----------------------------------------------------------------------------
Memberships == [role : {"owner"} \cup Roles, status : {"none", "active", "suspended"}]
NoMember == [role |-> "member", status |-> "none"]
InviteStatuses == {"pending", "accepted", "revoked", "superseded"}
Invitations ==
    [person : Persons, role : Roles, status : InviteStatuses, expires : Nat]
InviteIds == 1..Len(invites)

\* What a call has read, and what it found.
NoCall == [op |-> "idle"]
View == [row |-> row, member |-> member, invites |-> invites, spaces |-> spaces]

HouseTypeOK ==
    /\ founded \in Nat /\ claimed \in BOOLEAN /\ gaveUp \in BOOLEAN /\ crossed \in BOOLEAN
    /\ member \in [Persons -> Memberships]
    /\ invites \in Seq(Invitations)
    /\ spaces \in Nat
    /\ DOMAIN call = Handlers
    /\ \A h \in Handlers :
        \/ call[h] = NoCall
        \/ /\ call[h].op \in Ops
           /\ call[h].person \in Persons /\ call[h].role \in Roles
           /\ call[h].invite \in Nat /\ call[h].at \in Nat
OrgTypeOK == TypeOK /\ HouseTypeOK

OrgInit ==
    /\ Init /\ founded = 1 /\ claimed = TRUE /\ gaveUp = FALSE /\ crossed = FALSE
    /\ member = [p \in Persons |-> IF p = Founder THEN [role |-> "owner", status |-> "active"]
                                   ELSE NoMember]
    /\ invites = <<>> /\ spaces = 1
    /\ call = [h \in Handlers |-> NoCall]

\* The first sign-in of the founder, and every one that finds no workspace.  The
\* organization's slug is unique, so there is no second one beside the first.
EnsurePersonalWorkspace ==
    /\ row.org = 0 /\ founded < bound.orgs
    /\ founded' = founded + 1 /\ claimed' = TRUE
    /\ row' = NewRow(founded + 1, IF claimed THEN "trial_used" ELSE "trialing")
    /\ retention' = "default" /\ spaces' = 1
    /\ member' = [member EXCEPT ![Founder] = [role |-> "owner", status |-> "active"]]
    /\ gaveUp' = FALSE
    /\ UNCHANGED <<bound, races, granted, outside, receipt, req, faults, invites, call, crossed>>
-----------------------------------------------------------------------------
\* current_workspace and require_role.
Acts(a, roles) == member[a].status = "active" /\ member[a].role \in roles /\ spaces > 0
Managers == {"owner", "admin"}

Open(h, op, p, r, i) ==
    /\ op \in bound.ops /\ call[h] = NoCall /\ row.org # 0
    /\ call' = [call EXCEPT ![h] = [op |-> op, person |-> p, role |-> r, invite |-> i,
                                    at |-> clock, seen |-> View]]
    /\ UNCHANGED <<billing, founded, claimed, people, gaveUp, crossed>>

\* The commit of a call: of the organization it has read, or an error.
Finish(h, op) ==
    /\ call[h].op = op /\ row.org = call[h].seen.row.org
    /\ call' = [call EXCEPT ![h] = NoCall]
    /\ crossed' = (crossed \/ call[h].seen # View)
    /\ raced' = (raced \/ (op = "delete" /\ call[h].seen.row # row))
    /\ mixed' = (mixed \/ (op = "delete" /\ call[h].seen.row # row))
    /\ UNCHANGED <<bound, retention, granted, overtaken, outside, receipt, req, faults, founded, claimed>>

\* A call is refused, fails or dies: nothing is committed.
Drop(h) ==
    /\ call[h] # NoCall
    /\ call' = [call EXCEPT ![h] = NoCall]
    /\ UNCHANGED <<billing, founded, claimed, people, gaveUp, crossed>>

\* _expire_invitations: those that have expired when it runs.
Lapsed(invs, t) ==
    {i \in DOMAIN invs : invs[i].status = "pending" /\ invs[i].expires <= t}
PendingIn(invs) == {i \in DOMAIN invs : invs[i].status = "pending"}
ActiveIn(ms) == {p \in Persons : ms[p].status = "active"}
SeatsTaken == Cardinality(ActiveIn(member)) + Cardinality(PendingIn(invites))

\* Mutant: invitations take no seat until they are accepted.
SeatFreeWithoutPending == Cardinality(ActiveIn(member)) < Seats[Entitled(row)]
SeatFree ==
    Cardinality(ActiveIn(member)) + Cardinality(PendingIn(invites) \ Lapsed(invites, clock))
        < Seats[Entitled(row)]

BeginInvite(h, a, p, r) ==
    /\ Acts(a, Managers) /\ Len(invites) < bound.invites /\ SeatFree
    /\ Open(h, "invite", p, r, 0)

\* One pending invitation of the same address is superseded, if there is one.
FinishInvite(h) ==
    LET c == call[h]
        old == {i \in PendingIn(c.seen.invites) \ Lapsed(c.seen.invites, c.at) :
                    c.seen.invites[i].person = c.person}
        new == [person |-> c.person, role |-> c.role, status |-> "pending",
                expires |-> clock + InviteLife]
        Kept(i, first) == IF i \in Lapsed(c.seen.invites, c.at)
                          THEN [invites[i] EXCEPT !.status = "revoked"]
                          ELSE IF i = first
                          THEN [invites[i] EXCEPT !.status = "superseded"]
                          ELSE invites[i] IN
    /\ Finish(h, "invite")
    /\ \E first \in IF old = {} THEN {0} ELSE old :
          invites' = Append([i \in InviteIds |-> Kept(i, first)], new)
    /\ UNCHANGED <<row, member, spaces, gaveUp>>

BeginAccept(h, i) ==
    /\ invites[i].status = "pending" /\ invites[i].expires > clock
    /\ Open(h, "accept", invites[i].person, invites[i].role, i)

\* A membership that exists, suspended or not, becomes active with the role of
\* the invitation; a new one must not have been added meanwhile.
FinishAccept(h) ==
    LET c == call[h]
        was == c.seen.member[c.person] IN
    /\ Finish(h, "accept")
    /\ was.status = "none" => member[c.person].status = "none"
    /\ member' = [member EXCEPT ![c.person] =
            [role |-> IF was.role = c.role /\ was.status # "none" THEN @.role ELSE c.role,
             status |-> IF was.status = "active" THEN @.status ELSE "active"]]
    /\ invites' = [invites EXCEPT ![c.invite].status = "accepted"]
    /\ gaveUp' = (gaveUp \/ c.person = Founder)
    /\ UNCHANGED <<row, spaces>>

BeginRevoke(h, a, i) ==
    /\ Acts(a, Managers) /\ invites[i].status = "pending"
    /\ Open(h, "revoke", invites[i].person, invites[i].role, i)

FinishRevoke(h) ==
    /\ Finish(h, "revoke")
    /\ invites' = [invites EXCEPT ![call[h].invite].status = "revoked"]
    /\ UNCHANGED <<row, member, spaces, gaveUp>>

\* _manageable_member: never an owner, nor an admin by an admin.  Mutant: the
\* owner is not excepted.
ManageableOwner(a, p) ==
    member[p].status = "active" /\ ~(member[a].role = "admin" /\ member[p].role = "admin")
Manageable(a, p) ==
    /\ member[p].status = "active" /\ member[p].role # "owner"
    /\ ~(member[a].role = "admin" /\ member[p].role = "admin")

BeginRole(h, a, p, r) ==
    Acts(a, Managers) /\ Manageable(a, p) /\ Open(h, "role", p, r, 0)

FinishRole(h) ==
    LET c == call[h] IN
    /\ Finish(h, "role")
    /\ member' = IF c.seen.member[c.person].role = c.role THEN member
                 ELSE [member EXCEPT ![c.person].role = c.role]
    /\ UNCHANGED <<row, invites, spaces, gaveUp>>

BeginRemove(h, a, p) ==
    Acts(a, Managers) /\ a # p /\ Manageable(a, p) /\ Open(h, "remove", p, "member", 0)

FinishRemove(h) ==
    /\ Finish(h, "remove")
    /\ member' = [member EXCEPT ![call[h].person].status = "suspended"]
    /\ UNCHANGED <<row, invites, spaces, gaveUp>>

BeginSpace(h, a) ==
    /\ Acts(a, Managers) /\ spaces < Spaces[Entitled(row)]
    /\ Open(h, "space", a, "member", 0)

FinishSpace(h) ==
    /\ Finish(h, "space")
    /\ spaces' = spaces + 1
    /\ UNCHANGED <<row, member, invites, gaveUp>>

\* The last workspace goes with its organization, unless a subscription stands.
BeginDelete(h, a) ==
    /\ Acts(a, {"owner"})
    /\ spaces = 1 => row.id = 0 \/ row.status \in {"canceled", "incomplete_expired"}
    /\ Open(h, "delete", a, "member", 0)

FinishDelete(h) ==
    /\ Finish(h, "delete")
    /\ IF call[h].seen.spaces = 1
       THEN /\ row' = NewRow(0, "trialing") /\ spaces' = 0 /\ invites' = <<>>
            /\ member' = [p \in Persons |-> NoMember]
       ELSE /\ spaces > 0 /\ spaces' = spaces - 1
            /\ UNCHANGED <<row, member, invites>>
    /\ UNCHANGED gaveUp
-----------------------------------------------------------------------------
HouseNext ==
    \/ EnsurePersonalWorkspace
    \/ \E h \in Handlers :
        \/ \E a, p \in Persons :
            \/ \E r \in Roles : BeginInvite(h, a, p, r) \/ BeginRole(h, a, p, r)
            \/ BeginRemove(h, a, p)
        \/ \E a \in Persons :
            \/ \E i \in InviteIds : BeginRevoke(h, a, i)
            \/ BeginSpace(h, a) \/ BeginDelete(h, a)
        \/ \E i \in InviteIds : BeginAccept(h, i)
        \/ FinishInvite(h) \/ FinishAccept(h) \/ FinishRevoke(h) \/ FinishRole(h)
        \/ FinishRemove(h) \/ FinishSpace(h) \/ FinishDelete(h) \/ Drop(h)

\* Only an owner opens a checkout or has a payment verified.
Next ==
    \/ HouseNext
    \/ /\ BillingNext
       /\ \A h \in Handlers : (req[h] = Idle /\ req'[h].op \in {"checkout", "verify"})
                                => \E a \in Persons : Acts(a, {"owner"})
       /\ UNCHANGED house

OrgSpec == OrgInit /\ [][Next]_vars

\* The provider delivers again what was not acknowledged, and a process that has
\* read an event applies it, fails or dies.
Fairness ==
    /\ \A e \in 1..MaxEvents : SF_vars(e \in EventIds /\ \E h \in Handlers : Deliver(h, e) /\ UNCHANGED house)
    /\ WF_vars(\E h \in Handlers : (Apply(h) \/ FailEvent(h)) /\ UNCHANGED house)
    /\ WF_vars(\E h \in Handlers : (FinishCheckout(h) \/ FinishVerify(h) \/ Abort(h)) /\ UNCHANGED house)
FairSpec == OrgSpec /\ Fairness
-----------------------------------------------------------------------------
\* The seats of the plans the organization can have had: of what was paid for, and
\* of what it only ordered if requests have overwritten each other.
Limit == {Seats["trial"]} \cup
         {Seats[remote[i].plan] :
            i \in {j \in Objects : remote[j].org = row.org /\ (remote[j].paid \/ raced)}}

\* The seats of a plan: calls that overlap can each take one too many, and no
\* sequence of calls takes more.
SeatsWithinPlan ==
    \E n \in Limit : SeatsTaken <= n + (IF crossed THEN Cardinality(Handlers) - 1 ELSE 0)

\* Nobody can take the organization from its owner, or leave it without a
\* workspace, unless the owner accepts an invitation, which replaces the role.
FounderKeepsOrganization ==
    row.org = 0 \/ /\ ~gaveUp => member[Founder] = [role |-> "owner", status |-> "active"]
                   /\ ~crossed => spaces > 0

\* The trial belongs to the person, who has it once, however many organizations
\* they found: an organization created after the trial was claimed, and never paid
\* for, has no trial credits (tenancy.py:88, what usage_summary lets a status have).
TrialOncePerPerson ==
    LET open == row.status \notin {"trial_used", "past_due", "unpaid", "canceled", "incomplete"}
    IN  (founded > 1 /\ row.org # 0 /\ ~\E i \in Objects : remote[i].org = row.org /\ remote[i].paid)
        => ~(open /\ ~PaidActive(row))
=============================================================================
