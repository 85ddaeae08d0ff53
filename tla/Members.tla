------------------------------- MODULE Members -------------------------------
(***************************************************************************)
(* Who belongs to a workspace and as what: the API's membership and          *)
(* invitation requests (tenants/service.py with its routes and the accept     *)
(* route of auth/router.py), and what the members pages offer.                *)
(*                                                                         *)
(* A request is one transaction at Postgres's default isolation: it reads    *)
(* its caller's role (Begin), then what it checks (Check), and writes when it *)
(* commits; another may commit in between.                                    *)
(***************************************************************************)
EXTENDS Naturals, Sequences, FiniteSets

CONSTANTS
    Users,
    TeamQuestions   \* [roles: the roles at first, budget: requests of each kind]

VARIABLES
    role,           \* tenant_memberships: "none" without a row
    invites,        \* invitations, with the number of the link last sent
    request,        \* the request in each slot, Free without one
    nextLink,
    teamBudget,
    \* ghosts
    dead,           \* links replaced, cancelled or used
    stale           \* a request committed on reads that no longer held

teamVars == <<role, invites, request, nextLink, teamBudget, dead, stale>>

RoleNames == {"none", "viewer", "admin", "owner"}
Granted == RoleNames \ {"none"}

ASSUME TeamAssumption ==
    /\ IsFiniteSet(Users)
    /\ \A q \in TeamQuestions : q.roles \in [Users -> RoleNames] /\ \E u \in Users : q.roles[u] = "owner"

Slots == {1, 2}
Roles == <<"viewer", "admin", "owner">>
Rank(r) == CHOOSE i \in 0..3 : IF r = "none" THEN i = 0 ELSE i > 0 /\ Roles[i] = r
Owners == {u \in Users : role[u] = "owner"}
Free == [op |-> "free"]
TeamKinds == {"change", "remove", "leave", "add", "invite", "resend", "cancel", "accept", "expire"}

-----------------------------------------------------------------------------
(* What is checked before a write. *)

assert_can_assign(actorRole, r) == Rank(r) <= Rank(actorRole)

\* Mutant: the last owner is guarded against removal only.
change_role_Anyone(q) ==
    /\ role[q.user] # "none"
    /\ role[q.user] = "owner" => q.as = "owner"
    /\ assert_can_assign(q.as, q.role)

change_role(q) ==
    /\ role[q.user] # "none"
    /\ role[q.user] = "owner" => q.as = "owner"
    /\ assert_can_assign(q.as, q.role)
    /\ role[q.user] = "owner" /\ q.role # "owner" => Cardinality(Owners) > 1

remove_member(q) ==
    /\ role[q.user] # "none"
    /\ role[q.user] = "owner" => q.as = "owner" /\ Cardinality(Owners) > 1

add_member(q) == assert_can_assign(q.as, q.role) /\ role[q.user] = "none"

Pending(i) == ~invites[i].accepted /\ ~invites[i].revoked

create_invitation(q) ==
    /\ assert_can_assign(q.as, q.role)
    /\ role[q.user] = "none"
    /\ ~ \E i \in DOMAIN invites : invites[i].user = q.user /\ Pending(i) /\ invites[i].fresh

(* The link is looked up by the hash of its token. *)
lookup_invitation(i, link) == invites[i].link = link /\ Pending(i) /\ invites[i].fresh

Passes(q) ==
    CASE q.op = "change" -> change_role(q)
      [] q.op \in {"remove", "leave"} -> remove_member(q)
      [] q.op = "add"    -> add_member(q)
      [] q.op = "invite" -> create_invitation(q)
      [] q.op \in {"resend", "cancel"} -> Pending(q.invite)
      [] OTHER -> TRUE

-----------------------------------------------------------------------------
TeamInit ==
    /\ \E q \in TeamQuestions : role = q.roles /\ teamBudget = q.budget
    /\ invites = << >> /\ request = [s \in Slots |-> Free] /\ nextLink = 1
    /\ dead = {} /\ stale = FALSE

Spend(k) == teamBudget[k] > 0 /\ teamBudget' = [teamBudget EXCEPT ![k] = @ - 1]
\* The second slot is for a request beside another.
Opens(s, q) ==
    /\ request[s] = Free /\ (s = 1 \/ request[1] # Free)
    /\ request' = [request EXCEPT ![s] = q]

(* require_role: members are managed by admins; anyone leaves.               *)
require_role(a, op) == Rank(role[a]) >= IF op = "leave" THEN 1 ELSE 2

(* A request on a member, or on an email without an account here yet.        *)
Begin(s, op, a, u, r) ==
    /\ Spend(op)
    /\ require_role(a, op)
    /\ op = "leave" => u = a
    /\ op \in {"remove", "leave"} => r = "viewer"
    /\ Opens(s, [op |-> op, by |-> a, as |-> role[a], user |-> u, role |-> r, saw |-> "unread"])
    /\ UNCHANGED <<role, invites, nextLink, dead, stale>>

(* Resend or cancel one of the listed invitations.                           *)
BeginInvite(s, op, a, i) ==
    /\ Spend(op)
    /\ require_role(a, op)
    /\ Opens(s, [op |-> op, by |-> a, as |-> role[a], user |-> a, invite |-> i, saw |-> "unread"])
    /\ UNCHANGED <<role, invites, nextLink, dead, stale>>

(* The invitee opens a link: the newest of an invitation or an older one.    *)
BeginAccept(s, i, link) ==
    /\ Spend("accept")
    /\ lookup_invitation(i, link)
    /\ Opens(s, [op |-> "accept", by |-> invites[i].user, as |-> role[invites[i].user],
                 user |-> invites[i].user, role |-> invites[i].role, invite |-> i, link |-> link,
                 saw |-> "unread"])
    /\ UNCHANGED <<role, invites, nextLink, dead, stale>>

Check(s) ==
    LET q == request[s] IN
    /\ q # Free /\ q.saw = "unread"
    /\ request' = [request EXCEPT ![s] = IF Passes(q) THEN [q EXCEPT !.saw = role[q.user]] ELSE Free]
    /\ UNCHANGED <<role, invites, nextLink, teamBudget, dead, stale>>

(* The reads no longer hold. *)
Outdated(q) ==
    \/ q.op # "accept" /\ role[q.by] # q.as
    \/ role[q.user] # q.saw
    \/ q.op = "accept" /\ ~lookup_invitation(q.invite, q.link)
    \/ ~Passes(q)

-----------------------------------------------------------------------------
(* The writes. An UPDATE or DELETE of a row that is gone and an INSERT of one *)
(* that is there fail, and the transaction with them.                         *)
Fails(q) ==
    \/ q.op \in {"change", "remove", "leave"} /\ role[q.user] = "none"
    \/ q.op \in {"add", "accept"} /\ q.saw = "none" /\ role[q.user] # "none"

(* An unchanged role is not written. *)
RoleAfter(q) ==
    CASE q.op = "change" /\ q.role # q.saw -> [role EXCEPT ![q.user] = q.role]
      [] q.op \in {"remove", "leave"} -> [role EXCEPT ![q.user] = "none"]
      [] q.op \in {"add", "accept"} /\ q.saw = "none" -> [role EXCEPT ![q.user] = q.role]
      [] OTHER -> role

\* Mutant: a resent invitation keeps its token.
renew_invitation_SameToken(v) == [v EXCEPT !.fresh = TRUE]

renew_invitation(v) == [v EXCEPT !.link = nextLink, !.fresh = TRUE]

InvitesAfter(q) ==
    CASE q.op = "invite" -> Append(invites, [user |-> q.user, role |-> q.role, granted |-> Rank(q.as),
                                             link |-> nextLink, fresh |-> TRUE, accepted |-> FALSE,
                                             revoked |-> FALSE])
      [] q.op = "resend" -> [invites EXCEPT ![q.invite] = renew_invitation(@)]
      [] q.op = "cancel" -> [invites EXCEPT ![q.invite].revoked = TRUE]
      [] q.op = "accept" -> [invites EXCEPT ![q.invite].accepted = TRUE]
      [] OTHER -> invites

Commit(s) ==
    LET q == request[s] IN
    /\ q # Free /\ q.saw # "unread"
    /\ request' = [request EXCEPT ![s] = Free]
    /\ IF Fails(q) THEN UNCHANGED <<role, invites, nextLink, dead, stale>>
       ELSE /\ role' = RoleAfter(q)
            /\ invites' = InvitesAfter(q)
            /\ nextLink' = IF q.op \in {"invite", "resend"} THEN nextLink + 1 ELSE nextLink
            /\ dead' = IF q.op \in {"resend", "cancel", "accept"}
                       THEN dead \cup {invites[q.invite].link} ELSE dead
            /\ stale' = (stale \/ Outdated(q))
    /\ UNCHANGED teamBudget

(* INVITE_TTL passes. *)
Lapse(i) ==
    /\ Spend("expire")
    /\ invites[i].fresh
    /\ invites' = [invites EXCEPT ![i].fresh = FALSE]
    /\ UNCHANGED <<role, request, nextLink, dead, stale>>

TeamNext ==
    \/ \E s \in Slots : Check(s) \/ Commit(s)
    \/ \E s \in Slots, a, u \in Users, op \in {"change", "remove", "leave", "add", "invite"}, r \in Granted :
         Begin(s, op, a, u, r)
    \/ \E s \in Slots, a \in Users, op \in {"resend", "cancel"}, i \in DOMAIN invites : BeginInvite(s, op, a, i)
    \/ \E s \in Slots, i \in DOMAIN invites, link \in 1..(nextLink - 1) : BeginAccept(s, i, link)
    \/ \E i \in DOMAIN invites : Lapse(i)

TeamSpec == TeamInit /\ [][TeamNext]_teamVars

-----------------------------------------------------------------------------
(* What the pages offer the member a. *)

canManage(a) == Rank(role[a]) >= 2

ownerLocked(a, u) == role[u] = "owner" /\ role[a] # "owner"

offersRemove(a, u) == canManage(a) /\ u # a /\ role[u] # "none" /\ ~ownerLocked(a, u)
offersRole(a, u, r) ==
    canManage(a) /\ role[u] # "none" /\ ~ownerLocked(a, u) /\ (r = "owner" => role[a] = "owner")

-----------------------------------------------------------------------------
(* Properties *)

(* LastOwnerError: whatever members do, a workspace keeps an owner, unless    *)
(* two requests checked and wrote across each other.                          *)
OwnerUnlessRaced == stale \/ Owners # {}

(* "the last owner can't be removed (or leave) - the workspace would be left  *)
(* without one", requests at the same time included.                          *)
AlwaysAnOwner == Owners # {}

(* "the old link stops working", "The link in their email stops working",      *)
(* "The link works once": nobody joins by a link that was replaced, cancelled  *)
(* or used, through any number of invitations to the same person, unless a      *)
(* request raced the acceptance.                                               *)
OldLinksStep ==
    \A i \in DOMAIN invites :
      invites'[i].accepted /\ ~invites[i].accepted =>
        stale' \/ (invites[i].link \notin dead /\ invites[i].link \in 1..(nextLink - 1)
                     /\ \E s \in Slots : request[s] # Free /\ request[s].op = "accept"
                                           /\ request[s].link = invites[i].link)

(* "nobody grants above their own role", "Only an owner removes an owner":     *)
(* whoever rises was raised by someone of that rank, or invited by one; whoever *)
(* falls was lowered by someone of at least the rank lost; unless raced.        *)
RolesStep ==
    \A u \in Users :
      role'[u] # role[u] =>
        stale' \/ \E s \in Slots :
                    LET q == request[s] IN
                    /\ q # Free /\ request'[s] = Free /\ q.user = u
                    /\ IF q.op = "accept" THEN invites[q.invite].granted >= Rank(role'[u])
                       ELSE Rank(role[q.by]) >= Rank(role'[u]) /\ Rank(role[q.by]) >= Rank(role[u])

(* The members page, the peek and the member page offer nothing the API then    *)
(* refuses, with the one exception the page is told of: the last owner's own     *)
(* role.                                                                         *)
OfferedIsAccepted ==
    \A a, u \in Users :
      /\ offersRemove(a, u) =>
           require_role(a, "remove") /\ remove_member([op |-> "remove", as |-> role[a], user |-> u])
      /\ \A r \in Granted :
           offersRole(a, u, r) =>
             /\ require_role(a, "change")
             /\ \/ change_role([op |-> "change", as |-> role[a], user |-> u, role |-> r])
                \/ u = a /\ Owners = {a}

(* A workspace keeps an owner unless two requests checked and wrote across     *)
(* each other, and the pages offer nothing the API refuses but the last owner's  *)
(* own role.                                                                     *)
TeamSafe == OwnerUnlessRaced /\ OfferedIsAccepted

(* Nobody joins by a link that was replaced, cancelled or used, and roles are   *)
(* given and taken by someone of that rank.                                       *)
TeamSteps == [][OldLinksStep /\ RolesStep]_teamVars

(* "They lose access": who was removed comes back only by a new invitation.     *)
RemovedStaysOut ==
    [][\A i \in DOMAIN invites :
         invites'[i].accepted /\ ~invites[i].accepted /\ role[invites[i].user] = "none" =>
           stale' \/ ~ \E j \in DOMAIN invites : j # i /\ invites[j].user = invites[i].user
                                                  /\ invites[j].accepted]_teamVars

-----------------------------------------------------------------------------
(* Why TeamSafe and TeamSteps hold. *)

Invitation ==
    [user : Users, role : Granted, granted : 0..3, link : Nat, fresh : BOOLEAN, accepted : BOOLEAN, revoked : BOOLEAN]
Saw == RoleNames \cup {"unread"}
MemberRequest ==
    [op : {"change", "remove", "leave", "add", "invite"}, by : Users, as : RoleNames, user : Users,
     role : Granted, saw : Saw]
InviteRequest ==
    [op : {"resend", "cancel"}, by : Users, as : RoleNames, user : Users, invite : Nat, saw : Saw]
AcceptRequest ==
    [op : {"accept"}, by : Users, as : RoleNames, user : Users, role : Granted, invite : Nat, link : Nat, saw : Saw]
Request == MemberRequest \cup InviteRequest \cup AcceptRequest

TeamTypeOK ==
    /\ role \in [Users -> RoleNames]
    /\ invites \in Seq(Invitation)
    /\ request \in [Slots -> Request \cup {Free}]
    /\ nextLink \in Nat \ {0} /\ stale \in BOOLEAN

(* What a request knows from when it began and checked (require_role,           *)
(* assert_can_assign), whatever commits in between.                              *)
Holds(q) ==
    /\ q.op \notin {"leave", "accept"} => Rank(q.as) >= 2
    /\ q.op = "leave" => q.user = q.by
    /\ q.op = "invite" /\ q.saw # "unread" => assert_can_assign(q.as, q.role)
    /\ q.op \in {"resend", "cancel", "accept"} => q.invite \in DOMAIN invites
    /\ q.op = "accept" => q.user = invites[q.invite].user /\ q.role = invites[q.invite].role
RequestsHold == \A s \in Slots : request[s] # Free => Holds(request[s])

(* Every link was sent once, and a link that opens an invitation is not dead;    *)
(* an invitation carries no more than its sender had.                             *)
LinksHold ==
    /\ dead \subseteq 1..(nextLink - 1)
    /\ \A i \in DOMAIN invites :
         /\ invites[i].link \in 1..(nextLink - 1) /\ Rank(invites[i].role) <= invites[i].granted
         /\ Pending(i) => invites[i].link \notin dead
    /\ \A i, j \in DOMAIN invites : invites[i].link = invites[j].link => i = j

TeamInv == TeamTypeOK /\ RequestsHold /\ LinksHold /\ OwnerUnlessRaced
=============================================================================
