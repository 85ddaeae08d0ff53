--------------------------- MODULE AccountsProofs ---------------------------
(***************************************************************************)
(* Proofs about the members of a workspace (first part), for every set of  *)
(* people, every number of requests at the same time as another and every  *)
(* invitation; about the web app's session (second part), for every number *)
(* of tabs, refreshes, sign-ins and faults; and about the phone's (third   *)
(* part), whose steps interleave at every await.                           *)
(***************************************************************************)
EXTENDS MCSession, FiniteSetTheorems, WellFoundedInduction, TLAPS

-----------------------------------------------------------------------------
(* Ranks and owners. *)

LEMMA Ranks == Rank("none") = 0 /\ Rank("viewer") = 1 /\ Rank("admin") = 2 /\ Rank("owner") = 3
<1>1. Roles[1] = "viewer" /\ Roles[2] = "admin" /\ Roles[3] = "owner"
  BY DEF Roles
<1>2. 0..3 = {0, 1, 2, 3}
  OBVIOUS
<1>3. QED
  BY <1>1, <1>2 DEF Rank

\* "More than one owner" is: another one.
LEMMA AnotherOne ==
    ASSUME NEW S, IsFiniteSet(S), NEW u \in S
    PROVE  Cardinality(S) > 1 <=> \E v \in S : v # u
<1>1. IsFiniteSet(S \ {u}) /\ Cardinality(S \ {u}) = Cardinality(S) - 1 /\ Cardinality(S) \in Nat
  BY FS_RemoveElement, FS_CardinalityType
<1>2. Cardinality(S \ {u}) = 0 <=> S \ {u} = {}
  BY <1>1, FS_EmptySet
<1>3. Cardinality(S \ {u}) \in Nat
  BY <1>1, FS_CardinalityType
<1>4. QED
  BY <1>1, <1>2, <1>3

LEMMA OwnersFinite == IsFiniteSet(Owners)
<1>1. Owners \subseteq Users
  BY DEF Owners
<1>2. QED
  BY <1>1, TeamAssumption, FS_Subset

-----------------------------------------------------------------------------
(* What the pages offer, the API accepts. *)

LEMMA PagesOfferWhatIsAccepted ==
    ASSUME TeamTypeOK
    PROVE  OfferedIsAccepted
<1> SUFFICES ASSUME NEW a \in Users, NEW u \in Users
             PROVE  /\ offersRemove(a, u) =>
                         require_role(a, "remove") /\ remove_member([op |-> "remove", as |-> role[a], user |-> u])
                    /\ \A r \in Granted : offersRole(a, u, r) =>
                         /\ require_role(a, "change")
                         /\ \/ change_role([op |-> "change", as |-> role[a], user |-> u, role |-> r])
                            \/ u = a /\ Owners = {a}
  BY DEF OfferedIsAccepted
<1>1. /\ role[a] \in RoleNames /\ role[u] \in RoleNames
      /\ (role[u] = "owner" <=> u \in Owners) /\ (role[a] = "owner" <=> a \in Owners)
  BY DEF TeamTypeOK, Owners
<1>2. canManage(a) => require_role(a, "remove") /\ require_role(a, "change") /\ role[a] \in {"admin", "owner"}
  BY <1>1, Ranks DEF canManage, require_role, RoleNames
<1>3. u \in Owners => (Cardinality(Owners) > 1 <=> \E v \in Owners : v # u)
  BY OwnersFinite, AnotherOne
<1>4. offersRemove(a, u) => remove_member([op |-> "remove", as |-> role[a], user |-> u])
  BY <1>1, <1>3 DEF offersRemove, ownerLocked, remove_member
<1>5. ASSUME NEW r \in Granted, offersRole(a, u, r)
      PROVE  \/ change_role([op |-> "change", as |-> role[a], user |-> u, role |-> r])
             \/ u = a /\ Owners = {a}
  <2>1. /\ role[u] # "none" /\ (role[u] = "owner" => role[a] = "owner") /\ (r = "owner" => role[a] = "owner")
        /\ role[a] \in {"admin", "owner"}
    BY <1>2, <1>5 DEF offersRole, ownerLocked
  <2>2. assert_can_assign(role[a], r)
    BY <2>1, Ranks DEF assert_can_assign, Granted, RoleNames
  <2>3. u \in Owners => Cardinality(Owners) > 1 \/ (u = a /\ Owners = {a})
    BY <1>1, <1>3, <2>1
  <2>4. QED
    BY <1>1, <2>1, <2>2, <2>3 DEF change_role
<1>6. QED
  BY <1>2, <1>4, <1>5 DEF offersRemove, offersRole

-----------------------------------------------------------------------------
(* Requests begin and check. *)

LEMMA SomeRequest ==
    ASSUME TeamTypeOK, NEW s \in Slots, request[s] # Free
    PROVE  request[s] \in Request /\ request[s].user \in Users /\ request[s].saw \in Saw
<1>1. request[s] \in Request
  BY DEF TeamTypeOK
<1>2. \A q \in Request : q.user \in Users /\ q.saw \in Saw
  BY DEF Request, MemberRequest, InviteRequest, AcceptRequest
<1>3. QED
  BY <1>1, <1>2

\* A step that changes the requests only, and each to one that holds.
LEMMA RequestsKeep ==
    ASSUME TeamInv, NEW s \in Slots, NEW q \in Request \cup {Free}, q # Free => Holds(q),
           request' = [request EXCEPT ![s] = q],
           UNCHANGED <<role, invites, nextLink, dead, stale>>
    PROVE  TeamInv'
<1>1. TeamTypeOK'
  BY DEF TeamInv, TeamTypeOK
<1>2. RequestsHold'
  <2>1. \A r : Holds(r)' <=> Holds(r)
    BY DEF Holds
  <2>2. \A t \in Slots : request'[t] = IF t = s THEN q ELSE request[t]
    BY DEF TeamInv, TeamTypeOK
  <2>3. QED
    BY <2>1, <2>2 DEF TeamInv, RequestsHold
<1>3. LinksHold' /\ OwnerUnlessRaced'
  BY DEF TeamInv, LinksHold, Pending, OwnerUnlessRaced, Owners
<1>4. QED
  BY <1>1, <1>2, <1>3 DEF TeamInv

LEMMA BeginKeeps ==
    ASSUME TeamInv, NEW s \in Slots, NEW a \in Users, NEW u \in Users, NEW r \in Granted,
           NEW op \in {"change", "remove", "leave", "add", "invite"}, Begin(s, op, a, u, r)
    PROVE  TeamInv'
<1> DEFINE q == [op |-> op, by |-> a, as |-> role[a], user |-> u, role |-> r, saw |-> "unread"]
<1>1. request' = [request EXCEPT ![s] = q] /\ UNCHANGED <<role, invites, nextLink, dead, stale>>
  BY DEF Begin, Opens
<1>2. role[a] \in RoleNames
  BY DEF TeamInv, TeamTypeOK
<1>3. q \in Request
  BY <1>2 DEF Request, MemberRequest, Saw
<1>4. op # "leave" => Rank(role[a]) >= 2
  BY DEF Begin, require_role
<1>5. Holds(q)
  BY <1>4 DEF Holds, Begin
<1> HIDE DEF q
<1>6. QED
  BY <1>1, <1>3, <1>5, RequestsKeep

LEMMA BeginInviteKeeps ==
    ASSUME TeamInv, NEW s \in Slots, NEW a \in Users, NEW op \in {"resend", "cancel"}, NEW i \in DOMAIN invites,
           BeginInvite(s, op, a, i)
    PROVE  TeamInv'
<1> DEFINE q == [op |-> op, by |-> a, as |-> role[a], user |-> a, invite |-> i, saw |-> "unread"]
<1>1. request' = [request EXCEPT ![s] = q] /\ UNCHANGED <<role, invites, nextLink, dead, stale>>
  BY DEF BeginInvite, Opens
<1>2. role[a] \in RoleNames /\ i \in Nat
  BY DEF TeamInv, TeamTypeOK
<1>3. q \in Request
  BY <1>2 DEF Request, InviteRequest, Saw
<1>4. Holds(q)
  BY DEF Holds, BeginInvite, require_role
<1> HIDE DEF q
<1>5. QED
  BY <1>1, <1>3, <1>4, RequestsKeep

LEMMA BeginAcceptKeeps ==
    ASSUME TeamInv, NEW s \in Slots, NEW i \in DOMAIN invites, NEW link \in 1..(nextLink - 1), BeginAccept(s, i, link)
    PROVE  TeamInv'
<1> DEFINE v == invites[i]
           q == [op |-> "accept", by |-> v.user, as |-> role[v.user], user |-> v.user, role |-> v.role,
                 invite |-> i, link |-> link, saw |-> "unread"]
<1>1. request' = [request EXCEPT ![s] = q] /\ UNCHANGED <<role, invites, nextLink, dead, stale>>
  BY DEF BeginAccept, Opens
<1>2. /\ v \in Invitation /\ i \in Nat /\ link \in Nat
      /\ v.user \in Users => role[v.user] \in RoleNames
  BY DEF TeamInv, TeamTypeOK
<1>3. v.user \in Users /\ v.role \in Granted
  BY <1>2 DEF Invitation
<1>4. q \in Request
  BY <1>2, <1>3 DEF Request, AcceptRequest, Saw
<1>5. Holds(q)
  BY DEF Holds
<1> HIDE DEF q
<1>6. QED
  BY <1>1, <1>4, <1>5, RequestsKeep

LEMMA CheckKeeps ==
    ASSUME TeamInv, NEW s \in Slots, Check(s)
    PROVE  TeamInv'
<1> DEFINE q == request[s]
           seen == [q EXCEPT !.saw = role[q.user]]
<1>1. /\ request' = [request EXCEPT ![s] = IF Passes(q) THEN seen ELSE Free]
      /\ UNCHANGED <<role, invites, nextLink, dead, stale>> /\ q # Free
  BY DEF Check
<1>2. q \in Request /\ role[q.user] \in Saw /\ Holds(q)
  BY <1>1, SomeRequest DEF TeamInv, TeamTypeOK, RequestsHold, Saw
<1>3. /\ seen \in Request /\ seen.op = q.op /\ seen.as = q.as /\ seen.by = q.by /\ seen.user = q.user
      /\ q.op = "invite" => seen.role = q.role
      /\ q.op \in {"resend", "cancel", "accept"} => seen.invite = q.invite
      /\ q.op = "accept" => seen.role = q.role
  <2>1. CASE q \in MemberRequest
    BY <1>2, <2>1 DEF Request, MemberRequest
  <2>2. CASE q \in InviteRequest
    BY <1>2, <2>2 DEF Request, InviteRequest
  <2>3. CASE q \in AcceptRequest
    BY <1>2, <2>3 DEF Request, AcceptRequest
  <2>4. QED
    BY <1>2, <2>1, <2>2, <2>3 DEF Request
<1>4. Passes(q) /\ q.op = "invite" => assert_can_assign(q.as, q.role)
  BY DEF Passes, create_invitation
<1> HIDE DEF q, seen
<1>5. Passes(q) => Holds(seen)
  BY <1>2, <1>3, <1>4 DEF Holds
<1>6. QED
  BY <1>1, <1>3, <1>5, RequestsKeep

-----------------------------------------------------------------------------
(* Requests commit. *)

\* What a commit writes to the invitations, one by one.
LEMMA InvitesWritten ==
    ASSUME TeamTypeOK, NEW q \in Request, q.op \in {"resend", "cancel", "accept"} => q.invite \in DOMAIN invites
    PROVE  LET after == InvitesAfter(q) IN
           /\ after \in Seq(Invitation) /\ DOMAIN invites \subseteq DOMAIN after
           /\ q.op # "invite" => DOMAIN after = DOMAIN invites
           /\ q.op = "invite" =>
                /\ DOMAIN after = DOMAIN invites \cup {Len(invites) + 1}
                /\ Len(invites) + 1 \notin DOMAIN invites
                /\ after[Len(invites) + 1] =
                     [user |-> q.user, role |-> q.role, granted |-> Rank(q.as), link |-> nextLink, fresh |-> TRUE,
                      accepted |-> FALSE, revoked |-> FALSE]
           /\ \A i \in DOMAIN invites :
                /\ q.op \notin {"resend", "cancel", "accept"} \/ i # q.invite => after[i] = invites[i]
                /\ after[i].user = invites[i].user /\ after[i].role = invites[i].role
                /\ after[i].granted = invites[i].granted
                /\ q.op = "resend" /\ i = q.invite => /\ after[i].link = nextLink
                                                    /\ after[i].accepted = invites[i].accepted
                                                    /\ after[i].revoked = invites[i].revoked
                /\ q.op = "cancel" /\ i = q.invite => /\ after[i].link = invites[i].link
                                                    /\ after[i].accepted = invites[i].accepted
                                                    /\ after[i].revoked
                /\ q.op = "accept" /\ i = q.invite => /\ after[i].link = invites[i].link
                                                    /\ after[i].accepted
<1> DEFINE after == InvitesAfter(q)
           v == [user |-> q.user, role |-> q.role, granted |-> Rank(q.as), link |-> nextLink, fresh |-> TRUE,
                 accepted |-> FALSE, revoked |-> FALSE]
<1>1. /\ invites \in Seq(Invitation) /\ nextLink \in Nat
      /\ DOMAIN invites = 1..Len(invites) /\ Len(invites) \in Nat
      /\ \A i \in DOMAIN invites : invites[i] \in Invitation
  BY DEF TeamTypeOK
<1>2. CASE q.op = "invite"
  <2>1. after = Append(invites, v)
    BY <1>2 DEF InvitesAfter
  <2>2. v \in Invitation
    <3>1. q \in MemberRequest
      BY <1>2 DEF Request, InviteRequest, AcceptRequest
    <3>2. q.user \in Users /\ q.role \in Granted /\ q.as \in RoleNames
      BY <3>1 DEF MemberRequest
    <3>3. Rank(q.as) \in 0..3
      BY <3>2, Ranks DEF RoleNames
    <3>4. QED
      BY <1>1, <3>2, <3>3 DEF Invitation
  <2> HIDE DEF v
  <2>3. /\ after \in Seq(Invitation) /\ DOMAIN after = DOMAIN invites \cup {Len(invites) + 1}
        /\ Len(invites) + 1 \notin DOMAIN invites /\ after[Len(invites) + 1] = v
        /\ \A i \in DOMAIN invites : after[i] = invites[i]
    BY <1>1, <2>1, <2>2
  <2>4. QED
    BY <1>2, <2>3 DEF v
<1>3. CASE q.op \in {"resend", "cancel", "accept"}
  <2> DEFINE w == CASE q.op = "resend" -> renew_invitation(invites[q.invite])
                    [] q.op = "cancel" -> [invites[q.invite] EXCEPT !.revoked = TRUE]
                    [] q.op = "accept" -> [invites[q.invite] EXCEPT !.accepted = TRUE]
  <2>1. after = [invites EXCEPT ![q.invite] = w]
    BY <1>3 DEF InvitesAfter
  <2>2. /\ w \in Invitation
        /\ w.user = invites[q.invite].user /\ w.role = invites[q.invite].role
        /\ w.granted = invites[q.invite].granted
        /\ q.op = "resend" => /\ w.link = nextLink
                              /\ w.accepted = invites[q.invite].accepted
                              /\ w.revoked = invites[q.invite].revoked
        /\ q.op = "cancel" => /\ w.link = invites[q.invite].link
                              /\ w.accepted = invites[q.invite].accepted /\ w.revoked
        /\ q.op = "accept" => w.link = invites[q.invite].link /\ w.accepted
    <3>1. invites[q.invite] \in Invitation
      BY <1>1, <1>3
    <3>2. CASE q.op = "resend"
      BY <1>1, <3>1, <3>2 DEF renew_invitation, Invitation
    <3>3. CASE q.op = "cancel"
      BY <3>1, <3>3 DEF Invitation
    <3>4. CASE q.op = "accept"
      BY <3>1, <3>4 DEF Invitation
    <3>5. QED
      BY <1>3, <3>2, <3>3, <3>4
  <2> HIDE DEF w
  <2>3. /\ after \in Seq(Invitation) /\ DOMAIN after = DOMAIN invites /\ after[q.invite] = w
        /\ \A i \in DOMAIN invites : i # q.invite => after[i] = invites[i]
    BY <1>1, <1>3, <2>1, <2>2
  <2>4. QED
    BY <1>3, <2>2, <2>3
<1>4. CASE q.op \notin {"invite", "resend", "cancel", "accept"}
  <2>1. after = invites
    BY <1>4 DEF InvitesAfter
  <2>2. QED
    BY <1>1, <1>4, <2>1
<1>5. QED
  BY <1>2, <1>3, <1>4

\* What a commit whose reads still hold does to the roles.
LEMMA RolesWritten ==
    ASSUME TeamTypeOK, NEW q \in Request
    PROVE  /\ RoleAfter(q) \in [Users -> RoleNames]
           /\ \A u \in Users : u # q.user => RoleAfter(q)[u] = role[u]
           /\ RoleAfter(q)[q.user] # role[q.user] =>
                \/ q.op = "change" /\ q.role # q.saw /\ RoleAfter(q)[q.user] = q.role
                \/ q.op \in {"remove", "leave"} /\ RoleAfter(q)[q.user] = "none"
                \/ q.op \in {"add", "accept"} /\ q.saw = "none" /\ RoleAfter(q)[q.user] = q.role
<1>1. role \in [Users -> RoleNames] /\ q.user \in Users /\ "none" \in RoleNames
  BY DEF TeamTypeOK, Request, MemberRequest, InviteRequest, AcceptRequest, RoleNames
<1>2. q.op \in {"change", "add", "accept"} => q.role \in RoleNames
  BY DEF Request, MemberRequest, InviteRequest, AcceptRequest, Granted
<1>3. CASE q.op = "change" /\ q.role # q.saw
  BY <1>1, <1>2, <1>3 DEF RoleAfter
<1>4. CASE q.op \in {"remove", "leave"}
  BY <1>1, <1>4 DEF RoleAfter
<1>5. CASE q.op \in {"add", "accept"} /\ q.saw = "none"
  BY <1>1, <1>2, <1>5 DEF RoleAfter
<1>6. CASE RoleAfter(q) = role
  BY <1>1, <1>6
<1>7. QED
  BY <1>3, <1>4, <1>5, <1>6 DEF RoleAfter

\* What a commit is.
LEMMA Commits ==
    ASSUME TeamInv, NEW s \in Slots, Commit(s)
    PROVE  LET q == request[s] IN
           /\ q \in Request /\ q # Free /\ q.saw # "unread" /\ Holds(q) /\ q.user \in Users
           /\ request' = [request EXCEPT ![s] = Free]
           /\ \/ UNCHANGED <<role, invites, nextLink, dead, stale>>
              \/ /\ role' = RoleAfter(q) /\ invites' = InvitesAfter(q)
                 /\ nextLink' = IF q.op \in {"invite", "resend"} THEN nextLink + 1 ELSE nextLink
                 /\ dead' = IF q.op \in {"resend", "cancel", "accept"} THEN dead \cup {invites[q.invite].link} ELSE dead
                 /\ stale' = (stale \/ Outdated(q))
<1>1. request[s] # Free /\ request[s].saw # "unread"
  BY DEF Commit
<1>2. request[s] \in Request /\ request[s].user \in Users /\ Holds(request[s])
  BY <1>1, SomeRequest DEF TeamInv, RequestsHold
<1>3. QED
  BY <1>1, <1>2 DEF Commit

\* A commit on reads that still hold takes the last owner from nobody.
LEMMA OwnerKept ==
    ASSUME TeamInv, NEW s \in Slots, Commit(s), ~stale', role' = RoleAfter(request[s]),
           stale' = (stale \/ Outdated(request[s]))
    PROVE  Owners' # {}
<1> DEFINE q == request[s]
<1>1. q \in Request /\ q.user \in Users
  BY Commits
<1>2. ~stale /\ Passes(q) /\ role[q.user] = q.saw
  BY DEF Outdated
<1>3. Owners # {} /\ Owners \subseteq Users
  BY <1>2 DEF TeamInv, OwnerUnlessRaced, Owners
<1> HIDE DEF q
<1>4. /\ \A u \in Users : u # q.user => role'[u] = role[u]
      /\ role'[q.user] # role[q.user] =>
           \/ q.op = "change" /\ q.role # q.saw
           \/ q.op \in {"remove", "leave"}
           \/ q.op \in {"add", "accept"} /\ q.saw = "none"
  BY <1>1, RolesWritten DEF TeamInv, q
<1>5. CASE role'[q.user] = role[q.user]
  BY <1>3, <1>4, <1>5 DEF Owners
<1>6. CASE role'[q.user] # role[q.user] /\ role[q.user] # "owner"
  BY <1>3, <1>4, <1>6 DEF Owners
<1>7. CASE role'[q.user] # role[q.user] /\ role[q.user] = "owner"
  <2>1. q.user \in Owners
    BY <1>1, <1>7 DEF Owners
  <2>2. Cardinality(Owners) > 1
    <3>1. CASE q.op = "change"
      BY <1>2, <1>4, <1>7, <3>1 DEF Passes, change_role
    <3>2. CASE q.op \in {"remove", "leave"}
      BY <1>2, <1>7, <3>2 DEF Passes, remove_member
    <3>3. QED
      BY <1>2, <1>4, <1>7, <3>1, <3>2
  <2>3. PICK v \in Owners : v # q.user
    BY <2>1, <2>2, OwnersFinite, AnotherOne
  <2>4. QED
    BY <1>3, <1>4, <2>3 DEF Owners
<1>8. QED
  BY <1>5, <1>6, <1>7

LEMMA CommitKeeps ==
    ASSUME TeamInv, NEW s \in Slots, Commit(s)
    PROVE  TeamInv'
<1> DEFINE q == request[s]
           after == InvitesAfter(q)
<1>0. /\ TeamTypeOK /\ q \in Request /\ Holds(q) /\ q.user \in Users
      /\ request' = [request EXCEPT ![s] = Free]
      /\ \/ UNCHANGED <<role, invites, nextLink, dead, stale>>
         \/ /\ role' = RoleAfter(q) /\ invites' = after
            /\ nextLink' = IF q.op \in {"invite", "resend"} THEN nextLink + 1 ELSE nextLink
            /\ dead' = IF q.op \in {"resend", "cancel", "accept"} THEN dead \cup {invites[q.invite].link} ELSE dead
            /\ stale' = (stale \/ Outdated(q))
  BY Commits DEF TeamInv
<1>1. CASE UNCHANGED <<role, invites, nextLink, dead, stale>>
  BY <1>0, <1>1, RequestsKeep
<1>2. CASE /\ role' = RoleAfter(q) /\ invites' = after
           /\ nextLink' = IF q.op \in {"invite", "resend"} THEN nextLink + 1 ELSE nextLink
           /\ dead' = IF q.op \in {"resend", "cancel", "accept"} THEN dead \cup {invites[q.invite].link} ELSE dead
           /\ stale' = (stale \/ Outdated(q))
  <2>1. q.op \in {"resend", "cancel", "accept"} => q.invite \in DOMAIN invites
    BY <1>0 DEF Holds
  <2>2. /\ after \in Seq(Invitation) /\ DOMAIN invites \subseteq DOMAIN after
        /\ q.op # "invite" => DOMAIN after = DOMAIN invites
        /\ q.op = "invite" =>
             /\ DOMAIN after = DOMAIN invites \cup {Len(invites) + 1}
             /\ Len(invites) + 1 \notin DOMAIN invites
             /\ after[Len(invites) + 1] =
                  [user |-> q.user, role |-> q.role, granted |-> Rank(q.as), link |-> nextLink, fresh |-> TRUE,
                   accepted |-> FALSE, revoked |-> FALSE]
        /\ \A i \in DOMAIN invites :
             /\ q.op \notin {"resend", "cancel", "accept"} \/ i # q.invite => after[i] = invites[i]
             /\ after[i].user = invites[i].user /\ after[i].role = invites[i].role
             /\ after[i].granted = invites[i].granted
             /\ q.op = "resend" /\ i = q.invite => /\ after[i].link = nextLink
                                                 /\ after[i].accepted = invites[i].accepted
                                                 /\ after[i].revoked = invites[i].revoked
             /\ q.op = "cancel" /\ i = q.invite => /\ after[i].link = invites[i].link
                                                 /\ after[i].accepted = invites[i].accepted
                                                 /\ after[i].revoked
             /\ q.op = "accept" /\ i = q.invite => /\ after[i].link = invites[i].link
                                                 /\ after[i].accepted
    BY <1>0, <2>1, InvitesWritten
  <2>3. RoleAfter(q) \in [Users -> RoleNames]
    BY <1>0, RolesWritten
  <2> HIDE DEF q, after
  <2>4. TeamTypeOK'
    <3>1. stale' \in BOOLEAN
      BY <1>0, <1>2, Zenon DEF TeamTypeOK
    <3>2. QED
      BY <1>0, <1>2, <2>2, <2>3, <3>1 DEF TeamTypeOK
  <2>5. RequestsHold'
    <3>1. /\ DOMAIN invites \subseteq DOMAIN invites'
          /\ \A i \in DOMAIN invites : invites'[i].user = invites[i].user /\ invites'[i].role = invites[i].role
      BY <1>2, <2>2
    <3>2. ASSUME NEW r, Holds(r) PROVE Holds(r)'
      <4>1. r.op \in {"resend", "cancel", "accept"} => r.invite \in DOMAIN invites'
        BY <3>1, <3>2 DEF Holds
      <4>2. r.op = "accept" => r.user = invites'[r.invite].user /\ r.role = invites'[r.invite].role
        BY <3>1, <3>2 DEF Holds
      <4>3. QED
        BY <3>2, <4>1, <4>2 DEF Holds
    <3>3. \A t \in Slots : request'[t] = IF t = s THEN Free ELSE request[t]
      BY <1>0 DEF TeamTypeOK
    <3>4. QED
      BY <3>2, <3>3 DEF TeamInv, RequestsHold
  <2>6. LinksHold'
    <3>0. /\ nextLink \in Nat \ {0} /\ dead \subseteq 1..(nextLink - 1)
          /\ \A i \in DOMAIN invites :
               /\ invites[i].link \in 1..(nextLink - 1) /\ Rank(invites[i].role) <= invites[i].granted
               /\ ~invites[i].accepted /\ ~invites[i].revoked => invites[i].link \notin dead
          /\ \A i, j \in DOMAIN invites : invites[i].link = invites[j].link => i = j
      BY <1>0 DEF TeamInv, TeamTypeOK, LinksHold, Pending
    <3>1. CASE q.op = "invite"
      <4> DEFINE n == Len(invites) + 1
      <4>1. /\ DOMAIN after = DOMAIN invites \cup {n} /\ n \notin DOMAIN invites
            /\ after[n].link = nextLink /\ after[n].role = q.role /\ after[n].granted = Rank(q.as)
            /\ \A i \in DOMAIN invites : after[i] = invites[i]
            /\ nextLink' = nextLink + 1 /\ dead' = dead
        BY <1>2, <2>2, <3>1
      <4>2. Rank(q.role) <= Rank(q.as)
        <5>1. q.saw # "unread"
          BY Commits DEF q
        <5>2. QED
          BY <1>0, <3>1, <5>1 DEF Holds, assert_can_assign
      <4> HIDE DEF n
      <4>3. dead' \subseteq 1..(nextLink' - 1)
        BY <3>0, <4>1
      <4>4. ASSUME NEW i \in DOMAIN after
            PROVE  /\ after[i].link \in 1..(nextLink' - 1) /\ Rank(after[i].role) <= after[i].granted
                   /\ ~after[i].accepted /\ ~after[i].revoked => after[i].link \notin dead'
        BY <3>0, <4>1, <4>2, <4>4
      <4>5. ASSUME NEW i \in DOMAIN after, NEW j \in DOMAIN after, after[i].link = after[j].link PROVE i = j
        BY <3>0, <4>1, <4>5
      <4>6. QED
        BY <1>2, <4>3, <4>4, <4>5 DEF LinksHold, Pending
    <3>2. CASE q.op = "resend"
      <4>1. /\ DOMAIN after = DOMAIN invites /\ q.invite \in DOMAIN invites
            /\ after[q.invite].link = nextLink
            /\ \A i \in DOMAIN invites : i # q.invite => after[i] = invites[i]
            /\ \A i \in DOMAIN invites : after[i].role = invites[i].role /\ after[i].granted = invites[i].granted
            /\ nextLink' = nextLink + 1 /\ dead' = dead \cup {invites[q.invite].link}
        BY <1>2, <2>1, <2>2, <3>2
      <4>2. dead' \subseteq 1..(nextLink' - 1)
        <5>1. invites[q.invite].link \in 1..(nextLink - 1)
          BY <3>0, <4>1
        <5>2. nextLink' - 1 = nextLink
          BY <3>0, <4>1
        <5>3. 1..(nextLink - 1) \subseteq 1..nextLink
          BY <3>0
        <5>4. QED
          BY ZenonT(60), <3>0, <4>1, <5>1, <5>2, <5>3
      <4>3. ASSUME NEW i \in DOMAIN after
            PROVE  /\ after[i].link \in 1..(nextLink' - 1) /\ Rank(after[i].role) <= after[i].granted
                   /\ ~after[i].accepted /\ ~after[i].revoked => after[i].link \notin dead'
        BY <3>0, <4>1, <4>3
      <4>4. ASSUME NEW i \in DOMAIN after, NEW j \in DOMAIN after, after[i].link = after[j].link PROVE i = j
        BY <3>0, <4>1, <4>4
      <4>5. QED
        BY <1>2, <4>2, <4>3, <4>4 DEF LinksHold, Pending
    <3>3. CASE q.op \in {"cancel", "accept"}
      <4>1. /\ DOMAIN after = DOMAIN invites /\ q.invite \in DOMAIN invites
            /\ after[q.invite].accepted \/ after[q.invite].revoked
            /\ \A i \in DOMAIN invites : i # q.invite => after[i] = invites[i]
            /\ \A i \in DOMAIN invites : /\ after[i].role = invites[i].role /\ after[i].granted = invites[i].granted
                                         /\ after[i].link = invites[i].link
            /\ nextLink' = nextLink /\ dead' = dead \cup {invites[q.invite].link}
        BY <1>2, <2>1, <2>2, <3>3
      <4>2. dead' \subseteq 1..(nextLink' - 1)
        <5>1. invites[q.invite].link \in 1..(nextLink - 1) /\ dead \subseteq 1..(nextLink - 1)
          BY <3>0, <4>1
        <5>2. QED
          BY <4>1, <5>1
      <4>3. ASSUME NEW i \in DOMAIN after
            PROVE  /\ after[i].link \in 1..(nextLink' - 1) /\ Rank(after[i].role) <= after[i].granted
                   /\ ~after[i].accepted /\ ~after[i].revoked => after[i].link \notin dead'
        <5>1. after[i].link \in 1..(nextLink' - 1) /\ Rank(after[i].role) <= after[i].granted
          BY <3>0, <4>1, <4>3
        <5>2. ~after[i].accepted /\ ~after[i].revoked => after[i].link \notin dead'
          <6>1. CASE i = q.invite
            BY <4>1, <6>1
          <6>2. CASE i # q.invite
            BY <3>0, <4>1, <4>3, <6>2
          <6>3. QED
            BY <6>1, <6>2
        <5>3. QED
          BY <5>1, <5>2
      <4>4. \A i, j \in DOMAIN after : after[i].link = after[j].link => i = j
        BY <3>0, <4>1
      <4>5. QED
        BY <1>2, <4>2, <4>3, <4>4 DEF LinksHold, Pending
    <3>4. CASE q.op \notin {"invite", "resend", "cancel", "accept"}
      <4>1. /\ DOMAIN after = DOMAIN invites /\ \A i \in DOMAIN invites : after[i] = invites[i]
            /\ nextLink' = nextLink /\ dead' = dead
        BY <1>2, <2>2, <3>4
      <4>2. QED
        BY ZenonT(60), <1>2, <3>0, <4>1 DEF LinksHold, Pending
    <3>5. QED
      BY <3>1, <3>2, <3>3, <3>4
  <2>7. OwnerUnlessRaced'
    <3>1. ~stale' => Owners' # {}
      BY <1>2, OwnerKept DEF q
    <3>2. QED
      BY <3>1 DEF OwnerUnlessRaced
  <2>8. QED
    BY <2>4, <2>5, <2>6, <2>7 DEF TeamInv
<1>3. QED
  BY <1>0, <1>1, <1>2

\* An invitation grows old.
LEMMA LapseKeeps ==
    ASSUME TeamInv, NEW i \in DOMAIN invites, Lapse(i)
    PROVE  TeamInv'
<1>1. /\ invites' = [invites EXCEPT ![i].fresh = FALSE]
      /\ UNCHANGED <<role, request, nextLink, dead, stale>>
      /\ TeamTypeOK
  BY DEF Lapse, TeamInv
<1>2. /\ invites' \in Seq(Invitation) /\ DOMAIN invites' = DOMAIN invites
      /\ \A j \in DOMAIN invites : /\ invites'[j].user = invites[j].user /\ invites'[j].role = invites[j].role
                                   /\ invites'[j].granted = invites[j].granted /\ invites'[j].link = invites[j].link
                                   /\ invites'[j].accepted = invites[j].accepted
                                   /\ invites'[j].revoked = invites[j].revoked
  <2>1. invites \in Seq(Invitation) /\ invites[i] \in Invitation
    BY <1>1 DEF TeamTypeOK
  <2>2. [invites[i] EXCEPT !.fresh = FALSE] \in Invitation
    BY <2>1 DEF Invitation
  <2>3. DOMAIN invites' = DOMAIN invites /\ invites' \in Seq(Invitation)
    BY <1>1, <2>1, <2>2
  <2>4. ASSUME NEW j \in DOMAIN invites
        PROVE  /\ invites'[j].user = invites[j].user /\ invites'[j].role = invites[j].role
               /\ invites'[j].granted = invites[j].granted /\ invites'[j].link = invites[j].link
               /\ invites'[j].accepted = invites[j].accepted /\ invites'[j].revoked = invites[j].revoked
    BY <1>1, <2>1 DEF Invitation
  <2>5. QED
    BY <2>3, <2>4
<1>3. TeamTypeOK'
  BY <1>1, <1>2 DEF TeamTypeOK
<1>4. RequestsHold'
  BY <1>1, <1>2 DEF TeamInv, RequestsHold, Holds
<1>5. LinksHold'
  BY <1>1, <1>2 DEF TeamInv, LinksHold, Pending
<1>6. OwnerUnlessRaced'
  BY <1>1 DEF TeamInv, OwnerUnlessRaced, Owners
<1>7. QED
  BY <1>3, <1>4, <1>5, <1>6 DEF TeamInv

LEMMA TeamNextKeeps == TeamInv /\ [TeamNext]_teamVars => TeamInv'
<1> SUFFICES ASSUME TeamInv, [TeamNext]_teamVars PROVE TeamInv'
  OBVIOUS
<1>1. CASE UNCHANGED teamVars
  BY <1>1 DEF teamVars, TeamInv, TeamTypeOK, RequestsHold, Holds, LinksHold, Pending, OwnerUnlessRaced, Owners
<1>2. QED
  BY <1>1, BeginKeeps, BeginInviteKeeps, BeginAcceptKeeps, CheckKeeps, CommitKeeps, LapseKeeps DEF TeamNext

LEMMA TeamInitHas == TeamInit => TeamInv
<1> SUFFICES ASSUME TeamInit PROVE TeamInv
  OBVIOUS
<1>1. /\ role \in [Users -> RoleNames] /\ (\E u \in Users : role[u] = "owner")
      /\ invites = << >> /\ request = [s \in Slots |-> Free] /\ nextLink = 1 /\ dead = {} /\ stale = FALSE
  BY TeamAssumption DEF TeamInit
<1>2. DOMAIN << >> = {} /\ \A S : << >> \in Seq(S)
  OBVIOUS
<1>3. invites \in Seq(Invitation)
  BY <1>1, <1>2, Zenon
<1>4. TeamTypeOK
  <2>1. request \in [Slots -> Request \cup {Free}]
    BY <1>1
  <2>2. nextLink \in Nat \ {0}
    BY <1>1
  <2>3. stale \in BOOLEAN
    BY <1>1, Zenon
  <2>4. QED
    BY <1>1, <1>3, <2>1, <2>2, <2>3, Zenon DEF TeamTypeOK
<1>5. RequestsHold
  BY <1>1 DEF RequestsHold
<1>6. LinksHold
  <2>1. DOMAIN invites = {}
    BY <1>1, <1>2
  <2>2. QED
    BY <1>1, <2>1 DEF LinksHold
<1>7. OwnerUnlessRaced
  BY <1>1 DEF OwnerUnlessRaced, Owners
<1>8. QED
  BY <1>4, <1>5, <1>6, <1>7 DEF TeamInv

\* Types; what a request knows from its checks; every link was sent once, and a
\* link that opens an invitation is not dead; and an owner remains unless raced.
THEOREM TeamInvariant == TeamSpec => []TeamInv
BY TeamInitHas, TeamNextKeeps, PTL DEF TeamSpec

\* LastOwnerError: a workspace keeps an owner unless two requests checked and
\* wrote across each other; and what the pages offer, the API accepts, but for
\* the last owner's own role.
THEOREM TeamSafeTheorem == TeamSpec => []TeamSafe
<1>1. TeamInv => TeamSafe
  BY PagesOfferWhatIsAccepted DEF TeamInv, TeamSafe
<1>2. QED
  BY <1>1, TeamInvariant, PTL

-----------------------------------------------------------------------------
(* What one step may do to a link and to a role. *)

\* A commit on reads that still hold.
LEMMA OnTime ==
    ASSUME TeamInv, NEW s \in Slots, Commit(s), ~stale', role' # role \/ invites' # invites
    PROVE  LET q == request[s] IN
           /\ q \in Request /\ q # Free /\ q.user \in Users /\ Holds(q) /\ request'[s] = Free
           /\ role' = RoleAfter(q) /\ invites' = InvitesAfter(q)
           /\ q.op # "accept" => role[q.by] = q.as
           /\ role[q.user] = q.saw /\ Passes(q)
           /\ q.op = "accept" => lookup_invitation(q.invite, q.link)
<1> DEFINE q == request[s]
<1>1. /\ q \in Request /\ q # Free /\ q.user \in Users /\ Holds(q)
      /\ request' = [request EXCEPT ![s] = Free]
      /\ role' = RoleAfter(q) /\ invites' = InvitesAfter(q) /\ stale' = (stale \/ Outdated(q))
  BY Commits
<1>2. request'[s] = Free
  BY <1>1 DEF TeamInv, TeamTypeOK
<1>3. ~Outdated(q)
  BY <1>1
<1>4. QED
  BY <1>1, <1>2, <1>3 DEF Outdated

LEMMA CommitUsesALink ==
    ASSUME TeamInv, NEW s \in Slots, Commit(s)
    PROVE  OldLinksStep
<1> SUFFICES ASSUME NEW i \in DOMAIN invites, invites'[i].accepted, ~invites[i].accepted, ~stale'
             PROVE  /\ invites[i].link \notin dead /\ invites[i].link \in 1..(nextLink - 1)
                    /\ request[s] # Free /\ request[s].op = "accept" /\ request[s].link = invites[i].link
  BY DEF OldLinksStep
<1> DEFINE q == request[s]
<1>1. /\ q \in Request /\ q # Free /\ Holds(q) /\ invites' = InvitesAfter(q)
      /\ q.op = "accept" => lookup_invitation(q.invite, q.link)
  BY OnTime
<1> HIDE DEF q
<1>2. q.op \in {"resend", "cancel", "accept"} => q.invite \in DOMAIN invites
  BY <1>1 DEF Holds
<1>3. q.op = "accept" /\ i = q.invite
  <2>1. i # q.invite \/ q.op \notin {"resend", "cancel", "accept"} => invites'[i] = invites[i]
    BY <1>1, <1>2, InvitesWritten DEF TeamInv
  <2>2. i = q.invite /\ q.op \in {"resend", "cancel"} => invites'[i].accepted = invites[i].accepted
    BY <1>1, <1>2, InvitesWritten DEF TeamInv
  <2>3. QED
    BY <2>1, <2>2
<1>4. invites[i].link = q.link /\ Pending(i)
  BY <1>1, <1>3 DEF lookup_invitation
<1>5. QED
  BY <1>1, <1>3, <1>4 DEF TeamInv, LinksHold, q

LEMMA CommitMovesByRank ==
    ASSUME TeamInv, NEW s \in Slots, Commit(s)
    PROVE  RolesStep
<1> DEFINE q == request[s]
<1> SUFFICES ASSUME NEW u \in Users, role'[u] # role[u], ~stale'
             PROVE  /\ q # Free /\ request'[s] = Free /\ q.user = u
                    /\ IF q.op = "accept" THEN invites[q.invite].granted >= Rank(role'[u])
                       ELSE Rank(role[q.by]) >= Rank(role'[u]) /\ Rank(role[q.by]) >= Rank(role[u])
  BY DEF RolesStep
<1>1. /\ q \in Request /\ q # Free /\ q.user \in Users /\ Holds(q) /\ request'[s] = Free
      /\ role' = RoleAfter(q)
      /\ q.op # "accept" => role[q.by] = q.as
      /\ role[q.user] = q.saw /\ Passes(q)
      /\ q.op = "accept" => lookup_invitation(q.invite, q.link)
  BY OnTime
<1> HIDE DEF q
<1>2. /\ u = q.user
      /\ \/ q.op = "change" /\ role'[u] = q.role
         \/ q.op \in {"remove", "leave"} /\ role'[u] = "none"
         \/ q.op \in {"add", "accept"} /\ role[u] = "none" /\ role'[u] = q.role
  BY <1>1, RolesWritten DEF TeamInv
<1>3. role[u] \in RoleNames /\ (q.op # "accept" => q.as \in RoleNames)
  <2>1. q.as \in RoleNames
    BY <1>1 DEF Request, MemberRequest, InviteRequest, AcceptRequest
  <2>2. QED
    BY <2>1 DEF TeamInv, TeamTypeOK
<1>4. CASE q.op = "accept"
  <2>1. q.role = invites[q.invite].role /\ q.invite \in DOMAIN invites
    BY <1>1, <1>4 DEF Holds
  <2>2. Rank(q.role) <= invites[q.invite].granted
    BY <2>1 DEF TeamInv, LinksHold
  <2>3. Rank(q.role) \in 0..3 /\ invites[q.invite].granted \in 0..3
    <3>1. invites[q.invite] \in Invitation
      BY <2>1 DEF TeamInv, TeamTypeOK
    <3>2. invites[q.invite].role \in Granted /\ invites[q.invite].granted \in 0..3
      BY <3>1 DEF Invitation
    <3>3. QED
      BY <2>1, <3>2, Ranks DEF Granted, RoleNames
  <2>4. QED
    BY <1>1, <1>2, <1>4, <2>2, <2>3
<1>5. CASE q.op = "leave"
  <2>1. q.by = u /\ role'[u] = "none"
    BY <1>1, <1>2, <1>5 DEF Holds
  <2>2. QED
    BY <1>1, <1>2, <1>3, <1>5, <2>1, Ranks DEF RoleNames
<1>6. CASE q.op = "remove"
  <2>1. role[u] = "owner" => q.as = "owner"
    BY <1>1, <1>2, <1>6 DEF Passes, remove_member
  <2>2. Rank(q.as) >= 2 /\ role'[u] = "none"
    BY <1>1, <1>2, <1>6 DEF Holds
  <2>3. QED
    BY <1>1, <1>2, <1>3, <1>6, <2>1, <2>2, Ranks DEF RoleNames
<1>7. CASE q.op = "change"
  <2>1. (role[u] = "owner" => q.as = "owner") /\ Rank(role'[u]) <= Rank(q.as)
    BY <1>1, <1>2, <1>7 DEF Passes, change_role, assert_can_assign
  <2>2. Rank(q.as) >= 2
    BY <1>1, <1>7 DEF Holds
  <2>3. role'[u] \in RoleNames
    BY <1>1, RolesWritten DEF TeamInv
  <2>4. QED
    BY <1>1, <1>2, <1>3, <1>7, <2>1, <2>2, <2>3, Ranks DEF RoleNames
<1>8. CASE q.op = "add"
  <2>1. Rank(role'[u]) <= Rank(q.as) /\ role[u] = "none"
    BY <1>1, <1>2, <1>8 DEF Passes, add_member, assert_can_assign
  <2>2. role'[u] \in RoleNames
    BY <1>1, RolesWritten DEF TeamInv
  <2>3. QED
    BY <1>1, <1>2, <1>3, <1>8, <2>1, <2>2, Ranks DEF RoleNames
<1>9. QED
  BY <1>2, <1>4, <1>5, <1>6, <1>7, <1>8

LEMMA TeamNextSteps == TeamInv /\ [TeamNext]_teamVars => [OldLinksStep /\ RolesStep]_teamVars
<1> SUFFICES ASSUME TeamInv, TeamNext PROVE OldLinksStep /\ RolesStep
  OBVIOUS
<1>1. CASE UNCHANGED <<role, invites>>
  BY <1>1 DEF OldLinksStep, RolesStep
<1>2. ASSUME NEW i \in DOMAIN invites, Lapse(i) PROVE OldLinksStep /\ RolesStep
  <2>1. role' = role /\ invites' = [invites EXCEPT ![i].fresh = FALSE]
    BY <1>2 DEF Lapse
  <2>2. invites \in Seq(Invitation)
    BY DEF TeamInv, TeamTypeOK
  <2>3. \A j \in DOMAIN invites : invites'[j].accepted = invites[j].accepted
    BY <2>1, <2>2 DEF Invitation
  <2>4. QED
    BY <2>1, <2>3 DEF OldLinksStep, RolesStep
<1>3. ASSUME NEW s \in Slots, Commit(s) PROVE OldLinksStep /\ RolesStep
  BY <1>3, CommitUsesALink, CommitMovesByRank
<1>4. QED
  BY <1>1, <1>2, <1>3 DEF TeamNext, Begin, BeginInvite, BeginAccept, Check

\* "The old link stops working", "The link works once", "nobody grants above their
\* own role", "Only an owner removes an owner": whoever joins used the newest
\* link of an invitation that still stands, and roles are given and taken by
\* someone of that rank; unless raced.
THEOREM TeamStepsTheorem == TeamSpec => TeamSteps
<1>1. QED
  BY TeamInvariant, TeamNextSteps, PTL DEF TeamSpec, TeamSteps

-----------------------------------------------------------------------------
(* Rows and places. *)

\* What tokens and calls are, for the steps below.
LEMMA Typed ==
    ASSUME SessionTypeOK
    PROVE  /\ Len(tokens) \in Nat /\ DOMAIN tokens = 1..Len(tokens) /\ Token = 0..Len(tokens)
           /\ \A i \in DOMAIN tokens : tokens[i] \in Row
           /\ Len(calls) \in Nat /\ DOMAIN calls = 1..Len(calls)
           /\ \A c \in DOMAIN calls : /\ calls[c].token \in Token /\ calls[c].new \in Token
                                      /\ calls[c].phase \in {"sent", "read", "answered"} /\ calls[c] \in CallRow
           /\ \A t \in Tabs : /\ tab[t] \in Tab
                              /\ tab[t].session \in Token /\ tab[t].choosing \in Token /\ tab[t].leaving \in Token
                              /\ tab[t].access \in Token
                              /\ tab[t].run = "posted" <=> tab[t].call \in DOMAIN calls
           /\ local \in Token
<1>1. tokens \in Seq(Row) /\ tab \in [Tabs -> Tab] /\ local \in Token
  BY DEF SessionTypeOK, TypeOK
<1>2. calls \in Seq(CallRow)
  BY DEF SessionTypeOK, TypeOK
<1>3. \A t \in Tabs : /\ tab[t].session \in Token /\ tab[t].choosing \in Token /\ tab[t].leaving \in Token
                      /\ tab[t].access \in Token
                      /\ tab[t].run = "posted" <=> tab[t].call \in DOMAIN calls
  BY DEF SessionTypeOK, TypeOK
<1>4. /\ Len(tokens) \in Nat /\ DOMAIN tokens = 1..Len(tokens) /\ Token = 0..Len(tokens)
      /\ \A i \in DOMAIN tokens : tokens[i] \in Row
  BY <1>1 DEF Token
<1>5. /\ Len(calls) \in Nat /\ DOMAIN calls = 1..Len(calls)
      /\ \A c \in DOMAIN calls : /\ calls[c].token \in Token /\ calls[c].new \in Token
                                 /\ calls[c].phase \in {"sent", "read", "answered"} /\ calls[c] \in CallRow
  <2>1. \A c \in CallRow : c.token \in Token /\ c.new \in Token /\ c.phase \in {"sent", "read", "answered"}
    BY DEF CallRow
  <2>2. Len(calls) \in Nat /\ DOMAIN calls = 1..Len(calls) /\ \A c \in DOMAIN calls : calls[c] \in CallRow
    BY <1>2
  <2>3. QED
    BY <2>1, <2>2
<1>6. \A t \in Tabs : tab[t] \in Tab
  BY <1>1
<1>7. QED
  BY <1>1, <1>3, <1>4, <1>5, <1>6

\* Rows are revoked and issued, none is exchanged.
Grows ==
    /\ Len(tokens') \in Nat /\ DOMAIN tokens' = 1..Len(tokens') /\ DOMAIN tokens \subseteq DOMAIN tokens'
    /\ \A i \in DOMAIN tokens : /\ tokens'[i].family = tokens[i].family /\ tokens'[i].rotated = tokens[i].rotated
                                /\ tokens[i].revoked => tokens'[i].revoked
    /\ \A i \in DOMAIN tokens' : i \notin DOMAIN tokens => tokens'[i] = New(i)

\* A client posts calls and has done with them; what the API works on is its own.
CallsQuiet ==
    /\ DOMAIN calls \subseteq DOMAIN calls'
    /\ \A c \in DOMAIN calls' : \/ c \in DOMAIN calls /\ calls'[c] = calls[c]
                                \/ calls'[c] = Done
                                \/ \E k \in Token \ {NoToken} : calls'[c] = Call(k)

LEMMA FamilyKeeps ==
    ASSUME SessionTypeOK, RowsOK, FamilyOK, ~lost, Grows, CallsQuiet
    PROVE  FamilyOK'
<1>1. ASSUME NEW i \in DOMAIN tokens', Active(i)'
      PROVE  \/ (i \in DOMAIN tokens /\ Active(i) /\ tokens'[i].family = tokens[i].family)
             \/ (i \notin DOMAIN tokens /\ tokens'[i].family = i)
  BY <1>1 DEF Grows, Active, New
<1>2. \A i \in DOMAIN tokens : tokens[i].family \in DOMAIN tokens /\ tokens'[i].family = tokens[i].family
  BY Typed DEF RowsOK, Grows
<1>3. \A c \in DOMAIN calls : Midway(c) => calls[c].token \in DOMAIN tokens
  BY Typed DEF Midway, RowsOK, Open, NoToken
<1>4. OneGoodToken'
  BY <1>1, <1>2 DEF FamilyOK, OneGoodToken
<1>5. ASSUME NEW c \in DOMAIN calls', Midway(c)'
      PROVE  \A i \in DOMAIN tokens' :
               Active(i)' /\ tokens'[i].family = tokens'[calls'[c].token].family => i = calls'[c].token
  <2>1. c \in DOMAIN calls /\ calls'[c] = calls[c] /\ Midway(c)
    BY <1>5 DEF CallsQuiet, Midway, Done, Call
  <2>2. QED
    BY <1>1, <1>2, <1>3, <2>1 DEF FamilyOK
<1>6. QED
  BY <1>4, <1>5 DEF FamilyOK

\* Nobody but t does anything, and t's wait for an answer goes on or it has none.
Others(t) == /\ \A u \in Tabs : u # t => tab'[u] = tab[u]
             /\ tab'[t].run = "posted" <=> tab[t].run = "posted"
             /\ tab[t].run = "posted" => tab'[t].call = tab[t].call

\* The browser's token and t's are kept or forgotten, or are one that t was given.
Placed(t, n) ==
    /\ local' \in {NoToken, local, n} /\ tab'[t].session \in {NoToken, tab[t].session, n}
    /\ tab'[t].choosing \in {NoToken, tab[t].choosing, n}
    /\ n # NoToken =>
         /\ n \notin Token \/ n = tab[t].choosing
         /\ local' = n => tab'[t].session # n /\ tab'[t].choosing # n
         /\ tab'[t].session = n => tab'[t].choosing # n

LEMMA PlacesKeep ==
    ASSUME SessionTypeOK, RowsOK, LockOK, UnlostOK, ~lost, NEW t \in Tabs, NEW n \in Nat,
           Grows, Others(t), Placed(t, n), calls' = calls, replayed' = replayed
    PROVE  UnlostOK'
<1>0. \A u \in Tabs : /\ Waits(u)' <=> Waits(u)
                      /\ Waits(u) => tab'[u].call = tab[u].call /\ tab[u].call \in DOMAIN calls
  BY Typed DEF Others, Waits, Open
<1>1. CallsOK'
  BY <1>0 DEF UnlostOK, CallsOK, Open
<1>2. FamilyOK'
  BY FamilyKeeps DEF UnlostOK, CallsQuiet
<1>3. n # NoToken => (n \in DOMAIN tokens => ~tokens[n].rotated)
  BY Typed DEF UnlostOK, RotatedOK, Placed, NoToken
<1>4. n # NoToken =>
        local # n /\ \A u \in Tabs : tab[u].session # n /\ (u # t => tab[u].choosing # n)
  BY Typed DEF UnlostOK, PlacesOK, Placed
<1>5. /\ \A u \in Tabs : u # t => tab'[u].session = tab[u].session /\ tab'[u].choosing = tab[u].choosing
      /\ local' \in {NoToken, local, n} /\ tab'[t].session \in {NoToken, tab[t].session, n}
      /\ tab'[t].choosing \in {NoToken, tab[t].choosing, n}
      /\ n # NoToken => /\ local' = n => tab'[t].session # n /\ tab'[t].choosing # n
                        /\ tab'[t].session = n => tab'[t].choosing # n
  BY DEF Others, Placed
<1>6. PlacesOK'
  <2>1. SUFFICES ASSUME NEW u \in Tabs, NEW v \in Tabs
                 PROVE  /\ tab'[u].session # NoToken =>
                             tab'[u].session # local' /\ (v # u => tab'[u].session # tab'[v].session)
                        /\ tab'[u].choosing # NoToken =>
                             /\ tab'[u].choosing # local' /\ tab'[u].choosing # tab'[v].session
                             /\ v # u => tab'[u].choosing # tab'[v].choosing
    BY DEF PlacesOK
  <2>2. /\ tab[u].session # NoToken => tab[u].session # local /\ (v # u => tab[u].session # tab[v].session)
        /\ tab[u].choosing # NoToken =>
             /\ tab[u].choosing # local /\ tab[u].choosing # tab[v].session
             /\ v # u => tab[u].choosing # tab[v].choosing
        /\ tab[v].choosing # NoToken => tab[v].choosing # tab[u].session
    BY DEF UnlostOK, PlacesOK
  <2>3. CASE u = t
    BY <1>4, <1>5, <2>2, <2>3
  <2>4. CASE u # t
    BY <1>4, <1>5, <2>2, <2>4
  <2>5. QED
    BY <2>3, <2>4
<1>7. AwaitedOK'
  <2>1. SUFFICES ASSUME NEW u \in Tabs, Waits(u)
                 PROVE  LET c == calls[tab[u].call] IN
                        /\ \A v \in Tabs : tab'[v].choosing # c.token /\ (v # u => tab'[v].session # c.token)
                        /\ c.new # NoToken =>
                             /\ c.new # local' /\ ~tokens'[c.new].rotated
                             /\ \A v \in Tabs : tab'[v].choosing # c.new /\ tab'[v].session # c.new
                        /\ c.phase # "answered" => ~tokens'[c.token].rotated
    BY <1>0 DEF AwaitedOK
  <2> DEFINE c == calls[tab[u].call]
  <2>2. /\ \A v \in Tabs : tab[v].choosing # c.token /\ (v # u => tab[v].session # c.token)
        /\ c.new # NoToken =>
             /\ c.new # local /\ ~tokens[c.new].rotated
             /\ \A v \in Tabs : tab[v].choosing # c.new /\ tab[v].session # c.new
        /\ c.phase # "answered" => ~tokens[c.token].rotated
    BY <2>1 DEF UnlostOK, AwaitedOK
  <2>3. c.token \in DOMAIN tokens /\ (c.new # NoToken => c.new \in DOMAIN tokens)
    BY <1>0, <2>1, Typed DEF RowsOK, Waits, NoToken
  <2>4. /\ c.token # NoToken
        /\ n # NoToken => n # c.token /\ (c.new # NoToken => n # c.new)
    BY <2>2, <2>3, Typed DEF Placed, NoToken
  <2>5. \A v \in Tabs : tab'[v].choosing # c.token /\ (v # u => tab'[v].session # c.token)
    BY <1>5, <2>2, <2>4
  <2>6. c.new # NoToken =>
          c.new # local' /\ \A v \in Tabs : tab'[v].choosing # c.new /\ tab'[v].session # c.new
    BY <1>5, <2>2, <2>4
  <2>7. /\ c.new # NoToken => ~tokens'[c.new].rotated
        /\ c.phase # "answered" => ~tokens'[c.token].rotated
    BY <2>2, <2>3 DEF Grows
  <2>8. QED
    BY <2>5, <2>6, <2>7
<1>8. RotatedOK'
  <2>1. SUFFICES ASSUME NEW i \in DOMAIN tokens', tokens'[i].rotated
                 PROVE  /\ local' = i => \E u \in Tabs : Exchanged(u, i)'
                        /\ \A u \in Tabs : tab'[u].choosing # i /\ (tab'[u].session = i => Exchanged(u, i)')
    BY DEF RotatedOK
  <2>2. i \in DOMAIN tokens /\ tokens[i].rotated /\ i # NoToken /\ i # n
    BY <1>3, <2>1, Typed DEF Grows, New, NoToken
  <2>3. \A u \in Tabs : Exchanged(u, i) => Exchanged(u, i)'
    BY <1>0 DEF Exchanged
  <2>4. /\ local = i => \E u \in Tabs : Exchanged(u, i)
        /\ \A u \in Tabs : tab[u].choosing # i /\ (tab[u].session = i => Exchanged(u, i))
    BY <2>2 DEF UnlostOK, RotatedOK
  <2>5. local' = i => \E u \in Tabs : Exchanged(u, i)'
    BY <1>5, <2>2, <2>3, <2>4
  <2>6. ASSUME NEW u \in Tabs PROVE tab'[u].choosing # i /\ (tab'[u].session = i => Exchanged(u, i)')
    BY <1>5, <2>2, <2>3, <2>4
  <2>7. QED
    BY <2>5, <2>6
<1>9. QED
  BY <1>1, <1>2, <1>6, <1>7, <1>8 DEF UnlostOK

LEMMA OnePosts ==
    ASSUME WebLocks, LockOK, NEW t \in Tabs, NEW u \in Tabs, tab[t].run = "posted", tab[u].run = "posted"
    PROVE  t = u
  BY DEF LockOK

\* Under the lock: who waits is t, if anyone, and t's call is the only one open.
LEMMA Alone ==
    ASSUME WebLocks, SessionTypeOK, LockOK, UnlostOK, NEW t \in Tabs, queue[1] = t
    PROVE  /\ \A u \in Tabs : Waits(u) => u = t
           /\ \A c \in DOMAIN calls : Open(c) => Waits(t) /\ tab[t].call = c
           /\ ~Waits(t) => \A i \in DOMAIN tokens :
                tokens[i].rotated => local # i /\ \A u \in Tabs : tab[u].session # i
<1>1. \A u \in Tabs : Waits(u) => u = t
  BY DEF LockOK, Waits
<1>2. \A c \in DOMAIN calls : Open(c) => Waits(t) /\ tab[t].call = c
  BY <1>1 DEF UnlostOK, CallsOK
<1>3. ASSUME ~Waits(t), NEW i \in DOMAIN tokens, tokens[i].rotated
      PROVE  local # i /\ \A u \in Tabs : tab[u].session # i
  BY <1>1, <1>3 DEF UnlostOK, RotatedOK, Exchanged
<1>4. QED
  BY <1>1, <1>2, <1>3

LEMMA PostKeeps ==
    ASSUME WebLocks, SessionTypeOK, RowsOK, LockOK, UnlostOK, ~lost, ~lost', NEW t \in Tabs, NEW k \in Token \ {NoToken},
           tab[t].run # "posted", queue[1] = t, k = readRefreshToken(t),
           calls' = Append(calls, Call(k)), UNCHANGED <<tokens, replayed, local>>,
           \A u \in Tabs : u # t => tab'[u] = tab[u],
           tab'[t].run = "posted", tab'[t].call = Len(calls) + 1,
           tab'[t].session = tab[t].session, tab'[t].choosing = tab[t].choosing
    PROVE  UnlostOK'
<1>1. /\ \A u \in Tabs : ~Waits(u)
      /\ \A c \in DOMAIN calls : ~Open(c)
  BY Alone DEF Waits
<1>2. /\ DOMAIN calls' = DOMAIN calls \cup {Len(calls) + 1} /\ Len(calls) + 1 \notin DOMAIN calls
      /\ \A c \in DOMAIN calls : calls'[c] = calls[c]
      /\ calls'[Len(calls) + 1] = Call(k)
  BY Typed
<1>3. /\ \A c \in DOMAIN calls : ~Open(c)'
      /\ Waits(t)'
  <2>1. \A c \in DOMAIN calls : ~Open(c)'
    BY <1>1, <1>2 DEF Open
  <2>2. calls'[tab'[t].call].phase = "sent"
    BY <1>2 DEF Call
  <2>3. QED
    BY <2>1, <2>2 DEF Waits, Open
<1>4. \A u \in Tabs : Waits(u)' => u = t
  BY <1>1, <1>2, <1>3, Typed DEF Waits
<1>5. CallsOK'
  BY <1>2, <1>3 DEF CallsOK
<1>6. FamilyOK'
  <2>1. \A c \in DOMAIN calls' : ~Midway(c)'
    BY <1>2, <1>3 DEF Midway, Open, Call
  <2>2. QED
    BY <2>1 DEF UnlostOK, FamilyOK, OneGoodToken, Active
<1>7. PlacesOK'
  BY DEF UnlostOK, PlacesOK
<1>8. AwaitedOK'
  <2>1. k \in DOMAIN tokens /\ ~tokens[k].rotated
    BY <1>1, Alone, Typed DEF readRefreshToken, NoToken
  <2>2. \A u \in Tabs : tab[u].choosing # k /\ (u # t => tab[u].session # k)
    BY DEF UnlostOK, PlacesOK, readRefreshToken
  <2>3. SUFFICES ASSUME NEW u \in Tabs, Waits(u)'
                 PROVE  LET c == calls'[tab'[u].call] IN
                        /\ \A v \in Tabs : tab'[v].choosing # c.token /\ (v # u => tab'[v].session # c.token)
                        /\ c.new = NoToken /\ ~tokens'[c.token].rotated
    BY DEF AwaitedOK
  <2>4. u = t /\ calls'[tab'[u].call] = Call(k)
    BY <1>2, <1>4, <2>3
  <2>5. QED
    BY <2>1, <2>2, <2>4 DEF Call
<1>9. RotatedOK'
  <2>1. \A i \in DOMAIN tokens : tokens[i].rotated =>
          /\ local # i /\ \A u \in Tabs : tab[u].session # i /\ tab[u].choosing # i
    BY <1>1, Alone DEF UnlostOK, RotatedOK
  <2>2. QED
    BY <2>1 DEF RotatedOK
<1>10. QED
  BY <1>5, <1>6, <1>7, <1>8, <1>9 DEF UnlostOK

\* t's call is over: its answer is applied, or it never reached the API.
LEMMA EndKeeps ==
    ASSUME WebLocks, SessionTypeOK, RowsOK, LockOK, UnlostOK, ~lost, ~lost', NEW t \in Tabs, tab[t].run = "posted",
           calls' = [calls EXCEPT ![tab[t].call] = Done], UNCHANGED <<tokens, replayed>>,
           \A u \in Tabs : u # t => tab'[u] = tab[u],
           tab'[t].run # "posted", tab'[t].choosing = tab[t].choosing,
           LET n == calls[tab[t].call].new IN
           \/ calls[tab[t].call].phase = "sent" /\ local' = local /\ tab'[t].session = tab[t].session
           \/ /\ local' \in {NoToken, n} /\ tab'[t].session \in {NoToken, n}
              /\ local' = NoToken \/ tab'[t].session = NoToken
    PROVE  UnlostOK'
<1> DEFINE c == tab[t].call
           n == calls[c].new
<1>1. /\ c \in DOMAIN calls /\ DOMAIN calls' = DOMAIN calls /\ calls'[c] = Done
      /\ \A d \in DOMAIN calls : d # c => calls'[d] = calls[d]
  BY Typed
<1>2. queue[1] = t
  BY DEF LockOK
<1>3. /\ \A u \in Tabs : Waits(u) => u = t
      /\ \A d \in DOMAIN calls : Open(d) => Waits(t) /\ d = c
  BY <1>2, Alone
<1>4. \A d \in DOMAIN calls : ~Open(d)'
  BY <1>1, <1>3 DEF Open, Done, Call
<1>5. \A u \in Tabs : ~Waits(u)'
  <2>1. \A u \in Tabs : tab'[u].run = "posted" => u # t
    OBVIOUS
  <2>2. QED
    BY <2>1, OnePosts DEF Waits
<1>6. CallsOK'
  BY <1>1, <1>4 DEF CallsOK
<1>7. FamilyOK'
  <2>1. \A d \in DOMAIN calls' : ~Midway(d)'
    BY <1>1, <1>4 DEF Midway, Open
  <2>2. QED
    BY <2>1 DEF UnlostOK, FamilyOK, OneGoodToken, Active
<1>8. AwaitedOK'
  BY <1>5 DEF AwaitedOK
<1>9. n # NoToken =>
        /\ n \in DOMAIN tokens /\ ~tokens[n].rotated /\ n # local
        /\ \A u \in Tabs : tab[u].choosing # n /\ tab[u].session # n
  <2>1. n # NoToken => Waits(t)
    BY <1>1 DEF Waits, Open
  <2>2. QED
    BY SMTT(30), <1>1, <2>1, Typed DEF UnlostOK, AwaitedOK, NoToken
<1> HIDE DEF c, n
<1>10. \/ calls[c].phase = "sent" /\ local' = local /\ tab'[t].session = tab[t].session
       \/ /\ local' \in {NoToken, n} /\ tab'[t].session \in {NoToken, n}
          /\ local' = NoToken \/ tab'[t].session = NoToken
  BY DEF c, n
<1>11. PlacesOK'
  <2>1. SUFFICES ASSUME NEW u \in Tabs, NEW v \in Tabs
                 PROVE  /\ tab'[u].session # NoToken =>
                             tab'[u].session # local' /\ (v # u => tab'[u].session # tab'[v].session)
                        /\ tab'[u].choosing # NoToken =>
                             /\ tab'[u].choosing # local' /\ tab'[u].choosing # tab'[v].session
                             /\ v # u => tab'[u].choosing # tab'[v].choosing
    BY DEF PlacesOK
  <2>2. /\ tab[u].session # NoToken => tab[u].session # local /\ (v # u => tab[u].session # tab[v].session)
        /\ tab[u].choosing # NoToken =>
             /\ tab[u].choosing # local /\ tab[u].choosing # tab[v].session
             /\ v # u => tab[u].choosing # tab[v].choosing
    BY DEF UnlostOK, PlacesOK
  <2>3. QED
    BY <1>9, <1>10, <2>2
<1>12. RotatedOK'
  <2>1. SUFFICES ASSUME NEW i \in DOMAIN tokens, tokens[i].rotated
                 PROVE  local' # i /\ \A u \in Tabs : tab'[u].choosing # i /\ tab'[u].session # i
    BY DEF RotatedOK
  <2>2. /\ local = i => Exchanged(t, i)
        /\ \A u \in Tabs : tab[u].choosing # i /\ (tab[u].session = i => u = t /\ Exchanged(t, i))
    BY <1>3, <2>1 DEF UnlostOK, RotatedOK, Exchanged
  <2>3. calls[c].phase = "sent" => ~Exchanged(t, i)
    BY <1>1 DEF Exchanged, RowsOK, c
  <2>4. i # NoToken /\ i # n
    BY <1>9, <2>1, Typed DEF NoToken
  <2>5. QED
    BY <1>10, <2>2, <2>3, <2>4
<1>13. QED
  BY <1>6, <1>7, <1>8, <1>11, <1>12 DEF UnlostOK

\* What the API does to the rows and to the call.
LEMMA Reads ==
    ASSUME SessionTypeOK, RowsOK, NEW c \in DOMAIN calls, ApiReads(c)
    PROVE  LET k == calls[c].token IN
           /\ calls[c].phase = "sent" /\ k \in DOMAIN tokens /\ DOMAIN calls' = DOMAIN calls /\ Grows
           /\ DOMAIN tokens' = DOMAIN tokens /\ Len(tokens') = Len(tokens)
           /\ \A i \in DOMAIN tokens : tokens'[i] \in Row
           /\ \A d \in DOMAIN calls : d # c => calls'[d] = calls[d]
           /\ calls'[c].token = k /\ calls'[c].new = NoToken /\ calls'[c] \in CallRow
           /\ \/ Active(k) /\ calls'[c].phase = "read" /\ UNCHANGED <<tokens, ghosts>>
              \/ /\ ~Active(k) /\ calls'[c].phase = "answered"
                 /\ \A i \in DOMAIN tokens : tokens'[i].revoked <=> tokens[i].revoked \/ tokens[i].family = tokens[k].family
                 /\ replayed' = (replayed \/ tokens[k].rotated)
                 /\ raced' = (raced \/ Rotating(tokens[k].family))
                 /\ UNCHANGED <<lost, reset, ended>>
<1> DEFINE k == calls[c].token
<1>1. calls[c].phase = "sent" /\ k \in DOMAIN tokens /\ calls[c].new = NoToken /\ calls[c] \in CallRow
  BY Typed DEF ApiReads, RowsOK, Open, NoToken
<1>2. ASSUME NEW p \in {"read", "answered"}, calls' = [calls EXCEPT ![c].phase = p]
      PROVE  /\ DOMAIN calls' = DOMAIN calls /\ \A d \in DOMAIN calls : d # c => calls'[d] = calls[d]
             /\ calls'[c].token = k /\ calls'[c].new = NoToken /\ calls'[c] \in CallRow /\ calls'[c].phase = p
  <2>1. calls'[c] = [calls[c] EXCEPT !.phase = p] /\ DOMAIN calls' = DOMAIN calls
        /\ \A d \in DOMAIN calls : d # c => calls'[d] = calls[d]
    BY <1>2, Typed
  <2>2. QED
    BY <1>1, <2>1 DEF CallRow
<1>3. CASE Active(k) /\ calls' = [calls EXCEPT ![c].phase = "read"] /\ UNCHANGED <<tokens, ghosts>>
  BY <1>1, <1>2, <1>3, Typed DEF Grows
<1>4. CASE /\ ~Active(k) /\ calls' = [calls EXCEPT ![c].phase = "answered"]
           /\ tokens' = [i \in DOMAIN tokens |->
                           [tokens[i] EXCEPT !.revoked = @ \/ tokens[i].family = tokens[k].family]]
           /\ replayed' = (replayed \/ tokens[k].rotated)
           /\ raced' = (raced \/ Rotating(tokens[k].family))
           /\ UNCHANGED <<lost, reset, ended>>
  <2>1. DOMAIN tokens' = DOMAIN tokens /\ Len(tokens') = Len(tokens)
    BY <1>4, Typed
  <2>2. \A i \in DOMAIN tokens : /\ tokens'[i] \in Row
                                 /\ tokens'[i].family = tokens[i].family /\ tokens'[i].rotated = tokens[i].rotated
                                 /\ tokens'[i].revoked <=> tokens[i].revoked \/ tokens[i].family = tokens[k].family
    BY <1>4, Typed DEF Row
  <2>3. Grows
    BY <2>1, <2>2, Typed DEF Grows
  <2>4. QED
    BY <1>1, <1>2, <1>4, <2>1, <2>2, <2>3
<1>5. QED
  BY <1>3, <1>4 DEF ApiReads

LEMMA CommitsRow ==
    ASSUME SessionTypeOK, RowsOK, NEW c \in DOMAIN calls, ApiCommits(c)
    PROVE  LET k == calls[c].token
               n == Len(tokens) + 1 IN
           /\ Midway(c) /\ k \in DOMAIN tokens /\ n \notin DOMAIN tokens /\ n # NoToken
           /\ DOMAIN tokens' = DOMAIN tokens \cup {n} /\ Len(tokens') = n
           /\ \A i \in DOMAIN tokens : i # k => tokens'[i] = tokens[i]
           /\ tokens'[k].family = tokens[k].family /\ tokens'[k].revoked /\ tokens'[k].rotated
           /\ tokens'[n] = New(tokens[k].family) /\ tokens'[k] \in Row
           /\ DOMAIN calls' = DOMAIN calls
           /\ \A d \in DOMAIN calls : d # c => calls'[d] = calls[d]
           /\ calls'[c].token = k /\ calls'[c].new = n /\ calls'[c].phase = "answered"
           /\ calls'[c].members = joined
           /\ UNCHANGED <<joined, expired, left, ghosts>>
<1> DEFINE k == calls[c].token
           n == Len(tokens) + 1
           r == [tokens[k] EXCEPT !.revoked = TRUE, !.rotated = TRUE]
<1>1. Midway(c) /\ k \in DOMAIN tokens /\ n \notin DOMAIN tokens /\ n # NoToken /\ calls[c] \in CallRow
  BY Typed DEF ApiCommits, Midway, RowsOK, Open, NoToken
<1>2. /\ DOMAIN tokens' = DOMAIN tokens \cup {n} /\ Len(tokens') = n
      /\ \A i \in DOMAIN tokens : i # k => tokens'[i] = tokens[i]
      /\ tokens'[k] = r /\ tokens'[n] = New(tokens[k].family)
  <2>1. tokens' = Append([tokens EXCEPT ![k] = r], New(tokens[k].family))
    BY <1>1, Typed DEF ApiCommits, Row
  <2> DEFINE ts == [tokens EXCEPT ![k] = r]
  <2>2. tokens \in Seq(Row) /\ r \in Row
    BY ZenonT(60), <1>1, Typed DEF SessionTypeOK, TypeOK, Row
  <2> HIDE DEF r
  <2>3. ts \in Seq(Row) /\ Len(ts) = Len(tokens) /\ DOMAIN ts = DOMAIN tokens /\ ts[k] = r
        /\ \A i \in DOMAIN tokens : i # k => ts[i] = tokens[i]
    BY <1>1, <2>2
  <2> HIDE DEF ts
  <2>4. tokens' = Append(ts, New(tokens[k].family))
    BY <2>1 DEF ts
  <2>5. QED
    BY <1>1, <2>3, <2>4, Typed
<1>3. r.family = tokens[k].family /\ r.revoked /\ r.rotated /\ r \in Row
  BY <1>1, Typed DEF Row
<1>4. /\ DOMAIN calls' = DOMAIN calls
      /\ \A d \in DOMAIN calls : d # c => calls'[d] = calls[d]
      /\ calls'[c].token = k /\ calls'[c].new = n /\ calls'[c].phase = "answered" /\ calls'[c].members = joined
  <2>1. /\ calls'[c] = [calls[c] EXCEPT !.phase = "answered", !.new = n, !.members = joined]
        /\ DOMAIN calls' = DOMAIN calls /\ \A d \in DOMAIN calls : d # c => calls'[d] = calls[d]
    BY Typed DEF ApiCommits
  <2>2. QED
    BY <1>1, <2>1 DEF CallRow
<1>5. QED
  BY <1>1, <1>2, <1>3, <1>4 DEF ApiCommits

\* While one call is open its token, and then its successor, is the good one.
LEMMA ReadFamily ==
    ASSUME SessionTypeOK, RowsOK, FamilyOK, ~lost, NEW c \in DOMAIN calls, ApiReads(c),
           \A d \in DOMAIN calls : Open(d) => d = c
    PROVE  FamilyOK'
<1> DEFINE k == calls[c].token
<1>1. /\ DOMAIN calls' = DOMAIN calls /\ DOMAIN tokens' = DOMAIN tokens /\ Grows /\ lost' = lost
      /\ \A d \in DOMAIN calls : d # c => calls'[d] = calls[d]
      /\ calls'[c].token = k /\ k \in DOMAIN tokens
      /\ Active(k) \/ calls'[c].phase = "answered"
  BY Reads DEF ghosts
<1>2. \A i \in DOMAIN tokens : (Active(i)' => Active(i)) /\ tokens'[i].family = tokens[i].family
  BY <1>1 DEF Grows, Active
<1>3. OneGoodToken'
  BY <1>1, <1>2 DEF FamilyOK, OneGoodToken
<1>4. ASSUME NEW d \in DOMAIN calls, Midway(d)'
      PROVE  \A i \in DOMAIN tokens : Active(i)' /\ tokens'[i].family = tokens'[calls'[d].token].family
                                        => i = calls'[d].token
  <2>1. d = c /\ Active(k)
    BY <1>1, <1>4 DEF Midway, Open
  <2>2. QED
    BY <1>1, <1>2, <2>1 DEF FamilyOK, OneGoodToken
<1>5. QED
  BY <1>1, <1>3, <1>4 DEF FamilyOK

LEMMA CommitFamily ==
    ASSUME SessionTypeOK, RowsOK, FamilyOK, ~lost, NEW c \in DOMAIN calls, ApiCommits(c),
           \A d \in DOMAIN calls : Open(d) => d = c
    PROVE  FamilyOK'
<1> DEFINE k == calls[c].token
           n == Len(tokens) + 1
<1>1. /\ Midway(c) /\ k \in DOMAIN tokens /\ n \notin DOMAIN tokens
      /\ DOMAIN tokens' = DOMAIN tokens \cup {n}
      /\ \A i \in DOMAIN tokens : i # k => tokens'[i] = tokens[i]
      /\ tokens'[k].family = tokens[k].family /\ tokens'[k].revoked
      /\ tokens'[n] = New(tokens[k].family)
      /\ DOMAIN calls' = DOMAIN calls
      /\ \A d \in DOMAIN calls : d # c => calls'[d] = calls[d]
      /\ calls'[c].phase = "answered"
  BY CommitsRow
<1> HIDE DEF k, n
<1>2. ASSUME NEW i \in DOMAIN tokens', NEW j \in DOMAIN tokens', Active(i)', Active(j)',
             tokens'[i].family = tokens'[j].family
      PROVE  i = j
  <2>1. \A x \in DOMAIN tokens : Active(x)' => Active(x) /\ x # k /\ tokens'[x].family = tokens[x].family
    BY <1>1 DEF Active
  <2>2. \A x \in DOMAIN tokens : Active(x)' => tokens'[x].family # tokens[k].family
    BY <1>1, <2>1 DEF FamilyOK, k
  <2>3. tokens'[n].family = tokens[k].family
    BY <1>1 DEF New
  <2>4. CASE i \in DOMAIN tokens /\ j \in DOMAIN tokens
    BY <1>2, <2>1, <2>4 DEF FamilyOK, OneGoodToken
  <2>5. QED
    BY <1>1, <1>2, <2>2, <2>3, <2>4
<1>3. \A d \in DOMAIN calls' : ~Midway(d)'
  BY <1>1 DEF Midway, Open
<1>4. QED
  BY <1>2, <1>3 DEF FamilyOK, OneGoodToken

LEMMA ReadKeeps ==
    ASSUME WebLocks, SessionTypeOK, RowsOK, LockOK, UnlostOK, ~lost, NEW c \in DOMAIN calls, ApiReads(c),
           UNCHANGED <<browser, tab>>
    PROVE  UnlostOK'
<1> DEFINE k == calls[c].token
<1>1. /\ calls[c].phase = "sent" /\ k \in DOMAIN tokens /\ DOMAIN calls' = DOMAIN calls /\ Grows
      /\ DOMAIN tokens' = DOMAIN tokens
      /\ \A d \in DOMAIN calls : d # c => calls'[d] = calls[d]
      /\ calls'[c].token = k /\ calls'[c].new = NoToken /\ calls[c].new = NoToken
      /\ \/ Active(k) /\ calls'[c].phase = "read" /\ UNCHANGED <<tokens, ghosts>>
         \/ ~Active(k) /\ calls'[c].phase = "answered" /\ replayed' = (replayed \/ tokens[k].rotated)
      /\ UNCHANGED <<local, queue, tab>> /\ lost' = lost
  BY Reads DEF browser, RowsOK, ghosts
<1>2. PICK t \in Tabs : Waits(t) /\ tab[t].call = c
  BY <1>1 DEF UnlostOK, CallsOK, Open
<1>3. queue[1] = t
  BY <1>2 DEF LockOK, Waits
<1>4. /\ \A u \in Tabs : Waits(u) => u = t
      /\ \A d \in DOMAIN calls : Open(d) => d = c
  BY <1>2, <1>3, Alone
<1>5. /\ \A v \in Tabs : tab[v].choosing # k /\ (v # t => tab[v].session # k)
      /\ ~tokens[k].rotated
  BY <1>1, <1>2 DEF UnlostOK, AwaitedOK
<1>6. ~replayed'
  BY <1>1, <1>5 DEF UnlostOK, ghosts
<1>7. \A d \in DOMAIN calls : d # c => ~Open(d)'
  BY <1>1, <1>4 DEF Open
<1>8. \A u \in Tabs : Waits(u)' => u = t
  BY <1>1, <1>2, <1>7, OnePosts, Typed DEF Waits
<1>9. CallsOK'
  <2>1. Open(c)' => Waits(t)'
    BY <1>1, <1>2 DEF Waits
  <2>2. QED
    BY <1>1, <1>2, <1>7, <2>1 DEF CallsOK
<1>10. FamilyOK'
  BY <1>4, ReadFamily DEF UnlostOK
<1>11. PlacesOK'
  BY <1>1 DEF UnlostOK, PlacesOK
<1>12. AwaitedOK'
  <2>1. SUFFICES ASSUME Waits(t)'
                 PROVE  /\ \A v \in Tabs : tab[v].choosing # k /\ (v # t => tab[v].session # k)
                        /\ ~tokens'[k].rotated
    BY <1>1, <1>2, <1>8 DEF AwaitedOK
  <2>2. QED
    BY <1>1, <1>5 DEF Grows
<1>13. RotatedOK'
  <2>1. SUFFICES ASSUME NEW i \in DOMAIN tokens, tokens[i].rotated
                 PROVE  local # i /\ \A u \in Tabs : tab[u].choosing # i /\ tab[u].session # i
    BY <1>1 DEF RotatedOK, Grows
  <2>2. \A u \in Tabs : ~Exchanged(u, i)
    BY <1>1, <1>2, <1>4 DEF Exchanged
  <2>3. QED
    BY <2>1, <2>2 DEF UnlostOK, RotatedOK
<1>14. QED
  BY <1>6, <1>9, <1>10, <1>11, <1>12, <1>13 DEF UnlostOK

LEMMA CommitRowKeeps ==
    ASSUME WebLocks, SessionTypeOK, RowsOK, LockOK, UnlostOK, ~lost, NEW c \in DOMAIN calls, ApiCommits(c),
           UNCHANGED <<browser, tab>>
    PROVE  UnlostOK'
<1> DEFINE k == calls[c].token
           n == Len(tokens) + 1
<1>1. /\ Midway(c) /\ k \in DOMAIN tokens /\ n \notin DOMAIN tokens /\ n # NoToken
      /\ DOMAIN tokens' = DOMAIN tokens \cup {n}
      /\ \A i \in DOMAIN tokens : i # k => tokens'[i] = tokens[i]
      /\ tokens'[k].family = tokens[k].family /\ tokens'[k].revoked /\ tokens'[k].rotated
      /\ tokens'[n] = New(tokens[k].family)
      /\ DOMAIN calls' = DOMAIN calls
      /\ \A d \in DOMAIN calls : d # c => calls'[d] = calls[d]
      /\ calls'[c].token = k /\ calls'[c].new = n /\ calls'[c].phase = "answered"
      /\ UNCHANGED <<local, queue, tab>> /\ lost' = lost /\ replayed' = replayed /\ calls[c].new = NoToken
  BY CommitsRow DEF browser, RowsOK, ghosts, Midway
<1>2. PICK t \in Tabs : Waits(t) /\ tab[t].call = c
  BY <1>1 DEF UnlostOK, CallsOK, Open, Midway
<1>3. queue[1] = t
  BY <1>2 DEF LockOK, Waits
<1>4. /\ \A u \in Tabs : Waits(u) => u = t
      /\ \A d \in DOMAIN calls : Open(d) => d = c
  BY <1>2, <1>3, Alone
<1>5. \A v \in Tabs : tab[v].choosing # k /\ (v # t => tab[v].session # k)
  BY <1>2 DEF UnlostOK, AwaitedOK
<1>6. /\ \A d \in DOMAIN calls : d # c => ~Open(d)'
      /\ Waits(t)'
  BY <1>1, <1>2, <1>4 DEF Open, Waits
<1>7. \A u \in Tabs : Waits(u)' => u = t
  BY <1>1, <1>2, OnePosts DEF Waits
<1>8. n # local /\ \A u \in Tabs : tab[u].choosing # n /\ tab[u].session # n
  BY <1>1, Typed DEF NoToken
<1> HIDE DEF k, n
<1>9. CallsOK'
  BY <1>1, <1>2, <1>6 DEF CallsOK
<1>10. FamilyOK'
  BY <1>4, CommitFamily DEF UnlostOK
<1>11. PlacesOK'
  BY <1>1 DEF UnlostOK, PlacesOK
<1>12. AwaitedOK'
  <2>1. ~tokens'[n].rotated
    BY <1>1 DEF New
  <2>2. SUFFICES ASSUME NEW u \in Tabs, Waits(u)'
                 PROVE  LET d == calls'[tab'[u].call] IN
                        /\ \A v \in Tabs : tab'[v].choosing # d.token /\ (v # u => tab'[v].session # d.token)
                        /\ d.new # NoToken =>
                             /\ d.new # local' /\ ~tokens'[d.new].rotated
                             /\ \A v \in Tabs : tab'[v].choosing # d.new /\ tab'[v].session # d.new
                        /\ d.phase # "answered" => ~tokens'[d.token].rotated
    BY DEF AwaitedOK
  <2>3. u = t /\ calls'[tab'[u].call].token = k /\ calls'[tab'[u].call].new = n
        /\ calls'[tab'[u].call].phase = "answered"
    BY <1>1, <1>2, <1>7, <2>2
  <2>4. QED
    BY <1>1, <1>5, <1>8, <2>1, <2>3
<1>13. RotatedOK'
  <2>1. SUFFICES ASSUME NEW i \in DOMAIN tokens', tokens'[i].rotated
                 PROVE  /\ local = i => Exchanged(t, i)'
                        /\ \A u \in Tabs : tab[u].choosing # i /\ (tab[u].session = i => Exchanged(u, i)')
    BY <1>1 DEF RotatedOK
  <2>2. CASE i = k
    BY <1>1, <1>2, <1>5, <1>6, <2>2 DEF Exchanged
  <2>3. CASE i # k
    <3>1. i \in DOMAIN tokens /\ tokens[i].rotated
      BY <1>1, <2>1, <2>3 DEF New
    <3>2. \A u \in Tabs : ~Exchanged(u, i)
      BY <1>1, <1>2, <1>4 DEF Exchanged
    <3>3. QED
      BY <3>1, <3>2 DEF UnlostOK, RotatedOK
  <2>4. QED
    BY <2>2, <2>3
<1>14. QED
  BY <1>1, <1>9, <1>10, <1>11, <1>12, <1>13 DEF UnlostOK

-----------------------------------------------------------------------------
(* Rows, resets, the lock and types, in steps of a tab. *)

LEMMA RowsKeep ==
    ASSUME SessionTypeOK, RowsOK, ResetOK, Grows, CallsQuiet, reset' = reset, raced => raced'
    PROVE  RowsOK' /\ ResetOK'
<1>1. \A i \in DOMAIN tokens' : tokens'[i].family \in 1..i /\ (tokens'[i].rotated => tokens'[i].revoked)
  BY Typed DEF RowsOK, Grows, New
<1>2. ASSUME NEW c \in DOMAIN calls'
      PROVE  (Open(c)' => calls'[c].token # NoToken) /\ (calls'[c].phase # "answered" => calls'[c].new = NoToken)
  BY <1>2 DEF RowsOK, CallsQuiet, Open, Done, Call
<1>3. RowsOK'
  BY <1>1, <1>2 DEF RowsOK
<1>4. ASSUME ~raced, NEW i \in DOMAIN tokens', Active(i)' PROVE tokens'[i].family > reset
  <2>1. CASE i \in DOMAIN tokens
    BY <1>4, <2>1 DEF ResetOK, SignedOutEverywhere, Grows, Active
  <2>2. CASE i \notin DOMAIN tokens
    <3>1. tokens'[i].family = i /\ i \in Nat /\ i > Len(tokens)
      BY <1>4, <2>2, Typed DEF Grows, New
    <3>2. QED
      BY <3>1, Typed DEF SessionTypeOK
  <2>3. QED
    BY <2>1, <2>2
<1>5. ASSUME ~raced, NEW c \in DOMAIN calls', Midway(c)' PROVE tokens'[calls'[c].token].family > reset
  <2>1. c \in DOMAIN calls /\ calls'[c] = calls[c] /\ Midway(c)
    BY <1>5 DEF CallsQuiet, Midway, Done, Call
  <2>2. calls[c].token \in DOMAIN tokens
    BY <2>1, Typed DEF RowsOK, Midway, Open, NoToken
  <2>3. QED
    BY <1>5, <2>1, <2>2 DEF ResetOK, Grows
<1>6. ResetOK'
  BY <1>4, <1>5 DEF ResetOK, SignedOutEverywhere, Active
<1>7. QED
  BY <1>3, <1>6

LEMMA LockStays ==
    ASSUME LockOK, queue' = queue,
           \A t \in Tabs : /\ tab'[t].run # "none" <=> tab[t].run # "none"
                           /\ WebLocks /\ tab'[t].run = "posted" => tab[t].run = "posted" \/ queue[1] = t
    PROVE  LockOK'
  BY DEF LockOK

LEMMA LockJoins ==
    ASSUME LockOK, queue \in Seq(Tabs), NEW t \in Tabs, tab[t].run = "none", tab'[t].run = "queued",
           \A u \in Tabs : u # t => tab'[u] = tab[u],
           queue' = Append(queue, t)
    PROVE  LockOK'
<1>1. /\ Len(queue) \in Nat /\ DOMAIN queue = 1..Len(queue) /\ DOMAIN queue' = 1..(Len(queue) + 1)
      /\ \A i \in DOMAIN queue : queue'[i] = queue[i] /\ queue[i] # t
      /\ queue'[Len(queue) + 1] = t
  BY DEF LockOK
<1>2. \A i, j \in DOMAIN queue' : queue'[i] = queue'[j] => i = j
  BY <1>1 DEF LockOK
<1>3. \A u \in Tabs : tab'[u].run # "none" <=> \E i \in DOMAIN queue' : queue'[i] = u
  <2>1. ASSUME NEW u \in Tabs, u # t
        PROVE  (\E i \in DOMAIN queue' : queue'[i] = u) <=> \E i \in DOMAIN queue : queue[i] = u
    BY <1>1, <2>1
  <2>2. \E i \in DOMAIN queue' : queue'[i] = t
    BY <1>1
  <2>3. QED
    BY <2>1, <2>2 DEF LockOK
<1>4. ASSUME WebLocks, NEW u \in Tabs, tab'[u].run = "posted" PROVE queue'[1] = u
  <2>1. u # t /\ queue[1] = u /\ \E i \in DOMAIN queue : queue[i] = u
    BY <1>4 DEF LockOK
  <2>2. QED
    BY <1>1, <2>1
<1>5. QED
  BY <1>2, <1>3, <1>4 DEF LockOK

LEMMA LockLeaves ==
    ASSUME LockOK, queue \in Seq(Tabs), NEW t \in Tabs, tab'[t].run = "none",
           \A u \in Tabs : u # t => tab'[u] = tab[u],
           Leave(t)
    PROVE  LockOK' /\ queue' \in Seq(Tabs)
<1>1. Len(queue) \in Nat /\ DOMAIN queue = 1..Len(queue) /\ \A i \in DOMAIN queue : queue[i] \in Tabs
  OBVIOUS
<1>2. CASE \A i \in DOMAIN queue : queue[i] # t
  <2>1. queue' = queue
    BY <1>2 DEF Leave
  <2>2. tab[t].run = "none"
    BY <1>2 DEF LockOK
  <2>3. QED
    BY <2>1, <2>2, LockStays
<1>3. ASSUME NEW p \in DOMAIN queue, queue[p] = t PROVE LockOK' /\ queue' \in Seq(Tabs)
  <2>1. queue' = [i \in 1..(Len(queue) - 1) |->
                     IF \E j \in 1..i : queue[j] = t THEN queue[i + 1] ELSE queue[i]]
    BY <1>3 DEF Leave
  <2>2. \A i \in 1..(Len(queue) - 1) : (\E j \in 1..i : queue[j] = t) <=> p <= i
    BY <1>1, <1>3 DEF LockOK
  <2>3. DOMAIN queue' = 1..(Len(queue) - 1) /\ Len(queue) - 1 \in Nat
        /\ \A i \in 1..(Len(queue) - 1) : queue'[i] = IF p <= i THEN queue[i + 1] ELSE queue[i]
    BY <1>1, <1>3, <2>1, <2>2
  <2>4. queue' \in Seq(Tabs)
    <3>1. queue' \in [1..(Len(queue) - 1) -> Tabs]
      BY <1>1, <1>3, <2>1
    <3>2. QED
      BY <2>3, <3>1
  <2>5. ASSUME NEW i \in DOMAIN queue', NEW j \in DOMAIN queue', queue'[i] = queue'[j] PROVE i = j
    <3> DEFINE From(x) == IF p <= x THEN x + 1 ELSE x
    <3>1. \A x \in DOMAIN queue' : From(x) \in DOMAIN queue /\ queue'[x] = queue[From(x)]
      BY <1>1, <1>3, <2>3
    <3> HIDE DEF From
    <3>2. From(i) = From(j)
      BY <2>5, <3>1 DEF LockOK
    <3>3. QED
      BY <1>1, <1>3, <2>3, <3>2 DEF From
  <2>6. ASSUME NEW u \in Tabs PROVE (\E i \in DOMAIN queue' : queue'[i] = u) <=> (u # t /\ \E i \in DOMAIN queue : queue[i] = u)
    <3>1. ASSUME NEW i \in DOMAIN queue', queue'[i] = u PROVE u # t /\ \E j \in DOMAIN queue : queue[j] = u
      <4>1. CASE p <= i
        <5>1. queue[i + 1] = u /\ i + 1 \in DOMAIN queue /\ i + 1 # p
          BY <1>1, <2>3, <3>1, <4>1
        <5>2. QED
          BY <1>3, <5>1 DEF LockOK
      <4>2. CASE i < p
        <5>1. queue[i] = u /\ i \in DOMAIN queue /\ i # p
          BY <1>1, <2>3, <3>1, <4>2
        <5>2. QED
          BY <1>3, <5>1 DEF LockOK
      <4>3. QED
        BY <1>1, <2>3, <3>1, <4>1, <4>2
    <3>2. ASSUME NEW j \in DOMAIN queue, queue[j] = u, u # t PROVE \E i \in DOMAIN queue' : queue'[i] = u
      <4>1. CASE j < p
        BY <1>1, <1>3, <2>3, <3>2, <4>1
      <4>2. CASE p < j
        <5>1. j - 1 \in DOMAIN queue' /\ queue'[j - 1] = u
          BY <1>1, <1>3, <2>3, <3>2, <4>2
        <5>2. QED
          BY <5>1
      <4>3. QED
        BY <1>1, <1>3, <3>2, <4>1, <4>2
    <3>3. QED
      BY <3>1, <3>2
  <2>7. ASSUME WebLocks, NEW u \in Tabs, tab'[u].run = "posted" PROVE queue'[1] = u
    <3>1. u # t /\ queue[1] = u /\ \E i \in DOMAIN queue : queue[i] = u
      BY <2>7 DEF LockOK
    <3>2. 1 \in DOMAIN queue /\ p > 1 /\ Len(queue) > 1
      BY <1>1, <1>3, <3>1
    <3>3. QED
      BY <1>1, <2>3, <3>1, <3>2
  <2>8. QED
    BY <2>4, <2>5, <2>6, <2>7 DEF LockOK
<1>4. QED
  BY <1>2, <1>3

\* The server's variables keep their types, and no row or call is lost.
ServerTyped ==
    /\ tokens' \in Seq(Row) /\ Len(tokens) <= Len(tokens') /\ DOMAIN calls \subseteq DOMAIN calls'
    /\ calls' \in Seq(CallRow)' /\ joined' \subseteq Workspaces /\ expired' = expired
    /\ left' \in [Kinds -> Nat] /\ reset' \in Token'
    /\ lost' \in BOOLEAN /\ raced' \in BOOLEAN /\ replayed' \in BOOLEAN /\ ended' \in BOOLEAN

BrowserTyped == local' \in Token' /\ stored' \in Workspaces \cup {NoWorkspace} /\ queue' \in Seq(Tabs)

\* t becomes r.
Becomes(t, r) ==
    /\ r \in Tab /\ tab' = [tab EXCEPT ![t] = r]
    /\ r.access \in Token' /\ r.session \in Token' /\ r.carried \in Token' /\ r.leaving \in Token'
    /\ r.choosing \in Token' /\ r.attempt \in 0..Retries
    /\ r.run = "posted" <=> r.call \in DOMAIN calls'
    /\ r.run # "posted" => r.call = 0

LEMMA TypesKeep ==
    ASSUME SessionTypeOK, ServerTyped, BrowserTyped, NEW t \in Tabs, NEW r, Becomes(t, r)
    PROVE  SessionTypeOK'
<1>1. Token \subseteq Token' /\ Len(calls') \in Nat /\ DOMAIN calls' = 1..Len(calls')
  BY DEF Token, SessionTypeOK, TypeOK, ServerTyped
<1>2. \A u \in Tabs : tab'[u] = IF u = t THEN r ELSE tab[u]
  BY DEF SessionTypeOK, Becomes
<1>3. tab' \in [Tabs -> Tab]
  BY DEF SessionTypeOK, Becomes
<1>4. ASSUME NEW u \in Tabs
      PROVE  /\ tab'[u].status \in {"loading", "authenticated", "unauthenticated"}
             /\ {tab'[u].access, tab'[u].session, tab'[u].carried, tab'[u].leaving, tab'[u].choosing} \subseteq Token'
             /\ tab'[u].run \in {"none", "queued", "posted", "asleep"} /\ tab'[u].attempt \in 0..Retries
             /\ (tab'[u].run = "posted") = (tab'[u].call \in DOMAIN calls')
             /\ tab'[u].request \in {"idle", "sent", "waiting", "retrying"}
             /\ tab'[u].run # "posted" => tab'[u].call = 0
  <2>1. CASE u = t
    BY <1>2, <2>1 DEF Becomes, Tab
  <2>2. CASE u # t
    <3>1. tab'[u] = tab[u]
      BY <1>2, <2>2
    <3>2. (tab[u].run = "posted") = (tab[u].call \in DOMAIN calls')
      <4>1. tab[u].run # "posted" => tab[u].call \notin DOMAIN calls'
        BY <1>1 DEF SessionTypeOK
      <4>2. tab[u].run = "posted" => tab[u].call \in DOMAIN calls'
        BY Typed DEF ServerTyped
      <4>3. QED
        BY <4>1, <4>2
    <3>3. QED
      BY <1>1, <3>1, <3>2 DEF SessionTypeOK, TypeOK
  <2>3. QED
    BY <2>1, <2>2
<1>5. TypeOK'
  <2>1. expired' \in Token'
    BY <1>1 DEF SessionTypeOK, TypeOK, ServerTyped
  <2>2. QED
    BY <1>4, <2>1 DEF TypeOK, ServerTyped, BrowserTyped
<1>6. QED
  BY <1>3, <1>4, <1>5 DEF SessionTypeOK, ServerTyped

\* A step of t that leaves its call alone, and gives it the token n at most.
Core == SessionTypeOK /\ RowsOK /\ ResetOK /\ LockOK /\ (WebLocks /\ ~lost => UnlostOK)

LEMMA TabKeeps ==
    ASSUME Core, ServerTyped, BrowserTyped, NEW t \in Tabs, NEW r, Becomes(t, r), Grows, calls' = calls,
           replayed' = replayed, reset' = reset, raced => raced', lost => lost', LockOK',
           NEW n \in Nat, lost' \/ (Others(t) /\ Placed(t, n))
    PROVE  Core'
<1>1. SessionTypeOK'
  BY TypesKeep DEF Core
<1>2. RowsOK' /\ ResetOK'
  BY RowsKeep DEF Core, CallsQuiet
<1>3. WebLocks /\ ~lost' => UnlostOK'
  BY PlacesKeep DEF Core
<1>4. QED
  BY <1>1, <1>2, <1>3 DEF Core

-----------------------------------------------------------------------------
(* What the session's operators leave. *)

\* The least element (NatLessThanWellFounded), for pickTenant's first workspace.
LEMMA Least ==
    ASSUME NEW S \in SUBSET Nat, S # {}
    PROVE  \E w \in S : \A v \in S : w <= v
<1> DEFINE R == {p \in Nat \X Nat : p[1] < p[2]}
<1>1. IsWellFoundedOn(R, Nat)
  BY NatLessThanWellFounded DEF OpToRel
<1>2. PICK x \in S : \A y \in S : ~ (<<y, x>> \in R)
  <2> HIDE DEF R
  <2>1. QED
    BY <1>1, WFMin, Zenon
<1>3. ASSUME NEW v \in S PROVE x <= v
  <2>1. <<v, x>> \in Nat \X Nat /\ <<v, x>>[1] = v /\ <<v, x>>[2] = x
    OBVIOUS
  <2>2. v < x => <<v, x>> \in R
    BY <2>1, Zenon
  <2>3. v \in Nat /\ x \in Nat
    OBVIOUS
  <2>4. QED
    BY <1>2, <2>2, <2>3
<1>4. QED
  BY <1>3

LEMMA PicksAWorkspace ==
    ASSUME NEW members \in SUBSET Workspaces, NEW asked, NEW remembered
    PROVE  pickTenant(members, asked, remembered) \in Workspaces \cup {NoWorkspace}
<1>1. members # {} => \E w \in members : \A v \in members : w <= v
  BY AuthBounds, Least
<1>2. CASE asked \in members
  BY <1>2 DEF pickTenant
<1>3. CASE asked \notin members /\ remembered \in members
  BY <1>3 DEF pickTenant
<1>4. CASE asked \notin members /\ remembered \notin members /\ members = {}
  BY <1>4 DEF pickTenant
<1>5. CASE asked \notin members /\ remembered \notin members /\ members # {}
  <2>1. pickTenant(members, asked, remembered) = CHOOSE w \in members : \A v \in members : w <= v
    BY <1>5 DEF pickTenant
  <2>2. QED
    BY <1>1, <1>5, <2>1
<1>6. QED
  BY <1>2, <1>3, <1>4, <1>5

LEMMA Applied ==
    ASSUME NEW t \in Tabs, NEW after \in Tab, NEW token \in Nat, NEW members \in SUBSET Workspaces, NEW asked,
           NEW keep \in BOOLEAN, applySession(t, after, token, members, asked, keep)
    PROVE  /\ local' = (IF keep THEN token ELSE NoToken) /\ stored' \in Workspaces \cup {NoWorkspace}
           /\ \E r \in Tab : /\ tab' = [tab EXCEPT ![t] = r]
                             /\ r.session = (IF keep THEN NoToken ELSE token) /\ r.access = token
                             /\ r.status = "authenticated"
                             /\ r.run = after.run /\ r.call = after.call /\ r.attempt = after.attempt
                             /\ r.leaving = after.leaving /\ r.choosing = after.choosing /\ r.carried = after.carried
<1> DEFINE r == [after EXCEPT !.session = IF keep THEN NoToken ELSE token, !.access = token, !.members = members,
                              !.workspace = stored', !.status = "authenticated"]
<1>1. stored' \in Workspaces \cup {NoWorkspace} /\ local' = (IF keep THEN token ELSE NoToken)
      /\ tab' = [tab EXCEPT ![t] = r]
  BY PicksAWorkspace DEF applySession
<1>2. stored' \in Nat
  BY <1>1, AuthBounds DEF NoWorkspace
<1>3. /\ r \in Tab
      /\ r.session = (IF keep THEN NoToken ELSE token) /\ r.access = token
      /\ r.status = "authenticated"
      /\ r.run = after.run /\ r.call = after.call /\ r.attempt = after.attempt
      /\ r.leaving = after.leaving /\ r.choosing = after.choosing /\ r.carried = after.carried
  BY <1>2 DEF Tab, NoToken
<1> HIDE DEF r
<1>4. QED
  BY <1>1, <1>3

LEMMA Cleared ==
    ASSUME NEW t \in Tabs, NEW after \in Tab, clearSession(t, after)
    PROVE  /\ local' = NoToken /\ stored' = NoWorkspace
           /\ \E r \in Tab : /\ tab' = [tab EXCEPT ![t] = r]
                             /\ r.session = NoToken /\ r.access = NoToken /\ r.status = "unauthenticated"
                             /\ r.run = after.run /\ r.call = after.call /\ r.attempt = after.attempt
                             /\ r.leaving = after.leaving /\ r.choosing = after.choosing /\ r.carried = after.carried
<1> DEFINE r == [after EXCEPT !.session = NoToken, !.access = NoToken, !.members = {},
                              !.workspace = NoWorkspace, !.status = "unauthenticated"]
<1>1. local' = NoToken /\ stored' = NoWorkspace /\ tab' = [tab EXCEPT ![t] = r]
  BY DEF clearSession
<1>2. /\ r \in Tab
      /\ r.session = NoToken /\ r.access = NoToken /\ r.status = "unauthenticated"
      /\ r.run = after.run /\ r.call = after.call /\ r.attempt = after.attempt
      /\ r.leaving = after.leaving /\ r.choosing = after.choosing /\ r.carried = after.carried
  BY DEF Tab, NoToken, NoWorkspace
<1> HIDE DEF r
<1>3. QED
  BY <1>1, <1>2

LEMMA Settles ==
    ASSUME NEW tb \in Tab, NEW token \in Nat
    PROVE  LET r == Settled(tb, token) IN
           /\ r \in Tab /\ r.run = "none" /\ r.call = 0 /\ r.attempt = 0 /\ r.carried \in {tb.carried, token}
           /\ r.session = tb.session /\ r.access = tb.access /\ r.status = tb.status
           /\ r.leaving = tb.leaving /\ r.choosing = tb.choosing
  BY DEF Settled, Tab, NoToken

LEMMA Drops ==
    ASSUME NEW tb \in Tab
    PROVE  LET r == Dropped(tb) IN
           /\ r \in Tab /\ r.run = tb.run /\ r.call = tb.call /\ r.attempt = tb.attempt /\ r.carried = NoToken
           /\ r.session = tb.session /\ r.access = tb.access /\ r.status = tb.status
           /\ r.leaving = tb.leaving /\ r.choosing = tb.choosing
  BY DEF Dropped, Tab, NoToken

LEMMA EventKeeps ==
    ASSUME left \in [Kinds -> Nat], NEW kind \in Kinds, Event(kind)
    PROVE  left' \in [Kinds -> Nat]
  BY DEF Event

\* A login's row; a row that a logout revokes.
LEMMA IssuedGrows ==
    ASSUME SessionTypeOK, tokens' = Issued
    PROVE  /\ Grows /\ tokens' \in Seq(Row) /\ Len(tokens') = Len(tokens) + 1
           /\ Len(tokens') \notin Token /\ Len(tokens') \in Nat /\ Len(tokens') \in Token'
<1>1. tokens \in Seq(Row) /\ Len(tokens) \in Nat
  BY DEF SessionTypeOK, TypeOK
<1>2. New(Len(tokens) + 1) \in Row
  BY <1>1 DEF New, Row
<1>3. /\ tokens' \in Seq(Row) /\ Len(tokens') = Len(tokens) + 1
      /\ \A i \in DOMAIN tokens : tokens'[i] = tokens[i]
      /\ tokens'[Len(tokens) + 1] = New(Len(tokens) + 1)
      /\ DOMAIN tokens = 1..Len(tokens) /\ DOMAIN tokens' = 1..(Len(tokens) + 1)
  BY <1>1, <1>2 DEF Issued
<1>4. QED
  BY <1>1, <1>3 DEF Grows, Token

LEMMA SameGrows ==
    ASSUME SessionTypeOK, tokens' = tokens
    PROVE  Grows /\ tokens' \in Seq(Row) /\ Len(tokens') = Len(tokens) /\ Token' = Token
  BY DEF SessionTypeOK, TypeOK, Grows, Token

LEMMA RevokedGrows ==
    ASSUME SessionTypeOK, NEW k \in DOMAIN tokens, tokens' = [tokens EXCEPT ![k].revoked = TRUE]
    PROVE  Grows /\ tokens' \in Seq(Row) /\ Len(tokens') = Len(tokens) /\ Token' = Token
<1> DEFINE r == [tokens[k] EXCEPT !.revoked = TRUE]
<1>1. tokens \in Seq(Row) /\ tokens' = [tokens EXCEPT ![k] = r] /\ tokens[k] \in Row
  BY DEF SessionTypeOK, TypeOK
<1>2. r \in Row /\ r.family = tokens[k].family /\ r.rotated = tokens[k].rotated /\ r.revoked
  BY <1>1 DEF Row
<1> HIDE DEF r
<1>3. /\ tokens' \in Seq(Row) /\ Len(tokens') = Len(tokens) /\ DOMAIN tokens' = DOMAIN tokens
      /\ \A i \in DOMAIN tokens : tokens'[i] = IF i = k THEN r ELSE tokens[i]
      /\ DOMAIN tokens = 1..Len(tokens) /\ Len(tokens) \in Nat
  <2> DEFINE ts == [tokens EXCEPT ![k] = r]
  <2>1. /\ ts \in Seq(Row) /\ Len(ts) = Len(tokens) /\ DOMAIN ts = DOMAIN tokens
        /\ \A i \in DOMAIN tokens : ts[i] = IF i = k THEN r ELSE tokens[i]
        /\ DOMAIN tokens = 1..Len(tokens) /\ Len(tokens) \in Nat
    BY <1>1, <1>2
  <2>2. tokens' = ts
    BY <1>1
  <2> HIDE DEF ts
  <2>3. QED
    BY <2>1, <2>2
<1>4. QED
  BY <1>2, <1>3 DEF Grows, Token

-----------------------------------------------------------------------------
(* The tabs' steps. *)

LEMMA ServerTypes ==
    ASSUME SessionTypeOK
    PROVE  /\ left \in [Kinds -> Nat] /\ lost \in BOOLEAN /\ raced \in BOOLEAN /\ replayed \in BOOLEAN
           /\ ended \in BOOLEAN /\ joined \subseteq Workspaces /\ reset \in Token /\ expired \in Token
           /\ expired \in Nat /\ tokens \in Seq(Row) /\ calls \in Seq(CallRow)
<1>1. expired \in Token /\ joined \subseteq Workspaces /\ tokens \in Seq(Row) /\ calls \in Seq(CallRow)
  BY DEF SessionTypeOK, TypeOK
<1>2. QED
  BY <1>1, Typed DEF SessionTypeOK

LEMMA QueueTyped ==
    ASSUME Core
    PROVE  /\ queue \in Seq(Tabs) /\ left \in [Kinds -> Nat] /\ lost \in BOOLEAN /\ raced \in BOOLEAN
           /\ replayed \in BOOLEAN /\ ended \in BOOLEAN /\ stored \in Workspaces \cup {NoWorkspace}
           /\ joined \subseteq Workspaces /\ reset \in Token /\ expired \in Nat
           /\ tab \in [Tabs -> Tab] /\ SessionTypeOK /\ RowsOK /\ LockOK
           /\ \A t \in Tabs : tab[t].run # "posted" => tab[t].call = 0
           /\ \A t \in Tabs : tab[t].attempt \in 0..Retries /\ tab[t].carried \in Token
<1>1. SessionTypeOK /\ RowsOK /\ LockOK
  BY DEF Core
<1>2. /\ queue \in Seq(Tabs) /\ stored \in Workspaces \cup {NoWorkspace} /\ joined \subseteq Workspaces /\ expired \in Token
      /\ \A t \in Tabs : tab[t].attempt \in 0..Retries /\ tab[t].carried \in Token
  BY <1>1 DEF SessionTypeOK, TypeOK
<1>3. expired \in Nat
  BY <1>1, <1>2, Typed
<1>4. QED
  BY <1>1, <1>2, <1>3 DEF SessionTypeOK

\* The server's variables as they were, or nearly.
LEMMA ServerStill ==
    ASSUME SessionTypeOK, UNCHANGED <<tokens, calls, expired, reset>>, joined' \subseteq Workspaces,
           left' \in [Kinds -> Nat], lost' \in BOOLEAN, raced' \in BOOLEAN, replayed' \in BOOLEAN, ended' \in BOOLEAN
    PROVE  ServerTyped /\ Grows /\ Token' = Token
<1>1. Grows /\ tokens' \in Seq(Row) /\ Len(tokens') = Len(tokens) /\ Token' = Token
  BY SameGrows
<1>2. calls \in Seq(CallRow) /\ CallRow' = CallRow
  BY <1>1 DEF SessionTypeOK, TypeOK, CallRow
<1>3. calls' \in Seq(CallRow)' /\ reset' \in Token'
  BY <1>1, <1>2 DEF SessionTypeOK
<1>4. QED
  BY <1>1, <1>3, Typed DEF ServerTyped

\* Steps that leave the table, the lock and the tokens in their places.
LEMMA QuietKeeps ==
    ASSUME Core, NEW t \in Tabs, NEW r \in Tab, tab' = [tab EXCEPT ![t] = r],
           r.run = tab[t].run, r.call = tab[t].call, r.session = tab[t].session, r.choosing = tab[t].choosing,
           r.attempt = tab[t].attempt, r.access \in Token, r.carried \in Token, r.leaving \in Token,
           UNCHANGED <<tokens, calls, expired, joined, reset, lost, raced, replayed, local, queue>>,
           stored' \in Workspaces \cup {NoWorkspace}, left' \in [Kinds -> Nat], ended' \in BOOLEAN
    PROVE  Core'
<1>1. ServerTyped /\ Grows /\ Token' = Token /\ LockOK /\ tab \in [Tabs -> Tab] /\ SessionTypeOK
  BY ServerStill, QueueTyped
<1>2. BrowserTyped
  BY <1>1, QueueTyped, Typed DEF BrowserTyped
<1>3. Becomes(t, r)
  BY <1>1, QueueTyped, Typed DEF Becomes
<1>4. tab'[t] = r /\ \A u \in Tabs : u # t => tab'[u] = tab[u]
  BY <1>1
<1>5. LockOK'
  BY <1>1, <1>4, LockStays
<1>6. Others(t) /\ Placed(t, NoToken)
  BY <1>4 DEF Others, Placed, NoToken
<1>7. NoToken \in Nat
  BY DEF NoToken
<1>8. QED
  BY <1>1, <1>2, <1>3, <1>5, <1>6, <1>7, TabKeeps

LEMMA RefreshKeeps ==
    ASSUME Core, NEW t \in Tabs, NEW tb \in Tab, refresh(t, tb),
           tb.run = tab[t].run, tb.call = tab[t].call, tb.session = tab[t].session, tb.choosing = tab[t].choosing,
           tb.attempt = tab[t].attempt, tb.access = tab[t].access, tb.carried = tab[t].carried,
           tb.leaving = tab[t].leaving
    PROVE  Core'
<1>0. UNCHANGED <<tokens, joined, expired, calls, left, lost, raced, replayed, reset, ended, local, stored>>
  BY DEF refresh, server, ghosts
<1>1. ServerTyped /\ Grows /\ Token' = Token /\ LockOK /\ tab \in [Tabs -> Tab] /\ SessionTypeOK
  BY <1>0, ServerStill, QueueTyped
<1>2. tab[t].access \in Token /\ tab[t].leaving \in Token /\ tab[t].carried \in Token
  BY <1>1, Typed, QueueTyped
<1>3. CASE tab' = [tab EXCEPT ![t] = tb] /\ UNCHANGED queue
  BY <1>0, <1>2, <1>3, QuietKeeps, QueueTyped
<1>4. CASE /\ tab[t].run = "none" /\ tab' = [tab EXCEPT ![t] = [tb EXCEPT !.run = "queued"]]
           /\ queue' = Append(queue, t)
  <2> DEFINE r == [tb EXCEPT !.run = "queued"]
  <2>1. /\ r \in Tab /\ r.run = "queued" /\ r.call = tab[t].call /\ r.session = tab[t].session
        /\ r.choosing = tab[t].choosing /\ r.attempt = tab[t].attempt /\ r.access = tab[t].access
        /\ r.carried = tab[t].carried /\ r.leaving = tab[t].leaving /\ tab' = [tab EXCEPT ![t] = r]
    BY <1>4 DEF Tab
  <2> HIDE DEF r
  <2>2. tab'[t] = r /\ \A u \in Tabs : u # t => tab'[u] = tab[u]
    BY <1>1, <2>1
  <2>3. queue \in Seq(Tabs) /\ queue' \in Seq(Tabs)
    BY <1>4, QueueTyped
  <2>4. LockOK'
    BY <1>1, <1>4, <2>1, <2>2, <2>3, LockJoins
  <2>5. BrowserTyped
    BY <1>0, <1>1, <2>3, QueueTyped, Typed DEF BrowserTyped
  <2>6. Becomes(t, r)
    BY <1>0, <1>1, <1>2, <1>4, <2>1, QueueTyped, Typed DEF Becomes
  <2>7. Others(t) /\ Placed(t, NoToken) /\ NoToken \in Nat
    BY <1>0, <1>4, <2>1, <2>2 DEF Others, Placed, NoToken
  <2>8. QED
    BY <1>0, <1>1, <2>4, <2>5, <2>6, <2>7, TabKeeps
<1>5. QED
  BY <1>3, <1>4 DEF refresh

LEMMA MountKeeps == ASSUME Core, NEW t \in Tabs, Mount(t) PROVE Core'
<1>1. tab[t] \in Tab
  BY QueueTyped
<1>2. QED
  BY <1>1, RefreshKeeps DEF Mount

LEMMA SendKeeps == ASSUME Core, NEW t \in Tabs, Send(t) PROVE Core'
<1> DEFINE r == [tab[t] EXCEPT !.request = "sent", !.carried = tab[t].access, !.origin = tab[t].workspace]
<1>1. SessionTypeOK /\ tab[t] \in Tab /\ "request" \in Kinds
  BY QueueTyped DEF Kinds
<1>2. /\ r \in Tab /\ r.run = tab[t].run /\ r.call = tab[t].call /\ r.session = tab[t].session
      /\ r.choosing = tab[t].choosing /\ r.attempt = tab[t].attempt /\ r.access = tab[t].access
      /\ r.carried = tab[t].access /\ r.leaving = tab[t].leaving
  BY <1>1 DEF Tab
<1>3. tab' = [tab EXCEPT ![t] = r] /\ UNCHANGED <<tokens, joined, expired, calls, lost, raced, replayed, reset, ended,
                                                local, stored, queue>>
  BY DEF Send, ghosts, browser
<1>4. left' \in [Kinds -> Nat]
  BY <1>1, QueueTyped, EventKeeps DEF Send
<1> HIDE DEF r
<1>5. QED
  BY <1>1, <1>2, <1>3, <1>4, QuietKeeps, QueueTyped, Typed

LEMMA ResponseKeeps == ASSUME Core, NEW t \in Tabs, Response(t) PROVE Core'
<1> DEFINE r == [tab[t] EXCEPT !.request = "idle", !.carried = NoToken,
                               !.cached = @ \cup ({tab[t].origin} \cap joined)]
<1>1. SessionTypeOK /\ tab[t] \in Tab
  BY QueueTyped
<1>2. /\ r \in Tab /\ r.run = tab[t].run /\ r.call = tab[t].call /\ r.session = tab[t].session
      /\ r.choosing = tab[t].choosing /\ r.attempt = tab[t].attempt /\ r.access = tab[t].access
      /\ r.carried = NoToken /\ r.leaving = tab[t].leaving
  BY <1>1 DEF Tab, NoToken
<1>3. /\ tab' = [tab EXCEPT ![t] = r]
      /\ UNCHANGED <<tokens, joined, expired, calls, left, lost, raced, replayed, reset, ended, local, stored, queue>>
  <2>1. tab' = [tab EXCEPT ![t] = r]
    BY QueueTyped DEF Response
  <2>2. UNCHANGED <<tokens, joined, expired, calls, left, lost, raced, replayed, reset, ended, local, stored, queue>>
    BY DEF Response, server, ghosts, browser
  <2>3. QED
    BY <2>1, <2>2
<1> HIDE DEF r
<1>4. NoToken \in Token
  BY <1>1, Typed DEF NoToken
<1>5. QED
  BY <1>1, <1>2, <1>3, <1>4, QuietKeeps, QueueTyped, Typed

LEMMA Response401Keeps == ASSUME Core, NEW t \in Tabs, Response401(t) PROVE Core'
<1>1. SessionTypeOK /\ tab[t] \in Tab
  BY QueueTyped
<1>2. ASSUME refresh(t, [tab[t] EXCEPT !.request = "waiting"]) PROVE Core'
  <2> DEFINE tb == [tab[t] EXCEPT !.request = "waiting"]
  <2>1. /\ tb \in Tab /\ tb.run = tab[t].run /\ tb.call = tab[t].call /\ tb.session = tab[t].session
        /\ tb.choosing = tab[t].choosing /\ tb.attempt = tab[t].attempt /\ tb.access = tab[t].access
        /\ tb.carried = tab[t].carried /\ tb.leaving = tab[t].leaving
    BY <1>1 DEF Tab
  <2>2. refresh(t, tb)
    BY <1>2
  <2> HIDE DEF tb
  <2>3. QED
    BY <2>1, <2>2, RefreshKeeps
<1>3. ASSUME tab' = [tab EXCEPT ![t].request = "idle", ![t].carried = NoToken], UNCHANGED <<server, browser>>
      PROVE  Core'
  <2> DEFINE r == [tab[t] EXCEPT !.request = "idle", !.carried = NoToken]
  <2>1. /\ r \in Tab /\ r.run = tab[t].run /\ r.call = tab[t].call /\ r.session = tab[t].session
        /\ r.choosing = tab[t].choosing /\ r.attempt = tab[t].attempt /\ r.access = tab[t].access
        /\ r.carried = NoToken /\ r.leaving = tab[t].leaving
    BY <1>1 DEF Tab, NoToken
  <2>2. tab' = [tab EXCEPT ![t] = r]
    BY <1>3, QueueTyped
  <2>3. UNCHANGED <<tokens, joined, expired, calls, left, lost, raced, replayed, reset, ended, local, stored, queue>>
    BY <1>3 DEF server, ghosts, browser
  <2> HIDE DEF r
  <2>4. NoToken \in Token
    BY <1>1, Typed DEF NoToken
  <2>5. QED
    BY <1>1, <2>1, <2>2, <2>3, <2>4, QuietKeeps, QueueTyped, Typed
<1>4. QED
  BY <1>2, <1>3 DEF Response401

LEMMA SetWorkspaceKeeps == ASSUME Core, NEW t \in Tabs, NEW w \in Workspaces, SetWorkspace(t, w) PROVE Core'
<1> DEFINE d == Dropped(tab[t])
           r == [d EXCEPT !.workspace = w]
<1>1. SessionTypeOK /\ tab[t] \in Tab /\ "switch" \in Kinds /\ w \in Nat
  BY QueueTyped, AuthBounds DEF Kinds
<1>2. /\ d \in Tab /\ d.run = tab[t].run /\ d.call = tab[t].call /\ d.session = tab[t].session
      /\ d.choosing = tab[t].choosing /\ d.attempt = tab[t].attempt /\ d.access = tab[t].access
      /\ d.carried = NoToken /\ d.leaving = tab[t].leaving
  BY <1>1, Drops
<1>3. /\ tab' = [tab EXCEPT ![t] = r] /\ stored' = w
      /\ UNCHANGED <<tokens, joined, expired, calls, lost, raced, replayed, reset, ended, local, queue>>
  BY DEF SetWorkspace, ghosts
<1>4. left' \in [Kinds -> Nat]
  BY <1>1, QueueTyped, EventKeeps DEF SetWorkspace
<1> HIDE DEF d
<1>5. /\ r \in Tab /\ r.run = tab[t].run /\ r.call = tab[t].call /\ r.session = tab[t].session
      /\ r.choosing = tab[t].choosing /\ r.attempt = tab[t].attempt /\ r.access = tab[t].access
      /\ r.carried = NoToken /\ r.leaving = tab[t].leaving
  BY <1>1, <1>2 DEF Tab
<1> HIDE DEF r
<1>6. NoToken \in Token
  BY <1>1, Typed DEF NoToken
<1>7. QED
  BY <1>1, <1>3, <1>4, <1>5, <1>6, QuietKeeps, QueueTyped, Typed

\* The table as it was, with a call more or a call over.
LEMMA CallsStill ==
    ASSUME SessionTypeOK, UNCHANGED <<tokens, joined, expired, reset>>, left' \in [Kinds -> Nat],
           lost' \in BOOLEAN, raced' \in BOOLEAN, replayed' \in BOOLEAN, ended' \in BOOLEAN,
           \/ \E k \in Token \ {NoToken} : calls' = Append(calls, Call(k))
           \/ \E c \in DOMAIN calls : calls' = [calls EXCEPT ![c] = Done]
    PROVE  ServerTyped /\ Grows /\ Token' = Token /\ CallsQuiet
<1>1. Grows /\ tokens' \in Seq(Row) /\ Len(tokens') = Len(tokens) /\ Token' = Token
  BY SameGrows
<1>2. calls \in Seq(CallRow) /\ CallRow' = CallRow /\ NoToken \in Token
  BY <1>1, Typed DEF SessionTypeOK, TypeOK, CallRow, NoToken
<1>3. \A k \in Token : Call(k) \in CallRow
  BY <1>2 DEF Call, CallRow
<1>4. Done \in CallRow
  BY <1>2 DEF Done, Call, CallRow
<1>5. calls' \in Seq(CallRow) /\ DOMAIN calls \subseteq DOMAIN calls' /\ CallsQuiet
  <2>1. CASE \E k \in Token \ {NoToken} : calls' = Append(calls, Call(k))
    <3>1. PICK k \in Token \ {NoToken} : calls' = Append(calls, Call(k))
      BY <2>1
    <3>2. Call(k) \in CallRow
      BY <1>3
    <3>3. /\ calls' \in Seq(CallRow) /\ DOMAIN calls \subseteq DOMAIN calls'
          /\ \A c \in DOMAIN calls' : IF c \in DOMAIN calls THEN calls'[c] = calls[c] ELSE calls'[c] = Call(k)
      BY <1>2, <3>1, <3>2
    <3>4. QED
      BY <3>3 DEF CallsQuiet
  <2>2. CASE \E c \in DOMAIN calls : calls' = [calls EXCEPT ![c] = Done]
    <3>1. PICK c \in DOMAIN calls : calls' = [calls EXCEPT ![c] = Done]
      BY <2>2
    <3>2. /\ calls' \in Seq(CallRow) /\ DOMAIN calls' = DOMAIN calls
          /\ \A d \in DOMAIN calls : IF d = c THEN calls'[d] = Done ELSE calls'[d] = calls[d]
      BY <1>2, <1>4, <3>1
    <3>3. QED
      BY <3>2 DEF CallsQuiet
  <2>3. QED
    BY <2>1, <2>2
<1>6. calls' \in Seq(CallRow)' /\ reset' \in Token'
  BY <1>1, <1>2, <1>5 DEF SessionTypeOK
<1>7. QED
  BY <1>1, <1>5, <1>6, Typed DEF ServerTyped, SessionTypeOK, TypeOK

LEMMA CallKeeps ==
    ASSUME Core, ServerTyped, BrowserTyped, NEW t \in Tabs, NEW r, Becomes(t, r), Grows, CallsQuiet,
           reset' = reset, raced => raced', LockOK', WebLocks /\ ~lost' => UnlostOK'
    PROVE  Core'
<1>1. SessionTypeOK'
  BY TypesKeep DEF Core
<1>2. RowsOK' /\ ResetOK'
  BY RowsKeep DEF Core
<1>3. QED
  BY <1>1, <1>2 DEF Core

\* t leaves the lock with nothing changed but its own record, or loses its call.
LEMMA LeaveKeeps ==
    ASSUME Core, NEW t \in Tabs, NEW r \in Tab, tab' = [tab EXCEPT ![t] = r], Leave(t),
           r.run = "none", r.call = 0, r.session = tab[t].session, r.choosing \in {NoToken, tab[t].choosing},
           r.attempt \in 0..Retries, r.access \in Token, r.carried \in Token, r.leaving \in Token,
           UNCHANGED <<tokens, calls, expired, joined, reset, raced, replayed, local, stored>>,
           lost' \in BOOLEAN, lost => lost', tab[t].run = "posted" => lost', left' \in [Kinds -> Nat],
           ended' \in BOOLEAN
    PROVE  Core'
<1>1. ServerTyped /\ Grows /\ Token' = Token /\ LockOK /\ tab \in [Tabs -> Tab] /\ SessionTypeOK
  BY ServerStill, QueueTyped
<1>2. tab'[t] = r /\ \A u \in Tabs : u # t => tab'[u] = tab[u]
  BY <1>1
<1>3. LockOK' /\ queue' \in Seq(Tabs)
  BY <1>1, <1>2, QueueTyped, LockLeaves
<1>4. BrowserTyped
  BY <1>1, <1>3, QueueTyped, Typed DEF BrowserTyped
<1>5. 0 \notin DOMAIN calls' /\ NoToken \in Token /\ tab[t].session \in Token /\ tab[t].choosing \in Token
  BY <1>1, Typed DEF NoToken
<1>6. Becomes(t, r)
  BY <1>1, <1>5, Typed DEF Becomes
<1>7. lost' \/ (Others(t) /\ Placed(t, NoToken))
  BY <1>2 DEF Others, Placed, NoToken
<1>8. NoToken \in Nat
  BY DEF NoToken
<1>9. QED
  BY <1>1, <1>3, <1>4, <1>6, <1>7, <1>8, TabKeeps

LEMMA AttemptKeeps == ASSUME Core, NEW t \in Tabs, Attempt(t) PROVE Core'
<1> DEFINE k == readRefreshToken(t)
<1>0. /\ SessionTypeOK /\ LockOK /\ RowsOK /\ tab[t] \in Tab /\ tab \in [Tabs -> Tab] /\ k \in Token /\ NoToken \in Token
      /\ tab[t].run \in {"queued", "asleep"}
      /\ UNCHANGED <<tokens, joined, expired, left, lost, raced, replayed, reset, ended, local, stored>>
  <2>1. SessionTypeOK /\ LockOK /\ RowsOK /\ tab[t] \in Tab /\ tab \in [Tabs -> Tab]
    BY QueueTyped
  <2>2. k \in Token /\ NoToken \in Token
    BY <2>1, Typed DEF readRefreshToken, NoToken
  <2>3. QED
    BY <2>1, <2>2 DEF Attempt, ghosts
<1>1. \E i \in DOMAIN queue : queue[i] = t
  BY <1>0 DEF LockOK
<1>2. WebLocks => queue[1] = t
  <2>1. WebLocks => Head(queue) = t
    BY DEF Attempt
  <2>2. QED
    BY <1>1, <2>1, QueueTyped
<1>3. CASE /\ k = NoToken
           /\ tab' = [tab EXCEPT ![t] = [Settled(@, NoToken) EXCEPT !.status = "unauthenticated"]]
           /\ Leave(t) /\ UNCHANGED calls
  <2> DEFINE d == Settled(tab[t], NoToken)
             r == [d EXCEPT !.status = "unauthenticated"]
  <2>1. /\ d \in Tab /\ d.run = "none" /\ d.call = 0 /\ d.attempt = 0 /\ d.carried \in {tab[t].carried, NoToken}
        /\ d.session = tab[t].session /\ d.access = tab[t].access /\ d.leaving = tab[t].leaving
        /\ d.choosing = tab[t].choosing
    BY <1>0, Settles DEF NoToken
  <2>2. tab' = [tab EXCEPT ![t] = r]
    BY <1>0, <1>3
  <2> HIDE DEF d
  <2>3. /\ r \in Tab /\ r.run = "none" /\ r.call = 0 /\ r.attempt = 0 /\ r.carried \in {tab[t].carried, NoToken}
        /\ r.session = tab[t].session /\ r.access = tab[t].access /\ r.leaving = tab[t].leaving
        /\ r.choosing = tab[t].choosing
    BY <2>1 DEF Tab
  <2> HIDE DEF r
  <2>4. r.access \in Token /\ r.carried \in Token /\ r.leaving \in Token /\ r.attempt \in 0..Retries
    BY <1>0, <2>3, Typed, QueueTyped, AuthBounds
  <2>5. QED
    BY <1>0, <1>3, <2>2, <2>3, <2>4, LeaveKeeps, QueueTyped
<1>4. CASE /\ k # NoToken /\ calls' = Append(calls, Call(k))
           /\ tab' = [tab EXCEPT ![t].run = "posted", ![t].call = Len(calls')]
           /\ UNCHANGED queue
  <2> DEFINE r == [tab[t] EXCEPT !.run = "posted", !.call = Len(calls) + 1]
  <2>1. ServerTyped /\ Grows /\ Token' = Token /\ CallsQuiet
    BY <1>0, <1>4, CallsStill, QueueTyped
  <2>2. Len(calls') = Len(calls) + 1 /\ DOMAIN calls' = 1..(Len(calls) + 1) /\ Len(calls) \in Nat
    BY <1>0, <1>4, Typed
  <2>3. /\ r \in Tab /\ r.run = "posted" /\ r.call = Len(calls) + 1 /\ r.session = tab[t].session
        /\ r.choosing = tab[t].choosing /\ r.attempt = tab[t].attempt /\ r.access = tab[t].access
        /\ r.carried = tab[t].carried /\ r.leaving = tab[t].leaving
    <3>1. tab[t] \in Tab /\ Len(calls) + 1 \in Nat
      BY <1>0, <2>2
    <3>2. QED
      BY <3>1 DEF Tab
  <2>4. tab' = [tab EXCEPT ![t] = r]
    BY <1>0, <1>4, <2>2
  <2> HIDE DEF r
  <2>5. tab'[t] = r /\ \A u \in Tabs : u # t => tab'[u] = tab[u]
    BY <1>0, <2>4
  <2>6. Becomes(t, r)
    BY SMTT(30), <1>0, <2>1, <2>2, <2>3, <2>4, Typed, QueueTyped DEF Becomes
  <2>7. LockOK'
    <3>1. \A u \in Tabs : /\ tab'[u].run # "none" <=> tab[u].run # "none"
                          /\ WebLocks /\ tab'[u].run = "posted" => tab[u].run = "posted" \/ queue[1] = u
      BY <1>0, <1>2, <2>3, <2>5
    <3>2. QED
      BY <1>0, <1>4, <3>1, LockStays
  <2>8. BrowserTyped
    BY <1>0, <1>4, <2>1, QueueTyped, Typed DEF BrowserTyped
  <2>9. WebLocks /\ ~lost' => UnlostOK'
    BY <1>0, <1>2, <1>4, <2>3, <2>5, PostKeeps DEF Core
  <2>10. QED
    BY <1>0, <2>1, <2>6, <2>7, <2>8, <2>9, CallKeeps
<1>5. QED
  BY <1>3, <1>4 DEF Attempt

LEMMA AnsweredKeeps == ASSUME Core, NEW t \in Tabs, Answered(t) PROVE Core'
<1> DEFINE c == tab[t].call
           n == calls[c].new
           d == Settled(tab[t], n)
<1>0. /\ SessionTypeOK /\ LockOK /\ RowsOK /\ tab[t] \in Tab /\ tab \in [Tabs -> Tab] /\ queue \in Seq(Tabs)
      /\ tab[t].run = "posted" /\ c \in DOMAIN calls /\ n \in Token /\ n \in Nat /\ NoToken \in Token
      /\ calls[c].members \in SUBSET Workspaces /\ 0 \notin DOMAIN calls
      /\ calls' = [calls EXCEPT ![c] = Done] /\ Leave(t)
      /\ UNCHANGED <<tokens, joined, expired, left, lost, raced, replayed, reset, ended>>
  <2>1. SessionTypeOK /\ LockOK /\ RowsOK /\ tab[t] \in Tab /\ tab \in [Tabs -> Tab] /\ queue \in Seq(Tabs)
    BY QueueTyped
  <2>2. tab[t].run = "posted"
    BY DEF Answered
  <2>3. c \in DOMAIN calls /\ n \in Token /\ n \in Nat /\ calls[c] \in CallRow /\ NoToken \in Token /\ 0 \notin DOMAIN calls
    BY <2>1, <2>2, Typed DEF NoToken
  <2>4. calls[c].members \in SUBSET Workspaces
    BY <2>3 DEF CallRow
  <2>5. QED
    BY <2>1, <2>2, <2>3, <2>4 DEF Answered, ghosts
<1>1. ServerTyped /\ Grows /\ Token' = Token /\ CallsQuiet /\ DOMAIN calls' = DOMAIN calls
  BY <1>0, CallsStill, QueueTyped
<1>2. /\ d \in Tab /\ d.run = "none" /\ d.call = 0 /\ d.attempt = 0 /\ d.carried \in {tab[t].carried, n}
      /\ d.leaving = tab[t].leaving /\ d.choosing = tab[t].choosing
  BY <1>0, Settles
<1>3. PICK r \in Tab :
        /\ tab' = [tab EXCEPT ![t] = r]
        /\ r.run = "none" /\ r.call = 0 /\ r.attempt = 0 /\ r.carried \in {tab[t].carried, n}
        /\ r.leaving = tab[t].leaving /\ r.choosing = tab[t].choosing
        /\ r.session \in {NoToken, n} /\ r.access \in {NoToken, n} /\ local' \in {NoToken, n}
        /\ local' = NoToken \/ r.session = NoToken
        /\ stored' \in Workspaces \cup {NoWorkspace}
  <2>1. CASE n = NoToken /\ clearSession(t, Settled(tab[t], NoToken))
    <3>1. clearSession(t, d)
      BY <2>1
    <3> HIDE DEF d
    <3>2. QED
      BY <1>2, <3>1, Cleared
  <2>2. CASE n # NoToken /\ applySession(t, d, n, calls[c].members, NoWorkspace, isKept(t))
    <3>1. isKept(t) \in BOOLEAN
      BY DEF isKept
    <3> HIDE DEF d
    <3>2. QED
      BY <1>0, <1>2, <2>2, <3>1, Applied
  <2>3. QED
    BY <2>1, <2>2 DEF Answered
<1> HIDE DEF d
<1>4. tab'[t] = r /\ \A u \in Tabs : u # t => tab'[u] = tab[u]
  BY <1>0, <1>3
<1>5. LockOK' /\ queue' \in Seq(Tabs)
  BY <1>0, <1>3, <1>4, LockLeaves
<1>6. BrowserTyped
  BY <1>0, <1>1, <1>3, <1>5 DEF BrowserTyped
<1>7. Becomes(t, r)
  <2>1. /\ tab[t].carried \in Token /\ tab[t].leaving \in Token /\ tab[t].choosing \in Token /\ 0 \in 0..Retries
    BY <1>0, Typed, QueueTyped, AuthBounds
  <2>2. QED
    BY <1>0, <1>1, <1>3, <2>1 DEF Becomes
<1>8. WebLocks /\ ~lost' => UnlostOK'
  BY <1>0, <1>3, <1>4, EndKeeps DEF Core
<1>9. QED
  BY <1>0, <1>1, <1>5, <1>6, <1>7, <1>8, CallKeeps

LEMMA GivesUp ==
    ASSUME NEW tb \in Tab
    PROVE  LET r == GiveUp(tb) IN
           /\ r \in Tab /\ r.run = "none" /\ r.call = 0 /\ r.attempt = 0 /\ r.carried \in {tb.carried, NoToken}
           /\ r.session = tb.session /\ r.access = tb.access /\ r.leaving = tb.leaving /\ r.choosing = tb.choosing
           /\ r.status = IF tb.access # NoToken THEN tb.status ELSE "unauthenticated"
<1> DEFINE d == Settled(tb, NoToken)
<1>1. /\ d \in Tab /\ d.run = "none" /\ d.call = 0 /\ d.attempt = 0 /\ d.carried \in {tb.carried, NoToken}
      /\ d.session = tb.session /\ d.access = tb.access /\ d.leaving = tb.leaving /\ d.choosing = tb.choosing
      /\ d.status = tb.status
  BY Settles DEF NoToken
<1>2. GiveUp(tb) = [d EXCEPT !.status = IF tb.access # NoToken THEN @ ELSE "unauthenticated"]
  BY DEF GiveUp
<1> HIDE DEF d
<1>3. QED
  BY <1>1, <1>2 DEF Tab

\* A failure: t gives up and leaves the lock, or sleeps with it.
LEMMA AFailure ==
    ASSUME Core, NEW t \in Tabs, NEW tb \in Tab, tb.attempt \in 0..Retries, Retried(t, tb)
    PROVE  /\ tab[t].run = "posted" /\ left' \in [Kinds -> Nat]
           /\ UNCHANGED <<tokens, joined, expired, raced, replayed, reset, ended>>
           /\ \E r \in Tab :
                /\ tab' = [tab EXCEPT ![t] = r]
                /\ r.call = 0 /\ r.session = tb.session /\ r.choosing = tb.choosing
                /\ r.leaving = tb.leaving /\ r.access = tb.access /\ r.carried \in {tb.carried, NoToken}
                /\ r.attempt \in 0..Retries
                /\ r.status = tb.status \/ (tb.access = NoToken /\ r.status = "unauthenticated")
                /\ (r.run = "none" /\ Leave(t)) \/ (r.run = "asleep" /\ queue' = queue)
<1> DEFINE How ==
      \E r \in Tab :
        /\ tab' = [tab EXCEPT ![t] = r]
        /\ r.call = 0 /\ r.session = tb.session /\ r.choosing = tb.choosing
        /\ r.leaving = tb.leaving /\ r.access = tb.access /\ r.carried \in {tb.carried, NoToken}
        /\ r.attempt \in 0..Retries
        /\ r.status = tb.status \/ (tb.access = NoToken /\ r.status = "unauthenticated")
        /\ (r.run = "none" /\ Leave(t)) \/ (r.run = "asleep" /\ queue' = queue)
<1>1. Retries \in Nat /\ "fault" \in Kinds /\ left \in [Kinds -> Nat]
  BY QueueTyped, AuthBounds DEF Kinds
<1>2. left' \in [Kinds -> Nat]
  BY <1>1, EventKeeps DEF Retried
<1>3. ASSUME tab' = [tab EXCEPT ![t] = GiveUp(tb)], Leave(t) PROVE How
  <2> DEFINE r == GiveUp(tb)
  <2>1. tab' = [tab EXCEPT ![t] = r]
    BY <1>3
  <2>2. /\ r \in Tab /\ r.run = "none" /\ r.call = 0 /\ r.attempt = 0 /\ r.carried \in {tb.carried, NoToken}
        /\ r.session = tb.session /\ r.access = tb.access /\ r.leaving = tb.leaving
        /\ r.choosing = tb.choosing
        /\ r.status = IF tb.access # NoToken THEN tb.status ELSE "unauthenticated"
    BY GivesUp
  <2> HIDE DEF r
  <2>3. r.attempt \in 0..Retries
    BY <1>1, <2>2
  <2>4. QED
    BY <1>3, <2>1, <2>2, <2>3
<1>4. ASSUME tb.attempt < Retries, UNCHANGED queue,
             tab' = [tab EXCEPT ![t] = [tb EXCEPT !.run = "asleep", !.attempt = @ + 1, !.call = 0]]
      PROVE  How
  <2> DEFINE n == tb.attempt + 1
  <2>1. n \in Nat /\ n \in 0..Retries
    BY <1>1, <1>4
  <2>2. tab' = [tab EXCEPT ![t] = [tb EXCEPT !.run = "asleep", !.attempt = n, !.call = 0]]
    BY <1>4
  <2> HIDE DEF n
  <2> DEFINE r == [tb EXCEPT !.run = "asleep", !.attempt = n, !.call = 0]
  <2>3. /\ r \in Tab /\ r.run = "asleep" /\ r.call = 0 /\ r.attempt = n /\ r.carried = tb.carried
        /\ r.session = tb.session /\ r.access = tb.access /\ r.leaving = tb.leaving
        /\ r.choosing = tb.choosing /\ r.status = tb.status
    BY <2>1 DEF Tab
  <2>4. tab' = [tab EXCEPT ![t] = r]
    BY <2>2
  <2> HIDE DEF r
  <2>5. QED
    BY <1>4, <2>1, <2>3, <2>4
<1>5. /\ tab[t].run = "posted"
      /\ UNCHANGED <<tokens, joined, expired, raced, replayed, reset, ended>>
      /\ \/ tab' = [tab EXCEPT ![t] = GiveUp(tb)] /\ Leave(t)
         \/ /\ tb.attempt < Retries
            /\ tab' = [tab EXCEPT ![t] = [tb EXCEPT !.run = "asleep", !.attempt = @ + 1, !.call = 0]]
            /\ UNCHANGED queue
  BY DEF Retried
<1>6. How
  <2> HIDE DEF How
  <2>1. QED
    BY <1>3, <1>4, <1>5
<1>7. QED
  BY <1>2, <1>5, <1>6

\* Its call is over, or its answer is lost.
LEMMA RetryKeeps ==
    ASSUME Core, NEW t \in Tabs, NEW tb \in Tab, Retried(t, tb),
           tb.attempt = tab[t].attempt, tb.carried = tab[t].carried, tb.access = tab[t].access,
           tb.leaving = tab[t].leaving, tb.choosing = tab[t].choosing, tb.session \in Token,
           local' \in Token, stored' = stored, lost' \in BOOLEAN, lost => lost',
           (lost' /\ calls' = calls) \/ calls' = [calls EXCEPT ![tab[t].call] = Done],
           LET n == calls[tab[t].call].new IN
           \/ lost'
           \/ calls[tab[t].call].phase = "sent" /\ local' = local /\ tb.session = tab[t].session
           \/ /\ local' \in {NoToken, n} /\ tb.session \in {NoToken, n}
              /\ local' = NoToken \/ tb.session = NoToken
    PROVE  Core'
<1> DEFINE c == tab[t].call
<1>1. tb.attempt \in 0..Retries /\ tab[t].access \in Token /\ tab[t].leaving \in Token /\ tab[t].choosing \in Token
      /\ tab[t].carried \in Token /\ SessionTypeOK /\ LockOK /\ RowsOK /\ tab \in [Tabs -> Tab] /\ queue \in Seq(Tabs)
      /\ stored \in Workspaces \cup {NoWorkspace}
  <2>1. SessionTypeOK /\ LockOK /\ RowsOK /\ tab \in [Tabs -> Tab] /\ queue \in Seq(Tabs)
        /\ tab[t].attempt \in 0..Retries /\ tab[t].carried \in Token /\ stored \in Workspaces \cup {NoWorkspace}
    BY QueueTyped
  <2>2. QED
    BY <2>1, Typed
<1>2. /\ tab[t].run = "posted" /\ left' \in [Kinds -> Nat]
      /\ UNCHANGED <<tokens, joined, expired, raced, replayed, reset, ended>>
  BY <1>1, AFailure
<1>3. PICK r \in Tab :
        /\ tab' = [tab EXCEPT ![t] = r]
        /\ r.call = 0 /\ r.session = tb.session /\ r.choosing = tb.choosing
        /\ r.leaving = tb.leaving /\ r.access = tb.access /\ r.carried \in {tb.carried, NoToken}
        /\ r.attempt \in 0..Retries
        /\ (r.run = "none" /\ Leave(t)) \/ (r.run = "asleep" /\ queue' = queue)
  BY <1>1, AFailure
<1>4. NoToken \in Token /\ 0 \notin DOMAIN calls /\ c \in DOMAIN calls
  BY <1>1, <1>2, Typed DEF NoToken
<1>5. tab'[t] = r /\ \A u \in Tabs : u # t => tab'[u] = tab[u]
  BY <1>1, <1>3
<1>6. LockOK' /\ queue' \in Seq(Tabs)
  <2>1. CASE r.run = "none" /\ Leave(t)
    BY <1>1, <1>5, <2>1, LockLeaves
  <2>2. CASE r.run = "asleep" /\ queue' = queue
    <3>1. \A u \in Tabs : /\ tab'[u].run # "none" <=> tab[u].run # "none"
                          /\ tab'[u].run = "posted" => tab[u].run = "posted" \/ queue[1] = u
      BY <1>2, <1>5, <2>2
    <3>2. QED
      BY <1>1, <2>2, <3>1, LockStays
  <2>3. QED
    BY <1>3, <2>1, <2>2
<1>7. ServerTyped /\ Grows /\ Token' = Token /\ CallsQuiet /\ DOMAIN calls' = DOMAIN calls
  <2>1. CASE calls' = [calls EXCEPT ![c] = Done]
    BY <1>1, <1>2, <1>4, <2>1, CallsStill, QueueTyped
  <2>2. CASE calls' = calls
    <3>1. ServerTyped /\ Grows /\ Token' = Token
      BY <1>1, <1>2, <2>2, ServerStill, QueueTyped
    <3>2. QED
      BY <2>2, <3>1 DEF CallsQuiet
  <2>3. QED
    BY <2>1, <2>2
<1>8. BrowserTyped
  BY <1>1, <1>6, <1>7 DEF BrowserTyped
<1>9. Becomes(t, r)
  BY <1>1, <1>3, <1>4, <1>7 DEF Becomes
<1>10. WebLocks /\ ~lost' => UnlostOK'
  BY <1>1, <1>2, <1>3, <1>5, EndKeeps DEF Core
<1>11. QED
  BY <1>2, <1>6, <1>7, <1>8, <1>9, <1>10, CallKeeps

LEMMA FailedKeeps ==
    ASSUME Core, NEW t \in Tabs, Unreachable(t) \/ AnswerLost(t)
    PROVE  Core'
<1>1. tab[t] \in Tab /\ tab[t].session \in Token /\ local \in Token /\ lost \in BOOLEAN
  <2>1. SessionTypeOK /\ tab[t] \in Tab /\ lost \in BOOLEAN
    BY QueueTyped
  <2>2. QED
    BY <2>1, Typed
<1>2. Retried(t, tab[t]) /\ UNCHANGED <<local, stored>>
  BY DEF Unreachable, AnswerLost, Failed
<1>3. \/ calls' = [calls EXCEPT ![tab[t].call] = Done] /\ calls[tab[t].call].phase = "sent" /\ lost' = lost
      \/ lost' = TRUE /\ calls' = calls
  BY DEF Unreachable, AnswerLost
<1>4. QED
  BY <1>1, <1>2, <1>3, RetryKeeps

\* The new token is lost, or in its place.
LEMMA ApplyFailsKeeps == ASSUME Core, NEW t \in Tabs, ApplyFails(t) PROVE Core'
<1> DEFINE c == calls[tab[t].call]
           keep == isKept(t)
<1>1. SessionTypeOK /\ tab[t] \in Tab /\ lost \in BOOLEAN
  BY QueueTyped
<1>2. tab[t].session \in Token /\ local \in Token /\ NoToken \in Token /\ c.new \in Token /\ Token \subseteq Nat
  BY <1>1, Typed DEF NoToken, ApplyFails
<1>3. calls' = [calls EXCEPT ![tab[t].call] = Done]
  BY DEF ApplyFails
<1>4. CASE Failed(t) /\ lost' = TRUE
  BY <1>1, <1>2, <1>3, <1>4, RetryKeeps DEF Failed
<1>5. CASE /\ Retried(t, [tab[t] EXCEPT !.session = IF keep THEN NoToken ELSE c.new])
           /\ local' = (IF keep THEN c.new ELSE NoToken) /\ UNCHANGED <<stored, lost>>
  <2> DEFINE x == IF keep THEN NoToken ELSE c.new
             tb == [tab[t] EXCEPT !.session = x]
  <2>1. x \in Token /\ x \in {NoToken, c.new} /\ local' \in {NoToken, c.new} /\ (local' = NoToken \/ x = NoToken)
    BY <1>2, <1>5
  <2>2. Retried(t, tb)
    BY <1>5
  <2> HIDE DEF x
  <2>3. /\ tb \in Tab /\ tb.attempt = tab[t].attempt /\ tb.carried = tab[t].carried /\ tb.access = tab[t].access
        /\ tb.leaving = tab[t].leaving /\ tb.choosing = tab[t].choosing /\ tb.session = x
    BY <1>1, <1>2, <2>1 DEF Tab
  <2> HIDE DEF tb
  <2>4. local' \in Token
    BY <1>2, <2>1
  <2>5. QED
    BY <1>1, <1>3, <1>5, <2>1, <2>2, <2>3, <2>4, RetryKeeps
<1>6. QED
  BY <1>4, <1>5 DEF ApplyFails

LEMMA LoginTyped ==
    ASSUME SessionTypeOK, tokens' = Issued, UNCHANGED <<calls, expired, reset>>, joined' \subseteq Workspaces,
           left' \in [Kinds -> Nat], lost' \in BOOLEAN, raced' \in BOOLEAN, replayed' \in BOOLEAN, ended' \in BOOLEAN
    PROVE  /\ ServerTyped /\ Grows /\ Token \subseteq Token'
           /\ Len(tokens') \notin Token /\ Len(tokens') \in Nat /\ Len(tokens') \in Token' /\ Len(tokens') # NoToken
<1>1. /\ Grows /\ tokens' \in Seq(Row) /\ Len(tokens') = Len(tokens) + 1 /\ Len(tokens) \in Nat
      /\ Len(tokens') \notin Token /\ Len(tokens') \in Nat /\ Len(tokens') \in Token'
  BY IssuedGrows, Typed
<1>2. Token \subseteq Token' /\ Len(tokens') # NoToken
  BY <1>1 DEF Token, NoToken
<1>3. CallRow \subseteq CallRow'
  BY <1>2 DEF CallRow
<1>4. calls' \in Seq(CallRow)' /\ reset' \in Token'
  <2>1. calls \in Seq(CallRow) /\ reset \in Token
    BY DEF SessionTypeOK, TypeOK
  <2>2. calls \in [1..Len(calls) -> CallRow] /\ Len(calls) \in Nat
    BY <2>1
  <2>3. calls \in [1..Len(calls) -> CallRow']
    BY <1>3, <2>2
  <2>4. QED
    BY <1>2, <2>1, <2>2, <2>3
<1>5. QED
  BY <1>1, <1>2, <1>4, Typed DEF ServerTyped

\* A session is applied with a token that t was just given, or was holding.
LEMMA ApplyKeeps ==
    ASSUME Core, ServerTyped, Grows, Token \subseteq Token', NEW t \in Tabs, NEW after \in Tab, NEW n \in Nat,
           NEW members \in SUBSET Workspaces, NEW asked, NEW keep \in BOOLEAN,
           applySession(t, after, n, members, asked, keep),
           UNCHANGED <<calls, replayed, reset, raced, lost, queue>>,
           n \in Token', n # NoToken,
           n \notin Token \/ (n = tab[t].choosing /\ after.choosing = NoToken),
           after.run = tab[t].run, after.call = tab[t].call, after.attempt = tab[t].attempt,
           after.choosing \in {NoToken, tab[t].choosing}, after.carried \in Token, after.leaving = tab[t].leaving
    PROVE  Core'
<1>1. /\ SessionTypeOK /\ LockOK /\ RowsOK /\ tab[t] \in Tab /\ tab \in [Tabs -> Tab] /\ queue \in Seq(Tabs)
      /\ tab[t].choosing \in Token /\ tab[t].leaving \in Token /\ NoToken \in Token
  <2>1. SessionTypeOK /\ LockOK /\ RowsOK /\ tab[t] \in Tab /\ tab \in [Tabs -> Tab] /\ queue \in Seq(Tabs)
    BY QueueTyped
  <2>2. QED
    BY <2>1, Typed DEF NoToken
<1>2. PICK r \in Tab : /\ tab' = [tab EXCEPT ![t] = r]
                       /\ r.session = (IF keep THEN NoToken ELSE n) /\ r.access = n
                       /\ r.run = after.run /\ r.call = after.call /\ r.attempt = after.attempt
                       /\ r.leaving = after.leaving /\ r.choosing = after.choosing /\ r.carried = after.carried
  BY Applied
<1>3. local' = (IF keep THEN n ELSE NoToken) /\ stored' \in Workspaces \cup {NoWorkspace}
  BY Applied
<1>4. tab'[t] = r /\ \A u \in Tabs : u # t => tab'[u] = tab[u]
  BY <1>1, <1>2
<1>5. BrowserTyped
  BY <1>1, <1>3 DEF BrowserTyped
<1>6. Becomes(t, r)
  <2>1. r.access \in Token' /\ r.session \in Token' /\ r.carried \in Token' /\ r.leaving \in Token' /\ r.choosing \in Token'
    BY <1>1, <1>2
  <2>2. /\ r.attempt \in 0..Retries /\ (r.run = "posted" <=> r.call \in DOMAIN calls')
        /\ r.run # "posted" => r.call = 0
    BY <1>1, <1>2, Typed, QueueTyped
  <2>3. QED
    BY <1>2, <2>1, <2>2 DEF Becomes
<1>7. LockOK'
  <2>1. \A u \in Tabs : /\ tab'[u].run # "none" <=> tab[u].run # "none"
                        /\ tab'[u].run = "posted" => tab[u].run = "posted" \/ queue[1] = u
    BY <1>2, <1>4
  <2>2. QED
    BY <1>1, <2>1, LockStays
<1>8. Others(t)
  BY <1>2, <1>4 DEF Others
<1>9. Placed(t, n)
  BY <1>1, <1>2, <1>3, <1>4 DEF Placed
<1>10. QED
  BY <1>5, <1>6, <1>7, <1>8, <1>9, TabKeeps

\* A new family, for the user.
LEMMA SignInTyped ==
    ASSUME Core, NEW t \in Tabs, SignIn(t), joined' \subseteq Workspaces
    PROVE  /\ ServerTyped /\ Grows /\ Token \subseteq Token'
           /\ Len(tokens') \notin Token /\ Len(tokens') \in Nat /\ Len(tokens') \in Token' /\ Len(tokens') # NoToken
           /\ UNCHANGED <<calls, replayed, reset, raced, lost, queue>> /\ ended' = TRUE
<1>1. /\ tokens' = Issued /\ UNCHANGED <<expired, calls, lost, raced, replayed, reset, queue>> /\ ended' = TRUE
      /\ Event("login") /\ "login" \in Kinds
  BY DEF SignIn, Kinds
<1>2. left' \in [Kinds -> Nat] /\ lost' \in BOOLEAN /\ raced' \in BOOLEAN /\ replayed' \in BOOLEAN
  BY <1>1, QueueTyped, EventKeeps
<1>3. QED
  BY <1>1, <1>2, LoginTyped, QueueTyped

LEMMA SubmitLoginKeeps == ASSUME Core, NEW t \in Tabs, NEW keep \in BOOLEAN, SubmitLogin(t, keep) PROVE Core'
<1> DEFINE n == Len(tokens')
           d == Dropped(tab[t])
<1>1. SessionTypeOK /\ LockOK /\ joined \subseteq Workspaces /\ tab[t] \in Tab /\ tab \in [Tabs -> Tab]
      /\ NoToken \in Token /\ tab[t].choosing = NoToken
  <2>1. SessionTypeOK /\ LockOK /\ joined \subseteq Workspaces /\ tab[t] \in Tab /\ tab \in [Tabs -> Tab]
    BY QueueTyped
  <2>2. QED
    BY <2>1, Typed DEF NoToken, SubmitLogin
<1>2. /\ ServerTyped /\ Grows /\ Token \subseteq Token'
      /\ n \notin Token /\ n \in Nat /\ n \in Token' /\ n # NoToken
      /\ UNCHANGED <<calls, replayed, reset, raced, lost, queue>>
  BY <1>1, SignInTyped DEF SubmitLogin
<1>3. /\ d \in Tab /\ d.run = tab[t].run /\ d.call = tab[t].call /\ d.attempt = tab[t].attempt /\ d.carried = NoToken
      /\ d.leaving = tab[t].leaving /\ d.choosing = tab[t].choosing
  BY <1>1, Drops
<1>4. CASE applySession(t, d, n, joined, NoWorkspace, keep)
  <2> HIDE DEF d, n
  <2>1. joined \in SUBSET Workspaces
    BY <1>1
  <2>2. QED
    BY <1>1, <1>2, <1>3, <1>4, <2>1, ApplyKeeps
<1>5. CASE tab' = [tab EXCEPT ![t].choosing = n] /\ UNCHANGED <<local, stored>>
  <2> DEFINE r == [tab[t] EXCEPT !.choosing = n]
  <2> HIDE DEF n
  <2>1. tab' = [tab EXCEPT ![t] = r]
    BY <1>1, <1>5
  <2>2. /\ r \in Tab /\ r.run = tab[t].run /\ r.call = tab[t].call /\ r.attempt = tab[t].attempt
        /\ r.carried = tab[t].carried /\ r.leaving = tab[t].leaving /\ r.choosing = n
        /\ r.access = tab[t].access /\ r.session = tab[t].session
    BY <1>1, <1>2 DEF Tab
  <2> HIDE DEF r
  <2>3. tab'[t] = r /\ \A u \in Tabs : u # t => tab'[u] = tab[u]
    BY <1>1, <2>1
  <2>4. tab[t].session \in Token /\ tab[t].access \in Token /\ tab[t].carried \in Token /\ tab[t].leaving \in Token
        /\ local \in Token
    BY <1>1, Typed, QueueTyped
  <2>5. BrowserTyped
    BY <1>1, <1>2, <1>5, <2>4, QueueTyped DEF BrowserTyped
  <2>6. Becomes(t, r)
    BY <1>1, <1>2, <2>1, <2>2, <2>4, Typed, QueueTyped DEF Becomes
  <2>7. LockOK'
    <3>1. \A u \in Tabs : /\ tab'[u].run # "none" <=> tab[u].run # "none"
                          /\ tab'[u].run = "posted" => tab[u].run = "posted" \/ queue[1] = u
      BY <2>2, <2>3
    <3>2. QED
      BY <1>1, <1>2, <3>1, LockStays
  <2>8. Others(t) /\ Placed(t, n)
    BY <1>2, <1>5, <2>2, <2>3, <2>4 DEF Others, Placed
  <2>9. QED
    BY <1>2, <2>5, <2>6, <2>7, <2>8, TabKeeps
<1>6. QED
  BY <1>4, <1>5 DEF SubmitLogin

LEMMA ChooseWorkspaceKeeps ==
    ASSUME Core, NEW t \in Tabs, NEW w \in Workspaces, NEW keep \in BOOLEAN, ChooseWorkspace(t, w, keep)
    PROVE  Core'
<1> DEFINE d == Dropped(tab[t])
           after == [d EXCEPT !.choosing = NoToken]
<1>1. /\ SessionTypeOK /\ joined \in SUBSET Workspaces /\ tab[t] \in Tab
      /\ NoToken \in Token /\ tab[t].choosing \in Token /\ tab[t].choosing \in Nat
      /\ lost \in BOOLEAN /\ raced \in BOOLEAN /\ replayed \in BOOLEAN /\ ended \in BOOLEAN /\ left \in [Kinds -> Nat]
  <2>1. SessionTypeOK /\ joined \in SUBSET Workspaces /\ tab[t] \in Tab
    BY QueueTyped
  <2>2. QED
    BY <2>1, QueueTyped, Typed DEF NoToken
<1>2. UNCHANGED <<tokens, joined, expired, calls, left, lost, raced, replayed, reset, ended, queue>>
  BY DEF ChooseWorkspace, server, ghosts
<1>3. ServerTyped /\ Grows /\ Token' = Token
  BY <1>1, <1>2, ServerStill
<1>4. /\ d \in Tab /\ d.run = tab[t].run /\ d.call = tab[t].call /\ d.attempt = tab[t].attempt /\ d.carried = NoToken
      /\ d.leaving = tab[t].leaving /\ d.choosing = tab[t].choosing
  BY <1>1, Drops
<1>5. tab[t].choosing # NoToken /\ applySession(t, after, tab[t].choosing, joined, w, keep)
  BY DEF ChooseWorkspace
<1> HIDE DEF d
<1>6. /\ after \in Tab /\ after.run = tab[t].run /\ after.call = tab[t].call /\ after.attempt = tab[t].attempt
      /\ after.carried = NoToken /\ after.leaving = tab[t].leaving /\ after.choosing = NoToken
  BY <1>4 DEF Tab, NoToken
<1> HIDE DEF after
<1>7. QED
  BY <1>1, <1>2, <1>3, <1>5, <1>6, ApplyKeeps

LEMMA RegisterKeeps == ASSUME Core, NEW t \in Tabs, Register(t) PROVE Core'
<1> DEFINE n == Len(tokens')
<1>1. SessionTypeOK /\ joined \in SUBSET Workspaces /\ tab[t] \in Tab /\ isKept(t) \in BOOLEAN
      /\ tab[t].carried \in Token
  BY QueueTyped DEF isKept
<1>2. /\ ServerTyped /\ Grows /\ Token \subseteq Token'
      /\ n \notin Token /\ n \in Nat /\ n \in Token' /\ n # NoToken
      /\ UNCHANGED <<calls, replayed, reset, raced, lost, queue>>
  BY <1>1, SignInTyped DEF Register
<1>3. applySession(t, tab[t], n, joined, NoWorkspace, isKept(t))
  BY DEF Register
<1> HIDE DEF n
<1>4. QED
  BY <1>1, <1>2, <1>3, ApplyKeeps

LEMMA AcceptInvitationKeeps ==
    ASSUME Core, NEW t \in Tabs, NEW w \in Workspaces, AcceptInvitation(t, w)
    PROVE  Core'
<1> DEFINE n == Len(tokens')
           d == Dropped(tab[t])
<1>1. SessionTypeOK /\ tab[t] \in Tab /\ joined' \in SUBSET Workspaces
  BY QueueTyped DEF AcceptInvitation
<1>2. /\ ServerTyped /\ Grows /\ Token \subseteq Token'
      /\ n \notin Token /\ n \in Nat /\ n \in Token' /\ n # NoToken
      /\ UNCHANGED <<calls, replayed, reset, raced, lost, queue>>
  BY <1>1, SignInTyped DEF AcceptInvitation
<1>3. applySession(t, d, n, joined', w, TRUE)
  BY DEF AcceptInvitation
<1>4. /\ d \in Tab /\ d.run = tab[t].run /\ d.call = tab[t].call /\ d.attempt = tab[t].attempt /\ d.carried = NoToken
      /\ d.leaving = tab[t].leaving /\ d.choosing = tab[t].choosing
  BY <1>1, Drops
<1>5. NoToken \in Token
  BY <1>1, Typed DEF NoToken
<1> DEFINE m == joined'
<1>6. m \in SUBSET Workspaces /\ applySession(t, d, n, m, w, TRUE)
  BY <1>1, <1>3
<1> HIDE DEF n, d, m
<1>7. QED
  BY <1>1, <1>2, <1>4, <1>5, <1>6, ApplyKeeps

\* t forgets its session, and the browser does.
LEMMA ClearKeeps ==
    ASSUME Core, ServerTyped, Grows, Token' = Token, NEW t \in Tabs, NEW after \in Tab, clearSession(t, after),
           UNCHANGED <<calls, replayed, reset, lost, queue>>, raced => raced',
           after.run = tab[t].run, after.call = tab[t].call, after.attempt = tab[t].attempt,
           after.choosing = tab[t].choosing, after.carried \in Token, after.leaving \in Token
    PROVE  Core'
<1>1. /\ SessionTypeOK /\ LockOK /\ RowsOK /\ tab[t] \in Tab /\ tab \in [Tabs -> Tab] /\ queue \in Seq(Tabs)
      /\ tab[t].choosing \in Token /\ NoToken \in Token
  <2>1. SessionTypeOK /\ LockOK /\ RowsOK /\ tab[t] \in Tab /\ tab \in [Tabs -> Tab] /\ queue \in Seq(Tabs)
    BY QueueTyped
  <2>2. QED
    BY <2>1, Typed DEF NoToken
<1>2. PICK r \in Tab : /\ tab' = [tab EXCEPT ![t] = r]
                       /\ r.session = NoToken /\ r.access = NoToken
                       /\ r.run = after.run /\ r.call = after.call /\ r.attempt = after.attempt
                       /\ r.leaving = after.leaving /\ r.choosing = after.choosing /\ r.carried = after.carried
  BY Cleared
<1>3. local' = NoToken /\ stored' \in Workspaces \cup {NoWorkspace}
  BY Cleared
<1>4. tab'[t] = r /\ \A u \in Tabs : u # t => tab'[u] = tab[u]
  BY <1>1, <1>2
<1>5. BrowserTyped
  BY <1>1, <1>3 DEF BrowserTyped
<1>6. Becomes(t, r)
  BY <1>1, <1>2, Typed, QueueTyped DEF Becomes
<1>7. LockOK'
  <2>1. \A u \in Tabs : /\ tab'[u].run # "none" <=> tab[u].run # "none"
                        /\ tab'[u].run = "posted" => tab[u].run = "posted" \/ queue[1] = u
    BY <1>2, <1>4
  <2>2. QED
    BY <1>1, <2>1, LockStays
<1>8. Others(t) /\ Placed(t, NoToken) /\ NoToken \in Nat
  BY <1>2, <1>3, <1>4 DEF Others, Placed, NoToken
<1>9. QED
  BY <1>5, <1>6, <1>7, <1>8, TabKeeps

LEMMA LogoutKeeps == ASSUME Core, NEW t \in Tabs, Logout(t) PROVE Core'
<1> DEFINE k == readRefreshToken(t)
<1>1. /\ SessionTypeOK /\ tab[t] \in Tab /\ "logout" \in Kinds /\ k \in Token /\ k \in Nat
      /\ tab[t].access \in Token /\ tab[t].carried \in Token /\ tab[t].leaving \in Token
  <2>1. SessionTypeOK /\ tab[t] \in Tab /\ tab[t].carried \in Token
    BY QueueTyped
  <2>2. QED
    BY <2>1, Typed DEF readRefreshToken, Kinds
<1>2. /\ UNCHANGED <<tokens, joined, expired, calls, lost, raced, replayed, reset, queue>> /\ ended' \in BOOLEAN
      /\ Event("logout")
  BY DEF Logout
<1>3. left' \in [Kinds -> Nat]
  BY <1>1, <1>2, QueueTyped, EventKeeps
<1>4. ServerTyped /\ Grows /\ Token' = Token
  BY <1>2, <1>3, ServerStill, QueueTyped
<1>5. CASE clearSession(t, tab[t])
  BY <1>1, <1>2, <1>4, <1>5, ClearKeeps
<1>6. CASE tab' = [tab EXCEPT ![t].leaving = k] /\ UNCHANGED <<local, stored>>
  <2> DEFINE r == [tab[t] EXCEPT !.leaving = k]
  <2> HIDE DEF k
  <2>1. tab' = [tab EXCEPT ![t] = r]
    BY <1>1, <1>6, QueueTyped
  <2>2. /\ r \in Tab /\ r.run = tab[t].run /\ r.call = tab[t].call /\ r.attempt = tab[t].attempt
        /\ r.carried = tab[t].carried /\ r.leaving = k /\ r.choosing = tab[t].choosing
        /\ r.access = tab[t].access /\ r.session = tab[t].session
    BY <1>1 DEF Tab
  <2> HIDE DEF r
  <2>3. stored' \in Workspaces \cup {NoWorkspace}
    BY <1>6, QueueTyped
  <2>4. QED
    BY <1>1, <1>2, <1>3, <1>6, <2>1, <2>2, <2>3, QuietKeeps
<1>7. QED
  BY <1>5, <1>6 DEF Logout

LEMMA RevokedTyped ==
    ASSUME SessionTypeOK, UNCHANGED <<calls, expired, joined, left, lost, replayed, reset, ended>>, raced' \in BOOLEAN,
           tokens' = tokens \/ \E k \in DOMAIN tokens : tokens' = [tokens EXCEPT ![k].revoked = TRUE]
    PROVE  ServerTyped /\ Grows /\ Token' = Token
<1>1. Grows /\ tokens' \in Seq(Row) /\ Len(tokens') = Len(tokens) /\ Token' = Token
  BY SameGrows, RevokedGrows
<1>2. calls \in Seq(CallRow) /\ CallRow' = CallRow
  BY <1>1 DEF SessionTypeOK, TypeOK, CallRow
<1>3. calls' \in Seq(CallRow)' /\ reset' \in Token'
  BY <1>1, <1>2 DEF SessionTypeOK
<1>4. QED
  BY <1>1, <1>3, ServerTypes, Typed DEF ServerTyped

LEMMA LogoutSettledKeeps == ASSUME Core, NEW t \in Tabs, LogoutSettled(t) PROVE Core'
<1> DEFINE after == [tab[t] EXCEPT !.leaving = NoToken]
           k == tab[t].leaving
<1>1. SessionTypeOK /\ tab[t] \in Tab /\ NoToken \in Token /\ k \in DOMAIN tokens /\ tab[t].carried \in Token
  <2>1. SessionTypeOK /\ tab[t] \in Tab /\ tab[t].carried \in Token
    BY QueueTyped
  <2>2. k \in Token /\ NoToken \in Token /\ Token = 0..Len(tokens) /\ DOMAIN tokens = 1..Len(tokens)
    BY <2>1, Typed DEF NoToken
  <2>3. k # NoToken
    BY DEF LogoutSettled
  <2>4. QED
    BY <2>1, <2>2, <2>3 DEF NoToken
<1>2. /\ tokens' = tokens \/ tokens' = [tokens EXCEPT ![k].revoked = TRUE]
      /\ clearSession(t, after)
      /\ UNCHANGED <<joined, expired, calls, left, lost, replayed, reset, ended, queue>>
      /\ raced' \in BOOLEAN /\ (raced => raced')
  <2>1. raced \in BOOLEAN
    BY QueueTyped
  <2>2. revoke_refresh_token(k) => /\ tokens' = [tokens EXCEPT ![k].revoked = TRUE]
                                   /\ raced' \in BOOLEAN /\ (raced => raced')
    BY <2>1, Zenon DEF revoke_refresh_token
  <2>3. QED
    BY <2>1, <2>2 DEF LogoutSettled
<1>3. ServerTyped /\ Grows /\ Token' = Token
  BY <1>1, <1>2, RevokedTyped
<1>4. /\ after \in Tab /\ after.run = tab[t].run /\ after.call = tab[t].call /\ after.attempt = tab[t].attempt
      /\ after.choosing = tab[t].choosing /\ after.carried = tab[t].carried /\ after.leaving = NoToken
  BY <1>1 DEF Tab, NoToken
<1> HIDE DEF after
<1>5. QED
  BY <1>1, <1>2, <1>3, <1>4, ClearKeeps

LEMMA ReloadKeeps == ASSUME Core, NEW t \in Tabs, Reload(t) PROVE Core'
<1> DEFINE r == [Fresh EXCEPT !.session = tab[t].session]
<1>1. SessionTypeOK /\ tab[t] \in Tab /\ "reload" \in Kinds /\ NoToken \in Token /\ lost \in BOOLEAN /\ 0 \in 0..Retries
  <2>1. SessionTypeOK /\ tab[t] \in Tab /\ lost \in BOOLEAN
    BY QueueTyped
  <2>2. QED
    BY <2>1, Typed, AuthBounds DEF NoToken, Kinds
<1>2. /\ tab' = [tab EXCEPT ![t] = r] /\ Leave(t) /\ lost' = (lost \/ tab[t].run = "posted")
      /\ UNCHANGED <<tokens, joined, expired, calls, raced, replayed, reset, ended, local, stored>>
  BY DEF Reload
<1>3. left' \in [Kinds -> Nat]
  BY <1>1, QueueTyped, EventKeeps DEF Reload
<1>4. tab[t].session \in Nat
  BY <1>1 DEF Tab
<1>5. /\ r \in Tab /\ r.run = "none" /\ r.call = 0 /\ r.session = tab[t].session /\ r.choosing = NoToken /\ r.attempt = 0
      /\ r.access = NoToken /\ r.carried = NoToken /\ r.leaving = NoToken
  BY <1>4 DEF Fresh, Tab, NoToken, NoWorkspace
<1> HIDE DEF r
<1>6. lost' \in BOOLEAN /\ (lost => lost') /\ (tab[t].run = "posted" => lost') /\ ended' \in BOOLEAN
  BY <1>1, <1>2, QueueTyped
<1>7. QED
  BY <1>1, <1>2, <1>3, <1>5, <1>6, LeaveKeeps

LEMMA TabStepKeeps == ASSUME Core, NEW t \in Tabs, TabStep(t) PROVE Core'
<1>1. CASE \E keep \in BOOLEAN : SubmitLogin(t, keep) \/ \E w \in Workspaces : ChooseWorkspace(t, w, keep)
  BY <1>1, SubmitLoginKeeps, ChooseWorkspaceKeeps
<1>2. CASE \E w \in Workspaces : AcceptInvitation(t, w) \/ SetWorkspace(t, w)
  BY <1>2, AcceptInvitationKeeps, SetWorkspaceKeeps
<1>3. QED
  BY <1>1, <1>2, MountKeeps, AttemptKeeps, AnsweredKeeps, FailedKeeps, ApplyFailsKeeps, SendKeeps, ResponseKeeps, Response401Keeps,
     RegisterKeeps, LogoutKeeps, LogoutSettledKeeps, ReloadKeeps DEF TabStep

-----------------------------------------------------------------------------
(* The API's steps. *)

\* The tabs' records stay right while rows and calls are added.
LEMMA ServerKeepsTypes ==
    ASSUME SessionTypeOK, UNCHANGED <<browser, tab>>, tokens' \in Seq(Row), Len(tokens) <= Len(tokens'),
           Len(tokens') \in Nat, DOMAIN calls' = DOMAIN calls, calls' \in Seq(CallRow)', joined' \subseteq Workspaces,
           expired' \in Token', left' \in [Kinds -> Nat], reset' \in Token',
           lost' \in BOOLEAN, raced' \in BOOLEAN, replayed' \in BOOLEAN, ended' \in BOOLEAN
    PROVE  SessionTypeOK' /\ (LockOK => LockOK')
<1>1. Token \subseteq Token'
  BY Typed DEF Token
<1>2. UNCHANGED <<local, stored, queue, tab>>
  BY DEF browser
<1>3. TypeOK'
  BY <1>1, <1>2 DEF SessionTypeOK, TypeOK
<1>4. LockOK => LockOK'
  BY <1>2 DEF LockOK
<1>5. QED
  BY <1>2, <1>3, <1>4 DEF SessionTypeOK

\* Rows are there to stay, so what the calls say of them stays true.
LEMMA StillPlaced ==
    ASSUME Core, Grows, UNCHANGED <<browser, tab>>, calls' = calls, UNCHANGED <<lost, replayed>>
    PROVE  WebLocks /\ ~lost' => UnlostOK'
<1>1. PICK t \in Tabs : TRUE
  BY BrowserBounds
<1>2. Others(t) /\ Placed(t, NoToken) /\ NoToken \in Nat
  BY DEF Others, Placed, NoToken, browser
<1>3. QED
  BY <1>2, PlacesKeep DEF Core

LEMMA PlainRows ==
    ASSUME SessionTypeOK, RowsOK, ResetOK, UNCHANGED <<browser, tab, tokens, calls, ghosts>>,
           joined' \subseteq Workspaces, expired' \in Token, left' \in [Kinds -> Nat]
    PROVE  SessionTypeOK' /\ RowsOK' /\ ResetOK' /\ (LockOK => LockOK') /\ lost' = lost /\ Grows /\ replayed' = replayed
<1>1. Grows /\ tokens' \in Seq(Row) /\ Len(tokens') = Len(tokens) /\ Token' = Token
  BY SameGrows
<1>2. calls' \in Seq(CallRow)' /\ UNCHANGED <<lost, raced, replayed, reset, ended>>
  BY <1>1 DEF SessionTypeOK, TypeOK, CallRow, ghosts
<1>3. SessionTypeOK' /\ (LockOK => LockOK')
  BY <1>1, <1>2, ServerTypes, Typed, ServerKeepsTypes
<1>4. RowsOK' /\ ResetOK'
  BY <1>1, <1>2, RowsKeep DEF CallsQuiet
<1>5. QED
  BY <1>1, <1>2, <1>3, <1>4

\* Expiry and moves touch neither tokens nor calls.
LEMMA ClockStep ==
    ASSUME SessionTypeOK, UNCHANGED <<browser, tab>>, Expire \/ \E w \in Workspaces : Move(w)
    PROVE  /\ UNCHANGED <<browser, tab, tokens, calls, ghosts>>
           /\ joined' \subseteq Workspaces /\ expired' \in Token /\ left' \in [Kinds -> Nat]
<1>1. left \in [Kinds -> Nat] /\ {"expire", "move"} \subseteq Kinds
  BY ServerTypes DEF Kinds
<1>2. CASE Expire
  <2>1. left' \in [Kinds -> Nat]
    BY <1>1, <1>2, EventKeeps DEF Expire
  <2>2. expired' \in Token
    BY <1>2, ServerTypes, Typed DEF Expire
  <2>3. QED
    BY <1>2, <2>1, <2>2, ServerTypes DEF Expire
<1>3. ASSUME NEW w \in Workspaces, Move(w)
      PROVE  left' \in [Kinds -> Nat] /\ joined' \subseteq Workspaces /\ UNCHANGED <<tokens, calls, expired, ghosts>>
  <2>1. left' \in [Kinds -> Nat]
    BY <1>1, <1>3, EventKeeps DEF Move
  <2>2. QED
    BY <1>3, <2>1, ServerTypes DEF Move
<1>4. QED
  BY <1>2, <1>3, ServerTypes

LEMMA ResetRows ==
    ASSUME SessionTypeOK, RowsOK, ResetOK, ResetPassword, UNCHANGED <<browser, tab>>
    PROVE  SessionTypeOK' /\ RowsOK' /\ ResetOK' /\ (LockOK => LockOK') /\ lost' = lost /\ Grows /\ UNCHANGED <<calls, replayed>>
<1>1. /\ "reset" \in Kinds /\ left \in [Kinds -> Nat] /\ joined \subseteq Workspaces
      /\ lost \in BOOLEAN /\ raced \in BOOLEAN /\ replayed \in BOOLEAN
  BY ServerTypes DEF Kinds
<1>2. left' \in [Kinds -> Nat]
  BY <1>1, EventKeeps DEF ResetPassword
<1>3. /\ tokens' = [i \in DOMAIN tokens |-> [tokens[i] EXCEPT !.revoked = TRUE]]
      /\ reset' = Len(tokens) /\ ended' = TRUE
      /\ raced' = (raced \/ \E d \in DOMAIN calls : Midway(d))
      /\ UNCHANGED <<joined, expired, calls, lost, replayed>>
  BY DEF ResetPassword
<1>4. /\ Len(tokens) \in Nat /\ DOMAIN tokens = 1..Len(tokens) /\ Token = 0..Len(tokens)
      /\ \A i \in DOMAIN tokens : tokens[i] \in Row
  BY <1>1, Typed
<1>5. \A i \in DOMAIN tokens : /\ tokens'[i] \in Row /\ tokens'[i].family = tokens[i].family
                               /\ tokens'[i].rotated = tokens[i].rotated /\ tokens'[i].revoked
  BY <1>3, <1>4 DEF Row
<1>6. tokens' \in Seq(Row) /\ Len(tokens') = Len(tokens) /\ DOMAIN tokens' = DOMAIN tokens
  BY <1>3, <1>4, <1>5
<1>7. Grows /\ Token' = Token
  BY <1>4, <1>5, <1>6 DEF Grows, Token
<1>8. calls' \in Seq(CallRow)' /\ expired' \in Token' /\ reset' \in Token'
  BY <1>1, <1>3, <1>4, <1>7 DEF SessionTypeOK, TypeOK, CallRow
<1>9. SessionTypeOK' /\ (LockOK => LockOK')
  BY <1>1, <1>2, <1>3, <1>4, <1>6, <1>8, ServerKeepsTypes
<1>10. RowsOK'
  BY <1>1, <1>3, <1>5, <1>6 DEF RowsOK, Open
<1>11. ResetOK'
  BY <1>3, <1>5, <1>6 DEF ResetOK, SignedOutEverywhere, Active, Midway
<1>12. QED
  BY <1>3, <1>7, <1>9, <1>10, <1>11

LEMMA ReadsRows ==
    ASSUME SessionTypeOK, RowsOK, ResetOK, NEW c \in DOMAIN calls, ApiReads(c), UNCHANGED <<browser, tab>>
    PROVE  SessionTypeOK' /\ RowsOK' /\ ResetOK' /\ (LockOK => LockOK') /\ lost' = lost
<1> DEFINE k == calls[c].token
<1>1. /\ joined \subseteq Workspaces /\ left \in [Kinds -> Nat]
      /\ lost \in BOOLEAN /\ raced \in BOOLEAN /\ replayed \in BOOLEAN /\ ended \in BOOLEAN
  BY ServerTypes
<1>2. /\ k \in DOMAIN tokens /\ DOMAIN calls' = DOMAIN calls /\ Grows
      /\ DOMAIN tokens' = DOMAIN tokens /\ Len(tokens') = Len(tokens)
      /\ \A i \in DOMAIN tokens : tokens'[i] \in Row
      /\ \A d \in DOMAIN calls : d # c => calls'[d] = calls[d]
      /\ calls'[c].token = k /\ calls'[c].new = NoToken /\ calls'[c] \in CallRow
      /\ \/ Active(k) /\ calls'[c].phase = "read" /\ UNCHANGED <<tokens, ghosts>>
         \/ /\ ~Active(k) /\ calls'[c].phase = "answered"
            /\ \A i \in DOMAIN tokens : tokens'[i].revoked <=> tokens[i].revoked \/ tokens[i].family = tokens[k].family
            /\ replayed' = (replayed \/ tokens[k].rotated)
            /\ raced' = (raced \/ Rotating(tokens[k].family))
            /\ UNCHANGED <<lost, reset, ended>>
  BY <1>1, Reads
<1>3. /\ UNCHANGED <<lost, reset, ended, joined, expired, left>> /\ (raced => raced')
      /\ raced' \in BOOLEAN /\ replayed' \in BOOLEAN
  <2>1. UNCHANGED <<joined, expired, left>>
    BY DEF ApiReads
  <2>2. CASE UNCHANGED ghosts
    BY <1>1, <2>1, <2>2 DEF ghosts
  <2>3. CASE /\ replayed' = (replayed \/ tokens[k].rotated)
             /\ raced' = (raced \/ Rotating(tokens[k].family))
             /\ UNCHANGED <<lost, reset, ended>>
    <3>1. tokens[k].rotated \in BOOLEAN
      BY <1>1, <1>2, Typed DEF Row
    <3>2. (raced => raced') /\ raced' \in BOOLEAN /\ replayed' \in BOOLEAN
      BY <1>1, <2>3, <3>1, Zenon
    <3>3. QED
      BY <2>1, <2>3, <3>2
  <2>4. QED
    BY <1>2, <2>2, <2>3
<1>4. Token' = Token /\ CallRow' = CallRow
  BY <1>2 DEF Token, CallRow
<1>5. tokens' \in Seq(Row)
  <2> DEFINE R(i) == [tokens[i] EXCEPT !.revoked = @ \/ tokens[i].family = tokens[k].family]
  <2>1. tokens' = tokens \/ tokens' = [i \in DOMAIN tokens |-> R(i)]
    BY Zenon DEF ApiReads
  <2> HIDE DEF R
  <2>2. DOMAIN tokens = 1..Len(tokens) /\ Len(tokens) \in Nat /\ tokens \in Seq(Row)
    BY <1>1, Typed DEF SessionTypeOK, TypeOK
  <2>3. CASE tokens' = tokens
    BY <2>2, <2>3
  <2>4. CASE tokens' = [i \in DOMAIN tokens |-> R(i)]
    <3>1. \A i \in 1..Len(tokens) : R(i) \in Row
      BY <1>2, <2>2, <2>4
    <3>2. tokens' \in [1..Len(tokens) -> Row]
      BY <2>2, <2>4, <3>1
    <3>3. QED
      BY <2>2, <3>2
  <2>5. QED
    BY <2>1, <2>3, <2>4
<1>6. calls' \in Seq(CallRow)
  <2>1. \E p : calls' = [calls EXCEPT ![c].phase = p]
    BY DEF ApiReads
  <2>2. calls' \in [1..Len(calls) -> CallRow] /\ Len(calls) \in Nat
    BY <1>1, <1>2, <2>1, Typed
  <2>3. QED
    BY <2>2
<1>7. SessionTypeOK' /\ (LockOK => LockOK')
  <2>1. expired \in Token /\ reset \in Token /\ Len(tokens) \in Nat
    BY <1>1, Typed DEF SessionTypeOK, TypeOK
  <2>2. QED
    BY <1>1, <1>2, <1>3, <1>4, <1>5, <1>6, <2>1, ServerKeepsTypes
<1>8. RowsOK'
  <2>1. \A i \in DOMAIN tokens' : tokens'[i].family \in 1..i /\ (tokens'[i].rotated => tokens'[i].revoked)
    BY <1>1, <1>2 DEF RowsOK, Grows
  <2>2. ASSUME NEW d \in DOMAIN calls'
        PROVE  (Open(d)' => calls'[d].token # NoToken) /\ (calls'[d].phase # "answered" => calls'[d].new = NoToken)
    <3>1. CASE d = c
      BY <1>1, <1>2, <3>1, Typed DEF NoToken
    <3>2. CASE d # c
      BY <1>1, <1>2, <3>2 DEF RowsOK, Open
    <3>3. QED
      BY <3>1, <3>2
  <2>3. QED
    BY <2>1, <2>2 DEF RowsOK
<1>9. ResetOK'
  <2>1. SUFFICES ASSUME ~raced'
                 PROVE  /\ \A i \in DOMAIN tokens' : Active(i)' => tokens'[i].family > reset'
                        /\ \A d \in DOMAIN calls' : Midway(d)' => tokens'[calls'[d].token].family > reset'
    BY DEF ResetOK, SignedOutEverywhere
  <2>2. \A i \in DOMAIN tokens : (Active(i)' => Active(i)) /\ tokens'[i].family = tokens[i].family
    BY <1>2 DEF Active, Grows
  <2>3. \A i \in DOMAIN tokens : Active(i) => tokens[i].family > reset
    BY <1>3, <2>1 DEF ResetOK, SignedOutEverywhere
  <2>4. ASSUME NEW d \in DOMAIN calls, Midway(d)' PROVE tokens'[calls'[d].token].family > reset'
    <3>1. CASE d = c
      BY <1>2, <1>3, <2>2, <2>3, <2>4, <3>1 DEF Midway
    <3>2. CASE d # c
      <4>1. Midway(d) /\ calls'[d].token = calls[d].token
        BY <1>2, <2>4, <3>2 DEF Midway
      <4>2. calls[d].token \in DOMAIN tokens
        BY <1>1, <4>1, Typed DEF RowsOK, Midway, Open, NoToken
      <4>3. QED
        BY <1>3, <2>1, <2>2, <4>1, <4>2 DEF ResetOK
    <3>3. QED
      BY <3>1, <3>2
  <2>5. QED
    BY <1>2, <1>3, <2>2, <2>3, <2>4
<1>10. QED
  BY <1>3, <1>7, <1>8, <1>9

LEMMA CommitsRows ==
    ASSUME SessionTypeOK, RowsOK, ResetOK, NEW c \in DOMAIN calls, ApiCommits(c), UNCHANGED <<browser, tab>>
    PROVE  SessionTypeOK' /\ RowsOK' /\ ResetOK' /\ (LockOK => LockOK') /\ lost' = lost
<1> DEFINE k == calls[c].token
           n == Len(tokens) + 1
<1>1. /\ joined \subseteq Workspaces /\ left \in [Kinds -> Nat]
      /\ lost \in BOOLEAN /\ raced \in BOOLEAN /\ replayed \in BOOLEAN /\ ended \in BOOLEAN
  BY ServerTypes
<1>2. /\ Midway(c) /\ k \in DOMAIN tokens /\ n \notin DOMAIN tokens /\ n # NoToken
      /\ DOMAIN tokens' = DOMAIN tokens \cup {n} /\ Len(tokens') = n
      /\ \A i \in DOMAIN tokens : i # k => tokens'[i] = tokens[i]
      /\ tokens'[k].family = tokens[k].family /\ tokens'[k].revoked /\ tokens'[k].rotated
      /\ tokens'[n] = New(tokens[k].family) /\ tokens'[k] \in Row
      /\ DOMAIN calls' = DOMAIN calls
      /\ \A d \in DOMAIN calls : d # c => calls'[d] = calls[d]
      /\ calls'[c].token = k /\ calls'[c].new = n /\ calls'[c].phase = "answered" /\ calls'[c].members = joined
      /\ UNCHANGED <<joined, expired, left, ghosts>>
  BY <1>1, CommitsRow
<1>3. UNCHANGED <<lost, raced, replayed, reset, ended>>
  BY <1>2 DEF ghosts
<1>4. Token \subseteq Token' /\ n \in Token' /\ k \in Token /\ n \in Nat /\ Len(tokens) \in Nat
      /\ DOMAIN tokens = 1..Len(tokens) /\ DOMAIN tokens' = 1..Len(tokens')
  BY <1>1, <1>2, Typed DEF Token
<1>5. tokens[k] \in Row /\ tokens[k].family \in 1..k
  BY <1>1, <1>2, Typed DEF RowsOK
<1>6. tokens' \in Seq(Row)
  <2>1. \A i \in 1..n : tokens'[i] \in Row
    <3>1. New(tokens[k].family) \in Row
      BY <1>5 DEF New, Row
    <3>2. \A i \in DOMAIN tokens : tokens[i] \in Row
      BY <1>1, Typed
    <3>3. QED
      BY <1>2, <1>4, <3>1, <3>2
  <2> DEFINE ts == [tokens EXCEPT ![k].revoked = TRUE, ![k].rotated = TRUE]
  <2>2. tokens' = Append(ts, New(tokens[k].family))
    BY DEF ApiCommits
  <2>3. tokens' = [i \in 1..n |-> tokens'[i]]
    <3>1. DOMAIN ts = 1..Len(tokens) /\ Len(ts) = Len(tokens)
      BY <1>1, <1>4 DEF SessionTypeOK, TypeOK
    <3> HIDE DEF ts
    <3>2. QED
      BY <1>4, <2>2, <3>1
  <2>4. QED
    BY <1>4, <2>1, <2>3
<1>7. calls' \in Seq(CallRow)'
  <2>1. CallRow \subseteq CallRow'
    BY <1>4 DEF CallRow
  <2>2. calls'[c] \in CallRow'
    <3>1. calls[c] \in CallRow /\ calls \in Seq(CallRow)
      BY <1>1, Typed DEF SessionTypeOK, TypeOK
    <3>2. calls'[c] = [calls[c] EXCEPT !.phase = "answered", !.new = n, !.members = joined]
      BY <3>1 DEF ApiCommits
    <3>3. QED
      BY <1>1, <1>4, <2>1, <3>1, <3>2 DEF CallRow
  <2>3. \A d \in DOMAIN calls : calls'[d] \in CallRow'
    BY <1>1, <1>2, <2>1, <2>2, Typed
  <2>4. DOMAIN calls = 1..Len(calls) /\ Len(calls) \in Nat
    BY <1>1, Typed
  <2>5. \E r : calls' = [calls EXCEPT ![c] = r]
    BY DEF ApiCommits
  <2>6. calls' \in [1..Len(calls) -> CallRow']
    BY <2>3, <2>4, <2>5
  <2>7. QED
    BY <2>4, <2>6
<1>8. SessionTypeOK' /\ (LockOK => LockOK')
  <2>1. expired' \in Token' /\ reset' \in Token'
    BY <1>1, <1>2, <1>3, <1>4 DEF SessionTypeOK, TypeOK
  <2>2. Len(tokens) <= Len(tokens') /\ Len(tokens') \in Nat
    BY <1>2, <1>4
  <2>3. lost' \in BOOLEAN /\ raced' \in BOOLEAN /\ replayed' \in BOOLEAN /\ ended' \in BOOLEAN
        /\ left' \in [Kinds -> Nat] /\ joined' \subseteq Workspaces
    BY <1>1, <1>2, <1>3
  <2>4. QED
    BY <1>1, <1>2, <1>6, <1>7, <2>1, <2>2, <2>3, ServerKeepsTypes
<1>9. RowsOK'
  <2>1. \A i \in DOMAIN tokens' : tokens'[i].family \in 1..i /\ (tokens'[i].rotated => tokens'[i].revoked)
    BY <1>1, <1>2, <1>4, <1>5 DEF RowsOK, New
  <2>2. ASSUME NEW d \in DOMAIN calls'
        PROVE  (Open(d)' => calls'[d].token # NoToken) /\ (calls'[d].phase # "answered" => calls'[d].new = NoToken)
    <3>1. CASE d = c
      BY <1>2, <1>4, <3>1 DEF NoToken
    <3>2. CASE d # c
      BY <1>1, <1>2, <3>2 DEF RowsOK, Open
    <3>3. QED
      BY <3>1, <3>2
  <2>3. QED
    BY <2>1, <2>2 DEF RowsOK
<1>10. ResetOK'
  <2>1. SUFFICES ASSUME ~raced
                 PROVE  /\ \A i \in DOMAIN tokens' : Active(i)' => tokens'[i].family > reset
                        /\ \A d \in DOMAIN calls' : Midway(d)' => tokens'[calls'[d].token].family > reset
    BY <1>3 DEF ResetOK, SignedOutEverywhere
  <2>2. /\ \A i \in DOMAIN tokens : Active(i) => tokens[i].family > reset
        /\ \A d \in DOMAIN calls : Midway(d) => tokens[calls[d].token].family > reset
    BY <2>1 DEF ResetOK, SignedOutEverywhere
  <2>3. \A i \in DOMAIN tokens : (Active(i)' => Active(i)) /\ tokens'[i].family = tokens[i].family
    BY <1>2 DEF Active
  <2>4. tokens'[n].family > reset
    BY <1>2, <2>2 DEF New
  <2>5. ASSUME NEW d \in DOMAIN calls, Midway(d)' PROVE tokens'[calls'[d].token].family > reset
    <3>1. d # c /\ Midway(d) /\ calls'[d].token = calls[d].token
      BY <1>2, <2>5 DEF Midway
    <3>2. calls[d].token \in DOMAIN tokens
      BY <1>1, <3>1, Typed DEF RowsOK, Midway, Open, NoToken
    <3>3. QED
      BY <2>2, <2>3, <3>1, <3>2
  <2>6. QED
    BY <1>2, <2>2, <2>3, <2>4, <2>5
<1>11. QED
  BY <1>3, <1>8, <1>9, <1>10

LEMMA ServerKeeps ==
    ASSUME Core, ServerStep, UNCHANGED <<browser, tab>>
    PROVE  Core'
<1>1. SessionTypeOK /\ RowsOK /\ ResetOK /\ LockOK
  BY DEF Core
<1>2. ASSUME NEW c \in DOMAIN calls, ApiReads(c) PROVE Core'
  BY <1>1, <1>2, ReadsRows, ReadKeeps DEF Core
<1>3. ASSUME NEW c \in DOMAIN calls, ApiCommits(c) PROVE Core'
  BY <1>1, <1>3, CommitsRows, CommitRowKeeps DEF Core
<1>4. CASE ResetPassword
  BY <1>1, <1>4, ResetRows, StillPlaced DEF Core
<1>5. CASE Expire \/ \E w \in Workspaces : Move(w)
  <2>1. /\ UNCHANGED <<browser, tab, tokens, calls, ghosts>>
        /\ joined' \subseteq Workspaces /\ expired' \in Token /\ left' \in [Kinds -> Nat]
    BY <1>1, <1>5, ClockStep
  <2>2. SessionTypeOK' /\ RowsOK' /\ ResetOK' /\ LockOK' /\ Grows /\ UNCHANGED <<lost, replayed>>
    BY <1>1, <2>1, PlainRows DEF ghosts
  <2>3. QED
    BY <2>1, <2>2, StillPlaced DEF Core
<1>6. QED
  BY <1>2, <1>3, <1>4, <1>5 DEF ServerStep

LEMMA StepKeeps == Core /\ [Next]_vars => Core'
<1> SUFFICES ASSUME Core, [Next]_vars PROVE Core'
  OBVIOUS
<1>1. CASE UNCHANGED vars
  <2>1. UNCHANGED <<tokens, joined, expired, calls, left, lost, raced, replayed, reset, ended, local, stored, queue, tab>>
    BY <1>1 DEF vars, server, browser, ghosts
  <2>2. SessionTypeOK'
    BY <2>1 DEF Core, SessionTypeOK, TypeOK, CallRow, Token
  <2>3. RowsOK' /\ ResetOK'
    BY <2>1 DEF Core, RowsOK, Open, ResetOK, SignedOutEverywhere, Active, Midway
  <2>4. LockOK'
    BY <2>1 DEF Core, LockOK
  <2>5. ASSUME WebLocks, ~lost PROVE UnlostOK'
    <3>1. UnlostOK
      BY <2>5 DEF Core
    <3>2. CallsOK' /\ PlacesOK'
      BY <2>1, <3>1 DEF UnlostOK, CallsOK, Waits, Open, PlacesOK
    <3>3. FamilyOK'
      BY <2>1, <3>1 DEF UnlostOK, FamilyOK, OneGoodToken, Active, Midway
    <3>4. AwaitedOK' /\ RotatedOK'
      BY <2>1, <3>1 DEF UnlostOK, AwaitedOK, RotatedOK, Exchanged, Waits, Open
    <3>5. QED
      BY <2>1, <3>1, <3>2, <3>3, <3>4 DEF UnlostOK
  <2>6. QED
    BY <2>1, <2>2, <2>3, <2>4, <2>5 DEF Core
<1>2. CASE \E t \in Tabs : TabStep(t)
  BY <1>2, TabStepKeeps
<1>3. CASE ServerStep /\ UNCHANGED <<browser, tab>>
  BY <1>3, ServerKeeps
<1>4. QED
  BY <1>1, <1>2, <1>3 DEF Next

LEMMA InitHas == Init => Core /\ SurvivesOK /\ EndedOK
<1> SUFFICES ASSUME Init PROVE Core /\ SurvivesOK /\ EndedOK
  OBVIOUS
<1>1. /\ tokens = <<New(1)>> /\ joined = Workspaces /\ expired = 0 /\ calls = <<>> /\ left \in [Kinds -> Nat]
      /\ lost = FALSE /\ raced = FALSE /\ replayed = FALSE /\ reset = 0 /\ ended = FALSE
      /\ stored = NoWorkspace /\ queue = <<>>
  BY AuthBounds DEF Init, ServerInit
<1>2. /\ New(1) \in Row /\ tokens \in Seq(Row) /\ Len(tokens) = 1 /\ tokens[1] = New(1) /\ DOMAIN tokens = {1}
      /\ Token = {0, 1}
  <2>1. New(1) \in Row
    BY DEF New, Row
  <2>2. tokens \in Seq(Row) /\ Len(tokens) = 1 /\ tokens[1] = New(1) /\ DOMAIN tokens = {1}
    BY <1>1, <2>1
  <2>3. QED
    BY <2>1, <2>2 DEF Token
<1>3. calls \in Seq(CallRow) /\ DOMAIN calls = {}
  BY <1>1
<1>4. Fresh \in Tab /\ [Fresh EXCEPT !.session = 1] \in Tab
  BY DEF Fresh, Tab, NoToken, NoWorkspace
<1>5. /\ tab \in [Tabs -> Tab] /\ local \in {NoToken, 1}
      /\ \/ local = 1 /\ \A t \in Tabs : tab[t] = Fresh
         \/ local = NoToken /\ \E t \in Tabs : \A u \in Tabs :
              tab[u] = IF u = t THEN [Fresh EXCEPT !.session = 1] ELSE Fresh
  BY <1>4 DEF Init
<1>6. \A t \in Tabs : /\ tab[t].status = "loading" /\ tab[t].access = NoToken /\ tab[t].session \in {NoToken, 1}
                      /\ tab[t].run = "none" /\ tab[t].attempt = 0 /\ tab[t].call = 0 /\ tab[t].request = "idle"
                      /\ tab[t].carried = NoToken /\ tab[t].leaving = NoToken /\ tab[t].choosing = NoToken
  BY <1>5 DEF Fresh
<1>7. SessionTypeOK
  <2>1. 0 \in 0..Retries
    BY AuthBounds
  <2>2. TypeOK
    BY <1>1, <1>2, <1>3, <1>5, <1>6, <2>1 DEF TypeOK, NoToken
  <2>3. QED
    BY <1>1, <1>2, <1>5, <1>6, <2>2 DEF SessionTypeOK
<1>8. RowsOK /\ ResetOK
  BY <1>1, <1>2, <1>3 DEF RowsOK, ResetOK, SignedOutEverywhere, Active, New
<1>9. LockOK
  BY <1>1, <1>6 DEF LockOK
<1>10. UnlostOK
  <2>1. \A t \in Tabs : ~Waits(t)
    BY <1>6 DEF Waits
  <2>2. \A t, u \in Tabs : tab[t].session # NoToken =>
          tab[t].session # local /\ (u # t => tab[t].session # tab[u].session)
    BY <1>5 DEF Fresh, NoToken
  <2>3. CallsOK /\ FamilyOK /\ PlacesOK /\ AwaitedOK /\ RotatedOK
    BY <1>2, <1>3, <1>6, <2>1, <2>2 DEF CallsOK, FamilyOK, OneGoodToken, Active, PlacesOK, AwaitedOK, RotatedOK, New
  <2>4. QED
    BY <1>1, <2>3 DEF UnlostOK
<1>11. SurvivesOK
  <2>1. \/ local # NoToken /\ \A t \in Tabs : tab[t].session = NoToken
        \/ local = NoToken /\ \E t \in Tabs :
             /\ tab[t].session # NoToken
             /\ \A u \in Tabs : u # t =>
                  tab[u].session = NoToken /\ tab[u].access = NoToken /\ tab[u].status # "authenticated"
    BY <1>5 DEF Fresh, NoToken
  <2>2. QED
    BY <1>2, <1>6, <2>1 DEF SurvivesOK, New
<1>12. EndedOK
  BY <1>2 DEF EndedOK, New
<1>13. QED
  BY <1>7, <1>8, <1>9, <1>10, <1>11, <1>12 DEF Core

-----------------------------------------------------------------------------
(* A sign-in that was ended stays so. *)

LEMMA QuietCalls ==
    ASSUME SessionTypeOK,
           \/ calls' = calls
           \/ \E k \in Token \ {NoToken} : calls' = Append(calls, Call(k))
           \/ \E c \in DOMAIN calls : calls' = [calls EXCEPT ![c] = Done]
    PROVE  CallsQuiet
<1>1. calls \in Seq(CallRow)
  BY DEF SessionTypeOK, TypeOK
<1>2. CASE calls' = calls
  BY <1>2 DEF CallsQuiet
<1>3. CASE \E k \in Token \ {NoToken} : calls' = Append(calls, Call(k))
  <2>1. PICK k \in Token \ {NoToken} : calls' = Append(calls, Call(k))
    BY <1>3
  <2>2. /\ DOMAIN calls \subseteq DOMAIN calls'
        /\ \A c \in DOMAIN calls' : IF c \in DOMAIN calls THEN calls'[c] = calls[c] ELSE calls'[c] = Call(k)
    BY <1>1, <2>1
  <2>3. QED
    BY <2>2 DEF CallsQuiet
<1>4. CASE \E c \in DOMAIN calls : calls' = [calls EXCEPT ![c] = Done]
  <2>1. PICK c \in DOMAIN calls : calls' = [calls EXCEPT ![c] = Done]
    BY <1>4
  <2>2. /\ DOMAIN calls' = DOMAIN calls
        /\ \A d \in DOMAIN calls : IF d = c THEN calls'[d] = Done ELSE calls'[d] = calls[d]
    BY <1>1, <2>1
  <2>3. QED
    BY <2>2 DEF CallsQuiet
<1>5. QED
  BY <1>2, <1>3, <1>4

\* Rotations of the calls that the API works on, in a table that grows.
LEMMA StillRotating ==
    ASSUME SessionTypeOK, RowsOK, CallsQuiet, \A i \in DOMAIN tokens : tokens'[i].family = tokens[i].family,
           NEW f, Rotating(f)'
    PROVE  Rotating(f)
<1>1. PICK d \in DOMAIN calls' : Midway(d)' /\ tokens'[calls'[d].token].family = f
  BY DEF Rotating
<1>2. d \in DOMAIN calls /\ calls'[d] = calls[d] /\ Midway(d)
  BY <1>1 DEF CallsQuiet, Midway, Done, Call
<1>3. calls[d].token \in DOMAIN tokens
  BY <1>2, Typed DEF RowsOK, Midway, Open, NoToken
<1>4. QED
  BY <1>1, <1>2, <1>3 DEF Rotating

LEMMA EndedStill ==
    ASSUME SessionTypeOK, RowsOK, EndedOK, CallsQuiet, tokens' \in {tokens, Issued}
    PROVE  EndedOK'
<1>1. /\ DOMAIN tokens \subseteq DOMAIN tokens'
      /\ \A i \in DOMAIN tokens : tokens'[i] = tokens[i]
      /\ \A i \in DOMAIN tokens' : i \notin DOMAIN tokens => tokens'[i] = New(i)
  <2>1. tokens \in Seq(Row)
    BY DEF SessionTypeOK, TypeOK
  <2>2. QED
    BY <2>1 DEF Issued
<1>2. SUFFICES ASSUME NEW i \in DOMAIN tokens', tokens'[i].revoked, ~tokens'[i].rotated
               PROVE  /\ \A k \in DOMAIN tokens' : Active(k)' => tokens'[k].family # tokens'[i].family
                      /\ ~Rotating(tokens[i].family)'
  BY DEF EndedOK
<1>3. i \in DOMAIN tokens /\ tokens'[i] = tokens[i]
  BY <1>1, <1>2 DEF New
<1>4. /\ \A k \in DOMAIN tokens : Active(k) => tokens[k].family # tokens[i].family
      /\ ~Rotating(tokens[i].family)
  BY <1>2, <1>3 DEF EndedOK
<1>5. ASSUME NEW k \in DOMAIN tokens', Active(k)' PROVE tokens'[k].family # tokens'[i].family
  <2>1. CASE k \in DOMAIN tokens
    BY <1>1, <1>3, <1>4, <1>5, <2>1 DEF Active
  <2>2. CASE k \notin DOMAIN tokens
    <3>1. tokens'[k].family = k /\ tokens[i].family \in 1..i /\ DOMAIN tokens = 1..Len(tokens)
          /\ Len(tokens) \in Nat
      BY <1>1, <1>3, <2>2, Typed DEF RowsOK, New
    <3>2. tokens[i].family \in DOMAIN tokens
      BY <1>3, <3>1
    <3>3. QED
      BY <1>3, <2>2, <3>1, <3>2
  <2>3. QED
    BY <2>1, <2>2
<1>6. ~Rotating(tokens[i].family)'
  <2>1. ASSUME NEW f, f = tokens'[i].family, Rotating(f)' PROVE FALSE
    <3>1. Rotating(f)
      BY <1>1, <2>1, StillRotating
    <3>2. QED
      BY <1>3, <1>4, <2>1, <3>1
  <2>2. QED
    BY <2>1 DEF Rotating
<1>7. QED
  BY <1>5, <1>6

LEMMA EndedLogout ==
    ASSUME SessionTypeOK, RowsOK, FamilyOK, EndedOK, ~lost, ~raced', calls' = calls,
           NEW k \in DOMAIN tokens, revoke_refresh_token(k)
    PROVE  EndedOK'
<1>1. /\ DOMAIN tokens' = DOMAIN tokens
      /\ \A i \in DOMAIN tokens : /\ tokens'[i].family = tokens[i].family /\ tokens'[i].rotated = tokens[i].rotated
                                  /\ tokens'[i].revoked <=> tokens[i].revoked \/ i = k
  <2>1. \A i \in DOMAIN tokens : tokens[i] \in Row
    BY Typed
  <2>2. QED
    BY <2>1 DEF revoke_refresh_token, Row
<1>2. Active(k) => ~Rotating(tokens[k].family)
  BY DEF revoke_refresh_token
<1>3. ASSUME NEW f, Rotating(f)' PROVE Rotating(f)
  <2>1. CallsQuiet
    BY QuietCalls
  <2>2. QED
    BY <1>1, <1>3, <2>1, StillRotating
<1>4. SUFFICES ASSUME NEW i \in DOMAIN tokens, tokens'[i].revoked, ~tokens[i].rotated
               PROVE  /\ \A j \in DOMAIN tokens : Active(j)' => tokens[j].family # tokens[i].family
                      /\ ~Rotating(tokens[i].family)
  <2>1. ASSUME NEW i \in DOMAIN tokens, ~Rotating(tokens[i].family) PROVE ~Rotating(tokens[i].family)'
    <3>1. ASSUME NEW f, f = tokens'[i].family, Rotating(f)' PROVE FALSE
      BY <1>1, <1>3, <2>1, <3>1
    <3>2. QED
      BY <3>1 DEF Rotating
  <2>2. QED
    BY <1>1, <2>1 DEF EndedOK
<1>5. \A j \in DOMAIN tokens : Active(j)' => Active(j) /\ j # k
  BY <1>1 DEF Active
<1>6. CASE tokens[i].revoked
  BY <1>4, <1>5, <1>6 DEF EndedOK
<1>7. CASE ~tokens[i].revoked
  <2>1. i = k /\ Active(k)
    BY <1>1, <1>4, <1>7 DEF Active
  <2>2. QED
    BY <1>2, <1>5, <2>1 DEF FamilyOK, OneGoodToken
<1>8. QED
  BY <1>6, <1>7

LEMMA EndedReset ==
    ASSUME SessionTypeOK, ResetPassword, ~raced'
    PROVE  EndedOK'
<1>1. /\ DOMAIN tokens' = DOMAIN tokens /\ \A i \in DOMAIN tokens : tokens'[i].revoked
      /\ calls' = calls /\ \A d \in DOMAIN calls : ~Midway(d)
  <2>1. \A i \in DOMAIN tokens : tokens[i] \in Row
    BY Typed
  <2>2. QED
    BY <2>1 DEF ResetPassword, Row
<1>2. /\ \A k \in DOMAIN tokens : ~Active(k)'
      /\ \A d \in DOMAIN calls : ~Midway(d)'
  BY <1>1 DEF Active, Midway
<1>3. QED
  BY <1>1, <1>2 DEF EndedOK, Rotating

LEMMA EndedRead ==
    ASSUME SessionTypeOK, RowsOK, EndedOK, ~raced', NEW c \in DOMAIN calls, ApiReads(c)
    PROVE  EndedOK'
<1> DEFINE k == calls[c].token
<1>1. /\ k \in DOMAIN tokens /\ DOMAIN calls' = DOMAIN calls /\ DOMAIN tokens' = DOMAIN tokens
      /\ \A d \in DOMAIN calls : d # c => calls'[d] = calls[d]
      /\ calls'[c].token = k
      /\ \A i \in DOMAIN tokens : /\ tokens'[i].family = tokens[i].family /\ tokens'[i].rotated = tokens[i].rotated
                                  /\ tokens[i].revoked => tokens'[i].revoked
      /\ \/ Active(k) /\ calls'[c].phase = "read" /\ tokens' = tokens
         \/ /\ ~Active(k) /\ calls'[c].phase = "answered" /\ ~Rotating(tokens[k].family)
            /\ \A i \in DOMAIN tokens : tokens'[i].revoked <=> tokens[i].revoked \/ tokens[i].family = tokens[k].family
  BY Reads DEF Grows
<1>2. \A d \in DOMAIN calls : Midway(d)' => calls'[d].token = calls[d].token /\ (Midway(d) \/ (d = c /\ Active(k)))
  BY <1>1 DEF Midway
<1>3. \A d \in DOMAIN calls : Midway(d)' => calls[d].token \in DOMAIN tokens
  BY <1>1, <1>2, Typed DEF RowsOK, Midway, Open, NoToken
<1>4. SUFFICES ASSUME NEW i \in DOMAIN tokens, tokens'[i].revoked, ~tokens[i].rotated
               PROVE  /\ \A j \in DOMAIN tokens : Active(j)' => tokens[j].family # tokens[i].family
                      /\ \A d \in DOMAIN calls : Midway(d)' => tokens[calls[d].token].family # tokens[i].family
  <2>1. SUFFICES ASSUME NEW i \in DOMAIN tokens', tokens'[i].revoked, ~tokens'[i].rotated
                 PROVE  /\ \A j \in DOMAIN tokens' : Active(j)' => tokens'[j].family # tokens'[i].family
                        /\ \A d \in DOMAIN calls' : Midway(d)' => tokens'[calls'[d].token].family # tokens'[i].family
    BY DEF EndedOK, Rotating
  <2>2. QED
    BY <1>1, <1>2, <1>3, <2>1
<1>5. \A j \in DOMAIN tokens : Active(j)' => Active(j)
  BY <1>1 DEF Active
<1>6. CASE tokens[i].revoked
  <2>1. /\ \A j \in DOMAIN tokens : Active(j) => tokens[j].family # tokens[i].family
        /\ \A d \in DOMAIN calls : Midway(d) => tokens[calls[d].token].family # tokens[i].family
    BY <1>4, <1>6 DEF EndedOK, Rotating
  <2>2. QED
    BY <1>1, <1>2, <1>5, <2>1
<1>7. CASE ~tokens[i].revoked
  <2>1. ~Active(k) /\ ~Rotating(tokens[k].family) /\ tokens[i].family = tokens[k].family
    BY <1>1, <1>4, <1>7
  <2>2. \A j \in DOMAIN tokens : Active(j)' => tokens[j].family # tokens[k].family
    BY <1>1, <2>1 DEF Active
  <2>3. QED
    BY <1>2, <2>1, <2>2 DEF Rotating
<1>8. QED
  BY <1>6, <1>7

LEMMA EndedCommit ==
    ASSUME SessionTypeOK, RowsOK, EndedOK, NEW c \in DOMAIN calls, ApiCommits(c)
    PROVE  EndedOK'
<1> DEFINE k == calls[c].token
           n == Len(tokens) + 1
<1>1. /\ Midway(c) /\ k \in DOMAIN tokens /\ n \notin DOMAIN tokens
      /\ DOMAIN tokens' = DOMAIN tokens \cup {n}
      /\ \A i \in DOMAIN tokens : i # k => tokens'[i] = tokens[i]
      /\ tokens'[k].family = tokens[k].family /\ tokens'[k].revoked /\ tokens'[k].rotated
      /\ tokens'[n] = New(tokens[k].family)
      /\ DOMAIN calls' = DOMAIN calls
      /\ \A d \in DOMAIN calls : d # c => calls'[d] = calls[d]
      /\ calls'[c].phase = "answered"
  BY CommitsRow
<1> HIDE DEF k, n
<1>2. \A d \in DOMAIN calls : Midway(d)' => /\ Midway(d) /\ calls'[d] = calls[d] /\ calls[d].token \in DOMAIN tokens
                                            /\ tokens'[calls[d].token].family = tokens[calls[d].token].family
  <2>1. \A d \in DOMAIN calls : Midway(d)' => Midway(d) /\ calls'[d] = calls[d]
    BY <1>1 DEF Midway
  <2>2. \A d \in DOMAIN calls : Midway(d) => calls[d].token \in DOMAIN tokens
    BY Typed DEF RowsOK, Midway, Open, NoToken
  <2>3. QED
    BY <1>1, <2>1, <2>2
<1>3. SUFFICES ASSUME NEW i \in DOMAIN tokens', tokens'[i].revoked, ~tokens'[i].rotated
               PROVE  /\ \A j \in DOMAIN tokens' : Active(j)' => tokens'[j].family # tokens'[i].family
                      /\ \A d \in DOMAIN calls' : Midway(d)' => tokens'[calls'[d].token].family # tokens'[i].family
  BY DEF EndedOK, Rotating
<1>4. i \in DOMAIN tokens /\ i # k /\ tokens'[i] = tokens[i]
  BY <1>1, <1>3 DEF New
<1>5. /\ \A j \in DOMAIN tokens : Active(j) => tokens[j].family # tokens[i].family
      /\ \A d \in DOMAIN calls : Midway(d) => tokens[calls[d].token].family # tokens[i].family
  BY <1>3, <1>4 DEF EndedOK, Rotating
<1>6. tokens[k].family # tokens[i].family
  BY <1>1, <1>5 DEF k
<1>7. \A j \in DOMAIN tokens' : Active(j)' => tokens'[j].family # tokens'[i].family
  BY <1>1, <1>4, <1>5, <1>6 DEF Active, New
<1>8. \A d \in DOMAIN calls' : Midway(d)' => tokens'[calls'[d].token].family # tokens'[i].family
  BY <1>1, <1>2, <1>4, <1>5
<1>9. QED
  BY <1>7, <1>8

\* A client's step issues a row or none, except a logout's.
LEMMA ClientsCalls ==
    ASSUME SessionTypeOK, NEW t \in Tabs, TabStep(t)
    PROVE  CallsQuiet /\ (tokens' \in {tokens, Issued} \/ (LogoutSettled(t) /\ calls' = calls))
<1>1. tab[t].run = "posted" => tab[t].call \in DOMAIN calls
  BY Typed
<1>2. CASE Attempt(t)
  <2>1. readRefreshToken(t) \in Token
    BY Typed DEF readRefreshToken
  <2>2. tokens' = tokens /\ (calls' = calls \/ \E k \in Token \ {NoToken} : calls' = Append(calls, Call(k)))
    BY <1>2, <2>1 DEF Attempt
  <2>3. QED
    BY <2>2, QuietCalls
<1>3. CASE Answered(t) \/ ApplyFails(t) \/ Unreachable(t)
  <2>1. tab[t].run = "posted" /\ tokens' = tokens /\ calls' = [calls EXCEPT ![tab[t].call] = Done]
    BY <1>3 DEF Answered, ApplyFails, Unreachable, Failed, Retried
  <2>2. QED
    BY <1>1, <2>1, QuietCalls
<1>4. CASE Mount(t) \/ Response401(t)
  <2>1. tokens' = tokens /\ calls' = calls
    BY <1>4 DEF Mount, Response401, refresh, server
  <2>2. QED
    BY <2>1, QuietCalls
<1>5. CASE AnswerLost(t) \/ Send(t) \/ Response(t) \/ Logout(t) \/ Reload(t) \/ \E w \in Workspaces : SetWorkspace(t, w)
  <2>1. tokens' = tokens /\ calls' = calls
    BY <1>5 DEF AnswerLost, Failed, Retried, Send, Response, Logout, Reload, SetWorkspace, server
  <2>2. QED
    BY <2>1, QuietCalls
<1>6. CASE LogoutSettled(t)
  BY <1>6, QuietCalls DEF LogoutSettled
<1>7. ASSUME NEW keep \in BOOLEAN, SubmitLogin(t, keep) \/ \E w \in Workspaces : ChooseWorkspace(t, w, keep)
      PROVE  CallsQuiet /\ tokens' \in {tokens, Issued}
  <2>1. tokens' \in {tokens, Issued} /\ calls' = calls
    BY <1>7 DEF SubmitLogin, SignIn, ChooseWorkspace, server
  <2>2. QED
    BY <2>1, QuietCalls
<1>8. CASE Register(t) \/ \E w \in Workspaces : AcceptInvitation(t, w)
  <2>1. tokens' = Issued /\ calls' = calls
    BY <1>8 DEF Register, AcceptInvitation, SignIn
  <2>2. QED
    BY <2>1, QuietCalls
<1>9. QED
  BY <1>2, <1>3, <1>4, <1>5, <1>6, <1>7, <1>8 DEF TabStep

LEMMA EndedByTheApi ==
    ASSUME SessionTypeOK, RowsOK, EndedOK, ~raced', ServerStep
    PROVE  EndedOK'
<1>1. CASE Expire \/ \E w \in Workspaces : Move(w)
  <2>1. tokens' = tokens /\ calls' = calls
    BY <1>1 DEF Expire, Move
  <2>2. QED
    BY <2>1, QuietCalls, EndedStill
<1>2. QED
  BY <1>1, EndedRead, EndedCommit, EndedReset DEF ServerStep

-----------------------------------------------------------------------------
(* The first session survives. *)

\* The session is the browser's, or one tab's.
Kept == local # NoToken /\ \A t \in Tabs : tab[t].session = NoToken
OneTabs(t) == /\ local = NoToken /\ tab[t].session # NoToken
              /\ \A u \in Tabs : u # t =>
                   tab[u].session = NoToken /\ tab[u].access = NoToken /\ tab[u].status # "authenticated"

LEMMA Whose == SurvivesOK => Kept \/ \E t \in Tabs : OneTabs(t)
  BY DEF SurvivesOK, Kept, OneTabs

LEMMA SurvivesStill ==
    ASSUME SurvivesOK, UNCHANGED <<tokens, calls, local>>,
           \A u \in Tabs : /\ tab'[u].choosing = tab[u].choosing /\ tab'[u].leaving = tab[u].leaving
                           /\ tab'[u].session = tab[u].session /\ tab'[u].access = tab[u].access
                           /\ tab'[u].status = tab[u].status
                           /\ tab'[u].run = "posted" => tab[u].run = "posted" /\ tab'[u].call = tab[u].call
    PROVE  SurvivesOK'
<1>1. Kept \/ \E t \in Tabs : OneTabs(t)
  BY Whose
<1>2. Kept => Kept'
  BY DEF Kept
<1>3. \A t \in Tabs : OneTabs(t) => OneTabs(t)'
  BY DEF OneTabs
<1>4. \A t \in Tabs : tab'[t].run = "posted" => Waits(t)' /\ readRefreshToken(t)' # NoToken
  BY DEF SurvivesOK, Waits, Open, readRefreshToken
<1>5. QED
  BY <1>1, <1>2, <1>3, <1>4 DEF SurvivesOK, Kept, OneTabs

\* A step of t: the others are as they were.
LEMMA SurvivesStep ==
    ASSUME Core, SurvivesOK, NEW t \in Tabs, NEW r \in Tab, tab' = [tab EXCEPT ![t] = r], tokens' = tokens,
           \A u \in Tabs : u # t /\ tab[u].run = "posted" =>
             local' = local /\ calls'[tab[u].call] = calls[tab[u].call],
           r.choosing = NoToken, r.leaving = NoToken, r.access # NoToken => r.status = "authenticated",
           r.run = "posted" => Waits(t)' /\ readRefreshToken(t)' # NoToken,
           \/ /\ local' = local /\ r.session = tab[t].session
              /\ r.access \in {tab[t].access, NoToken} /\ (r.status = "authenticated" => tab[t].status = "authenticated")
           \/ local' # NoToken /\ r.session = NoToken /\ Kept
           \/ local' = NoToken /\ r.session # NoToken /\ OneTabs(t)
    PROVE  SurvivesOK'
<1>1. tab'[t] = r /\ \A u \in Tabs : u # t => tab'[u] = tab[u]
  BY QueueTyped
<1>2. ASSUME NEW u \in Tabs, u # t, tab[u].run = "posted"
      PROVE  Waits(u)' /\ readRefreshToken(u)' # NoToken
  BY <1>1, <1>2 DEF SurvivesOK, Waits, Open, readRefreshToken
<1>3. \A u \in Tabs : /\ tab'[u].choosing = NoToken /\ tab'[u].leaving = NoToken
                      /\ tab'[u].access # NoToken => tab'[u].status = "authenticated"
                      /\ tab'[u].run = "posted" => Waits(u)' /\ readRefreshToken(u)' # NoToken
  BY <1>1, <1>2 DEF SurvivesOK
<1>4. Kept' \/ \E u \in Tabs : OneTabs(u)'
  <2>1. CASE /\ local' = local /\ r.session = tab[t].session
             /\ r.access \in {tab[t].access, NoToken} /\ (r.status = "authenticated" => tab[t].status = "authenticated")
    <3>1. Kept => Kept'
      BY <1>1, <2>1 DEF Kept
    <3>2. \A u \in Tabs : OneTabs(u) => OneTabs(u)'
      BY <1>1, <2>1 DEF OneTabs
    <3>3. QED
      BY <3>1, <3>2, Whose
  <2>2. CASE local' # NoToken /\ r.session = NoToken /\ Kept
    BY <1>1, <2>2 DEF Kept
  <2>3. CASE local' = NoToken /\ r.session # NoToken /\ OneTabs(t)
    BY <1>1, <2>3 DEF OneTabs
  <2>4. QED
    BY <2>1, <2>2, <2>3
<1>5. QED
  BY <1>3, <1>4 DEF SurvivesOK, Kept, OneTabs

\* Nothing that ends a session or loses an answer is undone.
LEMMA NothingUndoneByTheApi == ServerStep => (lost => lost') /\ (raced => raced') /\ (ended => ended')
<1> DEFINE Stays == (lost => lost') /\ (raced => raced') /\ (ended => ended')
<1>1. ASSUME NEW c \in DOMAIN calls, ApiReads(c) PROVE Stays
  <2> DEFINE moving == Rotating(tokens[calls[c].token].family)
  <2>1. raced' = raced \/ raced' = (raced \/ moving)
    BY <1>1, Zenon DEF ApiReads, ghosts
  <2> HIDE DEF moving
  <2>2. CASE raced' = raced
    BY <1>1, <2>2 DEF ApiReads, ghosts
  <2>3. CASE raced' = (raced \/ moving)
    <3>1. raced => raced'
      BY <2>3, Zenon
    <3>2. QED
      BY <1>1, <3>1 DEF ApiReads, ghosts
  <2>4. QED
    BY <2>1, <2>2, <2>3
<1>2. ASSUME NEW c \in DOMAIN calls, ApiCommits(c) PROVE Stays
  BY <1>2 DEF ApiCommits, ghosts
<1>3. CASE ResetPassword
  <2>1. raced' = (raced \/ \E d \in DOMAIN calls : Midway(d)) /\ lost' = lost /\ ended' = TRUE
    BY <1>3 DEF ResetPassword
  <2>2. QED
    BY <2>1, Zenon
<1>4. CASE Expire \/ \E w \in Workspaces : Move(w)
  BY <1>4 DEF Expire, Move, ghosts
<1>5. QED
  BY <1>1, <1>2, <1>3, <1>4 DEF ServerStep

LEMMA NothingUndone == [Next]_vars => (lost => lost') /\ (raced => raced') /\ (ended => ended')
<1> DEFINE Stays == (lost => lost') /\ (raced => raced') /\ (ended => ended')
<1>1. ASSUME NEW t \in Tabs, TabStep(t) PROVE Stays
  <2>1. Mount(t) \/ Response401(t) => Stays
    BY DEF Mount, Response401, refresh, server, ghosts
  <2>2. Attempt(t) \/ Answered(t) \/ Send(t) \/ LogoutSettled(t) \/ (\E w \in Workspaces : SetWorkspace(t, w)) => Stays
    <3>1. Attempt(t) \/ Answered(t) \/ Send(t) \/ (\E w \in Workspaces : SetWorkspace(t, w)) => Stays
      BY DEF Attempt, Answered, Send, SetWorkspace, ghosts
    <3>2. LogoutSettled(t) => Stays
      <4>1. revoke_refresh_token(tab[t].leaving) => (raced => raced')
        BY Zenon DEF revoke_refresh_token
      <4>2. QED
        BY <4>1 DEF LogoutSettled
    <3>3. QED
      BY <3>1, <3>2
  <2>3. Unreachable(t) \/ AnswerLost(t) \/ ApplyFails(t) \/ Reload(t) => Stays
    <3>1. Unreachable(t) \/ AnswerLost(t) \/ ApplyFails(t) => Stays
      BY DEF Unreachable, AnswerLost, ApplyFails, Failed, Retried
    <3>2. Reload(t) => Stays
      <4>1. Reload(t) => lost' = (lost \/ tab[t].run = "posted") /\ UNCHANGED <<raced, ended>>
        BY DEF Reload
      <4>2. QED
        BY <4>1, Zenon
    <3>3. QED
      BY <3>1, <3>2
  <2>4. Response(t) \/ (\E w \in Workspaces, keep \in BOOLEAN : ChooseWorkspace(t, w, keep)) => Stays
    BY DEF Response, ChooseWorkspace, server, ghosts
  <2>5. SignIn(t) \/ Logout(t) => Stays
    BY DEF SignIn, Logout
  <2>6. (\E keep \in BOOLEAN : SubmitLogin(t, keep)) \/ Register(t) \/ (\E w \in Workspaces : AcceptInvitation(t, w))
          => SignIn(t)
    BY DEF SubmitLogin, Register, AcceptInvitation
  <2> HIDE DEF Stays
  <2>7. QED
    BY <1>1, <2>1, <2>2, <2>3, <2>4, <2>5, <2>6 DEF TabStep
<1>2. ServerStep => Stays
  BY NothingUndoneByTheApi
<1>3. QED
  BY <1>1, <1>2 DEF Next, vars, server, ghosts

LEMMA QuietSurvives ==
    ASSUME Core, SurvivesOK, NEW t \in Tabs,
           \/ Mount(t) \/ Send(t) \/ Response(t) \/ Response401(t) \/ \E w \in Workspaces : SetWorkspace(t, w)
    PROVE  SurvivesOK'
<1>1. tab \in [Tabs -> Tab] /\ tab[t] \in Tab
  BY QueueTyped
<1>2. \E r \in Tab :
        /\ tab' = [tab EXCEPT ![t] = r]
        /\ r.choosing = tab[t].choosing /\ r.leaving = tab[t].leaving /\ r.session = tab[t].session
        /\ r.access = tab[t].access /\ r.status = tab[t].status
        /\ r.run = "posted" => tab[t].run = "posted" /\ r.call = tab[t].call
  <2> DEFINE Quiet(r) == /\ r.choosing = tab[t].choosing /\ r.leaving = tab[t].leaving /\ r.session = tab[t].session
                         /\ r.access = tab[t].access /\ r.status = tab[t].status
                         /\ r.run = "posted" => tab[t].run = "posted" /\ r.call = tab[t].call
  <2>1. ASSUME NEW tb \in Tab, refresh(t, tb), Quiet(tb)
        PROVE  \E r \in Tab : tab' = [tab EXCEPT ![t] = r] /\ Quiet(r)
    <3>1. [tb EXCEPT !.run = "queued"] \in Tab /\ Quiet([tb EXCEPT !.run = "queued"])
      BY <2>1 DEF Tab
    <3>2. QED
      BY <2>1, <3>1 DEF refresh
  <2>2. CASE Mount(t)
    BY <1>1, <2>1, <2>2 DEF Mount
  <2>3. CASE Send(t)
    <3> DEFINE r == [tab[t] EXCEPT !.request = "sent", !.carried = tab[t].access, !.origin = tab[t].workspace]
    <3>1. r \in Tab /\ Quiet(r)
      BY <1>1 DEF Tab
    <3>2. tab' = [tab EXCEPT ![t] = r]
      BY <2>3 DEF Send
    <3>3. QED
      BY <3>1, <3>2
  <2>4. CASE Response(t)
    <3> DEFINE r == [tab[t] EXCEPT !.request = "idle", !.carried = NoToken,
                                   !.cached = @ \cup ({tab[t].origin} \cap joined)]
    <3>1. r \in Tab /\ Quiet(r)
      BY <1>1 DEF Tab, NoToken
    <3>2. tab' = [tab EXCEPT ![t] = r]
      BY <2>4 DEF Response
    <3>3. QED
      BY <3>1, <3>2
  <2>5. CASE Response401(t)
    <3>1. CASE refresh(t, [tab[t] EXCEPT !.request = "waiting"])
      <4>1. [tab[t] EXCEPT !.request = "waiting"] \in Tab /\ Quiet([tab[t] EXCEPT !.request = "waiting"])
        BY <1>1 DEF Tab
      <4>2. QED
        BY <2>1, <3>1, <4>1
    <3>2. CASE tab' = [tab EXCEPT ![t].request = "idle", ![t].carried = NoToken]
      <4> DEFINE r == [tab[t] EXCEPT !.request = "idle", !.carried = NoToken]
      <4>1. r \in Tab /\ Quiet(r)
        BY <1>1 DEF Tab, NoToken
      <4>2. tab' = [tab EXCEPT ![t] = r]
        BY <1>1, <3>2
      <4>3. QED
        BY <4>1, <4>2
    <3>3. QED
      BY <2>5, <3>1, <3>2 DEF Response401
  <2>6. ASSUME NEW w \in Workspaces, SetWorkspace(t, w) PROVE \E r \in Tab : tab' = [tab EXCEPT ![t] = r] /\ Quiet(r)
    <3> DEFINE d == Dropped(tab[t])
               r == [d EXCEPT !.workspace = w]
    <3>1. d \in Tab /\ Quiet(d) /\ w \in Nat
      BY <1>1, Drops, AuthBounds
    <3>2. tab' = [tab EXCEPT ![t] = r]
      BY <2>6 DEF SetWorkspace
    <3> HIDE DEF d
    <3>3. r \in Tab /\ Quiet(r)
      BY <3>1 DEF Tab
    <3>4. QED
      BY <3>2, <3>3
  <2>7. QED
    BY <2>2, <2>3, <2>4, <2>5, <2>6
<1>3. UNCHANGED <<tokens, calls, local>>
  BY DEF Mount, refresh, Send, Response, Response401, SetWorkspace, server, browser
<1>4. QED
  BY <1>1, <1>2, <1>3, SurvivesStill

LEMMA AttemptSurvives == ASSUME WebLocks, Core, SurvivesOK, NEW t \in Tabs, Attempt(t) PROVE SurvivesOK'
<1> DEFINE k == readRefreshToken(t)
<1>1. /\ SessionTypeOK /\ LockOK /\ tab[t] \in Tab /\ tab \in [Tabs -> Tab] /\ queue \in Seq(Tabs)
      /\ UNCHANGED <<tokens, local>> /\ tab[t].run \in {"queued", "asleep"}
  BY QueueTyped DEF Attempt
<1>2. WebLocks => queue[1] = t
  <2>1. \E i \in DOMAIN queue : queue[i] = t
    BY <1>1 DEF LockOK
  <2>2. WebLocks => Head(queue) = t
    BY DEF Attempt
  <2>3. QED
    BY <1>1, <2>1, <2>2
<1>3. \A u \in Tabs : u # t => tab[u].run # "posted"
  BY <1>1, <1>2 DEF LockOK
<1>4. CASE k = NoToken /\ tab' = [tab EXCEPT ![t] = [Settled(@, NoToken) EXCEPT !.status = "unauthenticated"]]
  <2> DEFINE d == Settled(tab[t], NoToken)
             r == [d EXCEPT !.status = "unauthenticated"]
  <2>1. d \in Tab /\ d.run = "none" /\ d.session = tab[t].session /\ d.access = tab[t].access
        /\ d.leaving = tab[t].leaving /\ d.choosing = tab[t].choosing
    BY <1>1, Settles DEF NoToken
  <2>2. tab' = [tab EXCEPT ![t] = r]
    BY <1>1, <1>4
  <2> HIDE DEF d
  <2>3. r \in Tab /\ r.run = "none" /\ r.session = tab[t].session /\ r.access = tab[t].access
        /\ r.leaving = tab[t].leaving /\ r.choosing = tab[t].choosing /\ r.status = "unauthenticated"
    BY <2>1 DEF Tab
  <2> HIDE DEF r
  <2>4. tab[t].access = NoToken /\ tab[t].choosing = NoToken /\ tab[t].leaving = NoToken
    BY <1>4, Whose DEF SurvivesOK, Kept, OneTabs, readRefreshToken
  <2>5. QED
    BY <1>1, <1>3, <2>2, <2>3, <2>4, SurvivesStep
<1>5. CASE k # NoToken /\ calls' = Append(calls, Call(k)) /\ tab' = [tab EXCEPT ![t].run = "posted", ![t].call = Len(calls')]
  <2> DEFINE n == Len(calls) + 1
             r == [tab[t] EXCEPT !.run = "posted", !.call = n]
  <2>1. Len(calls') = n /\ calls'[n] = Call(k) /\ n \in Nat
    BY <1>1, <1>5, Typed DEF SessionTypeOK, TypeOK
  <2>2. tab' = [tab EXCEPT ![t] = r]
    BY <1>1, <1>5, <2>1
  <2> HIDE DEF n
  <2>3. r \in Tab /\ r.run = "posted" /\ r.call = n /\ r.session = tab[t].session /\ r.access = tab[t].access
        /\ r.leaving = tab[t].leaving /\ r.choosing = tab[t].choosing /\ r.status = tab[t].status
    BY <1>1, <2>1 DEF Tab
  <2> HIDE DEF r
  <2>4. tab'[t] = r
    BY <1>1, <2>2
  <2>5. readRefreshToken(t)' # NoToken
    BY <1>1, <1>5, <2>3, <2>4 DEF readRefreshToken
  <2>6. Waits(t)'
    <3>1. calls'[n].phase = "sent"
      BY <2>1 DEF Call
    <3>2. QED
      BY <2>3, <2>4, <3>1 DEF Waits, Open
  <2>7. tab[t].choosing = NoToken /\ tab[t].leaving = NoToken
        /\ (tab[t].access # NoToken => tab[t].status = "authenticated")
    BY DEF SurvivesOK
  <2>8. QED
    BY ZenonT(60), <1>1, <1>3, <2>2, <2>3, <2>5, <2>6, <2>7, SurvivesStep
<1>6. QED
  BY <1>4, <1>5 DEF Attempt

LEMMA AnsweredSurvives == ASSUME WebLocks, Core, SurvivesOK, NEW t \in Tabs, Answered(t) PROVE SurvivesOK'
<1> DEFINE n == calls[tab[t].call].new
           d == Settled(tab[t], n)
<1>1. /\ SessionTypeOK /\ LockOK /\ tab[t] \in Tab /\ tab \in [Tabs -> Tab] /\ tokens' = tokens /\ tab[t].run = "posted"
  BY QueueTyped DEF Answered
<1>2. Waits(t) /\ readRefreshToken(t) # NoToken /\ tab[t].choosing = NoToken /\ tab[t].leaving = NoToken
  BY <1>1 DEF SurvivesOK
<1>3. calls[tab[t].call] \in CallRow /\ n \in Nat /\ n # NoToken
  <2>1. calls[tab[t].call] \in CallRow /\ n \in Token /\ Token = 0..Len(tokens) /\ Len(tokens) \in Nat
    BY <1>1, Typed
  <2>2. QED
    BY <1>2, <2>1 DEF Waits, Open, Answered
<1>4. \A u \in Tabs : u # t => tab[u].run # "posted"
  BY <1>1, OnePosts
<1>5. d \in Tab /\ d.run = "none" /\ d.leaving = tab[t].leaving /\ d.choosing = tab[t].choosing
  BY <1>1, <1>3, Settles
<1>6. applySession(t, d, n, calls[tab[t].call].members, NoWorkspace, isKept(t))
  BY <1>3 DEF Answered
<1> HIDE DEF d
<1>7. calls[tab[t].call].members \in SUBSET Workspaces /\ isKept(t) \in BOOLEAN
  BY <1>3 DEF CallRow, isKept
<1>8. local' = IF isKept(t) THEN n ELSE NoToken
  BY <1>6 DEF applySession
<1>9. PICK r \in Tab : /\ tab' = [tab EXCEPT ![t] = r]
                       /\ r.session = (IF isKept(t) THEN NoToken ELSE n) /\ r.access = n /\ r.status = "authenticated"
                       /\ r.run = "none" /\ r.leaving = NoToken /\ r.choosing = NoToken
  BY <1>2, <1>3, <1>5, <1>6, <1>7, Applied
<1>10. IF isKept(t) THEN Kept ELSE OneTabs(t)
  BY <1>2, Whose DEF isKept, readRefreshToken, Kept, OneTabs
<1>11. \/ local' # NoToken /\ r.session = NoToken /\ Kept
       \/ local' = NoToken /\ r.session # NoToken /\ OneTabs(t)
  BY <1>3, <1>8, <1>9, <1>10
<1> HIDE DEF n
<1>12. QED
  BY <1>1, <1>4, <1>9, <1>11, SurvivesStep

LEMMA UnreachableSurvives == ASSUME WebLocks, Core, SurvivesOK, NEW t \in Tabs, Unreachable(t) PROVE SurvivesOK'
<1>1. /\ Retried(t, tab[t]) /\ local' = local /\ tab[t] \in Tab /\ tab \in [Tabs -> Tab] /\ LockOK
      /\ tab[t].attempt \in 0..Retries
  BY QueueTyped DEF Unreachable, Failed
<1>2. tab[t].run = "posted" /\ tokens' = tokens
  BY <1>1, AFailure
<1>3. PICK r \in Tab :
        /\ tab' = [tab EXCEPT ![t] = r]
        /\ r.session = tab[t].session /\ r.choosing = tab[t].choosing
        /\ r.leaving = tab[t].leaving /\ r.access = tab[t].access
        /\ r.status = tab[t].status \/ (tab[t].access = NoToken /\ r.status = "unauthenticated")
        /\ r.run # "posted"
  BY <1>1, AFailure
<1>4. \A u \in Tabs : u # t => tab[u].run # "posted"
  BY <1>1, <1>2, OnePosts
<1>5. tab[t].choosing = NoToken /\ tab[t].leaving = NoToken
      /\ (tab[t].access # NoToken => tab[t].status = "authenticated")
  BY DEF SurvivesOK
<1>6. QED
  BY <1>1, <1>2, <1>3, <1>4, <1>5, SurvivesStep

LEMMA ApplyFailsSurvives == ASSUME WebLocks, Core, SurvivesOK, ~lost', NEW t \in Tabs, ApplyFails(t) PROVE SurvivesOK'
<1> DEFINE n == calls[tab[t].call].new
           x == IF isKept(t) THEN NoToken ELSE n
           tb == [tab[t] EXCEPT !.session = x]
<1>1. /\ SessionTypeOK /\ LockOK /\ tab[t] \in Tab /\ tab \in [Tabs -> Tab] /\ tab[t].attempt \in 0..Retries
      /\ tab[t].run = "posted" /\ n # NoToken
  BY QueueTyped DEF ApplyFails
<1>2. Retried(t, tb) /\ local' = (IF isKept(t) THEN n ELSE NoToken)
  BY DEF ApplyFails
<1>3. Waits(t) /\ readRefreshToken(t) # NoToken /\ tab[t].choosing = NoToken /\ tab[t].leaving = NoToken
      /\ (tab[t].access # NoToken => tab[t].status = "authenticated")
  BY <1>1 DEF SurvivesOK
<1>4. n \in Nat /\ NoToken \in Nat
  BY <1>1, Typed DEF NoToken
<1>5. IF isKept(t) THEN Kept ELSE OneTabs(t)
  BY <1>3, Whose DEF isKept, readRefreshToken, Kept, OneTabs
<1>6. \/ local' # NoToken /\ x = NoToken /\ Kept
      \/ local' = NoToken /\ x # NoToken /\ OneTabs(t)
  BY <1>1, <1>2, <1>5
<1>7. x \in Nat
  BY <1>4
<1> HIDE DEF n, x
<1>8. /\ tb \in Tab /\ tb.session = x /\ tb.choosing = tab[t].choosing /\ tb.leaving = tab[t].leaving
      /\ tb.access = tab[t].access /\ tb.status = tab[t].status /\ tb.attempt = tab[t].attempt
  BY <1>1, <1>7 DEF Tab
<1> HIDE DEF tb
<1>9. tokens' = tokens
  BY <1>1, <1>2, <1>8, AFailure
<1>10. PICK r \in Tab :
         /\ tab' = [tab EXCEPT ![t] = r]
         /\ r.session = x /\ r.choosing = NoToken /\ r.leaving = NoToken /\ r.access = tab[t].access
         /\ r.status = tab[t].status \/ (tab[t].access = NoToken /\ r.status = "unauthenticated")
         /\ r.run # "posted"
  BY <1>1, <1>2, <1>3, <1>8, AFailure
<1>11. \A u \in Tabs : u # t => tab[u].run # "posted"
  BY <1>1, OnePosts
<1>12. QED
  BY <1>3, <1>6, <1>9, <1>10, <1>11, SurvivesStep

LEMMA ReloadSurvives == ASSUME Core, SurvivesOK, ~lost', NEW t \in Tabs, Reload(t) PROVE SurvivesOK'
<1> DEFINE r == [Fresh EXCEPT !.session = tab[t].session]
<1>1. tab[t] \in Tab /\ tab[t].session \in Nat
  BY QueueTyped DEF Tab
<1>2. tab' = [tab EXCEPT ![t] = r] /\ UNCHANGED <<tokens, calls, local>>
  BY DEF Reload
<1>3. /\ r \in Tab /\ r.run = "none" /\ r.session = tab[t].session /\ r.choosing = NoToken
      /\ r.access = NoToken /\ r.leaving = NoToken /\ r.status = "loading"
  BY <1>1 DEF Fresh, Tab, NoToken, NoWorkspace
<1> HIDE DEF r
<1>4. QED
  BY <1>2, <1>3, SurvivesStep

\* The API refuses no token of a session that nobody ended.
LEMMA ServerSurvives ==
    ASSUME WebLocks, Core, UnlostOK, SurvivesOK, NEW c \in DOMAIN calls, ApiReads(c) \/ ApiCommits(c), UNCHANGED <<browser, tab>>
    PROVE  SurvivesOK'
<1> DEFINE k == calls[c].token
<1>1. SessionTypeOK /\ RowsOK /\ LockOK /\ UNCHANGED <<local, tab>>
  BY QueueTyped DEF browser
<1>2. Open(c)
  BY DEF ApiReads, ApiCommits, Midway, Open
<1>3. PICK t \in Tabs : Waits(t) /\ tab[t].call = c
  BY <1>2 DEF UnlostOK, CallsOK
<1>4. \A u \in Tabs : tab[u].run = "posted" => u = t
  BY <1>1, <1>3, OnePosts DEF Waits
<1>5. /\ \A i \in DOMAIN tokens' : tokens'[i].revoked => tokens'[i].rotated
      /\ Waits(t)'
  <2>1. CASE ApiReads(c)
    <3>1. k \in DOMAIN tokens /\ ~tokens[k].rotated
      <4>1. k \in DOMAIN tokens /\ calls[c].phase = "sent"
        BY <1>1, <2>1, Reads
      <4>2. QED
        BY <1>3, <4>1 DEF UnlostOK, AwaitedOK
    <3>2. Active(k)
      BY <3>1 DEF SurvivesOK, Active
    <3>3. tokens' = tokens /\ calls'[c].phase = "read"
      BY <1>1, <2>1, <3>2, Reads
    <3>4. QED
      BY <1>1, <1>3, <3>3 DEF SurvivesOK, Waits, Open
  <2>2. CASE ApiCommits(c)
    <3>1. LET n == Len(tokens) + 1 IN
          /\ n # NoToken /\ DOMAIN tokens' = DOMAIN tokens \cup {n} /\ n \notin DOMAIN tokens
          /\ \A i \in DOMAIN tokens : i # k => tokens'[i] = tokens[i]
          /\ tokens'[k].rotated /\ tokens'[n] = New(tokens[k].family) /\ calls'[c].new = n
      BY <1>1, <2>2, CommitsRow
    <3>2. QED
      BY <1>1, <1>3, <3>1 DEF SurvivesOK, Waits, Open, New
  <2>3. QED
    BY <2>1, <2>2
<1>6. \A u \in Tabs : tab'[u].run = "posted" => Waits(u)' /\ readRefreshToken(u)' # NoToken
  BY <1>1, <1>4, <1>5 DEF SurvivesOK, readRefreshToken
<1>7. Kept' \/ \E u \in Tabs : OneTabs(u)'
  BY <1>1, Whose DEF Kept, OneTabs
<1>8. QED
  BY <1>1, <1>5, <1>6, <1>7 DEF SurvivesOK, Kept, OneTabs

LEMMA SessionNextKeeps == SessionInv /\ [Next]_vars => SessionInv'
<1> SUFFICES ASSUME SessionInv, [Next]_vars PROVE SessionInv'
  OBVIOUS
<1>1. Core /\ Core'
  BY StepKeeps DEF SessionInv, Core
<1>2. ASSUME WebLocks, ~lost', ~ended' PROVE SurvivesOK'
  <2>1. ~lost /\ ~ended /\ SurvivesOK /\ UnlostOK
    BY <1>2, NothingUndone DEF SessionInv
  <2>2. ASSUME NEW t \in Tabs, TabStep(t) PROVE SurvivesOK'
    <3>1. ~SignIn(t) /\ ~Logout(t) /\ ~AnswerLost(t)
      BY <1>2 DEF SignIn, Logout, AnswerLost
    <3>2. \A keep \in BOOLEAN, w \in Workspaces :
            ~SubmitLogin(t, keep) /\ ~ChooseWorkspace(t, w, keep) /\ ~AcceptInvitation(t, w)
      BY <2>1, <3>1 DEF SubmitLogin, ChooseWorkspace, AcceptInvitation, SurvivesOK
    <3>3. ~Register(t) /\ ~LogoutSettled(t) /\ \A keep \in BOOLEAN : ~SubmitLogin(t, keep)
      BY <2>1, <3>1 DEF Register, LogoutSettled, SubmitLogin, SurvivesOK
    <3>4. \/ Mount(t) \/ Send(t) \/ Response(t) \/ Response401(t) \/ (\E w \in Workspaces : SetWorkspace(t, w))
          \/ Attempt(t) \/ Answered(t) \/ Unreachable(t) \/ ApplyFails(t) \/ Reload(t)
      BY <2>2, <3>1, <3>2, <3>3 DEF TabStep
    <3>5. QED
      BY <1>1, <1>2, <2>1, <3>4, QuietSurvives, AttemptSurvives, AnsweredSurvives, UnreachableSurvives,
         ApplyFailsSurvives, ReloadSurvives
  <2>3. ASSUME ServerStep, UNCHANGED <<browser, tab>> PROVE SurvivesOK'
    <3>1. ~ResetPassword
      BY <1>2 DEF ResetPassword
    <3>2. CASE Expire \/ \E w \in Workspaces : Move(w)
      <4>1. UNCHANGED <<tokens, calls, local, tab>>
        BY <2>3, <3>2 DEF Expire, Move, browser
      <4>2. QED
        BY <2>1, <4>1, SurvivesStill
    <3>3. QED
      BY <1>1, <1>2, <2>1, <2>3, <3>1, <3>2, ServerSurvives DEF ServerStep
  <2>4. CASE UNCHANGED vars
    <3>1. UNCHANGED <<tokens, calls, local, tab>>
      BY <2>4 DEF vars, server, browser
    <3>2. QED
      BY <2>1, <3>1, SurvivesStill
  <2>5. QED
    BY <2>2, <2>3, <2>4 DEF Next
<1>3. ASSUME WebLocks, ~lost', ~raced' PROVE EndedOK'
  <2>1. ~lost /\ SessionTypeOK /\ RowsOK /\ FamilyOK /\ EndedOK
    BY <1>3, NothingUndone DEF SessionInv, UnlostOK
  <2>2. ASSUME NEW t \in Tabs, TabStep(t) PROVE EndedOK'
    <3>1. CallsQuiet /\ (tokens' \in {tokens, Issued} \/ (LogoutSettled(t) /\ calls' = calls))
      BY <2>1, <2>2, ClientsCalls
    <3>2. CASE LogoutSettled(t) /\ calls' = calls
      <4>1. tab[t].leaving \in DOMAIN tokens
        BY <2>1, <3>2, Typed DEF LogoutSettled, NoToken
      <4>2. revoke_refresh_token(tab[t].leaving) \/ tokens' = tokens
        BY <3>2 DEF LogoutSettled
      <4>3. QED
        BY <1>3, <2>1, <3>1, <3>2, <4>1, <4>2, EndedLogout, EndedStill
    <3>3. QED
      BY <2>1, <3>1, <3>2, EndedStill
  <2>3. CASE UNCHANGED vars
    BY <2>1, <2>3, QuietCalls, EndedStill DEF vars, server
  <2>4. QED
    BY <1>3, <2>1, <2>2, <2>3, EndedByTheApi DEF Next
<1>4. QED
  BY <1>1, <1>2, <1>3 DEF Core, SessionInv

\* The invariant of the web app's session: the lock admits one refresh at a
\* time (runRefresh's navigator.locks.request), a token is in one place, and a
\* rotated one is being exchanged by whoever holds it.
THEOREM SessionInvariant == Spec => []SessionInv
<1>1. Init => SessionInv
  BY InitHas DEF Core, SessionInv
<1>2. QED
  BY <1>1, SessionNextKeeps, PTL DEF Spec

LEMMA WebHas == SessionInv => WebSafe
<1> SUFFICES ASSUME SessionInv PROVE WebSafe
  OBVIOUS
<1>1. TypeOK /\ SignedOutEverywhere /\ (WebLocks => NoReplay /\ OneGoodToken /\ LoggedOutEverywhere)
  BY DEF SessionInv, SessionTypeOK, ResetOK, SignedOutEverywhere, UnlostOK, FamilyOK, NoReplay, OneGoodToken,
         EndedOK, LoggedOutEverywhere
<1>2. ASSUME WebLocks, ~lost, ~ended, NEW t \in Tabs
      PROVE  /\ tab[t].access # NoToken => tab[t].status = "authenticated"
             /\ queue = <<>> /\ tab[t].status = "authenticated" => Active(readRefreshToken(t))
  <2>1. SessionTypeOK /\ LockOK /\ UnlostOK /\ SurvivesOK
    BY <1>2 DEF SessionInv
  <2>2. ASSUME queue = <<>>, tab[t].status = "authenticated" PROVE Active(readRefreshToken(t))
    <3>1. readRefreshToken(t) \in DOMAIN tokens
      <4>1. readRefreshToken(t) # NoToken
        BY <2>1, <2>2, Whose DEF Kept, OneTabs, readRefreshToken
      <4>2. readRefreshToken(t) \in Token
        BY <2>1, Typed DEF readRefreshToken
      <4>3. QED
        BY <2>1, <4>1, <4>2, Typed DEF NoToken
    <3>2. \A u \in Tabs : tab[u].run # "posted"
      BY <2>1, <2>2 DEF LockOK
    <3>3. ~tokens[readRefreshToken(t)].rotated
      BY <2>1, <3>1, <3>2 DEF UnlostOK, RotatedOK, Exchanged, Waits, readRefreshToken
    <3>4. QED
      BY <2>1, <3>1, <3>3 DEF SurvivesOK, Active
  <2>3. QED
    BY <2>1, <2>2 DEF SurvivesOK
<1>3. QED
  BY <1>1, <1>2 DEF SessionSurvives, WebSafe

\* What the web app's sessions promise, for every number of tabs, accounts'
\* events and faults (auth-context.tsx against rotate_refresh_token): a reset that
\* raced no rotation ends them everywhere; and in a browser with Web Locks, until
\* an answer is lost (a client then retries with a token that may be rotated), no
\* refresh of theirs looks like a replay, a sign-in has one good token, nothing
\* but the user ends the first one, and the revocation of a good token ends its
\* sign-in for good unless it raced a rotation.
THEOREM WebSafeTheorem == Spec => []WebSafe
BY WebHas, SessionInvariant, PTL

-----------------------------------------------------------------------------
(* The phone: its API, its types, and the tokens it has in hand. *)

\* The phone's API is this one.
LEMMA PhoneServer == Phone!ServerStep => ServerStep
BY DEF Phone!ServerStep, ServerStep, Phone!ApiReads, ApiReads, Phone!ApiCommits, ApiCommits,
       Phone!Expire, Expire, Phone!ResetPassword, ResetPassword, Phone!Move, Move, Phone!Event, Event,
       Phone!Active, Active, Phone!Midway, Midway, Phone!New, New, Phone!ghosts, ghosts, Phone!Rotating, Rotating

LEMMA PhoneRevokes == ASSUME NEW k, Phone!revoke_refresh_token(k) PROVE revoke_refresh_token(k)
BY DEF Phone!revoke_refresh_token, revoke_refresh_token, Phone!Active, Active, Phone!Midway, Midway,
       Phone!Rotating, Rotating

PhoneCore == PhoneTypeOK /\ RowsOK /\ ResetOK /\ (~lost => PhoneUnlostOK)

LEMMA PhoneTyped ==
    ASSUME PhoneTypeOK
    PROVE  /\ SessionTypeOK /\ phone \in App /\ phone.applying \in Applying /\ phone.signing \in Applying
           /\ vault \in Token /\ phone.applying.token \in Token /\ phone.signing.token \in Token
           /\ phone.out \in Token
<1>1. SessionTypeOK /\ phone \in App /\ vault \in Token
  BY DEF PhoneTypeOK, AppOK
<1>2. phone.applying \in Applying /\ phone.signing \in Applying
  BY <1>1 DEF App
<1>3. QED
  BY <1>1, <1>2 DEF PhoneTypeOK, AppOK

\* The browser stays shut while the phone's session goes on.
LEMMA BrowserStill ==
    ASSUME SessionTypeOK, ServerTyped, UNCHANGED <<browser, tab>>
    PROVE  SessionTypeOK'
<1>1. PICK t \in Tabs : TRUE
  BY BrowserBounds
<1>2. /\ UNCHANGED <<local, stored, queue, tab>> /\ tab \in [Tabs -> Tab] /\ tab[t] \in Tab
      /\ stored \in Workspaces \cup {NoWorkspace} /\ queue \in Seq(Tabs) /\ local \in Token
      /\ {tab[t].access, tab[t].session, tab[t].carried, tab[t].leaving, tab[t].choosing} \subseteq Token
      /\ tab[t].attempt \in 0..Retries /\ (tab[t].run = "posted" <=> tab[t].call \in DOMAIN calls)
      /\ tab[t].run # "posted" => tab[t].call = 0
  BY DEF browser, SessionTypeOK, TypeOK
<1>3. Token \subseteq Token' /\ Len(calls') \in Nat /\ DOMAIN calls' = 1..Len(calls') /\ DOMAIN calls \subseteq DOMAIN calls'
  BY DEF Token, SessionTypeOK, TypeOK, ServerTyped
<1>4. BrowserTyped
  BY <1>2, <1>3 DEF BrowserTyped
<1>5. Becomes(t, tab[t])
  BY <1>2, <1>3 DEF Becomes
<1>6. QED
  BY <1>4, <1>5, TypesKeep

\* A step of the app that makes no call: what it waits for stays so; what is in
\* hand was, or is new; and the vault is kept, emptied, or given what was in hand.
Hands ==
    /\ phone'.run = "posted" <=> phone.run = "posted"
    /\ phone.run = "posted" => phone'.call = phone.call
    /\ InHand("applying")' => InHand("applying") /\ phone'.applying.token = phone.applying.token
    /\ InHand("signing")' =>
         \/ InHand("signing") /\ phone'.signing.token = phone.signing.token
         \/ phone'.signing.token \notin Token
    /\ \/ vault' = vault /\ (InHand("applying") => InHand("applying")')
       \/ vault' = NoToken
       \/ InHand("applying") /\ ~InHand("applying")' /\ vault' = phone.applying.token
       \/ /\ InHand("signing") /\ ~InHand("signing")' /\ vault' = phone.signing.token
          /\ InHand("applying") => InHand("applying")'

LEMMA HandsUnlost ==
    ASSUME PhoneTypeOK, RowsOK, PhoneUnlostOK, ~lost, PhoneTypeOK', Grows, Hands, UNCHANGED <<calls, lost, replayed>>
    PROVE  PhoneUnlostOK'
<1>0. SessionTypeOK
  BY DEF PhoneTypeOK
<1>1. ~replayed /\ PhoneCallsOK /\ FamilyOK /\ HandsOK /\ PhoneAwaitedOK /\ VaultOK
  BY DEF PhoneUnlostOK
<1>2. /\ PhoneWaits' <=> PhoneWaits
      /\ PhoneWaits => phone'.call = phone.call /\ phone.call \in DOMAIN calls
  BY DEF Hands, PhoneWaits, Open, PhoneTypeOK, AppOK
<1>3. PhoneCallsOK'
  BY <1>1, <1>2 DEF PhoneCallsOK, Open
<1>4. FamilyOK'
  BY <1>0, <1>1, FamilyKeeps DEF CallsQuiet
<1>5. /\ InHand("applying") => /\ phone.applying.token # vault /\ phone.applying.token \in DOMAIN tokens
                               /\ ~tokens[phone.applying.token].rotated
      /\ InHand("signing") => /\ phone.signing.token # vault /\ phone.signing.token \in DOMAIN tokens
                              /\ ~tokens[phone.signing.token].rotated
      /\ InHand("applying") /\ InHand("signing") => phone.applying.token # phone.signing.token
      /\ NoToken \notin DOMAIN tokens /\ DOMAIN tokens \subseteq DOMAIN tokens'
      /\ \A i \in DOMAIN tokens : i \in Token /\ tokens'[i].rotated = tokens[i].rotated
      /\ \A i \in DOMAIN tokens' : i \notin DOMAIN tokens => ~tokens'[i].rotated
      /\ vault \in Token /\ Token = DOMAIN tokens \cup {NoToken}
  <2>1. DOMAIN tokens = 1..Len(tokens) /\ Token = 0..Len(tokens) /\ Len(tokens) \in Nat
    BY <1>0, Typed
  <2>2. NoToken \notin DOMAIN tokens /\ Token = DOMAIN tokens \cup {NoToken}
    BY <2>1 DEF NoToken
  <2>3. /\ InHand("applying") => phone.applying.token \in DOMAIN tokens
        /\ InHand("signing") => phone.signing.token \in DOMAIN tokens
    BY <2>2 DEF InHand, PhoneTypeOK, AppOK
  <2>4. QED
    BY <1>1, <2>1, <2>2, <2>3 DEF HandsOK, Grows, New, PhoneTypeOK, AppOK
<1>6. HandsOK'
  <2>1. ASSUME InHand("applying")'
        PROVE  phone'.applying.token # vault' /\ ~tokens'[phone'.applying.token].rotated
    BY <1>5, <2>1 DEF Hands
  <2>2. InHand("signing")' => phone'.signing.token # NoToken
    BY DEF InHand, PhoneTypeOK, AppOK
  <2>3. ASSUME InHand("signing")'
        PROVE  /\ phone'.signing.token # vault'
               /\ phone'.signing.token \in DOMAIN tokens' => ~tokens'[phone'.signing.token].rotated
    BY <1>5, <2>2, <2>3 DEF Hands
  <2>4. ASSUME InHand("applying")', InHand("signing")' PROVE phone'.applying.token # phone'.signing.token
    BY <1>5, <2>4 DEF Hands
  <2>5. QED
    BY <2>1, <2>3, <2>4 DEF HandsOK
<1>7. PhoneAwaitedOK'
  <2>1. SUFFICES ASSUME PhoneWaits
                 PROVE  LET c == calls[phone.call] IN
                        /\ InHand("signing")' => phone'.signing.token \notin {c.token, c.new}
                        /\ c.new # NoToken => c.new # vault' /\ ~tokens'[c.new].rotated
                        /\ c.phase # "answered" => ~tokens'[c.token].rotated
    BY <1>2 DEF PhoneAwaitedOK
  <2> DEFINE c == calls[phone.call]
  <2>2. /\ InHand("signing") => phone.signing.token \notin {c.token, c.new}
        /\ c.new # NoToken => c.new # vault /\ ~tokens[c.new].rotated
        /\ c.phase # "answered" => ~tokens[c.token].rotated
    BY <1>1, <2>1 DEF PhoneAwaitedOK
  <2>3. c.token \in DOMAIN tokens /\ c.new \in Token /\ ~InHand("applying")
    BY <1>2, <1>5, <2>1, Typed DEF RowsOK, PhoneWaits, PhoneTypeOK, AppOK, InHand
  <2> HIDE DEF c
  <2>4. InHand("signing")' => phone'.signing.token \notin {c.token, c.new}
    BY <1>5, <2>2, <2>3 DEF Hands
  <2>5. c.new # NoToken => c.new # vault' /\ ~tokens'[c.new].rotated
    BY <1>5, <2>2, <2>3 DEF Hands
  <2>6. c.phase # "answered" => ~tokens'[c.token].rotated
    BY <1>5, <2>2, <2>3
  <2>7. QED
    BY <2>4, <2>5, <2>6 DEF c
<1>8. VaultOK'
  <2>1. SUFFICES ASSUME vault' \in DOMAIN tokens', tokens'[vault'].rotated PROVE Replaced'
    BY DEF VaultOK
  <2>2. vault' = vault /\ (InHand("applying") => InHand("applying")') /\ tokens[vault].rotated /\ vault \in DOMAIN tokens
    BY <1>5, <2>1 DEF Hands
  <2>3. QED
    BY <1>1, <1>2, <2>2 DEF VaultOK, Replaced
<1>9. QED
  BY <1>1, <1>3, <1>4, <1>6, <1>7, <1>8 DEF PhoneUnlostOK

LEMMA HandsKeep ==
    ASSUME PhoneCore, PhoneTypeOK', Grows, Hands, UNCHANGED <<calls, lost, replayed, reset>>, raced => raced'
    PROVE  PhoneCore'
<1>1. PhoneTypeOK /\ SessionTypeOK /\ RowsOK /\ ResetOK
  BY DEF PhoneCore, PhoneTypeOK
<1>2. RowsOK' /\ ResetOK'
  BY <1>1, RowsKeep DEF CallsQuiet
<1>3. QED
  BY <1>1, <1>2, HandsUnlost DEF PhoneCore

-----------------------------------------------------------------------------
(* The app's steps. *)

\* Steps that leave the API's tables alone.
LEMMA AppKeeps ==
    ASSUME PhoneCore, AppOK', Hands, UNCHANGED <<browser, tab>>,
           UNCHANGED <<tokens, calls, expired, joined, reset, lost, raced, replayed>>,
           left' \in [Kinds -> Nat], ended' \in BOOLEAN
    PROVE  PhoneCore'
<1>1. SessionTypeOK
  BY DEF PhoneCore, PhoneTypeOK
<1>2. ServerTyped /\ Grows
  BY <1>1, ServerStill, ServerTypes
<1>3. PhoneTypeOK'
  BY <1>1, <1>2, BrowserStill DEF PhoneTypeOK
<1>4. QED
  BY <1>2, <1>3, HandsKeep

LEMMA Keeps ==
    ASSUME PhoneCore, Phone!KeepServer, UNCHANGED calls
    PROVE  /\ UNCHANGED <<tokens, calls, expired, joined, reset, lost, raced, replayed>>
           /\ left' \in [Kinds -> Nat] /\ ended' \in BOOLEAN /\ Token' = Token /\ PhoneTypeOK
BY ServerTypes DEF PhoneCore, PhoneTypeOK, Phone!KeepServer, Phone!ghosts, Token

LEMMA PhonePicks ==
    ASSUME PhoneTypeOK, NEW a \in Applying
    PROVE  /\ Phone!Pick(a) \in Applying /\ Phone!Pick(a).step = "token" /\ Phone!Pick(a).token = a.token
<1>1. Phone!pickTenant(a.members, Phone!NoWorkspace, vaultWs) = pickTenant(a.members, NoWorkspace, vaultWs)
  BY DEF Phone!pickTenant, pickTenant, Phone!NoWorkspace, NoWorkspace
<1>2. pickTenant(a.members, NoWorkspace, vaultWs) \in Workspaces \cup {NoWorkspace}
  BY PicksAWorkspace DEF Applying
<1>3. QED
  BY <1>1, <1>2 DEF Phone!Pick, Applying

\* What settles the refresh under way leaves.
LEMMA PhoneSettles ==
    ASSUME NEW ph \in App, NEW token \in Nat
    PROVE  LET r == Phone!Settled(ph, token) IN
           /\ r \in App /\ r.run = "none" /\ r.call = 0 /\ r.applying = Phone!Idle /\ r.signing = ph.signing
           /\ r.status = ph.status /\ r.leaving = ph.leaving /\ r.out = ph.out
<1> DEFINE idle == Phone!Idle
           asks == IF ph.request # "waiting" THEN ph.request ELSE IF token = NoToken THEN "idle" ELSE "retrying"
           with == IF ph.request = "waiting" THEN token ELSE ph.carried
           r == [ph EXCEPT !.run = "none", !.attempt = 0, !.call = 0, !.applying = idle,
                           !.request = asks, !.carried = with]
<1>1. idle \in Applying
  BY DEF Phone!Idle, Applying, Phone!NoToken, Phone!NoWorkspace, NoWorkspace
<1>2. asks \in {"idle", "sent", "waiting", "retrying"} /\ with \in Nat
  BY DEF App
<1>3. Phone!Settled(ph, token) = r
  BY DEF Phone!Settled, App, Phone!NoToken, NoToken
<1> HIDE DEF idle, asks, with
<1>4. r \in App
  BY <1>1, <1>2 DEF App
<1>5. /\ r.run = "none" /\ r.call = 0 /\ r.applying = idle /\ r.signing = ph.signing
      /\ r.status = ph.status /\ r.leaving = ph.leaving /\ r.out = ph.out
  BY DEF App
<1>6. QED
  BY <1>3, <1>4, <1>5 DEF idle

LEMMA PhoneSignsOut ==
    ASSUME NEW ph \in App
    PROVE  LET r == Phone!SignedOut(ph) IN
           /\ r \in App /\ r.run = ph.run /\ r.call = ph.call /\ r.applying = ph.applying /\ r.signing = ph.signing
           /\ r.leaving = ph.leaving /\ r.out = ph.out
BY DEF Phone!SignedOut, App, Phone!NoToken, Phone!NoWorkspace, NoWorkspace

LEMMA PhoneUses ==
    ASSUME NEW ph \in App, NEW a \in Applying
    PROVE  LET r == Phone!InUse(ph, a) IN
           /\ r \in App /\ r.run = ph.run /\ r.call = ph.call /\ r.applying = ph.applying /\ r.signing = ph.signing
           /\ r.leaving = ph.leaving /\ r.out = ph.out
BY DEF Phone!InUse, App, Applying

LEMMA IdleTyped == Phone!Idle \in Applying /\ Phone!Idle.step = "none" /\ Phone!Idle.token = NoToken
BY DEF Phone!Idle, Applying, Phone!NoToken, NoToken, Phone!NoWorkspace, NoWorkspace

\* applySession in its steps.
LEMMA ApplyKeepsCore == ASSUME PhoneCore, Phone!Apply, UNCHANGED <<browser, tab>> PROVE PhoneCore'
<1>1. PhoneTypeOK /\ UNCHANGED calls /\ Phone!KeepServer
  BY DEF PhoneCore, Phone!Apply
<1>2. /\ UNCHANGED <<tokens, calls, expired, joined, reset, lost, raced, replayed>>
      /\ left' \in [Kinds -> Nat] /\ ended' \in BOOLEAN /\ Token' = Token
  BY <1>1, Keeps
<1>3. /\ phone \in App /\ phone.applying \in Applying /\ phone.signing \in Applying
      /\ vault \in Token /\ phone.applying.token \in Token /\ phone.signing.token \in Token
  BY <1>1, PhoneTyped
<1>4. SUFFICES AppOK' /\ Hands
  BY <1>2, AppKeeps
<1>5. ASSUME NEW who \in {"applying", "signing"}, phone[who].step = "pick",
             phone' = [phone EXCEPT ![who] = Phone!Pick(phone[who])], UNCHANGED <<vault, vaultWs>>
      PROVE  AppOK' /\ Hands
  <2>1. /\ Phone!Pick(phone[who]) \in Applying /\ Phone!Pick(phone[who]).step = "token"
        /\ Phone!Pick(phone[who]).token = phone[who].token
    BY <1>1, <1>3, PhonePicks
  <2> DEFINE p == Phone!Pick(phone[who])
  <2> HIDE DEF p
  <2>2. phone' = [phone EXCEPT ![who] = p] /\ p \in Applying /\ p.step = "token" /\ p.token = phone[who].token
    BY <1>5, <2>1 DEF p
  <2>3. AppOK'
    BY <1>1, <1>2, <1>3, <1>5, <2>2 DEF PhoneTypeOK, AppOK, App
  <2>4. Hands
    BY <1>3, <1>5, <2>2 DEF Hands, InHand, App
  <2>5. QED
    BY <2>3, <2>4
<1>6. ASSUME NEW who \in {"applying", "signing"}, phone[who].step = "token",
             vault' = phone[who].token, phone' = [phone EXCEPT ![who].step = "workspace"], UNCHANGED vaultWs
      PROVE  AppOK' /\ Hands
  <2> DEFINE p == [phone[who] EXCEPT !.step = "workspace"]
  <2>1. phone' = [phone EXCEPT ![who] = p] /\ p \in Applying /\ p.step = "workspace" /\ p.token = phone[who].token
    BY <1>3, <1>6 DEF App, Applying
  <2> HIDE DEF p
  <2>2. AppOK'
    BY <1>1, <1>2, <1>3, <1>6, <2>1 DEF PhoneTypeOK, AppOK, App
  <2>3. Hands
    BY <1>3, <1>6, <2>1 DEF Hands, InHand, App
  <2>4. QED
    BY <2>2, <2>3
<1>7. ASSUME phone.applying.step = "workspace", UNCHANGED vault,
             vaultWs' = IF phone.applying.workspace # Phone!NoWorkspace THEN phone.applying.workspace ELSE vaultWs,
             phone' = Phone!Settled(Phone!InUse(phone, phone.applying), phone.applying.token)
      PROVE  AppOK' /\ Hands
  <2> DEFINE u == Phone!InUse(phone, phone.applying)
  <2>1. /\ u \in App /\ u.signing = phone.signing /\ u.leaving = phone.leaving /\ u.out = phone.out
    BY <1>3, PhoneUses
  <2>2. phone.applying.token \in Nat /\ phone.applying.workspace \in Workspaces \cup {NoWorkspace}
    BY <1>3 DEF Applying
  <2> HIDE DEF u
  <2>3. /\ phone' \in App /\ phone'.run = "none" /\ phone'.call = 0 /\ phone'.applying = Phone!Idle
        /\ phone'.signing = phone.signing /\ phone'.leaving = phone.leaving /\ phone'.out = phone.out
    <3>1. phone' = Phone!Settled(u, phone.applying.token)
      BY <1>7 DEF u
    <3>2. QED
      BY <2>1, <2>2, <3>1, PhoneSettles
  <2>4. vaultWs' \in Workspaces \cup {NoWorkspace}
    BY <1>1, <1>7, <2>2 DEF PhoneTypeOK, AppOK
  <2>5. 0 \notin DOMAIN calls /\ NoToken \in Token /\ phone.run # "posted"
    BY <1>1, <1>7, Typed DEF PhoneTypeOK, AppOK, NoToken
  <2>6. AppOK'
    BY <1>1, <1>2, <1>7, <2>3, <2>4, <2>5, IdleTyped DEF PhoneTypeOK, AppOK
  <2>7. Hands
    BY <1>7, <2>3, <2>5, IdleTyped DEF Hands, InHand
  <2>8. QED
    BY <2>6, <2>7
<1>8. ASSUME phone.signing.step = "workspace", UNCHANGED vault,
             vaultWs' = IF phone.signing.workspace # Phone!NoWorkspace THEN phone.signing.workspace ELSE vaultWs,
             phone' = [Phone!InUse(phone, phone.signing) EXCEPT !.signing = Phone!Idle]
      PROVE  AppOK' /\ Hands
  <2> DEFINE u == Phone!InUse(phone, phone.signing)
  <2>1. /\ u \in App /\ u.run = phone.run /\ u.call = phone.call /\ u.applying = phone.applying
        /\ u.leaving = phone.leaving /\ u.out = phone.out
    BY <1>3, PhoneUses
  <2>2. phone.signing.workspace \in Workspaces \cup {NoWorkspace}
    BY <1>3 DEF Applying
  <2> HIDE DEF u
  <2>3. /\ phone' \in App /\ phone'.run = phone.run /\ phone'.call = phone.call /\ phone'.applying = phone.applying
        /\ phone'.signing = Phone!Idle /\ phone'.leaving = phone.leaving /\ phone'.out = phone.out
    <3>1. phone' = [u EXCEPT !.signing = Phone!Idle]
      BY <1>8 DEF u
    <3>2. QED
      BY <2>1, <3>1, IdleTyped DEF App
  <2>4. vaultWs' \in Workspaces \cup {NoWorkspace}
    BY <1>1, <1>8, <2>2 DEF PhoneTypeOK, AppOK
  <2>5. NoToken \in Token
    BY <1>1, Typed DEF PhoneTypeOK, NoToken
  <2>6. AppOK'
    BY <1>1, <1>2, <1>8, <2>3, <2>4, <2>5, IdleTyped DEF PhoneTypeOK, AppOK
  <2>7. Hands
    BY <1>8, <2>3, IdleTyped DEF Hands, InHand
  <2>8. QED
    BY <2>6, <2>7
<1>9. QED
  BY <1>5, <1>6, <1>7, <1>8 DEF Phone!Apply, Phone!ApplyStep, Phone!KeepVault

\* The steps that touch no token: a refresh asked for, a request, a workspace,
\* a logout that begins or clears the vault, a rejection that does.
LEMMA ResumeKeepsCore == ASSUME PhoneCore, Phone!Resume, UNCHANGED <<browser, tab>> PROVE PhoneCore'
<1>1. /\ UNCHANGED <<tokens, calls, expired, joined, reset, lost, raced, replayed>>
      /\ left' \in [Kinds -> Nat] /\ ended' \in BOOLEAN /\ Token' = Token /\ PhoneTypeOK
  BY Keeps DEF Phone!Resume
<1>2. phone.run = "none" /\ phone' = [phone EXCEPT !.run = "reading"] /\ UNCHANGED <<vault, vaultWs>> /\ phone \in App
  BY <1>1 DEF Phone!Resume, Phone!refresh, Phone!KeepVault, PhoneTypeOK, AppOK, App
<1>3. AppOK' /\ Hands
  BY <1>1, <1>2 DEF PhoneTypeOK, AppOK, App, Hands, InHand
<1>4. QED
  BY <1>1, <1>3, AppKeeps

LEMMA SendKeepsCore == ASSUME PhoneCore, Phone!Send, UNCHANGED <<browser, tab>> PROVE PhoneCore'
<1>1. PhoneTypeOK /\ SessionTypeOK /\ "request" \in Kinds
  BY DEF PhoneCore, PhoneTypeOK, Kinds
<1>2. UNCHANGED <<tokens, calls, expired, joined, reset, lost, raced, replayed>> /\ ended' \in BOOLEAN /\ Token' = Token
  BY <1>1, ServerTypes DEF Phone!Send, Phone!ghosts, Token
<1>3. left' \in [Kinds -> Nat]
  BY <1>1, ServerTypes DEF Phone!Send, Phone!Event
<1>4. phone' = [phone EXCEPT !.request = "sent", !.carried = phone.access] /\ UNCHANGED <<vault, vaultWs>>
  BY DEF Phone!Send, Phone!KeepVault
<1>5. AppOK' /\ Hands
  BY <1>1, <1>2, <1>4 DEF PhoneTypeOK, AppOK, App, Hands, InHand
<1>6. QED
  BY <1>2, <1>3, <1>5, AppKeeps

LEMMA ResponseKeepsCore == ASSUME PhoneCore, Phone!Response, UNCHANGED <<browser, tab>> PROVE PhoneCore'
<1>1. /\ UNCHANGED <<tokens, calls, expired, joined, reset, lost, raced, replayed>>
      /\ left' \in [Kinds -> Nat] /\ ended' \in BOOLEAN /\ Token' = Token /\ PhoneTypeOK
  BY Keeps DEF Phone!Response
<1>2. UNCHANGED <<vault, vaultWs>> /\ phone \in App
  BY <1>1 DEF Phone!Response, Phone!KeepVault, PhoneTypeOK, AppOK
<1>3. /\ phone' \in App /\ phone'.run \in {phone.run, IF phone.run = "none" THEN "reading" ELSE phone.run}
      /\ phone'.call = phone.call /\ phone'.applying = phone.applying /\ phone'.signing = phone.signing
      /\ phone'.leaving = phone.leaving /\ phone'.out = phone.out
  <2>1. CASE phone' = [[phone EXCEPT !.request = "waiting"] EXCEPT !.run = IF @ = "none" THEN "reading" ELSE @]
    <3>1. phone' = [phone EXCEPT !.request = "waiting", !.run = IF phone.run = "none" THEN "reading" ELSE phone.run]
      BY <1>2, <2>1 DEF App
    <3>2. QED
      BY <1>2, <3>1 DEF App
  <2>2. CASE phone' = [phone EXCEPT !.request = "idle", !.carried = Phone!NoToken]
    BY <1>2, <2>2 DEF App, Phone!NoToken
  <2>3. QED
    BY <2>1, <2>2 DEF Phone!Response, Phone!refresh
<1>4. AppOK' /\ Hands
  BY <1>1, <1>2, <1>3 DEF PhoneTypeOK, AppOK, Hands, InHand
<1>5. QED
  BY <1>1, <1>4, AppKeeps

LEMMA PhoneWorkspaceKeeps ==
    ASSUME PhoneCore, NEW w \in Workspaces, Phone!SetWorkspace(w), UNCHANGED <<browser, tab>>
    PROVE  PhoneCore'
<1>1. PhoneTypeOK /\ SessionTypeOK /\ "switch" \in Kinds
  BY DEF PhoneCore, PhoneTypeOK, Kinds
<1>2. UNCHANGED <<tokens, calls, expired, joined, reset, lost, raced, replayed>> /\ ended' \in BOOLEAN /\ Token' = Token
  BY <1>1, ServerTypes DEF Phone!SetWorkspace, Phone!ghosts, Token
<1>3. left' \in [Kinds -> Nat]
  BY <1>1, ServerTypes DEF Phone!SetWorkspace, Phone!Event
<1>4. phone' = [phone EXCEPT !.workspace = w] /\ vaultWs' = w /\ UNCHANGED vault
  BY DEF Phone!SetWorkspace
<1>5. AppOK' /\ Hands
  BY <1>1, <1>2, <1>4 DEF PhoneTypeOK, AppOK, App, Hands, InHand
<1>6. QED
  BY <1>2, <1>3, <1>5, AppKeeps

LEMMA LogoutStartKeeps == ASSUME PhoneCore, Phone!LogoutStart, UNCHANGED <<browser, tab>> PROVE PhoneCore'
<1>1. PhoneTypeOK /\ SessionTypeOK /\ "logout" \in Kinds /\ phone \in App /\ vault \in Token
  BY DEF PhoneCore, PhoneTypeOK, AppOK, Kinds
<1>2. UNCHANGED <<tokens, calls, expired, joined, reset, lost, raced, replayed>> /\ ended' \in BOOLEAN /\ Token' = Token
  BY <1>1, ServerTypes DEF Phone!LogoutStart, Token
<1>3. left' \in [Kinds -> Nat]
  BY <1>1, ServerTypes DEF Phone!LogoutStart, Phone!Event
<1>4. /\ phone' = [phone EXCEPT !.leaving = IF vault = NoToken THEN "clearing" ELSE "posted", !.out = vault]
      /\ UNCHANGED <<vault, vaultWs>>
  BY DEF Phone!LogoutStart, Phone!KeepVault, Phone!NoToken, NoToken
<1>5. vault \in Nat
  BY <1>1, Typed
<1>6. AppOK' /\ Hands
  BY <1>1, <1>2, <1>4, <1>5 DEF PhoneTypeOK, AppOK, App, Hands, InHand
<1>7. QED
  BY <1>2, <1>3, <1>6, AppKeeps

LEMMA LogoutClearedKeeps == ASSUME PhoneCore, Phone!LogoutCleared, UNCHANGED <<browser, tab>> PROVE PhoneCore'
<1>1. /\ UNCHANGED <<tokens, calls, expired, joined, reset, lost, raced, replayed>>
      /\ left' \in [Kinds -> Nat] /\ ended' \in BOOLEAN /\ Token' = Token /\ PhoneTypeOK
  BY Keeps DEF Phone!LogoutCleared
<1>2. phone \in App /\ NoToken \in Token
  BY <1>1, Typed DEF PhoneTypeOK, AppOK, NoToken
<1> DEFINE ph == [phone EXCEPT !.leaving = "no"]
<1>3. /\ ph \in App /\ ph.run = phone.run /\ ph.call = phone.call /\ ph.applying = phone.applying
      /\ ph.signing = phone.signing /\ ph.leaving = "no" /\ ph.out = phone.out
  BY <1>2 DEF App
<1>4. phone' = Phone!SignedOut(ph) /\ vault' = NoToken /\ vaultWs' = NoWorkspace
  BY DEF Phone!LogoutCleared, Phone!NoToken, NoToken, Phone!NoWorkspace, NoWorkspace
<1> HIDE DEF ph
<1>5. /\ phone' \in App /\ phone'.run = phone.run /\ phone'.call = phone.call /\ phone'.applying = phone.applying
      /\ phone'.signing = phone.signing /\ phone'.leaving = "no" /\ phone'.out = phone.out
  BY <1>3, <1>4, PhoneSignsOut
<1>6. AppOK' /\ Hands
  BY <1>1, <1>2, <1>4, <1>5 DEF PhoneTypeOK, AppOK, Hands, InHand
<1>7. QED
  BY <1>1, <1>6, AppKeeps

\* The refresh ends with no token: a rejection empties the vault, and one that
\* is empty already, or retries used up, leave it.
LEMMA EndsKeep ==
    ASSUME PhoneTypeOK, UNCHANGED <<tokens, calls>>, phone.run # "posted", ~InHand("applying"),
           \/ phone' = Phone!Settled(phone, NoToken)
           \/ phone' = Phone!SignedOut(Phone!Settled(phone, NoToken)),
           vault' \in {NoToken, vault}, vaultWs' \in {NoWorkspace, vaultWs}
    PROVE  AppOK' /\ Hands
<1>1. phone \in App /\ NoToken \in Token /\ NoToken \in Nat /\ 0 \notin DOMAIN calls
  BY Typed DEF PhoneTypeOK, AppOK, NoToken
<1> DEFINE ph == Phone!Settled(phone, NoToken)
<1>2. /\ ph \in App /\ ph.run = "none" /\ ph.call = 0 /\ ph.applying = Phone!Idle /\ ph.signing = phone.signing
      /\ ph.leaving = phone.leaving /\ ph.out = phone.out
  BY <1>1, PhoneSettles
<1> HIDE DEF ph
<1>3. /\ phone' \in App /\ phone'.run = "none" /\ phone'.call = 0 /\ phone'.applying = Phone!Idle
      /\ phone'.signing = phone.signing /\ phone'.leaving = phone.leaving /\ phone'.out = phone.out
  <2>1. phone' = ph \/ phone' = Phone!SignedOut(ph)
    BY DEF ph
  <2>2. QED
    BY <1>2, <2>1, PhoneSignsOut
<1>4. Token' = Token
  BY DEF Token
<1>5. AppOK' /\ Hands
  BY <1>1, <1>3, <1>4, IdleTyped DEF PhoneTypeOK, AppOK, Hands, InHand
<1>6. QED
  BY <1>5

LEMMA RejectedKeeps == ASSUME PhoneCore, Phone!Rejected, UNCHANGED <<browser, tab>> PROVE PhoneCore'
<1>1. /\ UNCHANGED <<tokens, calls, expired, joined, reset, lost, raced, replayed>>
      /\ left' \in [Kinds -> Nat] /\ ended' \in BOOLEAN /\ Token' = Token /\ PhoneTypeOK
  BY Keeps DEF Phone!Rejected
<1>2. /\ phone.run = "clearing" /\ vault' = NoToken /\ vaultWs' = NoWorkspace
      /\ phone' = Phone!SignedOut(Phone!Settled(phone, NoToken))
  BY DEF Phone!Rejected, Phone!NoToken, NoToken, Phone!NoWorkspace, NoWorkspace
<1>3. ~InHand("applying")
  BY <1>1, <1>2 DEF PhoneTypeOK, AppOK, InHand
<1>4. AppOK' /\ Hands
  BY <1>1, <1>2, <1>3, EndsKeep
<1>5. QED
  BY <1>1, <1>4, AppKeeps

\* A sign-in: its token is new, and in hand.
LEMMA SubmitSignInKeeps == ASSUME PhoneCore, Phone!SubmitSignIn, UNCHANGED <<browser, tab>> PROVE PhoneCore'
<1>1. PhoneTypeOK /\ SessionTypeOK /\ "login" \in Kinds /\ phone \in App
  BY DEF PhoneCore, PhoneTypeOK, AppOK, Kinds
<1>2. /\ tokens' = Issued /\ ended' = TRUE /\ UNCHANGED <<vault, vaultWs>>
      /\ UNCHANGED <<joined, expired, calls, lost, raced, replayed, reset>>
      /\ phone.signing.step = "none"
      /\ phone' = [phone EXCEPT !.signing = Phone!Begin(Len(tokens'), joined)]
  BY DEF Phone!SubmitSignIn, Phone!KeepVault, Issued, Phone!New, New
<1>3. left' \in [Kinds -> Nat]
  BY <1>1, ServerTypes DEF Phone!SubmitSignIn, Phone!Event
<1>4. /\ ServerTyped /\ Grows /\ Token \subseteq Token'
      /\ Len(tokens') \notin Token /\ Len(tokens') \in Nat /\ Len(tokens') \in Token' /\ Len(tokens') # NoToken
  BY <1>1, <1>2, <1>3, ServerTypes, LoginTyped
<1> DEFINE b == Phone!Begin(Len(tokens'), joined)
<1>5. b \in Applying /\ b.step = "pick" /\ b.token = Len(tokens')
  BY <1>1, <1>4, ServerTypes DEF Phone!Begin, Applying, Phone!NoWorkspace, NoWorkspace
<1> HIDE DEF b
<1>6. /\ phone' \in App /\ phone'.signing = b /\ phone'.run = phone.run /\ phone'.call = phone.call
      /\ phone'.applying = phone.applying /\ phone'.leaving = phone.leaving /\ phone'.out = phone.out
  BY <1>1, <1>2, <1>5 DEF App, b
<1>7. AppOK'
  BY <1>1, <1>2, <1>4, <1>5, <1>6 DEF PhoneTypeOK, AppOK
<1>8. Hands
  BY <1>2, <1>4, <1>5, <1>6 DEF Hands, InHand
<1>9. PhoneTypeOK'
  BY <1>1, <1>4, <1>7, BrowserStill DEF PhoneTypeOK
<1>10. QED
  BY <1>2, <1>4, <1>8, <1>9, HandsKeep

\* The API revokes the token of a logout, or never hears of it.
LEMMA LogoutPostedKeeps == ASSUME PhoneCore, Phone!LogoutPosted, UNCHANGED <<browser, tab>> PROVE PhoneCore'
<1>1. PhoneTypeOK /\ SessionTypeOK /\ phone \in App /\ NoToken \in Token
  BY Typed DEF PhoneCore, PhoneTypeOK, AppOK, NoToken
<1>2. /\ tokens' = tokens \/ tokens' = [tokens EXCEPT ![phone.out].revoked = TRUE]
      /\ phone' = [phone EXCEPT !.leaving = "clearing", !.out = NoToken]
      /\ UNCHANGED <<vault, vaultWs, joined, expired, calls, left, lost, replayed, reset, ended>>
      /\ phone.leaving = "posted" /\ raced' \in BOOLEAN /\ (raced => raced')
  <2>1. raced \in BOOLEAN
    BY <1>1, ServerTypes
  <2>2. revoke_refresh_token(phone.out) => /\ tokens' = [tokens EXCEPT ![phone.out].revoked = TRUE]
                                           /\ raced' \in BOOLEAN /\ (raced => raced')
    BY <2>1, Zenon DEF revoke_refresh_token
  <2>3. QED
    BY <2>1, <2>2, PhoneRevokes DEF Phone!LogoutPosted, Phone!KeepVault, Phone!NoToken, NoToken
<1>3. phone.out \in DOMAIN tokens
  BY <1>1, <1>2, Typed DEF PhoneTypeOK, AppOK, NoToken
<1>4. ServerTyped /\ Grows /\ Token' = Token
  BY <1>1, <1>2, <1>3, RevokedTyped
<1>5. AppOK' /\ Hands
  BY <1>1, <1>2, <1>4 DEF PhoneTypeOK, AppOK, App, Hands, InHand, NoToken
<1>6. PhoneTypeOK'
  BY <1>1, <1>4, <1>5, BrowserStill DEF PhoneTypeOK
<1>7. QED
  BY <1>2, <1>4, <1>5, <1>6, HandsKeep

\* The token is read and posted, with no other call open.
LEMMA PhoneAttemptKeeps == ASSUME PhoneCore, Phone!Attempt, UNCHANGED <<browser, tab>> PROVE PhoneCore'
<1>1. /\ PhoneTypeOK /\ SessionTypeOK /\ RowsOK /\ phone \in App /\ vault \in Token
      /\ phone.run \in {"reading", "asleep"} /\ Phone!KeepServer /\ UNCHANGED <<vault, vaultWs>>
  BY DEF PhoneCore, PhoneTypeOK, AppOK, Phone!Attempt, Phone!KeepVault
<1>2. /\ UNCHANGED <<tokens, expired, joined, reset, lost, raced, replayed>>
      /\ left' \in [Kinds -> Nat] /\ ended' \in BOOLEAN /\ Token' = Token
  BY <1>1, ServerTypes DEF Phone!KeepServer, Phone!ghosts, Token
<1>3. ~InHand("applying")
  BY <1>1 DEF PhoneTypeOK, AppOK, InHand
<1>4. CASE vault = NoToken /\ phone' = Phone!SignedOut(Phone!Settled(phone, NoToken)) /\ UNCHANGED calls
  <2>1. AppOK' /\ Hands
    BY <1>1, <1>2, <1>3, <1>4, EndsKeep
  <2>2. QED
    BY <1>2, <1>4, <2>1, AppKeeps
<1>5. CASE /\ vault # NoToken /\ calls' = Append(calls, Call(vault))
           /\ phone' = [phone EXCEPT !.run = "posted", !.call = Len(calls')]
  <2>1. ServerTyped /\ Grows /\ CallsQuiet
    BY <1>1, <1>2, <1>5, CallsStill, ServerTypes
  <2>2. /\ Len(calls') = Len(calls) + 1 /\ Len(calls) + 1 \notin DOMAIN calls /\ Len(calls) + 1 \in Nat
        /\ DOMAIN calls' = DOMAIN calls \cup {Len(calls) + 1}
        /\ calls'[Len(calls) + 1] = Call(vault) /\ \A c \in DOMAIN calls : calls'[c] = calls[c]
    BY <1>1, <1>5, Typed
  <2> DEFINE n == Len(calls) + 1
  <2>3. phone' = [phone EXCEPT !.run = "posted", !.call = n]
    BY <1>5, <2>2
  <2> HIDE DEF n
  <2>4. /\ n \in DOMAIN calls' /\ n \notin DOMAIN calls /\ n \in Nat /\ DOMAIN calls' = DOMAIN calls \cup {n}
        /\ calls'[n] = Call(vault) /\ \A c \in DOMAIN calls : calls'[c] = calls[c]
    BY <2>2 DEF n
  <2>5. /\ phone' \in App /\ phone'.run = "posted" /\ phone'.call = n /\ phone'.applying = phone.applying
        /\ phone'.signing = phone.signing /\ phone'.leaving = phone.leaving /\ phone'.out = phone.out
    BY <1>1, <2>3, <2>4 DEF App
  <2>6. AppOK'
    BY <1>1, <1>2, <2>4, <2>5 DEF PhoneTypeOK, AppOK
  <2>7. PhoneTypeOK'
    BY <1>1, <2>1, <2>6, BrowserStill DEF PhoneTypeOK
  <2>8. RowsOK' /\ ResetOK'
    BY <1>1, <1>2, <2>1, RowsKeep DEF PhoneCore
  <2>9. ASSUME ~lost PROVE PhoneUnlostOK'
    <3>1. ~replayed /\ PhoneCallsOK /\ FamilyOK /\ HandsOK /\ VaultOK
      BY <2>9 DEF PhoneCore, PhoneUnlostOK
    <3>2. \A c \in DOMAIN calls : ~Open(c)
      BY <1>1, <3>1 DEF PhoneCallsOK, PhoneWaits
    <3>3. vault \in DOMAIN tokens /\ ~tokens[vault].rotated
      BY <1>1, <1>3, <1>5, <3>1, Typed DEF VaultOK, Replaced, PhoneWaits, NoToken
    <3>4. PhoneWaits' /\ \A c \in DOMAIN calls' : Open(c)' => c = n
      BY <2>4, <2>5, <3>2 DEF PhoneWaits, Open, Call
    <3>5. PhoneCallsOK'
      BY <2>5, <3>4 DEF PhoneCallsOK
    <3>6. FamilyOK'
      BY <1>1, <2>1, <2>9, <3>1, FamilyKeeps
    <3>7. HandsOK'
      BY <1>1, <1>2, <2>5, <3>1 DEF HandsOK, InHand
    <3>8. PhoneAwaitedOK'
      BY <1>1, <1>2, <2>4, <2>5, <3>1, <3>3 DEF PhoneAwaitedOK, HandsOK, InHand, Call, PhoneTypeOK, AppOK
    <3>9. VaultOK'
      BY <1>1, <1>2, <3>3 DEF VaultOK
    <3>10. QED
      BY <1>2, <3>1, <3>5, <3>6, <3>7, <3>8, <3>9 DEF PhoneUnlostOK
  <2>10. QED
    BY <1>2, <2>7, <2>8, <2>9 DEF PhoneCore
<1>6. QED
  BY <1>4, <1>5 DEF Phone!Attempt, Phone!NoToken, NoToken, Phone!Call, Call

\* The call is over: its answer is in hand, or there is none.
LEMMA CallOver ==
    ASSUME PhoneCore, AppOK', phone.run = "posted", phone'.run # "posted", UNCHANGED <<browser, tab>>,
           calls' = [calls EXCEPT ![phone.call] = Done],
           UNCHANGED <<tokens, joined, expired, vault, reset, lost, raced, replayed>>,
           left' \in [Kinds -> Nat], ended' \in BOOLEAN, phone'.signing = phone.signing,
           InHand("applying")' <=> calls[phone.call].new # NoToken,
           InHand("applying")' => phone'.applying.token = calls[phone.call].new
    PROVE  PhoneCore'
<1> DEFINE c == phone.call
           n == calls[c].new
<1>1. PhoneTypeOK /\ SessionTypeOK /\ RowsOK /\ phone \in App /\ c \in DOMAIN calls /\ ~InHand("applying") /\ vault \in Token
  BY DEF PhoneCore, PhoneTypeOK, AppOK, InHand
<1>2. ServerTyped /\ Grows /\ Token' = Token /\ CallsQuiet
  BY <1>1, CallsStill, ServerTypes
<1>3. /\ DOMAIN calls' = DOMAIN calls /\ calls'[c] = Done
      /\ \A d \in DOMAIN calls : d # c => calls'[d] = calls[d]
  BY <1>1, Typed
<1>4. PhoneTypeOK'
  BY <1>1, <1>2, BrowserStill DEF PhoneTypeOK
<1>5. RowsOK' /\ ResetOK'
  BY <1>1, <1>2, RowsKeep DEF PhoneCore
<1>6. ASSUME ~lost PROVE PhoneUnlostOK'
  <2>1. ~replayed /\ PhoneCallsOK /\ FamilyOK /\ HandsOK /\ PhoneAwaitedOK /\ VaultOK
    BY <1>6 DEF PhoneCore, PhoneUnlostOK
  <2>2. PhoneCallsOK'
    BY <1>3, <2>1 DEF PhoneCallsOK, Open, Done, Call
  <2>3. FamilyOK'
    BY <1>1, <1>2, <1>6, <2>1, FamilyKeeps
  <2>4. n # NoToken => /\ n \in DOMAIN tokens /\ n # vault /\ ~tokens[n].rotated
                       /\ InHand("signing") => phone.signing.token # n
    BY <1>1, <2>1, Typed DEF PhoneAwaitedOK, PhoneWaits, Open, NoToken
  <2>5. InHand("signing")' <=> InHand("signing")
    BY DEF InHand
  <2>6. HandsOK'
    BY <2>1, <2>4, <2>5 DEF HandsOK
  <2>7. PhoneAwaitedOK'
    BY DEF PhoneAwaitedOK, PhoneWaits
  <2>8. VaultOK'
    BY <1>1, <2>1 DEF VaultOK, Replaced
  <2>9. QED
    BY <2>1, <2>2, <2>3, <2>6, <2>7, <2>8 DEF PhoneUnlostOK
<1>7. QED
  BY <1>4, <1>5, <1>6 DEF PhoneCore

LEMMA PhoneAnsweredKeeps == ASSUME PhoneCore, Phone!Answered, UNCHANGED <<browser, tab>> PROVE PhoneCore'
<1> DEFINE c == calls[phone.call]
<1>1. /\ PhoneTypeOK /\ SessionTypeOK /\ phone \in App /\ phone.run = "posted" /\ phone.call \in DOMAIN calls
      /\ c \in CallRow /\ UNCHANGED <<vault, vaultWs>> /\ Phone!KeepServer
  BY Typed DEF PhoneCore, PhoneTypeOK, AppOK, Phone!Answered, Phone!KeepVault
<1>2. /\ UNCHANGED <<tokens, joined, expired, reset, lost, raced, replayed>>
      /\ left' \in [Kinds -> Nat] /\ ended' \in BOOLEAN /\ Token' = Token
  BY <1>1, ServerTypes DEF Phone!KeepServer, Phone!ghosts, Token
<1>3. calls' = [calls EXCEPT ![phone.call] = Done]
  BY DEF Phone!Answered, Phone!Done, Done, Phone!Call, Call, Phone!NoToken, NoToken
<1>4. /\ c.new \in Token /\ c.new \in Nat /\ c.members \in SUBSET Workspaces /\ DOMAIN calls' = DOMAIN calls
      /\ 0 \notin DOMAIN calls /\ NoToken \in Token
  BY <1>1, <1>3, Typed DEF CallRow, NoToken
<1>5. \/ c.new # NoToken /\ phone' = [phone EXCEPT !.run = "applying", !.call = 0,
                                                   !.applying = Phone!Begin(c.new, c.members)]
      \/ c.new = NoToken /\ phone' = [phone EXCEPT !.run = "clearing", !.call = 0]
  BY DEF Phone!Answered, Phone!NoToken, NoToken
<1> DEFINE b == Phone!Begin(c.new, c.members)
<1>6. b \in Applying /\ b.step = "pick" /\ b.token = c.new
  BY <1>4 DEF Phone!Begin, Applying, Phone!NoWorkspace, NoWorkspace
<1> HIDE DEF b, c
<1>7. /\ phone' \in App /\ phone'.call = 0 /\ phone'.signing = phone.signing /\ phone'.leaving = phone.leaving
      /\ phone'.out = phone.out
      /\ \/ c.new # NoToken /\ phone'.run = "applying" /\ phone'.applying = b
         \/ c.new = NoToken /\ phone'.run = "clearing" /\ phone'.applying = phone.applying
  <2>1. CASE c.new # NoToken /\ phone' = [phone EXCEPT !.run = "applying", !.call = 0, !.applying = b]
    BY <1>1, <1>6, <2>1 DEF App
  <2>2. CASE c.new = NoToken /\ phone' = [phone EXCEPT !.run = "clearing", !.call = 0]
    BY <1>1, <2>2 DEF App
  <2>3. QED
    BY <1>5, <2>1, <2>2 DEF b
<1>8. AppOK'
  BY <1>1, <1>2, <1>4, <1>6, <1>7 DEF PhoneTypeOK, AppOK
<1>9. /\ InHand("applying")' <=> c.new # NoToken
      /\ InHand("applying")' => phone'.applying.token = c.new
  BY <1>1, <1>6, <1>7 DEF InHand, PhoneTypeOK, AppOK
<1>10. QED
  BY <1>1, <1>2, <1>3, <1>7, <1>8, <1>9, CallOver DEF c

\* The catch of what is no rejection: another turn, or the refresh is given up.
LEMMA PhoneRetries ==
    ASSUME phone \in App, phone' = Phone!Retried
    PROVE  /\ phone' \in App /\ phone'.run \in {"asleep", "none"} /\ phone'.call = 0
           /\ phone'.applying = Phone!Idle
           /\ phone'.signing = phone.signing /\ phone'.leaving = phone.leaving /\ phone'.out = phone.out
<1>1. phone.attempt \in Nat /\ NoToken \in Nat
  BY DEF App, NoToken
<1> DEFINE n == phone.attempt + 1
           ph == Phone!Settled(phone, NoToken)
<1>2. CASE phone' = [phone EXCEPT !.run = "asleep", !.attempt = n, !.call = 0, !.applying = Phone!Idle]
  <2>1. n \in Nat
    BY <1>1
  <2> DEFINE idle == Phone!Idle
  <2>2. idle \in Applying
    BY IdleTyped
  <2>3. phone' = [phone EXCEPT !.run = "asleep", !.attempt = n, !.call = 0, !.applying = idle]
    BY <1>2
  <2> HIDE DEF n, idle
  <2> DEFINE p == [phone EXCEPT !.run = "asleep", !.attempt = n, !.call = 0]
  <2>4. phone' \in App
    <3>1. p \in App
      BY <2>1 DEF App
    <3>2. phone' = [p EXCEPT !.applying = idle]
      BY <2>3 DEF App
    <3> HIDE DEF p
    <3>3. QED
      BY <2>2, <3>1, <3>2 DEF App
  <2>5. /\ phone'.run = "asleep" /\ phone'.call = 0 /\ phone'.applying = idle /\ phone'.signing = phone.signing
        /\ phone'.leaving = phone.leaving /\ phone'.out = phone.out
    BY <2>3 DEF App
  <2>6. QED
    BY <2>4, <2>5 DEF idle
<1>3. /\ ph \in App /\ ph.run = "none" /\ ph.call = 0 /\ ph.applying = Phone!Idle /\ ph.signing = phone.signing
      /\ ph.leaving = phone.leaving /\ ph.out = phone.out
  BY <1>1, PhoneSettles
<1>4. \/ phone' = [phone EXCEPT !.run = "asleep", !.attempt = n, !.call = 0, !.applying = Phone!Idle]
      \/ phone' = ph \/ phone' = Phone!SignedOut(ph)
  BY DEF Phone!Retried, Phone!NoToken, NoToken
<1> HIDE DEF ph
<1>5. CASE phone' = ph \/ phone' = Phone!SignedOut(ph)
  BY <1>3, <1>5, PhoneSignsOut
<1>6. QED
  BY <1>2, <1>4, <1>5

\* Any other failure: the call did not reach the API, or its answer is lost.
LEMMA PhoneFailedKeeps == ASSUME PhoneCore, Phone!Failed, UNCHANGED <<browser, tab>> PROVE PhoneCore'
<1>1. /\ PhoneTypeOK /\ SessionTypeOK /\ RowsOK /\ ResetOK /\ phone \in App /\ phone.run = "posted"
      /\ phone.call \in DOMAIN calls /\ UNCHANGED <<vault, vaultWs>> /\ "fault" \in Kinds
  BY DEF PhoneCore, PhoneTypeOK, AppOK, Phone!Failed, Phone!KeepVault, Kinds
<1>2. UNCHANGED <<tokens, joined, expired, reset, raced, replayed>> /\ ended' \in BOOLEAN /\ Token' = Token
  BY <1>1, ServerTypes DEF Phone!Failed, Token
<1>3. left' \in [Kinds -> Nat]
  BY <1>1, ServerTypes DEF Phone!Failed, Phone!Event
<1>4. \/ calls[phone.call].phase = "sent" /\ calls' = [calls EXCEPT ![phone.call] = Done] /\ UNCHANGED lost
      \/ lost' = TRUE /\ UNCHANGED calls
  BY DEF Phone!Failed, Phone!Done, Done, Phone!Call, Call, Phone!NoToken, NoToken
<1>5. /\ phone' \in App /\ phone'.run \in {"asleep", "none"} /\ phone'.call = 0
      /\ phone'.applying.step = "none" /\ phone'.applying.token \in Token
      /\ phone'.signing = phone.signing /\ phone'.leaving = phone.leaving /\ phone'.out = phone.out
  <2>1. phone' = Phone!Retried /\ NoToken \in Token
    BY <1>1, Typed DEF Phone!Failed, NoToken
  <2>2. QED
    BY <1>1, <2>1, PhoneRetries, IdleTyped
<1>6. ~InHand("applying")'
  BY <1>5 DEF InHand
<1>7. ASSUME DOMAIN calls' = DOMAIN calls PROVE AppOK'
  <2>1. 0 \notin DOMAIN calls
    BY <1>1, Typed
  <2>2. QED
    BY <1>1, <1>2, <1>5, <1>7, <2>1 DEF PhoneTypeOK, AppOK
<1>8. CASE calls[phone.call].phase = "sent" /\ calls' = [calls EXCEPT ![phone.call] = Done] /\ UNCHANGED lost
  <2>1. calls[phone.call].new = NoToken
    BY <1>1, <1>8 DEF RowsOK
  <2>2. DOMAIN calls' = DOMAIN calls
    BY <1>1, <1>8, Typed
  <2>3. QED
    BY <1>1, <1>2, <1>3, <1>5, <1>6, <1>7, <1>8, <2>1, <2>2, CallOver
<1>9. CASE lost' = TRUE /\ UNCHANGED calls
  <2>1. ServerTyped /\ Grows
    BY <1>1, <1>2, <1>3, <1>9, ServerStill, ServerTypes
  <2>2. PhoneTypeOK'
    BY <1>1, <1>7, <1>9, <2>1, BrowserStill DEF PhoneTypeOK
  <2>3. RowsOK' /\ ResetOK'
    BY <1>1, <1>2, <1>9, <2>1, RowsKeep DEF CallsQuiet
  <2>4. QED
    BY <1>9, <2>2, <2>3 DEF PhoneCore
<1>10. QED
  BY <1>4, <1>8, <1>9

\* applySession throws: what was in hand is lost, unless the vault has it.
LEMMA PhoneApplyFailsKeeps == ASSUME PhoneCore, Phone!ApplyFails, UNCHANGED <<browser, tab>> PROVE PhoneCore'
<1>1. /\ PhoneTypeOK /\ SessionTypeOK /\ RowsOK /\ ResetOK /\ phone \in App /\ UNCHANGED <<vault, vaultWs>>
      /\ "fault" \in Kinds /\ lost \in BOOLEAN /\ NoToken \in Token /\ 0 \notin DOMAIN calls
  BY ServerTypes, Typed DEF PhoneCore, PhoneTypeOK, AppOK, Phone!ApplyFails, Phone!KeepVault, Kinds, NoToken
<1>2. UNCHANGED <<tokens, joined, expired, calls, reset, raced, replayed>> /\ ended' \in BOOLEAN /\ Token' = Token
  BY <1>1, ServerTypes DEF Phone!ApplyFails, Token
<1>3. left' \in [Kinds -> Nat]
  BY <1>1, ServerTypes DEF Phone!ApplyFails, Phone!Event
<1>4. CASE phone' = [phone EXCEPT !.signing = Phone!Idle] /\ UNCHANGED lost
  <2>1. /\ phone' \in App /\ phone'.run = phone.run /\ phone'.call = phone.call /\ phone'.applying = phone.applying
        /\ phone'.signing = Phone!Idle /\ phone'.leaving = phone.leaving /\ phone'.out = phone.out
    BY <1>1, <1>4, IdleTyped DEF App
  <2>2. AppOK'
    BY <1>1, <1>2, <2>1, IdleTyped DEF PhoneTypeOK, AppOK
  <2>3. Hands
    BY <1>1, <2>1, IdleTyped DEF Hands, InHand
  <2>4. QED
    BY <1>2, <1>3, <1>4, <2>2, <2>3, AppKeeps
<1>5. CASE /\ phone.applying.step # "none" /\ phone' = Phone!Retried
           /\ lost' = (lost \/ InHand("applying"))
  <2>1. /\ phone' \in App /\ phone'.run \in {"asleep", "none"} /\ phone'.call = 0 /\ phone'.applying = Phone!Idle
        /\ phone'.signing = phone.signing /\ phone'.leaving = phone.leaving /\ phone'.out = phone.out
    BY <1>1, <1>5, PhoneRetries
  <2>2. AppOK' /\ phone.run = "applying"
    BY <1>1, <1>2, <1>5, <2>1, IdleTyped DEF PhoneTypeOK, AppOK
  <2>3. lost' \in BOOLEAN
    BY <1>1, <1>5, Zenon
  <2>4. CASE lost'
    <3>1. ServerTyped /\ Grows
      BY <1>1, <1>2, <1>3, <2>3, ServerStill, ServerTypes
    <3>2. PhoneTypeOK'
      BY <1>1, <2>2, <3>1, BrowserStill DEF PhoneTypeOK
    <3>3. RowsOK' /\ ResetOK'
      BY <1>1, <1>2, <3>1, RowsKeep DEF CallsQuiet
    <3>4. QED
      BY <2>4, <3>2, <3>3 DEF PhoneCore
  <2>5. CASE ~lost'
    <3>1. ~lost /\ ~InHand("applying") /\ lost' = lost
      BY <1>1, <1>5, <2>5
    <3>2. Hands
      BY <1>1, <2>1, <2>2, <3>1, IdleTyped DEF Hands, InHand
    <3>3. QED
      BY <1>2, <1>3, <2>2, <3>1, <3>2, AppKeeps
  <2>6. QED
    BY <2>4, <2>5
<1>6. QED
  BY <1>4, <1>5 DEF Phone!ApplyFails, Phone!CanThrow, InHand

LEMMA LaunchTyped ==
    /\ Phone!Launch \in App /\ Phone!Launch.run = "none" /\ Phone!Launch.call = 0 /\ Phone!Launch.applying.step = "none"
    /\ Phone!Launch.signing.step = "none" /\ Phone!Launch.applying.token = NoToken
    /\ Phone!Launch.signing.token = NoToken /\ Phone!Launch.leaving = "no" /\ Phone!Launch.out = NoToken
    /\ Phone!Launch.status = "loading"
<1>1. Phone!Idle \in Applying /\ Phone!Idle.step = "none" /\ Phone!Idle.token = NoToken
  BY IdleTyped
<1>2. Phone!NoToken = NoToken /\ NoToken \in Nat /\ Phone!NoWorkspace = NoWorkspace
  BY DEF Phone!NoToken, NoToken, Phone!NoWorkspace, NoWorkspace
<1>3. QED
  BY <1>1, <1>2 DEF Phone!Launch, App

\* The system ends the app; what was in hand or awaited is lost.
LEMMA KilledKeeps == ASSUME PhoneCore, Phone!Killed, UNCHANGED <<browser, tab>> PROVE PhoneCore'
<1>1. /\ PhoneTypeOK /\ SessionTypeOK /\ RowsOK /\ ResetOK /\ UNCHANGED <<vault, vaultWs>> /\ "reload" \in Kinds
      /\ phone' = Phone!Launch /\ lost \in BOOLEAN
  BY ServerTypes DEF PhoneCore, PhoneTypeOK, Phone!Killed, Phone!KeepVault, Kinds
<1>2. /\ UNCHANGED <<tokens, joined, expired, calls, reset, raced, replayed>> /\ ended' \in BOOLEAN /\ Token' = Token
      /\ lost' = (lost \/ phone.run = "posted" \/ InHand("applying"))
  BY <1>1, ServerTypes DEF Phone!Killed, Token, InHand
<1>3. left' \in [Kinds -> Nat]
  BY <1>1, ServerTypes DEF Phone!Killed, Phone!Event
<1>4. AppOK'
  <2>1. NoToken \in Token /\ 0 \notin DOMAIN calls
    BY <1>1, Typed DEF NoToken
  <2>2. QED
    BY <1>1, <1>2, <2>1, LaunchTyped DEF PhoneTypeOK, AppOK
<1>5. CASE lost'
  <2>1. ServerTyped /\ Grows
    <3>1. lost' \in BOOLEAN
      BY <1>1, <1>2, Zenon
    <3>2. QED
      BY <1>1, <1>2, <1>3, <3>1, ServerStill, ServerTypes
  <2>2. PhoneTypeOK'
    BY <1>1, <1>4, <2>1, BrowserStill DEF PhoneTypeOK
  <2>3. RowsOK' /\ ResetOK'
    BY <1>1, <1>2, <2>1, RowsKeep DEF CallsQuiet
  <2>4. QED
    BY <1>5, <2>2, <2>3 DEF PhoneCore
<1>6. CASE ~lost'
  <2>1. ~lost /\ phone.run # "posted" /\ ~InHand("applying") /\ lost' = lost
    BY <1>1, <1>2, <1>6
  <2>2. Hands
    BY <1>1, <2>1, LaunchTyped DEF Hands, InHand
  <2>3. QED
    BY <1>2, <1>3, <1>4, <2>1, <2>2, AppKeeps
<1>7. QED
  BY <1>5, <1>6

-----------------------------------------------------------------------------
(* The API's steps, with the app waiting. *)

LEMMA PhoneReadKeeps ==
    ASSUME PhoneTypeOK, RowsOK, PhoneUnlostOK, ~lost, NEW c \in DOMAIN calls, ApiReads(c), UNCHANGED phoneVars
    PROVE  PhoneUnlostOK'
<1> DEFINE k == calls[c].token
<1>1. /\ calls[c].phase = "sent" /\ k \in DOMAIN tokens /\ DOMAIN calls' = DOMAIN calls /\ Grows
      /\ DOMAIN tokens' = DOMAIN tokens
      /\ \A d \in DOMAIN calls : d # c => calls'[d] = calls[d]
      /\ calls'[c].token = k /\ calls'[c].new = NoToken /\ calls[c].new = NoToken
      /\ \/ Active(k) /\ calls'[c].phase = "read" /\ UNCHANGED <<tokens, ghosts>>
         \/ ~Active(k) /\ calls'[c].phase = "answered" /\ replayed' = (replayed \/ tokens[k].rotated)
  BY Reads DEF PhoneTypeOK, RowsOK
<1>2. UNCHANGED <<vault, phone>> /\ SessionTypeOK
  BY DEF phoneVars, PhoneTypeOK
<1>3. ~replayed /\ PhoneCallsOK /\ FamilyOK /\ HandsOK /\ PhoneAwaitedOK /\ VaultOK
  BY DEF PhoneUnlostOK
<1>4. PhoneWaits /\ phone.call = c /\ \A d \in DOMAIN calls : Open(d) => d = c
  BY <1>1, <1>3 DEF PhoneCallsOK, Open
<1>5. ~tokens[k].rotated /\ (InHand("signing") => phone.signing.token \notin {k, NoToken})
  BY <1>1, <1>3, <1>4 DEF PhoneAwaitedOK
<1>6. ~replayed'
  BY <1>1, <1>3, <1>5 DEF ghosts
<1>7. \A d \in DOMAIN calls : d # c => ~Open(d)'
  BY <1>1, <1>4 DEF Open
<1>8. PhoneCallsOK'
  BY <1>1, <1>2, <1>4, <1>7 DEF PhoneCallsOK, PhoneWaits
<1>9. FamilyOK'
  BY <1>2, <1>3, <1>4, ReadFamily
<1>10. HandsOK'
  BY <1>1, <1>2, <1>3 DEF HandsOK, InHand, Grows
<1>11. PhoneAwaitedOK'
  BY <1>1, <1>2, <1>4, <1>5 DEF PhoneAwaitedOK, InHand, Grows
<1>12. VaultOK'
  BY <1>1, <1>2, <1>3, <1>4 DEF VaultOK, Replaced, InHand, Grows
<1>13. QED
  BY <1>6, <1>8, <1>9, <1>10, <1>11, <1>12 DEF PhoneUnlostOK

LEMMA PhoneCommitKeeps ==
    ASSUME PhoneTypeOK, RowsOK, PhoneUnlostOK, ~lost, NEW c \in DOMAIN calls, ApiCommits(c), UNCHANGED phoneVars
    PROVE  PhoneUnlostOK'
<1> DEFINE k == calls[c].token
           n == Len(tokens) + 1
<1>1. /\ Midway(c) /\ k \in DOMAIN tokens /\ n \notin DOMAIN tokens /\ n # NoToken
      /\ DOMAIN tokens' = DOMAIN tokens \cup {n}
      /\ \A i \in DOMAIN tokens : i # k => tokens'[i] = tokens[i]
      /\ tokens'[k].rotated /\ tokens'[n] = New(tokens[k].family)
      /\ DOMAIN calls' = DOMAIN calls
      /\ \A d \in DOMAIN calls : d # c => calls'[d] = calls[d]
      /\ calls'[c].token = k /\ calls'[c].new = n /\ calls'[c].phase = "answered"
      /\ replayed' = replayed
  BY CommitsRow DEF PhoneTypeOK, ghosts
<1>2. UNCHANGED <<vault, phone>> /\ SessionTypeOK
  BY DEF phoneVars, PhoneTypeOK
<1>3. ~replayed /\ PhoneCallsOK /\ FamilyOK /\ HandsOK /\ PhoneAwaitedOK /\ VaultOK
  BY DEF PhoneUnlostOK
<1>4. PhoneWaits /\ phone.call = c /\ \A d \in DOMAIN calls : Open(d) => d = c
  BY <1>1, <1>3 DEF PhoneCallsOK, Open, Midway
<1>5. vault # n /\ phone.signing.token # n /\ ~InHand("applying") /\ calls[c].new = NoToken
  BY <1>1, <1>2, <1>4, Typed DEF PhoneTypeOK, AppOK, PhoneWaits, InHand, RowsOK, Midway, NoToken
<1>6. InHand("signing") => phone.signing.token # k
  BY <1>3, <1>4 DEF PhoneAwaitedOK
<1> HIDE DEF k, n
<1>7. PhoneCallsOK'
  BY <1>1, <1>2, <1>4 DEF PhoneCallsOK, PhoneWaits, Open
<1>8. FamilyOK'
  BY <1>2, <1>3, <1>4, CommitFamily
<1>9. HandsOK'
  <2>1. InHand("signing") => phone.signing.token # vault
                             /\ (phone.signing.token \in DOMAIN tokens => ~tokens[phone.signing.token].rotated)
    BY <1>3 DEF HandsOK
  <2>2. InHand("signing")' => /\ phone'.signing.token # vault'
                              /\ phone'.signing.token \in DOMAIN tokens' => ~tokens'[phone'.signing.token].rotated
    BY <1>1, <1>2, <1>5, <1>6, <2>1 DEF InHand
  <2>3. ~InHand("applying")'
    BY <1>2, <1>5 DEF InHand
  <2>4. QED
    BY <2>2, <2>3 DEF HandsOK
<1>10. PhoneAwaitedOK'
  BY <1>1, <1>2, <1>4, <1>5, <1>6 DEF PhoneAwaitedOK, InHand, New
<1>11. VaultOK'
  <2>1. SUFFICES ASSUME vault \in DOMAIN tokens', tokens'[vault].rotated PROVE Replaced'
    BY <1>2 DEF VaultOK
  <2>2. CASE vault = k
    BY <1>1, <1>2, <1>4, <2>2 DEF Replaced, PhoneWaits, Open
  <2>3. CASE vault # k
    BY <1>1, <1>3, <1>4, <1>5, <2>1, <2>3 DEF VaultOK, Replaced, New
  <2>4. QED
    BY <2>2, <2>3
<1>12. QED
  BY <1>1, <1>3, <1>7, <1>8, <1>9, <1>10, <1>11 DEF PhoneUnlostOK

LEMMA PhoneStill ==
    ASSUME PhoneCore, SessionTypeOK', Grows, UNCHANGED phoneVars, UNCHANGED <<calls, lost, replayed>>,
           RowsOK', ResetOK'
    PROVE  PhoneCore'
<1>1. UNCHANGED <<vault, vaultWs, phone>>
  BY DEF phoneVars
<1>2. Token \subseteq Token'
  BY Typed DEF PhoneCore, PhoneTypeOK, Grows, Token
<1>3. AppOK' /\ Hands
  BY <1>1, <1>2 DEF PhoneCore, PhoneTypeOK, AppOK, Hands, InHand
<1>4. PhoneTypeOK'
  BY <1>3 DEF PhoneTypeOK
<1>5. QED
  BY <1>3, <1>4, HandsUnlost DEF PhoneCore

LEMMA PhoneServerKeeps ==
    ASSUME PhoneCore, ServerStep, UNCHANGED phoneVars, UNCHANGED <<browser, tab>>
    PROVE  PhoneCore'
<1>1. PhoneTypeOK /\ SessionTypeOK /\ AppOK /\ RowsOK /\ ResetOK /\ UNCHANGED <<vault, vaultWs, phone>>
  BY DEF PhoneCore, PhoneTypeOK, phoneVars
<1>2. ASSUME DOMAIN calls' = DOMAIN calls, Token \subseteq Token' PROVE AppOK'
  BY <1>1, <1>2 DEF AppOK
<1>3. ASSUME NEW c \in DOMAIN calls, ApiReads(c) PROVE PhoneCore'
  <2>1. SessionTypeOK' /\ RowsOK' /\ ResetOK' /\ lost' = lost
    BY <1>1, <1>3, ReadsRows
  <2>2. DOMAIN calls' = DOMAIN calls /\ Token' = Token
    BY <1>1, <1>3, Reads DEF Token
  <2>3. ~lost => PhoneUnlostOK'
    BY <1>1, <1>3, PhoneReadKeeps DEF PhoneCore
  <2>4. QED
    BY <1>2, <2>1, <2>2, <2>3 DEF PhoneCore, PhoneTypeOK
<1>4. ASSUME NEW c \in DOMAIN calls, ApiCommits(c) PROVE PhoneCore'
  <2>1. SessionTypeOK' /\ RowsOK' /\ ResetOK' /\ lost' = lost
    BY <1>1, <1>4, CommitsRows
  <2>2. DOMAIN calls' = DOMAIN calls /\ Token \subseteq Token'
    BY <1>1, <1>4, CommitsRow, Typed DEF Token
  <2>3. ~lost => PhoneUnlostOK'
    BY <1>1, <1>4, PhoneCommitKeeps DEF PhoneCore
  <2>4. QED
    BY <1>2, <2>1, <2>2, <2>3 DEF PhoneCore, PhoneTypeOK
<1>5. CASE ResetPassword
  BY <1>1, <1>5, ResetRows, PhoneStill
<1>6. CASE Expire \/ \E w \in Workspaces : Move(w)
  <2>1. /\ UNCHANGED <<browser, tab, tokens, calls, ghosts>>
        /\ joined' \subseteq Workspaces /\ expired' \in Token /\ left' \in [Kinds -> Nat]
    BY <1>1, <1>6, ClockStep
  <2>2. SessionTypeOK' /\ RowsOK' /\ ResetOK' /\ Grows /\ UNCHANGED <<lost, replayed>>
    BY <1>1, <2>1, PlainRows DEF ghosts
  <2>3. QED
    BY <2>1, <2>2, PhoneStill
<1>7. QED
  BY <1>3, <1>4, <1>5, <1>6 DEF ServerStep

LEMMA PhoneStepKeeps == ASSUME PhoneCore, Phone!Next, UNCHANGED <<browser, tab>> PROVE PhoneCore'
<1>1. CASE Phone!ServerStep /\ UNCHANGED phoneVars
  BY <1>1, PhoneServer, PhoneServerKeeps
<1>2. CASE Phone!AppStep
  BY <1>2, ApplyKeepsCore, ResumeKeepsCore, PhoneAttemptKeeps, PhoneAnsweredKeeps, RejectedKeeps, PhoneFailedKeeps,
     SendKeepsCore, ResponseKeepsCore, SubmitSignInKeeps, LogoutStartKeeps, LogoutPostedKeeps, LogoutClearedKeeps,
     KilledKeeps, PhoneApplyFailsKeeps, PhoneWorkspaceKeeps DEF Phone!AppStep
<1>3. QED
  BY <1>1, <1>2 DEF Phone!Next, Phone!phoneVars, phoneVars

-----------------------------------------------------------------------------
(* The first session, until the user ends it or an answer is lost. *)

LEMMA NothingUndoneOnThePhone == Phone!Next => (lost => lost') /\ (raced => raced') /\ (ended => ended')
<1>1. Phone!ServerStep => (lost => lost') /\ (raced => raced') /\ (ended => ended')
  BY PhoneServer, NothingUndoneByTheApi
<1>2. CASE \/ Phone!Apply \/ Phone!Resume \/ Phone!Attempt \/ Phone!Answered \/ Phone!Rejected \/ Phone!Send
         \/ Phone!Response \/ \E w \in Workspaces : Phone!SetWorkspace(w)
  BY <1>2 DEF Phone!Apply, Phone!Resume, Phone!Attempt, Phone!Answered, Phone!Rejected, Phone!Send, Phone!Response,
              Phone!SetWorkspace, Phone!KeepServer, Phone!ghosts
<1>3. CASE Phone!SubmitSignIn \/ Phone!LogoutStart \/ Phone!LogoutCleared
  BY <1>3 DEF Phone!SubmitSignIn, Phone!LogoutStart, Phone!LogoutCleared, Phone!KeepServer, Phone!ghosts
<1>7. CASE Phone!LogoutPosted
  <2>1. revoke_refresh_token(phone.out) => (raced => raced')
    BY Zenon DEF revoke_refresh_token
  <2>2. QED
    BY <1>7, <2>1, PhoneRevokes DEF Phone!LogoutPosted
<1>8. CASE Phone!ApplyFails
  <2>1. (lost' = (lost \/ InHand("applying")) \/ lost' = lost) /\ raced' = raced /\ ended' = ended
    BY <1>8 DEF Phone!ApplyFails, InHand
  <2>2. QED
    BY <2>1, Zenon
<1>4. CASE Phone!Failed
  BY <1>4 DEF Phone!Failed
<1>5. CASE Phone!Killed
  <2>1. lost' = (lost \/ phone.run = "posted" \/ InHand("applying")) /\ raced' = raced /\ ended' = ended
    BY <1>5 DEF Phone!Killed, InHand
  <2>2. QED
    BY <2>1, Zenon
<1>6. QED
  BY <1>1, <1>2, <1>3, <1>4, <1>5, <1>7, <1>8 DEF Phone!Next, Phone!AppStep

LEMMA PhoneSurvivesStep ==
    ASSUME PhoneSurvivesOK, UNCHANGED tokens, vault' # NoToken, phone'.signing = phone.signing,
           phone'.leaving = phone.leaving, phone'.run # "clearing", phone'.run = "posted" => PhoneWaits'
    PROVE  PhoneSurvivesOK'
BY DEF PhoneSurvivesOK

\* The steps that go on with what the app does.
LEMMA QuietAppSurvives ==
    ASSUME PhoneCore, PhoneSurvivesOK,
           Phone!Resume \/ Phone!Send \/ Phone!Response \/ \E w \in Workspaces : Phone!SetWorkspace(w)
    PROVE  PhoneSurvivesOK'
<1>1. phone \in App /\ UNCHANGED <<tokens, calls, vault>>
  BY DEF PhoneCore, PhoneTypeOK, AppOK, Phone!Resume, Phone!Send, Phone!Response, Phone!SetWorkspace, Phone!KeepVault,
         Phone!KeepServer
<1>2. /\ phone'.signing = phone.signing /\ phone'.leaving = phone.leaving /\ phone'.call = phone.call
      /\ phone'.run = phone.run \/ phone'.run = "reading"
  <2>1. CASE Phone!Resume \/ Phone!Send
    BY <1>1, <2>1 DEF Phone!Resume, Phone!refresh, Phone!Send, App
  <2>2. CASE \E w \in Workspaces : Phone!SetWorkspace(w)
    BY <1>1, <2>2 DEF Phone!SetWorkspace, App
  <2>3. CASE Phone!Response
    <3>1. CASE phone' = [[phone EXCEPT !.request = "waiting"] EXCEPT !.run = IF @ = "none" THEN "reading" ELSE @]
      BY <1>1, <3>1 DEF App
    <3>2. CASE phone' = [phone EXCEPT !.request = "idle", !.carried = Phone!NoToken]
      BY <1>1, <3>2 DEF App
    <3>3. QED
      BY <2>3, <3>1, <3>2 DEF Phone!Response, Phone!refresh
  <2>4. QED
    BY <2>1, <2>2, <2>3
<1>3. phone'.run = "posted" => PhoneWaits'
  BY <1>1, <1>2 DEF PhoneSurvivesOK, PhoneWaits, Open
<1>4. QED
  BY <1>1, <1>2, <1>3, PhoneSurvivesStep DEF PhoneSurvivesOK

LEMMA ApplySurvives == ASSUME PhoneCore, PhoneSurvivesOK, Phone!Apply PROVE PhoneSurvivesOK'
<1>1. /\ PhoneTypeOK /\ phone \in App /\ phone.applying \in Applying /\ UNCHANGED <<tokens, calls>>
      /\ phone.signing.step = "none"
  BY PhoneTyped DEF PhoneCore, Phone!Apply, Phone!KeepServer, PhoneSurvivesOK
<1> DEFINE a == phone.applying
<1>2. a.step \in {"pick", "token", "workspace"}
  BY <1>1 DEF Phone!Apply, Phone!ApplyStep
<1>3. phone.run = "applying" /\ a.token # NoToken /\ a.token \in Nat
  BY <1>1, <1>2 DEF PhoneTypeOK, AppOK, Applying
<1>4. /\ vault' = vault \/ vault' = a.token
      /\ phone'.signing = phone.signing /\ phone'.leaving = phone.leaving /\ phone'.run \in {"applying", "none"}
  <2>1. CASE phone' = [phone EXCEPT !.applying = Phone!Pick(a)] /\ UNCHANGED vault
    BY <1>1, <1>3, <2>1 DEF App
  <2>2. CASE phone' = [phone EXCEPT !.applying.step = "workspace"] /\ vault' = a.token
    BY <1>1, <1>3, <2>2 DEF App
  <2>3. CASE phone' = Phone!Settled(Phone!InUse(phone, a), a.token) /\ UNCHANGED vault
    <3> DEFINE u == Phone!InUse(phone, a)
    <3>1. u \in App /\ u.signing = phone.signing /\ u.leaving = phone.leaving
      BY <1>1, PhoneUses
    <3> HIDE DEF u
    <3>2. phone' = Phone!Settled(u, a.token)
      BY <2>3 DEF u
    <3>3. QED
      BY <1>3, <2>3, <3>1, <3>2, PhoneSettles
  <2>4. QED
    BY <1>1, <2>1, <2>2, <2>3 DEF Phone!Apply, Phone!ApplyStep, Phone!KeepVault
<1>5. QED
  BY <1>1, <1>3, <1>4, PhoneSurvivesStep DEF PhoneSurvivesOK

LEMMA CallSurvives ==
    ASSUME PhoneCore, PhoneSurvivesOK, ~lost',
           Phone!Attempt \/ Phone!Answered \/ Phone!Failed \/ Phone!ApplyFails \/ Phone!Killed
    PROVE  PhoneSurvivesOK'
<1>1. PhoneTypeOK /\ SessionTypeOK /\ phone \in App /\ vault # NoToken /\ NoToken \in Nat /\ phone.attempt \in Nat
  BY DEF PhoneCore, PhoneTypeOK, AppOK, PhoneSurvivesOK, NoToken, App
<1>2. UNCHANGED <<tokens, vault>>
  BY DEF Phone!Attempt, Phone!Answered, Phone!Failed, Phone!ApplyFails, Phone!Killed, Phone!KeepVault, Phone!KeepServer
<1>3. ASSUME Phone!Attempt PROVE PhoneSurvivesOK'
  <2>1. calls' = Append(calls, Call(vault)) /\ phone' = [phone EXCEPT !.run = "posted", !.call = Len(calls')]
    BY <1>1, <1>3 DEF Phone!Attempt, Phone!Call, Call, Phone!NoToken, NoToken
  <2>2. Len(calls') = Len(calls) + 1 /\ calls'[Len(calls) + 1] = Call(vault)
    BY <1>1, <2>1, Typed
  <2>3. phone'.run = "posted" /\ phone'.call = Len(calls) + 1 /\ phone'.signing = phone.signing
        /\ phone'.leaving = phone.leaving
    BY <1>1, <2>1, <2>2 DEF App
  <2>4. PhoneWaits'
    BY <2>2, <2>3 DEF PhoneWaits, Open, Call
  <2>5. QED
    BY <1>1, <1>2, <2>3, <2>4, PhoneSurvivesStep
<1>4. ASSUME Phone!Answered PROVE PhoneSurvivesOK'
  <2>1. calls[phone.call].new # NoToken
    BY <1>4 DEF Phone!Answered, PhoneSurvivesOK, PhoneWaits, Open
  <2>2. phone' = [phone EXCEPT !.run = "applying", !.call = 0,
                     !.applying = Phone!Begin(calls[phone.call].new, calls[phone.call].members)]
    BY <1>4, <2>1 DEF Phone!Answered, Phone!NoToken, NoToken
  <2>3. phone'.run = "applying" /\ phone'.signing = phone.signing /\ phone'.leaving = phone.leaving
    BY <1>1, <2>2 DEF App
  <2>4. QED
    BY <1>1, <1>2, <2>3, PhoneSurvivesStep
<1>5. ASSUME Phone!Failed PROVE PhoneSurvivesOK'
  BY <1>1, <1>2, <1>5, PhoneRetries, PhoneSurvivesStep DEF Phone!Failed
<1>6. ASSUME Phone!Killed PROVE PhoneSurvivesOK'
  BY <1>1, <1>2, <1>6, LaunchTyped DEF Phone!Killed, PhoneSurvivesOK
<1>7. ASSUME Phone!ApplyFails PROVE PhoneSurvivesOK'
  <2>1. phone' = Phone!Retried
    BY <1>7 DEF Phone!ApplyFails, Phone!CanThrow, PhoneSurvivesOK
  <2>2. QED
    BY <1>1, <1>2, <2>1, PhoneRetries, PhoneSurvivesStep
<1>8. QED
  BY <1>3, <1>4, <1>5, <1>6, <1>7

LEMMA PhoneServerSurvives ==
    ASSUME PhoneCore, PhoneUnlostOK, PhoneSurvivesOK, NEW c \in DOMAIN calls, ApiReads(c) \/ ApiCommits(c),
           UNCHANGED phoneVars
    PROVE  PhoneSurvivesOK'
<1> DEFINE k == calls[c].token
<1>1. PhoneTypeOK /\ SessionTypeOK /\ RowsOK /\ UNCHANGED <<vault, phone>>
  BY DEF PhoneCore, PhoneTypeOK, phoneVars
<1>2. PhoneWaits /\ phone.call = c
  BY DEF ApiReads, ApiCommits, Midway, Open, PhoneUnlostOK, PhoneCallsOK
<1>3. CASE ApiReads(c)
  <2>1. k \in DOMAIN tokens /\ calls[c].phase = "sent"
    BY <1>1, <1>3, Reads
  <2>2. Active(k)
    BY <1>2, <2>1 DEF PhoneUnlostOK, PhoneAwaitedOK, PhoneSurvivesOK, Active
  <2>3. tokens' = tokens /\ calls'[c].phase = "read"
    BY <1>1, <1>3, <2>2, Reads
  <2>4. QED
    BY <1>1, <1>2, <2>3 DEF PhoneSurvivesOK, PhoneWaits, Open
<1>4. CASE ApiCommits(c)
  <2>1. LET n == Len(tokens) + 1 IN
        /\ n # NoToken /\ DOMAIN tokens' = DOMAIN tokens \cup {n}
        /\ \A i \in DOMAIN tokens : i # k => tokens'[i] = tokens[i]
        /\ tokens'[k].rotated /\ tokens'[n] = New(tokens[k].family) /\ calls'[c].new = n
    BY <1>1, <1>4, CommitsRow
  <2>2. QED
    BY <1>1, <1>2, <2>1 DEF PhoneSurvivesOK, PhoneWaits, Open, New
<1>5. QED
  BY <1>3, <1>4

\* A step of the app issues a row or none, except a logout's.
LEMMA PhonesCalls ==
    ASSUME PhoneTypeOK, Phone!AppStep
    PROVE  CallsQuiet /\ (tokens' \in {tokens, Issued} \/ (Phone!LogoutPosted /\ calls' = calls))
<1>1. SessionTypeOK /\ vault \in Token /\ (phone.run = "posted" => phone.call \in DOMAIN calls)
  BY DEF PhoneTypeOK, AppOK
<1>2. CASE Phone!Attempt
  <2>1. tokens' = tokens /\ (calls' = calls \/ (vault # NoToken /\ calls' = Append(calls, Call(vault))))
    BY <1>2 DEF Phone!Attempt, Phone!KeepServer, Phone!Call, Call, Phone!NoToken, NoToken
  <2>2. QED
    BY <1>1, <2>1, QuietCalls
<1>3. CASE Phone!Answered \/ Phone!Failed
  <2>1. phone.run = "posted" /\ tokens' = tokens /\ (calls' = calls \/ calls' = [calls EXCEPT ![phone.call] = Done])
    BY <1>3 DEF Phone!Answered, Phone!Failed, Phone!KeepServer, Phone!Done, Done, Phone!Call, Call, Phone!NoToken, NoToken
  <2>2. QED
    BY <1>1, <2>1, QuietCalls
<1>4. CASE \/ Phone!Apply \/ Phone!Resume \/ Phone!Rejected \/ Phone!ApplyFails \/ Phone!Send \/ Phone!Response
           \/ Phone!LogoutStart \/ Phone!LogoutCleared \/ Phone!Killed \/ \E w \in Workspaces : Phone!SetWorkspace(w)
  <2>1. tokens' = tokens /\ calls' = calls
    BY <1>4 DEF Phone!Apply, Phone!Resume, Phone!Rejected, Phone!ApplyFails, Phone!Send, Phone!Response,
                Phone!LogoutStart, Phone!LogoutCleared, Phone!Killed, Phone!SetWorkspace, Phone!KeepServer
  <2>2. QED
    BY <1>1, <2>1, QuietCalls
<1>5. CASE Phone!SubmitSignIn
  <2>1. tokens' = Issued /\ calls' = calls
    BY <1>5 DEF Phone!SubmitSignIn, Issued, Phone!New, New
  <2>2. QED
    BY <1>1, <2>1, QuietCalls
<1>6. CASE Phone!LogoutPosted
  BY <1>1, <1>6, QuietCalls DEF Phone!LogoutPosted
<1>7. QED
  BY <1>2, <1>3, <1>4, <1>5, <1>6 DEF Phone!AppStep

LEMMA PhoneNextKeeps ==
    ASSUME PhoneInv, Phone!Next, UNCHANGED <<browser, tab>>
    PROVE  PhoneInv'
<1>1. PhoneCore /\ PhoneCore'
  BY PhoneStepKeeps DEF PhoneInv, PhoneCore
<1>2. ASSUME ~lost', ~ended' PROVE PhoneSurvivesOK'
  <2>1. ~lost /\ ~ended /\ PhoneSurvivesOK /\ PhoneUnlostOK
    BY <1>2, NothingUndoneOnThePhone DEF PhoneInv
  <2>2. CASE Phone!AppStep
    <3>1. ~Phone!SubmitSignIn /\ ~Phone!LogoutStart /\ ~Phone!LogoutPosted /\ ~Phone!LogoutCleared /\ ~Phone!Rejected
      BY <1>2, <2>1 DEF Phone!SubmitSignIn, Phone!LogoutStart, Phone!LogoutPosted, Phone!LogoutCleared, Phone!Rejected,
                        PhoneSurvivesOK
    <3>2. QED
      BY <1>1, <1>2, <2>1, <2>2, <3>1, QuietAppSurvives, ApplySurvives, CallSurvives DEF Phone!AppStep
  <2>3. CASE Phone!ServerStep /\ UNCHANGED phoneVars
    <3>1. ServerStep /\ ~ResetPassword
      BY <1>2, <2>3, PhoneServer DEF ResetPassword
    <3>2. CASE Expire \/ \E w \in Workspaces : Move(w)
      <4>1. UNCHANGED <<tokens, calls, vault, phone>>
        BY <2>3, <3>2 DEF Expire, Move, phoneVars
      <4>2. QED
        BY <2>1, <4>1 DEF PhoneSurvivesOK, PhoneWaits, Open
    <3>3. QED
      BY <1>1, <2>1, <2>3, <3>1, <3>2, PhoneServerSurvives DEF ServerStep
  <2>4. QED
    BY <2>2, <2>3 DEF Phone!Next, Phone!phoneVars, phoneVars
<1>3. ASSUME ~lost', ~raced' PROVE EndedOK'
  <2>1. ~lost /\ PhoneTypeOK /\ SessionTypeOK /\ RowsOK /\ FamilyOK /\ EndedOK
    BY <1>3, NothingUndoneOnThePhone DEF PhoneInv, PhoneTypeOK, PhoneUnlostOK
  <2>2. CASE Phone!AppStep
    <3>1. CallsQuiet /\ (tokens' \in {tokens, Issued} \/ (Phone!LogoutPosted /\ calls' = calls))
      BY <2>1, <2>2, PhonesCalls
    <3>2. CASE Phone!LogoutPosted /\ calls' = calls
      <4>1. phone.out \in DOMAIN tokens
        BY <2>1, <3>2, Typed DEF Phone!LogoutPosted, PhoneTypeOK, AppOK, NoToken
      <4>2. revoke_refresh_token(phone.out) \/ tokens' = tokens
        BY <3>2, PhoneRevokes DEF Phone!LogoutPosted
      <4>3. QED
        BY <1>3, <2>1, <3>1, <3>2, <4>1, <4>2, EndedLogout, EndedStill
    <3>3. QED
      BY <2>1, <3>1, <3>2, EndedStill
  <2>3. QED
    BY <1>3, <2>1, <2>2, PhoneServer, EndedByTheApi DEF Phone!Next
<1>4. QED
  BY <1>1, <1>2, <1>3 DEF PhoneCore, PhoneInv

\* Nothing happens.
LEMMA PhoneStutters == ASSUME PhoneInv, UNCHANGED <<vars, phoneVars>> PROVE PhoneInv'
<1>1. UNCHANGED <<tokens, joined, expired, calls, left, lost, raced, replayed, reset, ended, local, stored, queue, tab,
                  vault, vaultWs, phone>>
  BY DEF vars, server, browser, ghosts, phoneVars
<1>2. SessionTypeOK' /\ AppOK'
  BY <1>1 DEF PhoneInv, PhoneTypeOK, SessionTypeOK, TypeOK, CallRow, Token, AppOK
<1>3. RowsOK' /\ ResetOK'
  BY <1>1 DEF PhoneInv, RowsOK, Open, Token, ResetOK, SignedOutEverywhere, Active, Midway
<1>4. ASSUME ~lost PROVE PhoneUnlostOK'
  <2>1. PhoneUnlostOK
    BY <1>4 DEF PhoneInv
  <2>2. PhoneCallsOK'
    BY <1>1, <2>1 DEF PhoneUnlostOK, PhoneCallsOK, PhoneWaits, Open
  <2>5. FamilyOK'
    BY <1>1, <2>1 DEF PhoneUnlostOK, FamilyOK, OneGoodToken, Active, Midway
  <2>3. HandsOK' /\ PhoneAwaitedOK'
    BY <1>1, <2>1 DEF PhoneUnlostOK, HandsOK, InHand, PhoneAwaitedOK, PhoneWaits, Open
  <2>4. VaultOK'
    BY <1>1, <2>1 DEF PhoneUnlostOK, VaultOK, Replaced, InHand, PhoneWaits, Open
  <2>6. QED
    BY <1>1, <2>1, <2>2, <2>3, <2>4, <2>5 DEF PhoneUnlostOK
<1>5. ~lost /\ ~ended => PhoneSurvivesOK'
  BY <1>1 DEF PhoneInv, PhoneSurvivesOK, PhoneWaits, Open
<1>6. ~lost /\ ~raced => EndedOK'
  BY <1>1 DEF PhoneInv, EndedOK, Active, Rotating, Midway
<1>7. QED
  BY <1>1, <1>2, <1>3, <1>4, <1>5, <1>6 DEF PhoneInv, PhoneTypeOK

LEMMA PhoneInitHas ==
    ASSUME Phone!Init, local = NoToken, stored = NoWorkspace, queue = <<>>, tab = [t \in Tabs |-> Fresh]
    PROVE  PhoneInv
<1>1. /\ tokens = <<New(1)>> /\ joined = Workspaces /\ expired = 0 /\ calls = <<>> /\ left \in [Kinds -> Nat]
      /\ lost = FALSE /\ raced = FALSE /\ replayed = FALSE /\ reset = 0 /\ ended = FALSE
      /\ vault = 1 /\ vaultWs = NoWorkspace /\ phone = Phone!Launch
  BY AuthBounds DEF Phone!Init, Phone!ServerInit, Phone!New, New, Phone!NoWorkspace, NoWorkspace
<1>2. /\ New(1) \in Row /\ tokens \in Seq(Row) /\ Len(tokens) = 1 /\ tokens[1] = New(1) /\ DOMAIN tokens = {1}
      /\ Token = {0, 1}
  <2>1. New(1) \in Row
    BY DEF New, Row
  <2>2. tokens \in Seq(Row) /\ Len(tokens) = 1 /\ tokens[1] = New(1) /\ DOMAIN tokens = {1}
    BY <1>1, <2>1
  <2>3. QED
    BY <2>1, <2>2 DEF Token
<1>3. calls \in Seq(CallRow) /\ DOMAIN calls = {}
  BY <1>1
<1>4. tab \in [Tabs -> Tab] /\ \A t \in Tabs : tab[t] = Fresh
  <2>1. Fresh \in Tab
    BY DEF Fresh, Tab, NoToken, NoWorkspace
  <2>2. QED
    BY <2>1
<1>5. SessionTypeOK
  <2>1. 0 \in 0..Retries /\ 0 \in Token
    BY <1>2, AuthBounds
  <2>2. \A t \in Tabs : /\ tab[t].status = "loading" /\ tab[t].access = 0 /\ tab[t].session = 0
                        /\ tab[t].run = "none" /\ tab[t].attempt = 0 /\ tab[t].call = 0 /\ tab[t].request = "idle"
                        /\ tab[t].carried = 0 /\ tab[t].leaving = 0 /\ tab[t].choosing = 0
    BY <1>4 DEF Fresh, NoToken
  <2>3. TypeOK
    BY <1>1, <1>2, <1>3, <2>1, <2>2 DEF TypeOK, NoToken
  <2>4. QED
    BY <1>1, <1>2, <1>4, <2>2, <2>3 DEF SessionTypeOK, NoToken
<1>6. AppOK
  BY <1>1, <1>2, <1>3, LaunchTyped DEF AppOK, NoToken
<1>7. RowsOK /\ ResetOK
  BY <1>1, <1>2, <1>3 DEF RowsOK, ResetOK, SignedOutEverywhere, Active, New
<1>8. ~PhoneWaits /\ ~InHand("applying") /\ ~InHand("signing")
  BY <1>1, LaunchTyped DEF PhoneWaits, InHand
<1>9. PhoneUnlostOK
  BY <1>1, <1>2, <1>3, <1>8 DEF PhoneUnlostOK, PhoneCallsOK, FamilyOK, OneGoodToken, Active, HandsOK, PhoneAwaitedOK,
                                VaultOK, New
<1>10. PhoneSurvivesOK
  BY <1>1, <1>2, LaunchTyped DEF PhoneSurvivesOK, New, NoToken
<1>11. EndedOK
  BY <1>2 DEF EndedOK, New
<1>12. QED
  BY <1>5, <1>6, <1>7, <1>9, <1>10, <1>11 DEF PhoneInv, PhoneTypeOK

-----------------------------------------------------------------------------
(* Whichever client runs. *)

AccountsInv ==
  /\ client \in {"web", "phone", "team"}
  /\ client # "phone" => SessionInv
  /\ client = "phone" => PhoneInv /\ tab = [t \in Tabs |-> Fresh]
  /\ TeamInv

LEMMA AccountsNextKeeps == AccountsInv /\ [MCNext]_mcVars => AccountsInv'
<1> SUFFICES ASSUME AccountsInv, [MCNext]_mcVars PROVE AccountsInv'
  OBVIOUS
<1>1. client' = client /\ [TeamNext]_teamVars
  BY DEF MCNext, mcVars
<1>2. TeamInv'
  BY <1>1, TeamNextKeeps DEF AccountsInv
<1>3. CASE client = "phone"
  <2>1. tab' = tab
    BY <1>3 DEF MCNext, mcVars, vars
  <2>2. \/ Phone!Next /\ UNCHANGED <<browser, tab>>
        \/ UNCHANGED <<vars, phoneVars>>
    BY <1>3 DEF MCNext, mcVars
  <2>3. PhoneInv'
    BY <1>3, <2>2, PhoneNextKeeps, PhoneStutters DEF AccountsInv
  <2>4. QED
    BY <1>1, <1>2, <1>3, <2>1, <2>3 DEF AccountsInv
<1>4. CASE client # "phone"
  <2>1. [Next]_vars
    BY <1>4 DEF MCNext, mcVars
  <2>2. SessionInv'
    BY <1>4, <2>1, SessionNextKeeps DEF AccountsInv
  <2>3. QED
    BY <1>1, <1>2, <1>4, <2>2 DEF AccountsInv
<1>5. QED
  BY <1>3, <1>4

\* Every behaviour of the accounts, whichever client runs, keeps its invariant:
\* the tabs' against rotate_refresh_token, the phone's (AuthProvider.tsx), in
\* which a token is in one place, a call, a hand or secure storage, and the
\* members' (routes of tenants and invitations).
THEOREM AccountsInvariant == MCSpec => []AccountsInv
<1>1. MCInit => AccountsInv
  <2> SUFFICES ASSUME MCInit PROVE AccountsInv
    OBVIOUS
  <2>1. TeamInit
    BY DEF MCInit
  <2>2. TeamInv
    BY <2>1, TeamInitHas
  <2>3. CASE client = "phone"
    BY <2>2, <2>3, PhoneInitHas DEF MCInit, AccountsInv
  <2>4. CASE client # "phone"
    BY <2>2, <2>4, InitHas DEF MCInit, WebInit, AccountsInv, Core, SessionInv
  <2>5. QED
    BY <2>3, <2>4
<1>2. QED
  BY <1>1, AccountsNextKeeps, PTL DEF MCSpec

LEMMA SessionsHave == AccountsInv => SessionSafe
<1> SUFFICES ASSUME AccountsInv PROVE SessionSafe
  OBVIOUS
<1>1. CASE client # "phone"
  BY <1>1, WebHas DEF AccountsInv, SessionSafe
<1>2. CASE client = "phone"
  <2>1. PhoneInv /\ SessionTypeOK /\ AppOK /\ vault \in Token
    BY <1>2 DEF AccountsInv, PhoneInv, PhoneTypeOK, AppOK
  <2>2. TypeOK /\ NoReplay /\ OneGoodToken /\ SignedOutEverywhere /\ LoggedOutEverywhere
    BY <2>1 DEF PhoneInv, SessionTypeOK, ResetOK, SignedOutEverywhere, PhoneUnlostOK, FamilyOK, NoReplay, OneGoodToken,
                EndedOK, LoggedOutEverywhere
  <2>3. SessionSurvives
    BY <1>2 DEF AccountsInv, SessionSurvives, Fresh
  <2>4. ASSUME ~lost, ~ended, phone.run = "none" PROVE Active(vault)
    <3>1. PhoneUnlostOK /\ PhoneSurvivesOK
      BY <2>1, <2>4 DEF PhoneInv
    <3>2. vault \in DOMAIN tokens
      BY <2>1, <3>1, Typed DEF PhoneSurvivesOK, NoToken
    <3>3. ~Replaced
      BY <2>1, <2>4 DEF Replaced, PhoneWaits, InHand, AppOK
    <3>4. QED
      BY <3>1, <3>2, <3>3 DEF PhoneUnlostOK, VaultOK, PhoneSurvivesOK, Active
  <2>5. Phone!KillSafe
    BY <2>4 DEF Phone!KillSafe, Phone!Active, Active
  <2>6. QED
    BY <1>2, <2>2, <2>3, <2>5 DEF SessionSafe, WebSafe
<1>3. QED
  BY <1>1, <1>2

\* What every client's session promises.  A reset that raced no rotation ends it
\* everywhere.  Until an answer is lost, on the phone and in a browser with Web
\* Locks: no refresh of its own looks like a replay, one token of a sign-in is
\* good at a time, nothing but the user ends the first one, a logout that revokes
\* a good token ends it unless it raced a rotation, and a phone that the system
\* ends while no refresh is under way resumes it at the next launch, with the
\* steps of a refresh, a sign-in and a logout interleaved at every await
\* (AuthProvider.tsx, storage.ts).  What a lost answer does is TLC's to show.
THEOREM SessionSafeTheorem == MCSpec => []SessionSafe
BY SessionsHave, AccountsInvariant, PTL
=============================================================================
