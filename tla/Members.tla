------------------------------- MODULE Members ------------------------------
(***************************************************************************)
(* The member registry (members.json) and the invitations to it.           *)
(*                                                                         *)
(* Every request with a session cookie rewrites the whole registry before  *)
(* its route runs, if only to move lastSeenAt; the routes, SCIM and the    *)
(* acceptance of an invitation read it again, check the roles they find    *)
(* and write it back.  A file is replaced by a rename, so a read never     *)
(* sees half of one, but nothing is held between a read and its write.     *)
(*                                                                         *)
(* A call is one request.  Its role is the one it was let in with: the     *)
(* registry may have moved on when the route uses it.                      *)
(***************************************************************************)
EXTENDS AccessBase, Naturals, FiniteSets

CONSTANTS
    Invites,      \* invitation ids
    MemberCalls,  \* requests alive at once
    Defaults,     \* roles a domain policy, or none, gives a newcomer
    KeyRoles,     \* roles an API key may carry
    GivenRoles,   \* roles that are asked for in a request
    MemberOps     \* the routes in use

Roles  == {"viewer", "member", "admin", "owner"}
Absent == "absent"
Rank   == [viewer |-> 1, member |-> 2, admin |-> 3, owner |-> 4, absent |-> 0]

ASSUME MembersAssumption ==
    /\ Defaults \subseteq {"viewer", "member"} /\ Defaults # {}
    /\ KeyRoles \subseteq {"owner", "viewer"} /\ GivenRoles \subseteq Roles
    /\ MemberOps \subseteq {"invite", "patch", "remove", "mint", "withdraw", "accept", "scim"}
    /\ Nil \notin Invites
    /\ Nil \notin [Users -> Roles \cup {Absent}]

VARIABLES
    registry,     \* members.json: the role of each user, or Absent
    invitations,  \* invitations.json
    drawn,        \* invitation ids given out; they are random, so none twice
    lapsed,       \* invitations past their expiresAt
    mcall,        \* each request's place
    crowned,      \* history: users made owner at bootstrap or by an owner's call
    outcomes      \* history: roles promised by accepted invitations, and roles written

memberVars == <<registry, invitations, drawn, lapsed, mcall, crowned, outcomes>>

-----------------------------------------------------------------------------
(* The registry *)

Owners(g)      == {u \in Users : g[u] = "owner"}
NoMembers(g)   == \A u \in Users : g[u] = Absent
LastOwner(g, u) == Owners(g) = {u}

\* canActOn: an owner acts on everyone, anyone else only on lower ranks.
CanActOn(actor, target) == actor = "owner" \/ Rank[actor] > Rank[target]

\* recordSeenAndBootstrap and inviteMember leave the role of a known user alone.
Seen(g, u, default) ==
    IF g[u] # Absent THEN g
    ELSE [g EXCEPT ![u] = IF NoMembers(g) THEN "owner" ELSE default]
Invited(g, u, role) == IF g[u] # Absent THEN g ELSE [g EXCEPT ![u] = role]

\* (mutant) only removal looks for the last owner
MayAssignAnyway(g, u, role, actor) ==
    /\ g[u] # Absent
    /\ CanActOn(actor, g[u]) /\ CanActOn(actor, role)
MayAssign(g, u, role, actor) ==
    /\ g[u] # Absent
    /\ CanActOn(actor, g[u]) /\ CanActOn(actor, role)
    /\ ~(role # "owner" /\ LastOwner(g, u))
MayRemove(g, u, actor) ==
    /\ g[u] # Absent
    /\ CanActOn(actor, g[u])
    /\ ~LastOwner(g, u)

Assigned(g, u, role) == [g EXCEPT ![u] = role]
Removed(g, u)        == [g EXCEPT ![u] = Absent]

-----------------------------------------------------------------------------
(* The invitations *)

Invitation(user, role, status) == [user |-> user, role |-> role, status |-> status]
Pending(v, i) == v[i] # Nil /\ v[i].status = "pending" /\ i \notin lapsed
WithStatus(v, i, status) == [v EXCEPT ![i] = Invitation(v[i].user, v[i].role, status)]

\* (mutant) an admin's invitation may make an owner
CanMintAny(actor, role) == actor \in {"owner", "admin"}
CanMint(actor, role) == actor = "owner" \/ (actor = "admin" /\ role # "owner")

-----------------------------------------------------------------------------
(* Requests *)

\* next and invs are what the call is about to write, promise the role of the
\* invitation it accepts.
MemberCall(pc, user, role, next, invs, promise) ==
    [pc |-> pc, user |-> user, role |-> role, next |-> next, invs |-> invs,
     promise |-> promise]
NoCall == MemberCall("idle", Nil, Absent, Nil, Nil, Nil)
Entered(user, role) == MemberCall("authed", user, role, Nil, Nil, Nil)

MAt(c, pc)   == mcall[c].pc = pc
MMove(c, s)  == mcall' = [mcall EXCEPT ![c] = s]
May(op)      == op \in MemberOps
\* requireMinRole('admin')
Manages(c)   == Rank[mcall[c].role] >= Rank["admin"]

\* The route has read the registry and will write next.
WillWrite(c, next, promise) ==
    MMove(c, MemberCall("write", mcall[c].user, mcall[c].role, next, Nil, promise))
WillMark(c, invs, promise) ==
    MMove(c, MemberCall("mark", mcall[c].user, mcall[c].role, Nil, invs, promise))

\* Whoever an owner's call gives the role of owner to, is owner by right.
Crowns(u, role, actor) ==
    crowned' = IF role = "owner" /\ actor = "owner" THEN crowned \cup {u} ELSE crowned

MemberInit ==
    /\ registry = [u \in Users |-> Absent]
    /\ invitations = [i \in Invites |-> Nil]
    /\ drawn = {}
    /\ lapsed = {}
    /\ mcall = [c \in MemberCalls |-> NoCall]
    /\ crowned = {}
    /\ outcomes = {}

\* A session cookie; the registry is read for the bootstrap.
Arrive(c, u) ==
    /\ MAt(c, "idle")
    /\ \E d \in Defaults :
          MMove(c, MemberCall("seen", u, Absent, Seen(registry, u, d), Nil, Nil))
    /\ crowned' = IF NoMembers(registry) THEN crowned \cup {u} ELSE crowned
    /\ UNCHANGED <<registry, invitations, drawn, lapsed, outcomes>>

\* The request's role is the one in the record it has just written.
Recorded(c) ==
    /\ MAt(c, "seen")
    /\ registry' = mcall[c].next
    /\ MMove(c, Entered(mcall[c].user, mcall[c].next[mcall[c].user]))
    /\ UNCHANGED <<invitations, drawn, lapsed, crowned, outcomes>>

\* An API key brings the role it was issued with, the SCIM token an owner's;
\* neither touches the registry, and both exist only once someone has signed in.
ArriveByKey(c, u, role) ==
    /\ MAt(c, "idle")
    /\ ~NoMembers(registry)
    /\ MMove(c, Entered(u, role))
    /\ UNCHANGED <<registry, invitations, drawn, lapsed, crowned, outcomes>>
ArriveByToken(c) == May("scim") /\ ArriveByKey(c, Nil, "owner")

\* POST /members, and createScimUser.
Invite(c, u, role) ==
    /\ MAt(c, "authed") /\ May("invite")
    /\ Manages(c)
    /\ role = "owner" => mcall[c].role = "owner"
    /\ Crowns(u, role, mcall[c].role)
    /\ WillWrite(c, Invited(registry, u, role), Nil)
    /\ UNCHANGED <<registry, invitations, drawn, lapsed, outcomes>>

\* PATCH /members/:userId, and patchScimUser.
ChangeRole(c, u, role) ==
    /\ MAt(c, "authed") /\ May("patch")
    /\ Manages(c)
    /\ MayAssign(registry, u, role, mcall[c].role)
    /\ Crowns(u, role, mcall[c].role)
    /\ WillWrite(c, Assigned(registry, u, role), Nil)
    /\ UNCHANGED <<registry, invitations, drawn, lapsed, outcomes>>

\* DELETE /members/:userId, and deleteScimUser.
RemoveMember(c, u) ==
    /\ MAt(c, "authed") /\ May("remove")
    /\ Manages(c)
    /\ u # mcall[c].user
    /\ MayRemove(registry, u, mcall[c].role)
    /\ WillWrite(c, Removed(registry, u), Nil)
    /\ UNCHANGED <<registry, invitations, drawn, lapsed, crowned, outcomes>>

\* POST /invitations.  An address has one pending invitation at most.
MintInvite(c, i, u, role) ==
    /\ MAt(c, "authed") /\ May("mint")
    /\ Manages(c)
    /\ CanMint(mcall[c].role, role)
    /\ mcall[c].user # Nil
    /\ i \notin drawn
    /\ drawn' = drawn \cup {i}
    /\ \A j \in Invites : Pending(invitations, j) => invitations[j].user # u
    /\ Crowns(u, role, mcall[c].role)
    /\ WillMark(c, [invitations EXCEPT ![i] = Invitation(u, role, "pending")], Nil)
    /\ UNCHANGED <<registry, invitations, lapsed, outcomes>>

\* DELETE /invitations/:id.
WithdrawInvite(c, i) ==
    /\ MAt(c, "authed") /\ May("withdraw")
    /\ Manages(c) /\ mcall[c].user # Nil
    /\ Pending(invitations, i)
    /\ CanMint(mcall[c].role, invitations[i].role)
    /\ WillMark(c, WithStatus(invitations, i, "revoked"), Nil)
    /\ UNCHANGED <<registry, invitations, drawn, lapsed, crowned, outcomes>>

\* POST /invitations/accept, by the user the invitation is addressed to.
AcceptInvite(c, i) ==
    /\ MAt(c, "authed") /\ May("accept")
    /\ Pending(invitations, i)
    /\ invitations[i].user = mcall[c].user
    /\ WillMark(c, WithStatus(invitations, i, "accepted"), invitations[i].role)
    /\ UNCHANGED <<registry, invitations, drawn, lapsed, crowned, outcomes>>

\* An acceptance then goes on to the registry.
WriteInvites(c) ==
    /\ MAt(c, "mark")
    /\ invitations' = mcall[c].invs
    /\ MMove(c, IF mcall[c].promise = Nil THEN NoCall
                ELSE MemberCall("bind", mcall[c].user, mcall[c].role, Nil, Nil,
                                mcall[c].promise))
    /\ UNCHANGED <<registry, drawn, lapsed, crowned, outcomes>>
Bind(c) ==
    /\ MAt(c, "bind")
    /\ WillWrite(c, Invited(registry, mcall[c].user, mcall[c].promise), mcall[c].promise)
    /\ UNCHANGED <<registry, invitations, drawn, lapsed, crowned, outcomes>>

WriteRegistry(c) ==
    /\ MAt(c, "write")
    /\ registry' = mcall[c].next
    /\ outcomes' = IF mcall[c].promise = Nil THEN outcomes
                   ELSE outcomes \cup {<<mcall[c].promise, mcall[c].next[mcall[c].user]>>}
    /\ MMove(c, NoCall)
    /\ UNCHANGED <<invitations, drawn, lapsed, crowned>>

\* A refusal, or a route that leaves members and invitations alone.
Leave(c) ==
    /\ MAt(c, "authed")
    /\ MMove(c, NoCall)
    /\ UNCHANGED <<registry, invitations, drawn, lapsed, crowned, outcomes>>

Lapse(i) ==
    /\ Pending(invitations, i)
    /\ lapsed' = lapsed \cup {i}
    /\ UNCHANGED <<registry, invitations, drawn, mcall, crowned, outcomes>>

\* The process dies; both files are whole.
Restart ==
    /\ mcall' = [c \in MemberCalls |-> NoCall]
    /\ UNCHANGED <<registry, invitations, drawn, lapsed, crowned, outcomes>>

Route(c) ==
    \/ \E u \in Users : RemoveMember(c, u)
    \/ \E u \in Users, role \in GivenRoles : Invite(c, u, role) \/ ChangeRole(c, u, role)
    \/ \E i \in Invites, u \in Users, role \in GivenRoles : MintInvite(c, i, u, role)
    \/ \E i \in Invites : WithdrawInvite(c, i) \/ AcceptInvite(c, i)
    \/ WriteInvites(c) \/ Bind(c) \/ WriteRegistry(c) \/ Leave(c)
MemberNext ==
    \/ \E c \in MemberCalls : Recorded(c) \/ ArriveByToken(c) \/ Route(c)
    \/ \E c \in MemberCalls, u \in Users : Arrive(c, u)
    \/ \E c \in MemberCalls, u \in Users, role \in KeyRoles : ArriveByKey(c, u, role)
    \/ \E i \in Invites : Lapse(i)
    \/ Restart

MemberSpec == MemberInit /\ [][MemberNext]_memberVars

-----------------------------------------------------------------------------
(* Properties *)

Registries == [Users -> Roles \cup {Absent}]
InvitationFiles ==
    [Invites -> {Nil} \cup [user : Users, role : Roles,
                            status : {"pending", "accepted", "revoked"}]]
MemberCallType ==
    [pc : {"idle", "seen", "authed", "mark", "bind", "write"}, user : Users \cup {Nil},
     role : Roles \cup {Absent}, next : Registries \cup {Nil},
     invs : InvitationFiles \cup {Nil}, promise : Roles \cup {Nil}]

\* Every variable stays in its type.
MemberTypeOK ==
    /\ registry \in Registries
    /\ invitations \in InvitationFiles
    /\ drawn \subseteq Invites /\ lapsed \subseteq Invites
    /\ mcall \in [MemberCalls -> MemberCallType]
    /\ crowned \subseteq Users
    /\ outcomes \subseteq Roles \X (Roles \cup {Absent})

\* What members.json holds and what every request is about to make of it.
Versions == {registry} \cup {mcall[c].next : c \in {d \in MemberCalls : mcall[d].next # Nil}}

\* members.ts: "the deployment must always have at least one owner".  Each
\* request checks for the last owner on a copy of its own, and any of them may
\* be written last: still, no version of the registry has members but no owner.
AlwaysAnOwner == \A g \in Versions : NoMembers(g) \/ Owners(g) # {}

\* features.md: "only owners can mint or demote other owners".  Over any series
\* of invitations, role changes, SCIM calls and lost updates, an owner is the
\* first user, or someone to whom a call with the role of owner gave it.
OwnersMadeByOwners == \A g \in Versions : Owners(g) \subseteq crowned

\* features.md: accept "calls inviteMember() so the recipient drops into the
\* registry at the pre-bound role".
InvitedRoleIsGranted == \A o \in outcomes : Rank[o[2]] >= Rank[o[1]]
=============================================================================
