---------------------------- MODULE Access_proofs ----------------------------
(***************************************************************************)
(* Members, API keys, sessions and the removal that goes through all       *)
(* three: for any users, keys, sessions and overlapping requests.          *)
(*                                                                         *)
(* Each of the three files is rewritten from a copy read before, so what   *)
(* matters is not which write comes last but that every copy in hand is as *)
(* good as the file: MemberInv, KeyInv and SessionInv say it of one file   *)
(* each.  AccessInv adds how far each request is, and what a removal has   *)
(* done by then.                                                           *)
(*                                                                         *)
(* Members first.  One copy of the registry is not made from a good one:   *)
(* an invitation that meets an empty registry would make a first member    *)
(* who is no owner.  It meets none, because a request gets as far as its   *)
(* route only after somebody has been registered, and no copy ever goes    *)
(* back to nobody.                                                         *)
(***************************************************************************)
EXTENDS Offboarding, FiniteSetTheorems, TLAPS

Good(g) == NoMembers(g) \/ Owners(g) # {}

\* Whoever an invitation would make owner is owner by right.
Rightful(v, cr) ==
    \A i \in Invites : v[i] # Nil /\ v[i].role = "owner" => v[i].user \in cr

SharedInv ==
    /\ registry \in Registries /\ invitations \in InvitationFiles
    /\ drawn \subseteq Invites /\ lapsed \subseteq Invites
    /\ crowned \subseteq Users
    /\ outcomes \subseteq Roles \X (Roles \cup {Absent})
    /\ Good(registry) /\ Owners(registry) \subseteq crowned
    /\ Rightful(invitations, crowned)

\* A request, given the registry and the users crowned so far.
CallInv(m, g, cr) ==
    /\ m.pc \in {"seen", "write"} => m.next \in Registries
    /\ m.next # Nil => Owners(m.next) # {} /\ Owners(m.next) \subseteq cr
    /\ m.pc \in {"seen", "bind"} => m.user \in Users
    /\ m.pc \in {"mark", "write"} /\ m.promise # Nil => m.user \in Users
    /\ m.pc = "bind" => m.promise # Nil
    /\ m.pc = "mark" => m.invs \in InvitationFiles /\ Rightful(m.invs, cr)
    /\ m.promise # Nil /\ m.promise = "owner" => m.user \in cr
    /\ m.pc \notin {"idle", "seen"} => Owners(g) # {}

CallsInv ==
    /\ mcall \in [MemberCalls -> MemberCallType]
    /\ \A c \in MemberCalls : CallInv(mcall[c], registry, crowned)

MemberInv == SharedInv /\ CallsInv

-----------------------------------------------------------------------------
(* The registry's operators *)

\* Nobody but an owner acts on owners.
LEMMA OnlyOwnersActOnOwners ==
    ASSUME NEW actor \in Roles \cup {Absent}, CanActOn(actor, "owner")
    PROVE  actor = "owner"
  BY DEF CanActOn, Rank, Roles, Absent

LEMMA NoMembersNoOwners ==
    ASSUME NEW g \in Registries, Owners(g) # {}
    PROVE  ~NoMembers(g)
  BY DEF NoMembers, Owners, Absent

LEMMA RegistryTypes ==
    ASSUME NEW g \in Registries, NEW u \in Users, NEW role \in Roles
    PROVE  /\ Seen(g, u, role) \in Registries
           /\ Invited(g, u, role) \in Registries
           /\ Assigned(g, u, role) \in Registries
           /\ Removed(g, u) \in Registries
  BY DEF Registries, Roles, Seen, Invited, Assigned, Removed

\* A newcomer takes nobody's place.
LEMMA SeenOwners ==
    ASSUME NEW g \in Registries, Good(g), NEW u \in Users, NEW d \in Defaults
    PROVE  /\ Owners(Seen(g, u, d)) # {}
           /\ Owners(Seen(g, u, d)) \subseteq Owners(g) \cup (IF NoMembers(g) THEN {u} ELSE {})
  <1>1. d # "owner"
    BY MembersAssumption
  <1>2. CASE NoMembers(g)
    BY <1>2 DEF Seen, NoMembers, Owners, Registries
  <1>3. CASE ~NoMembers(g)
    <2>1. PICK o \in Users : g[o] = "owner"
      BY <1>3 DEF Good, Owners
    <2> QED
      BY <1>1, <1>3, <2>1 DEF Seen, Owners, Registries, Absent
  <1> QED
    BY <1>2, <1>3

LEMMA InvitedOwners ==
    ASSUME NEW g \in Registries, Owners(g) # {}, NEW u \in Users, NEW role \in Roles
    PROVE  /\ Owners(Invited(g, u, role)) # {}
           /\ Owners(Invited(g, u, role)) \subseteq Owners(g) \cup {u}
           /\ role # "owner" => Owners(Invited(g, u, role)) \subseteq Owners(g)
  <1>1. PICK o \in Users : g[o] = "owner"
    BY DEF Owners
  <1> QED
    BY <1>1 DEF Invited, Owners, Registries, Absent

\* The check for the last owner, on the copy that is then written.
LEMMA AssignedOwners ==
    ASSUME NEW g \in Registries, Owners(g) # {}, NEW u \in Users, NEW role \in Roles,
           NEW actor \in Roles \cup {Absent}, MayAssign(g, u, role, actor)
    PROVE  /\ Owners(Assigned(g, u, role)) # {}
           /\ Owners(Assigned(g, u, role)) \subseteq Owners(g) \cup {u}
           /\ role # "owner" => Owners(Assigned(g, u, role)) \subseteq Owners(g)
           /\ role = "owner" => actor = "owner"
  <1>1. role = "owner" => actor = "owner"
    BY OnlyOwnersActOnOwners DEF MayAssign
  <1>2. role # "owner" => Owners(g) # {u}
    BY DEF MayAssign, LastOwner
  <1>3. role # "owner" => \E o \in Users : o # u /\ g[o] = "owner"
    BY <1>2 DEF Owners
  <1> QED
    BY <1>1, <1>3 DEF Assigned, Owners, Registries

LEMMA RemovedOwners ==
    ASSUME NEW g \in Registries, Owners(g) # {}, NEW u \in Users, NEW actor,
           MayRemove(g, u, actor)
    PROVE  /\ Owners(Removed(g, u)) # {}
           /\ Owners(Removed(g, u)) \subseteq Owners(g)
  <1>1. \E o \in Users : o # u /\ g[o] = "owner"
    BY DEF MayRemove, LastOwner, Owners
  <1> QED
    BY <1>1 DEF Removed, Owners, Registries, Absent

-----------------------------------------------------------------------------
(* The invitations' operators *)

LEMMA InvitationFields ==
    ASSUME NEW v \in InvitationFiles, NEW i \in Invites, v[i] # Nil
    PROVE  v[i].user \in Users /\ v[i].role \in Roles
  BY DEF InvitationFiles

LEMMA StatusKeepsRights ==
    ASSUME NEW v \in InvitationFiles, NEW i \in Invites, v[i] # Nil, NEW cr, Rightful(v, cr),
           NEW st \in {"accepted", "revoked"}
    PROVE  WithStatus(v, i, st) \in InvitationFiles /\ Rightful(WithStatus(v, i, st), cr)
  <1> DEFINE new == Invitation(v[i].user, v[i].role, st)
  <1>1. new.user = v[i].user /\ new.role = v[i].role
    BY DEF Invitation
  <1>2. new \in [user : Users, role : Roles, status : {"pending", "accepted", "revoked"}]
    BY InvitationFields DEF Invitation
  <1>3. WithStatus(v, i, st) = [v EXCEPT ![i] = new]
    BY DEF WithStatus
  <1> HIDE DEF new
  <1> QED
    BY <1>1, <1>2, <1>3 DEF InvitationFiles, Rightful

LEMMA MintedIsRightful ==
    ASSUME NEW v \in InvitationFiles, NEW i \in Invites, NEW u \in Users, NEW role \in Roles,
           NEW cr, Rightful(v, cr), role = "owner" => u \in cr
    PROVE  /\ [v EXCEPT ![i] = Invitation(u, role, "pending")] \in InvitationFiles
           /\ Rightful([v EXCEPT ![i] = Invitation(u, role, "pending")], cr)
  <1> DEFINE new == Invitation(u, role, "pending")
  <1>1. new.user = u /\ new.role = role
    BY DEF Invitation
  <1>2. new \in [user : Users, role : Roles, status : {"pending", "accepted", "revoked"}]
    BY DEF Invitation
  <1>3. new = Invitation(u, role, "pending")
    OBVIOUS
  <1> HIDE DEF new
  <1> QED
    BY <1>1, <1>2, <1>3 DEF InvitationFiles, Rightful

-----------------------------------------------------------------------------
(* Requests *)

\* What a request holds stays good while the registry keeps an owner and nobody
\* is uncrowned.
LEMMA CallFrame ==
    ASSUME NEW m, NEW g, NEW h, NEW a, NEW b, CallInv(m, g, a), a \subseteq b,
           Owners(g) # {} => Owners(h) # {}
    PROVE  CallInv(m, h, b)
  BY DEF CallInv, Rightful

LEMMA CallFields ==
    ASSUME NEW pc, NEW user, NEW role, NEW next, NEW invs, NEW promise
    PROVE  LET m == MemberCall(pc, user, role, next, invs, promise)
           IN  /\ m.pc = pc /\ m.user = user /\ m.role = role
               /\ m.next = next /\ m.invs = invs /\ m.promise = promise
  BY DEF MemberCall

LEMMA CallTypes ==
    ASSUME NEW pc \in {"idle", "seen", "authed", "mark", "bind", "write"},
           NEW user \in Users \cup {Nil}, NEW role \in Roles \cup {Absent},
           NEW next \in Registries \cup {Nil}, NEW invs \in InvitationFiles \cup {Nil},
           NEW promise \in Roles \cup {Nil}
    PROVE  MemberCall(pc, user, role, next, invs, promise) \in MemberCallType
  BY DEF MemberCall, MemberCallType

LEMMA IdleCall ==
    ASSUME NEW g, NEW cr
    PROVE  NoCall \in MemberCallType /\ CallInv(NoCall, g, cr)
  <1>1. NoCall \in MemberCallType
    BY CallTypes DEF NoCall
  <1>2. NoCall.pc = "idle" /\ NoCall.next = Nil /\ NoCall.promise = Nil
    BY CallFields DEF NoCall
  <1> QED
    BY <1>1, <1>2 DEF CallInv

LEMMA EnteredCall ==
    ASSUME NEW user \in Users \cup {Nil}, NEW role \in Roles \cup {Absent}
    PROVE  /\ Entered(user, role) \in MemberCallType /\ Entered(user, role).pc = "authed"
           /\ Entered(user, role).next = Nil /\ Entered(user, role).promise = Nil
  BY DEF Entered, MemberCall, MemberCallType

\* One request moves, the others are framed.
LEMMA Moved ==
    ASSUME CallsInv, NEW c \in MemberCalls, NEW s \in MemberCallType, MMove(c, s),
           CallInv(s, registry', crowned'), crowned \subseteq crowned',
           Owners(registry) # {} => Owners(registry') # {}
    PROVE  CallsInv'
  <1>1. mcall' \in [MemberCalls -> MemberCallType]
    BY DEF CallsInv, MMove
  <1>2. ASSUME NEW d \in MemberCalls
        PROVE  CallInv(mcall'[d], registry', crowned')
    <2>1. CASE d = c
      BY <2>1 DEF MMove, CallsInv
    <2>2. CASE d # c
      <3>1. mcall'[d] = mcall[d] /\ CallInv(mcall[d], registry, crowned)
        BY <2>2 DEF MMove, CallsInv
      <3> QED
        BY <3>1, CallFrame
    <2> QED
      BY <2>1, <2>2
  <1> QED
    BY <1>1, <1>2 DEF CallsInv

LEMMA CallHolds ==
    ASSUME MemberInv, NEW c \in MemberCalls
    PROVE  mcall[c] \in MemberCallType /\ CallInv(mcall[c], registry, crowned)
  BY DEF MemberInv, CallsInv

\* A request that is about to write the registry.
LEMMA AboutToWrite ==
    ASSUME MemberInv, NEW c \in MemberCalls, NEW next \in Registries,
           NEW promise \in Roles \cup {Nil},
           Owners(next) # {}, Owners(next) \subseteq crowned', crowned \subseteq crowned',
           registry' = registry, Owners(registry) # {},
           promise # Nil => mcall[c].user \in Users /\ (promise = "owner" => mcall[c].user \in crowned),
           WillWrite(c, next, promise)
    PROVE  CallsInv'
  <1> DEFINE s == MemberCall("write", mcall[c].user, mcall[c].role, next, Nil, promise)
  <1>1. mcall[c].user \in Users \cup {Nil} /\ mcall[c].role \in Roles \cup {Absent}
    BY CallHolds DEF MemberCallType
  <1>2. s \in MemberCallType
    BY <1>1, CallTypes
  <1>3. /\ s.pc = "write" /\ s.user = mcall[c].user /\ s.next = next /\ s.promise = promise
    BY CallFields
  <1>4. MMove(c, s)
    BY DEF WillWrite
  <1> HIDE DEF s
  <1>5. CallInv(s, registry', crowned')
    BY <1>3 DEF CallInv
  <1> QED
    BY <1>2, <1>4, <1>5, Moved DEF MemberInv

\* A request that is about to write the invitations.
LEMMA AboutToMark ==
    ASSUME MemberInv, NEW c \in MemberCalls, NEW invs \in InvitationFiles,
           NEW promise \in Roles \cup {Nil},
           Rightful(invs, crowned'), crowned \subseteq crowned',
           registry' = registry, Owners(registry) # {},
           promise # Nil => mcall[c].user \in Users /\ (promise = "owner" => mcall[c].user \in crowned),
           WillMark(c, invs, promise)
    PROVE  CallsInv'
  <1> DEFINE s == MemberCall("mark", mcall[c].user, mcall[c].role, Nil, invs, promise)
  <1>1. mcall[c].user \in Users \cup {Nil} /\ mcall[c].role \in Roles \cup {Absent}
    BY CallHolds DEF MemberCallType
  <1>2. s \in MemberCallType
    BY <1>1, CallTypes
  <1>3. /\ s.pc = "mark" /\ s.user = mcall[c].user /\ s.next = Nil
        /\ s.invs = invs /\ s.promise = promise
    BY CallFields
  <1>4. MMove(c, s)
    BY DEF WillMark
  <1> HIDE DEF s
  <1>5. CallInv(s, registry', crowned')
    BY <1>3 DEF CallInv
  <1> QED
    BY <1>2, <1>4, <1>5, Moved DEF MemberInv

-----------------------------------------------------------------------------
(* Every step *)

\* A request that is past its arrival found an owner in the registry.
LEMMA PastArrival ==
    ASSUME MemberInv, NEW c \in MemberCalls, mcall[c].pc \in {"authed", "mark", "bind", "write"}
    PROVE  /\ Owners(registry) # {} /\ registry \in Registries
           /\ Owners(registry) \subseteq crowned
           /\ mcall[c].role \in Roles \cup {Absent} /\ mcall[c].user \in Users \cup {Nil}
  <1>1. mcall[c] \in MemberCallType /\ CallInv(mcall[c], registry, crowned)
    BY CallHolds
  <1>2. mcall[c].role \in Roles \cup {Absent} /\ mcall[c].user \in Users \cup {Nil}
    BY <1>1 DEF MemberCallType
  <1> QED
    BY <1>1, <1>2 DEF CallInv, MemberInv, SharedInv

LEMMA MemberInitHolds == MemberInit => MemberInv
  <1> SUFFICES ASSUME MemberInit PROVE MemberInv
    OBVIOUS
  <1>1. registry \in Registries /\ NoMembers(registry) /\ Owners(registry) = {}
    BY DEF MemberInit, Registries, NoMembers, Owners, Absent
  <1>2. invitations \in InvitationFiles /\ Rightful(invitations, crowned)
    BY DEF MemberInit, InvitationFiles, Rightful
  <1>3. SharedInv
    BY <1>1, <1>2 DEF SharedInv, MemberInit, Good
  <1>4. CallsInv
    BY IdleCall DEF CallsInv, MemberInit
  <1> QED
    BY <1>3, <1>4 DEF MemberInv

LEMMA ArriveHolds ==
    ASSUME MemberInv, NEW c \in MemberCalls, NEW u \in Users, Arrive(c, u)
    PROVE  MemberInv'
  <1>1. PICK d \in Defaults : MMove(c, MemberCall("seen", u, Absent, Seen(registry, u, d), Nil, Nil))
    BY DEF Arrive
  <1> DEFINE next == Seen(registry, u, d)
             s    == MemberCall("seen", u, Absent, next, Nil, Nil)
  <1>2. d \in Roles /\ registry \in Registries /\ Good(registry) /\ Owners(registry) \subseteq crowned
    BY MembersAssumption DEF MemberInv, SharedInv, Roles
  <1>3. crowned' = crowned \cup (IF NoMembers(registry) THEN {u} ELSE {})
    BY DEF Arrive
  <1>4. /\ next \in Registries /\ Owners(next) # {}
        /\ Owners(next) \subseteq crowned'
    BY <1>2, <1>3, RegistryTypes, SeenOwners
  <1>5. s.pc = "seen" /\ s.user = u /\ s.next = next /\ s.promise = Nil
    BY CallFields
  <1>6. s \in MemberCallType
    BY <1>4, CallTypes
  <1>7. MMove(c, s)
    BY <1>1
  <1> HIDE DEF next, s
  <1>8. registry' = registry /\ crowned \subseteq crowned' /\ crowned' \subseteq Users
    BY <1>3 DEF Arrive, MemberInv, SharedInv
  <1>9. CallInv(s, registry', crowned')
    BY <1>4, <1>5 DEF CallInv
  <1>10. CallsInv'
    BY <1>6, <1>7, <1>8, <1>9, Moved DEF MemberInv
  <1>11. SharedInv'
    BY <1>8 DEF Arrive, MemberInv, SharedInv, Rightful
  <1> QED
    BY <1>10, <1>11 DEF MemberInv

LEMMA RecordedHolds ==
    ASSUME MemberInv, NEW c \in MemberCalls, Recorded(c)
    PROVE  MemberInv'
  <1> DEFINE m == mcall[c]
             s == Entered(m.user, m.next[m.user])
  <1>1. /\ m.pc = "seen" /\ m.user \in Users
        /\ m.next \in Registries /\ Owners(m.next) # {} /\ Owners(m.next) \subseteq crowned
    BY CallHolds, MembersAssumption DEF Recorded, MAt, CallInv, Registries
  <1>2. m.next[m.user] \in Roles \cup {Absent}
    BY <1>1 DEF Registries
  <1>3. s \in MemberCallType /\ s.pc = "authed" /\ s.next = Nil /\ s.promise = Nil
    BY <1>1, <1>2, EnteredCall
  <1>4. MMove(c, s) /\ registry' = m.next /\ UNCHANGED <<invitations, drawn, lapsed, crowned, outcomes>>
    BY DEF Recorded
  <1> HIDE DEF m, s
  <1>5. CallInv(s, registry', crowned')
    BY <1>1, <1>3, <1>4 DEF CallInv
  <1>6. CallsInv'
    BY <1>1, <1>3, <1>4, <1>5, Moved DEF MemberInv
  <1>7. SharedInv'
    BY <1>1, <1>4 DEF MemberInv, SharedInv, Good, Rightful, Owners, NoMembers
  <1> QED
    BY <1>6, <1>7 DEF MemberInv

LEMMA ArriveByKeyHolds ==
    ASSUME MemberInv, NEW c \in MemberCalls, NEW u \in Users \cup {Nil}, NEW role \in Roles,
           ArriveByKey(c, u, role)
    PROVE  MemberInv'
  <1> DEFINE s == Entered(u, role)
  <1>1. s \in MemberCallType /\ s.pc = "authed" /\ s.next = Nil /\ s.promise = Nil
    BY EnteredCall
  <1>2. MMove(c, s) /\ UNCHANGED <<registry, invitations, drawn, lapsed, crowned, outcomes>>
    BY DEF ArriveByKey
  <1>3. Owners(registry) # {}
    BY DEF ArriveByKey, MemberInv, SharedInv, Good
  <1> HIDE DEF s
  <1>4. CallInv(s, registry', crowned')
    BY <1>1, <1>2, <1>3 DEF CallInv
  <1>5. CallsInv'
    BY <1>1, <1>2, <1>4, Moved DEF MemberInv
  <1>6. SharedInv'
    BY <1>2 DEF MemberInv, SharedInv, Good, Rightful, Owners, NoMembers
  <1> QED
    BY <1>5, <1>6 DEF MemberInv

\* The steps that only read the files.
LEMMA OnlyRead ==
    ASSUME MemberInv, registry' = registry, invitations' = invitations, outcomes' = outcomes,
           drawn' \subseteq Invites, lapsed' \subseteq Invites,
           crowned \subseteq crowned', crowned' \subseteq Users
    PROVE  SharedInv'
  BY DEF MemberInv, SharedInv, Rightful

LEMMA Crowned ==
    ASSUME MemberInv, NEW u \in Users, NEW role, NEW actor, Crowns(u, role, actor)
    PROVE  /\ crowned \subseteq crowned' /\ crowned' \subseteq Users
           /\ role = "owner" /\ actor = "owner" => u \in crowned'
  BY DEF Crowns, MemberInv, SharedInv

LEMMA InviteHolds ==
    ASSUME MemberInv, NEW c \in MemberCalls, NEW u \in Users, NEW role \in GivenRoles, Invite(c, u, role)
    PROVE  MemberInv'
  <1> DEFINE next == Invited(registry, u, role)
  <1>1. /\ mcall[c].pc = "authed" /\ Crowns(u, role, mcall[c].role) /\ WillWrite(c, next, Nil)
        /\ role = "owner" => mcall[c].role = "owner"
        /\ UNCHANGED <<registry, invitations, drawn, lapsed, outcomes>>
    BY DEF Invite, MAt
  <1>2. role \in Roles
    BY MembersAssumption
  <1>3. /\ crowned \subseteq crowned' /\ crowned' \subseteq Users
        /\ role = "owner" => u \in crowned'
    BY <1>1, Crowned
  <1>4. /\ Owners(registry) # {} /\ registry \in Registries
        /\ Owners(registry) \subseteq crowned
    BY <1>1, PastArrival
  <1>5. next \in Registries /\ Owners(next) # {} /\ Owners(next) \subseteq crowned'
    BY <1>2, <1>3, <1>4, InvitedOwners, RegistryTypes
  <1> HIDE DEF next
  <1>6. CallsInv'
    BY <1>1, <1>3, <1>4, <1>5, AboutToWrite
  <1>7. SharedInv'
    BY <1>1, <1>3, OnlyRead DEF MemberInv, SharedInv
  <1> QED
    BY <1>6, <1>7 DEF MemberInv

LEMMA ChangeRoleHolds ==
    ASSUME MemberInv, NEW c \in MemberCalls, NEW u \in Users, NEW role \in GivenRoles,
           ChangeRole(c, u, role)
    PROVE  MemberInv'
  <1> DEFINE next == Assigned(registry, u, role)
  <1>1. /\ mcall[c].pc = "authed" /\ Crowns(u, role, mcall[c].role) /\ WillWrite(c, next, Nil)
        /\ MayAssign(registry, u, role, mcall[c].role)
        /\ UNCHANGED <<registry, invitations, drawn, lapsed, outcomes>>
    BY DEF ChangeRole, MAt
  <1>2. role \in Roles
    BY MembersAssumption
  <1>3. /\ Owners(registry) # {} /\ registry \in Registries
        /\ Owners(registry) \subseteq crowned /\ mcall[c].role \in Roles \cup {Absent}
    BY <1>1, PastArrival
  <1>4. /\ Owners(next) # {} /\ Owners(next) \subseteq Owners(registry) \cup {u}
        /\ role # "owner" => Owners(next) \subseteq Owners(registry)
        /\ role = "owner" => mcall[c].role = "owner"
    BY <1>1, <1>2, <1>3, AssignedOwners
  <1>5. /\ crowned \subseteq crowned' /\ crowned' \subseteq Users
        /\ role = "owner" => u \in crowned'
    BY <1>1, <1>4, Crowned
  <1>6. next \in Registries /\ Owners(next) # {} /\ Owners(next) \subseteq crowned'
    BY <1>2, <1>3, <1>4, <1>5, RegistryTypes
  <1> HIDE DEF next
  <1>7. CallsInv'
    BY <1>1, <1>3, <1>5, <1>6, AboutToWrite
  <1>8. SharedInv'
    BY <1>1, <1>5, OnlyRead DEF MemberInv, SharedInv
  <1> QED
    BY <1>7, <1>8 DEF MemberInv

LEMMA RemoveMemberHolds ==
    ASSUME MemberInv, NEW c \in MemberCalls, NEW u \in Users, RemoveMember(c, u)
    PROVE  MemberInv'
  <1> DEFINE next == Removed(registry, u)
  <1>1. /\ mcall[c].pc = "authed" /\ WillWrite(c, next, Nil)
        /\ MayRemove(registry, u, mcall[c].role)
        /\ UNCHANGED <<registry, invitations, drawn, lapsed, crowned, outcomes>>
    BY DEF RemoveMember, MAt
  <1>2. /\ Owners(registry) # {} /\ registry \in Registries
        /\ Owners(registry) \subseteq crowned
    BY <1>1, PastArrival
  <1>3. Owners(next) # {} /\ Owners(next) \subseteq Owners(registry)
    BY <1>1, <1>2, RemovedOwners
  <1>4. next \in Registries
    BY <1>2 DEF Registries, Removed, Absent
  <1> HIDE DEF next
  <1>5. CallsInv'
    BY <1>1, <1>2, <1>3, <1>4, AboutToWrite
  <1>6. SharedInv'
    BY <1>1, OnlyRead DEF MemberInv, SharedInv
  <1> QED
    BY <1>5, <1>6 DEF MemberInv

LEMMA MintInviteHolds ==
    ASSUME MemberInv, NEW c \in MemberCalls, NEW i \in Invites, NEW u \in Users,
           NEW role \in GivenRoles, MintInvite(c, i, u, role)
    PROVE  MemberInv'
  <1> DEFINE invs == [invitations EXCEPT ![i] = Invitation(u, role, "pending")]
  <1>1. /\ mcall[c].pc = "authed" /\ Crowns(u, role, mcall[c].role) /\ WillMark(c, invs, Nil)
        /\ CanMint(mcall[c].role, role) /\ drawn' = drawn \cup {i}
        /\ UNCHANGED <<registry, invitations, lapsed, outcomes>>
    BY DEF MintInvite, MAt
  <1>2. role \in Roles /\ (role = "owner" => mcall[c].role = "owner")
    BY <1>1, MembersAssumption DEF CanMint
  <1>3. /\ crowned \subseteq crowned' /\ crowned' \subseteq Users
        /\ role = "owner" => u \in crowned'
    BY <1>1, <1>2, Crowned
  <1>4. invitations \in InvitationFiles /\ Rightful(invitations, crowned')
    BY <1>3 DEF MemberInv, SharedInv, Rightful
  <1>5. invs \in InvitationFiles /\ Rightful(invs, crowned')
    BY <1>2, <1>3, <1>4, MintedIsRightful
  <1> HIDE DEF invs
  <1>6. Owners(registry) # {}
    BY <1>1, PastArrival
  <1>7. CallsInv'
    BY <1>1, <1>3, <1>5, <1>6, AboutToMark
  <1>8. SharedInv'
    BY <1>1, <1>3, OnlyRead DEF MemberInv, SharedInv
  <1> QED
    BY <1>7, <1>8 DEF MemberInv

LEMMA MarkHolds ==
    ASSUME MemberInv, NEW c \in MemberCalls, NEW i \in Invites,
           WithdrawInvite(c, i) \/ AcceptInvite(c, i)
    PROVE  MemberInv'
  <1> DEFINE invs(st) == WithStatus(invitations, i, st)
  <1>1. /\ mcall[c].pc = "authed" /\ invitations[i] # Nil
        /\ UNCHANGED <<registry, invitations, drawn, lapsed, crowned, outcomes>>
    BY DEF WithdrawInvite, AcceptInvite, MAt, Pending
  <1>2. invitations \in InvitationFiles /\ Rightful(invitations, crowned)
    BY DEF MemberInv, SharedInv
  <1>3. /\ invitations[i].user \in Users /\ invitations[i].role \in Roles
        /\ invitations[i].role = "owner" => invitations[i].user \in crowned
    BY <1>1, <1>2, InvitationFields DEF Rightful
  <1>4. \A st \in {"accepted", "revoked"} :
           invs(st) \in InvitationFiles /\ Rightful(invs(st), crowned')
    BY <1>1, <1>2, StatusKeepsRights
  <1>5. Owners(registry) # {}
    BY <1>1, PastArrival
  <1>6. SharedInv'
    BY <1>1, OnlyRead DEF MemberInv, SharedInv
  <1>7. ASSUME WithdrawInvite(c, i)
        PROVE  CallsInv'
    <2>1. WillMark(c, invs("revoked"), Nil)
      BY <1>7 DEF WithdrawInvite
    <2> HIDE DEF invs
    <2> QED
      BY <1>1, <1>4, <1>5, <2>1, AboutToMark
  <1>8. ASSUME AcceptInvite(c, i)
        PROVE  CallsInv'
    <2>1. /\ WillMark(c, invs("accepted"), invitations[i].role)
          /\ invitations[i].user = mcall[c].user
      BY <1>8 DEF AcceptInvite
    <2> HIDE DEF invs
    <2> QED
      BY <1>1, <1>3, <1>4, <1>5, <2>1, AboutToMark
  <1> QED
    BY <1>6, <1>7, <1>8 DEF MemberInv

LEMMA WriteInvitesHolds ==
    ASSUME MemberInv, NEW c \in MemberCalls, WriteInvites(c)
    PROVE  MemberInv'
  <1> DEFINE m == mcall[c]
             bind == MemberCall("bind", m.user, m.role, Nil, Nil, m.promise)
             s == IF m.promise = Nil THEN NoCall ELSE bind
  <1>1. /\ m.pc = "mark" /\ invitations' = m.invs
        /\ UNCHANGED <<registry, drawn, lapsed, crowned, outcomes>>
    BY DEF WriteInvites, MAt
  <1>2. MMove(c, s)
    BY DEF WriteInvites
  <1>3. m \in MemberCallType /\ CallInv(m, registry, crowned)
    BY CallHolds
  <1>4. /\ m.invs \in InvitationFiles /\ Rightful(m.invs, crowned) /\ Owners(registry) # {}
        /\ m.promise # Nil => m.user \in Users /\ (m.promise = "owner" => m.user \in crowned)
    BY <1>1, <1>3 DEF CallInv
  <1>5. m.user \in Users \cup {Nil} /\ m.role \in Roles \cup {Absent} /\ m.promise \in Roles \cup {Nil}
    BY <1>3 DEF MemberCallType
  <1>6. /\ bind \in MemberCallType
        /\ bind.pc = "bind" /\ bind.user = m.user /\ bind.next = Nil /\ bind.promise = m.promise
    <2> HIDE DEF m
    <2>1. bind \in MemberCallType
      BY <1>5, CallTypes
    <2> QED
      BY <2>1, CallFields
  <1>7. s \in MemberCallType
    BY <1>6, IdleCall
  <1>8. CallInv(s, registry, crowned)
    <2>1. CASE m.promise = Nil
      BY <2>1, IdleCall
    <2>2. CASE m.promise # Nil
      <3>1. s = bind
        BY <2>2
      <3> HIDE DEF bind, s, m
      <3> QED
        BY <1>4, <1>6, <2>2, <3>1 DEF CallInv
    <2> QED
      BY <2>1, <2>2
  <1> HIDE DEF m, bind, s
  <1>9. CallsInv'
    BY <1>1, <1>2, <1>7, <1>8, Moved DEF MemberInv
  <1>10. SharedInv'
    BY <1>1, <1>4 DEF MemberInv, SharedInv
  <1> QED
    BY <1>9, <1>10 DEF MemberInv

LEMMA BindHolds ==
    ASSUME MemberInv, NEW c \in MemberCalls, Bind(c)
    PROVE  MemberInv'
  <1> DEFINE m == mcall[c]
             next == Invited(registry, m.user, m.promise)
  <1>1. /\ m.pc = "bind" /\ WillWrite(c, next, m.promise)
        /\ UNCHANGED <<registry, invitations, drawn, lapsed, crowned, outcomes>>
    BY DEF Bind, MAt
  <1>2. m \in MemberCallType /\ CallInv(m, registry, crowned)
    BY CallHolds
  <1>3. /\ m.user \in Users /\ m.promise \in Roles
        /\ m.promise = "owner" => m.user \in crowned
    BY <1>1, <1>2 DEF CallInv, MemberCallType
  <1>4. /\ Owners(registry) # {} /\ registry \in Registries
        /\ Owners(registry) \subseteq crowned
    BY <1>1, PastArrival
  <1>5. next \in Registries /\ Owners(next) # {} /\ Owners(next) \subseteq crowned
    <2> HIDE DEF m
    <2>1. next \in Registries
      BY <1>3, <1>4, RegistryTypes
    <2>2. /\ Owners(next) # {} /\ Owners(next) \subseteq Owners(registry) \cup {m.user}
          /\ m.promise # "owner" => Owners(next) \subseteq Owners(registry)
      BY <1>3, <1>4, InvitedOwners
    <2> HIDE DEF next
    <2> QED
      BY <1>3, <1>4, <2>1, <2>2
  <1> HIDE DEF next
  <1>6. CallsInv'
    BY <1>1, <1>3, <1>4, <1>5, AboutToWrite
  <1>7. SharedInv'
    BY <1>1, OnlyRead DEF MemberInv, SharedInv
  <1> QED
    BY <1>6, <1>7 DEF MemberInv

LEMMA WriteRegistryHolds ==
    ASSUME MemberInv, NEW c \in MemberCalls, WriteRegistry(c)
    PROVE  MemberInv'
  <1> DEFINE m == mcall[c]
  <1>1. /\ m.pc = "write" /\ registry' = m.next /\ MMove(c, NoCall)
        /\ outcomes' = IF m.promise = Nil THEN outcomes
                       ELSE outcomes \cup {<<m.promise, m.next[m.user]>>}
        /\ UNCHANGED <<invitations, drawn, lapsed, crowned>>
    BY DEF WriteRegistry, MAt
  <1>2. m \in MemberCallType /\ CallInv(m, registry, crowned)
    BY CallHolds
  <1> HIDE DEF m
  <1>3. /\ m.next \in Registries /\ Owners(m.next) # {} /\ Owners(m.next) \subseteq crowned
        /\ m.promise # Nil => m.user \in Users
        /\ m.promise \in Roles \cup {Nil}
    BY <1>1, <1>2, MembersAssumption DEF CallInv, MemberCallType, Registries
  <1>4. CallsInv'
    BY <1>1, <1>3, IdleCall, Moved DEF MemberInv
  <1>5. outcomes' \subseteq Roles \X (Roles \cup {Absent})
    <2>1. CASE m.promise = Nil
      BY <1>1, <2>1 DEF MemberInv, SharedInv
    <2>2. CASE m.promise # Nil
      <3>1. m.promise \in Roles /\ m.next[m.user] \in Roles \cup {Absent}
        BY <1>3, <2>2 DEF Registries
      <3> QED
        BY <1>1, <2>2, <3>1 DEF MemberInv, SharedInv
    <2> QED
      BY <2>1, <2>2
  <1>6. SharedInv'
    BY <1>1, <1>3, <1>5 DEF MemberInv, SharedInv, Good
  <1> QED
    BY <1>4, <1>6 DEF MemberInv

\* A request that ends, and a restart that ends them all.
LEMMA EndsHold ==
    ASSUME MemberInv, (\E c \in MemberCalls : Leave(c)) \/ Restart
    PROVE  MemberInv'
  <1>1. UNCHANGED <<registry, invitations, drawn, lapsed, crowned, outcomes>>
    BY DEF Leave, Restart
  <1>2. SharedInv'
    BY <1>1, OnlyRead DEF MemberInv, SharedInv
  <1>3. ASSUME NEW c \in MemberCalls, Leave(c)
        PROVE  CallsInv'
    <2>1. MMove(c, NoCall)
      BY <1>3 DEF Leave
    <2> QED
      BY <1>1, <2>1, IdleCall, Moved DEF MemberInv
  <1>4. ASSUME Restart
        PROVE  CallsInv'
    <2>1. mcall' = [c \in MemberCalls |-> NoCall]
      BY <1>4 DEF Restart
    <2> QED
      BY <2>1, IdleCall DEF CallsInv
  <1> QED
    BY <1>2, <1>3, <1>4 DEF MemberInv

LEMMA LapseHolds ==
    ASSUME MemberInv, NEW i \in Invites, Lapse(i)
    PROVE  MemberInv'
  <1>1. lapsed' = lapsed \cup {i} /\ UNCHANGED <<registry, invitations, drawn, mcall, crowned, outcomes>>
    BY DEF Lapse
  <1>2. SharedInv'
    BY <1>1, OnlyRead DEF MemberInv, SharedInv
  <1>3. CallsInv'
    BY <1>1 DEF MemberInv, CallsInv
  <1> QED
    BY <1>2, <1>3 DEF MemberInv

LEMMA RouteHolds ==
    ASSUME MemberInv, NEW c \in MemberCalls, Route(c)
    PROVE  MemberInv'
  BY RemoveMemberHolds, InviteHolds, ChangeRoleHolds, MintInviteHolds, MarkHolds,
     WriteInvitesHolds, BindHolds, WriteRegistryHolds, EndsHold DEF Route

LEMMA MemberStepHolds == MemberInv /\ [MemberNext]_memberVars => MemberInv'
  <1> SUFFICES ASSUME MemberInv, [MemberNext]_memberVars PROVE MemberInv'
    OBVIOUS
  <1>1. CASE UNCHANGED memberVars
    <2>1. UNCHANGED <<registry, invitations, drawn, lapsed, mcall, crowned, outcomes>>
      BY <1>1 DEF memberVars
    <2> QED
      BY <2>1, OnlyRead DEF MemberInv, SharedInv, CallsInv
  <1>2. ASSUME NEW c \in MemberCalls, ArriveByToken(c)
        PROVE  MemberInv'
    <2>1. ArriveByKey(c, Nil, "owner")
      BY <1>2 DEF ArriveByToken
    <2> QED
      BY <2>1, ArriveByKeyHolds DEF Roles
  <1>3. ASSUME NEW c \in MemberCalls, NEW u \in Users, NEW role \in KeyRoles,
               ArriveByKey(c, u, role)
        PROVE  MemberInv'
    <2>1. role \in Roles
      BY MembersAssumption DEF Roles
    <2> QED
      BY <1>3, <2>1, ArriveByKeyHolds
  <1> QED
    BY <1>1, <1>2, <1>3, ArriveHolds, RecordedHolds, RouteHolds, LapseHolds, EndsHold
       DEF MemberNext

LEMMA MemberInvHolds == MemberSpec => []MemberInv
  BY MemberInitHolds, MemberStepHolds, PTL DEF MemberSpec

-----------------------------------------------------------------------------
(* What the invariant is for *)

\* Every variable of members.ts and invitations.ts keeps its type.
THEOREM MemberTypesHold == MemberSpec => []MemberTypeOK
  <1>1. MemberInv => MemberTypeOK
    BY DEF MemberInv, SharedInv, CallsInv, MemberTypeOK
  <1> QED
    BY <1>1, MemberInvHolds, PTL

LEMMA VersionsAreSound ==
    ASSUME MemberInv, NEW g \in Versions
    PROVE  Good(g) /\ Owners(g) \subseteq crowned
  <1>1. CASE g = registry
    BY <1>1 DEF MemberInv, SharedInv
  <1>2. CASE \E c \in MemberCalls : mcall[c].next # Nil /\ g = mcall[c].next
    BY <1>2, CallHolds DEF CallInv, Good
  <1> QED
    BY <1>1, <1>2 DEF Versions

\* Once somebody has signed in there is always an owner, however many requests
\* overlap and whichever of them writes last.
THEOREM ThereIsAlwaysAnOwner == MemberSpec => []AlwaysAnOwner
  <1>1. MemberInv => AlwaysAnOwner
    BY VersionsAreSound DEF AlwaysAnOwner, Good
  <1> QED
    BY <1>1, MemberInvHolds, PTL

\* Nobody becomes an owner but the first user and those an owner's call names,
\* through invitations and lost updates too.
THEOREM OnlyOwnersMakeOwners == MemberSpec => []OwnersMadeByOwners
  <1>1. MemberInv => OwnersMadeByOwners
    BY VersionsAreSound DEF OwnersMadeByOwners
  <1> QED
    BY <1>1, MemberInvHolds, PTL

-----------------------------------------------------------------------------
(* API keys: EndedSecretsFail.  A secret that is over stays over in every  *)
(* array made from one in which it is, so all that can bring it back is an *)
(* array read before; and such a save is what keysLost records.            *)

Times == 0..(Never + Grace)

\* From t on the record accepts secret g no more.
OverIn(r, g, t) == r # Nil /\ (r.revoked \/ (r.gen > g /\ (r.old = g => r.oldUntil <= t)))
KeepsOver(r, q) == \A g \in 1..MaxGen, t \in Times : OverIn(r, g, t) => OverIn(q, g, t)
Keeps(a, b) == \A k \in Keys : KeepsOver(a[k], b[k])
EndsAll(a, over, t) ==
    \A k \in Keys, g \in 1..MaxGen : <<k, g>> \in over => OverIn(a[k], g, t)
Unissued(a, ids) == \A k \in ids : a[k] = Nil

SaverType == [pc : {"idle", "save", "fill"}, array : Arrays \cup {Nil},
              over : SUBSET SecretsOf(Keys), at : Times, stale : BOOLEAN]

\* A save in hand, given the array on file.
SaverInv(v, file, ids) ==
    v.pc # "idle" =>
        /\ v.array \in Arrays
        /\ v.at # Never + Grace
        /\ Unissued(v.array, ids)
        /\ EndsAll(v.array, v.over, v.at)
        /\ ~v.stale => Keeps(file, v.array)

SaversInv ==
    /\ saver \in [Savers -> SaverType]
    /\ \A s \in Savers : SaverInv(saver[s], keys, keyIds)

FileInv ==
    /\ clock \in 0..MaxClock
    /\ keys \in Arrays
    /\ keyFile \in {"whole", "empty", "garbled"}
    /\ keyIds \subseteq Keys /\ Unissued(keys, keyIds)
    /\ ends \in [SecretsOf(Keys) -> Times]
    /\ keysLost \in BOOLEAN
    /\ ~keysLost => \A k \in Keys, g \in 1..MaxGen :
          ends[<<k, g>>] # Never + Grace => OverIn(keys[k], g, ends[<<k, g>>])

KeyInv == FileInv /\ SaversInv

LEMMA ClockBounds ==
    /\ MaxClock \in Nat /\ Grace \in Nat /\ Ttl \in Nat /\ MaxGen \in Nat \ {0}
    /\ Never \in Nat /\ Never = MaxClock + 1
    /\ \A t \in 0..MaxClock :
          /\ t \in Nat /\ t < Never
          /\ t \in Times /\ t # Never + Grace
          /\ t + Grace \in Times /\ t + Grace # Never + Grace
          /\ t + Ttl \in 0..(Never + Ttl)
  BY ClockAssumption, KeysAssumption DEF Never, Times

LEMMA KeyFields ==
    ASSUME NEW a \in Arrays, NEW k \in Keys, a[k] # Nil
    PROVE  /\ a[k] \in KeyType
           /\ a[k].user \in Users /\ a[k].gen \in 1..MaxGen /\ a[k].old \in 0..MaxGen
           /\ a[k].oldUntil \in Times /\ a[k].revoked \in BOOLEAN
           /\ a[k].from \in 0..MaxClock /\ a[k].until \in 0..(Never + Ttl)
  <1>1. a[k] \in KeyType
    BY DEF Arrays
  <1> QED
    BY <1>1 DEF KeyType, Times

-----------------------------------------------------------------------------
(* What the functions of api-keys.ts make of a record *)

LEMMA NewKeyHolds ==
    ASSUME NEW u \in Users, NEW from \in 0..MaxClock, NEW until \in 0..(Never + Ttl)
    PROVE  Key(u, 1, 0, 0, FALSE, from, until) \in KeyType
  BY ClockBounds DEF Key, KeyType

LEMMA RevokedHolds ==
    ASSUME NEW r \in KeyType
    PROVE  /\ Revoked(r) \in KeyType
           /\ KeepsOver(r, Revoked(r))
           /\ \A g, t : OverIn(Revoked(r), g, t)
           /\ Revoked(r).revoked /\ Revoked(r).user = r.user
  <1>1. Revoked(r) \in KeyType /\ Revoked(r).revoked = TRUE /\ Revoked(r).user = r.user
    BY DEF Revoked, KeyType
  <1>2. Revoked(r) # Nil
    BY <1>1, NoKeyAssumption
  <1> QED
    BY <1>1, <1>2 DEF OverIn, KeepsOver

LEMMA RotatedHolds ==
    ASSUME NEW r \in KeyType, r.gen < MaxGen, clock \in 0..MaxClock
    PROVE  /\ Rotated(r) \in KeyType
           /\ KeepsOver(r, Rotated(r))
           /\ OverIn(Rotated(r), r.gen, clock + Grace)
           /\ Rotated(r).user = r.user /\ Rotated(r).revoked = r.revoked
  <1>1. /\ r.gen \in 1..MaxGen /\ r.old \in 0..MaxGen /\ r.revoked \in BOOLEAN
        /\ clock + Grace \in 0..(Never + Grace) /\ MaxGen \in Nat
    BY ClockBounds DEF KeyType, Times
  <1>2. /\ Rotated(r).gen = r.gen + 1
        /\ Rotated(r).old = (IF Grace > 0 THEN r.gen ELSE 0)
        /\ Rotated(r).oldUntil = clock + Grace
        /\ Rotated(r).revoked = r.revoked /\ Rotated(r).user = r.user
    BY DEF Rotated, KeyType
  <1>3. r.gen + 1 \in 1..MaxGen /\ (IF Grace > 0 THEN r.gen ELSE 0) \in 0..MaxGen
    BY <1>1
  <1>4. Rotated(r) \in KeyType
    BY <1>1, <1>3 DEF Rotated, KeyType
  <1>5. Rotated(r) # Nil
    BY <1>4, NoKeyAssumption
  <1>6. OverIn(Rotated(r), r.gen, clock + Grace)
    BY <1>1, <1>2, <1>5, ClockBounds DEF OverIn
  <1>7. ASSUME NEW g \in 1..MaxGen, NEW t \in Times, OverIn(r, g, t)
        PROVE  OverIn(Rotated(r), g, t)
    <2>1. CASE r.revoked
      BY <1>2, <1>5, <2>1 DEF OverIn
    <2>2. CASE ~r.revoked
      <3>1. r.gen > g
        BY <1>7, <2>2 DEF OverIn
      <3>2. r.gen + 1 > g /\ (IF Grace > 0 THEN r.gen ELSE 0) # g
        BY <1>1, <3>1
      <3> QED
        BY <1>2, <1>5, <3>2 DEF OverIn
    <2> QED
      BY <2>1, <2>2
  <1> QED
    BY <1>2, <1>4, <1>6, <1>7 DEF KeepsOver

LEMMA ScheduledHolds ==
    ASSUME NEW r \in KeyType, NEW from \in 0..MaxClock
    PROVE  /\ [r EXCEPT !.from = from] \in KeyType
           /\ KeepsOver(r, [r EXCEPT !.from = from])
           /\ [r EXCEPT !.from = from].user = r.user
           /\ [r EXCEPT !.from = from].revoked = r.revoked
  <1> DEFINE q == [r EXCEPT !.from = from]
  <1>1. /\ q \in KeyType
        /\ q.gen = r.gen /\ q.old = r.old /\ q.oldUntil = r.oldUntil /\ q.revoked = r.revoked
        /\ q.user = r.user
    BY DEF KeyType
  <1>2. q # Nil
    BY <1>1, NoKeyAssumption
  <1> HIDE DEF q
  <1>3. KeepsOver(r, q)
    BY <1>1, <1>2 DEF OverIn, KeepsOver
  <1> QED
    BY <1>1, <1>3 DEF q

\* Only the record of k changes.
LEMMA OneKeyChanges ==
    ASSUME NEW a \in Arrays, NEW k \in Keys, NEW r \in KeyType, KeepsOver(a[k], r),
           NEW ids, Unissued(a, ids), k \notin ids, ids \subseteq Keys
    PROVE  /\ [a EXCEPT ![k] = r] \in Arrays
           /\ [a EXCEPT ![k] = r][k] = r
           /\ \A j \in Keys \ {k} : [a EXCEPT ![k] = r][j] = a[j]
           /\ Keeps(a, [a EXCEPT ![k] = r])
           /\ Unissued([a EXCEPT ![k] = r], ids)
  <1>1. /\ [a EXCEPT ![k] = r] \in Arrays
        /\ [a EXCEPT ![k] = r][k] = r
        /\ \A j \in Keys \ {k} : [a EXCEPT ![k] = r][j] = a[j]
    BY DEF Arrays
  <1> QED
    BY <1>1 DEF Keeps, KeepsOver, Unissued

LEMMA SweptHolds ==
    ASSUME NEW u \in Users, keys \in Arrays, keyIds \subseteq Keys, Unissued(keys, keyIds)
    PROVE  /\ SweptKeys(u) \in Arrays
           /\ Keeps(keys, SweptKeys(u))
           /\ Unissued(SweptKeys(u), keyIds)
           /\ \A k \in OwnKeys(u) : \A g, t : OverIn(SweptKeys(u)[k], g, t)
           /\ \A k \in Keys : SweptKeys(u)[k] # Nil /\ SweptKeys(u)[k].user = u =>
                 SweptKeys(u)[k].revoked
  <1>1. ASSUME NEW k \in Keys
        PROVE  /\ SweptKeys(u)[k] \in KeyType \cup {Nil}
               /\ KeepsOver(keys[k], SweptKeys(u)[k])
               /\ keys[k] = Nil => SweptKeys(u)[k] = Nil
               /\ k \in OwnKeys(u) => \A g, t : OverIn(SweptKeys(u)[k], g, t)
               /\ SweptKeys(u)[k] # Nil /\ SweptKeys(u)[k].user = u => SweptKeys(u)[k].revoked
    <2>1. CASE k \in OwnKeys(u)
      <3>1. keys[k] # Nil /\ SweptKeys(u)[k] = Revoked(keys[k])
        BY <2>1 DEF OwnKeys, SweptKeys
      <3> QED
        BY <3>1, KeyFields, RevokedHolds
    <2>2. CASE k \notin OwnKeys(u)
      <3>1. SweptKeys(u)[k] = keys[k]
        BY <2>2 DEF SweptKeys
      <3>2. keys[k] # Nil /\ keys[k].user = u => keys[k].revoked
        BY <2>2 DEF OwnKeys
      <3> QED
        BY <2>2, <3>1, <3>2 DEF KeepsOver, Arrays
    <2> QED
      BY <2>1, <2>2
  <1>2. SweptKeys(u) \in Arrays
    BY <1>1 DEF SweptKeys, Arrays
  <1> QED
    BY <1>1, <1>2 DEF Keeps, Unissued, OwnKeys

-----------------------------------------------------------------------------
(* A call that goes on to save *)

LEMMA SaverTypes ==
    ASSUME NEW pc \in {"idle", "save", "fill"}, NEW array \in Arrays \cup {Nil},
           NEW over \in SUBSET SecretsOf(Keys), NEW at \in Times, NEW stale \in BOOLEAN
    PROVE  Saver(pc, array, over, at, stale) \in SaverType
  BY DEF Saver, SaverType

LEMMA NoSaveHolds ==
    ASSUME NEW file, NEW ids
    PROVE  NoSave \in SaverType /\ NoSave.pc = "idle" /\ SaverInv(NoSave, file, ids)
  <1>1. NoSave \in SaverType
    <2>1. 0 \in Times /\ {} \in SUBSET SecretsOf(Keys)
      BY ClockBounds DEF Times
    <2> QED
      BY <2>1 DEF NoSave, Saver, SaverType
  <1>2. NoSave.pc = "idle"
    BY DEF NoSave, Saver
  <1> QED
    BY <1>1, <1>2 DEF SaverInv

LEMMA SaveBegins ==
    ASSUME KeyInv, NEW s \in Savers, NEW array \in Arrays,
           NEW over \in SUBSET SecretsOf(Keys), NEW at \in Times, at # Never + Grace,
           keyIds' \subseteq keyIds, Unissued(array, keyIds'), EndsAll(array, over, at),
           Keeps(keys, array), WillSave(s, array, over, at),
           UNCHANGED <<clock, keys, keyFile, ends, keysLost>>
    PROVE  KeyInv'
  <1> DEFINE v == Saver("save", array, over, at, FALSE)
  <1>1. v \in SaverType
    BY SaverTypes
  <1>2. /\ v.pc = "save" /\ v.array = array /\ v.over = over /\ v.at = at /\ v.stale = FALSE
    BY DEF Saver
  <1>3. saver' = [saver EXCEPT ![s] = v]
    BY DEF WillSave
  <1> HIDE DEF v
  <1>4. SaverInv(v, keys, keyIds')
    BY <1>2 DEF SaverInv
  <1>5. ASSUME NEW t \in Savers
        PROVE  SaverInv(saver[t], keys, keyIds')
    BY <1>5 DEF KeyInv, SaversInv, SaverInv, Unissued
  <1>6. SaversInv'
    BY <1>1, <1>3, <1>4, <1>5 DEF KeyInv, SaversInv
  <1>7. FileInv'
    BY DEF KeyInv, FileInv, Unissued
  <1> QED
    BY <1>6, <1>7 DEF KeyInv

\* What every call reads.
LEMMA ReadKey ==
    ASSUME KeyInv, NEW k \in Keys, keys[k] # Nil
    PROVE  /\ clock \in 0..MaxClock /\ keys \in Arrays
           /\ keyIds \subseteq Keys /\ Unissued(keys, keyIds) /\ k \notin keyIds
           /\ keys[k] \in KeyType /\ keys[k].gen \in 1..MaxGen
  BY KeyFields DEF KeyInv, FileInv, Unissued

LEMMA IssueKeyHolds ==
    ASSUME KeyInv, NEW s \in Savers, NEW k \in Keys, NEW u \in Users, NEW from \in 0..MaxClock,
           IssueKey(s, k, u, from)
    PROVE  KeyInv'
  <1> DEFINE until == IF Ttl = 0 THEN Never ELSE clock + Ttl
             r     == Key(u, 1, 0, 0, FALSE, from, until)
  <1>1. /\ clock \in 0..MaxClock /\ keys \in Arrays /\ keyIds \subseteq Keys
        /\ Unissued(keys, keyIds) /\ k \in keyIds /\ keyIds' = keyIds \ {k}
        /\ keys[k] = Nil
    BY DEF KeyInv, FileInv, IssueKey, Unissued
  <1>2. until \in 0..(Never + Ttl)
    BY <1>1, ClockBounds
  <1>3. r \in KeyType
    BY <1>2, NewKeyHolds
  <1>4. WillSave(s, [keys EXCEPT ![k] = r], {}, 0)
    BY DEF IssueKey
  <1> HIDE DEF r, until
  <1>5. /\ k \notin keyIds' /\ Unissued(keys, keyIds') /\ keyIds' \subseteq Keys
        /\ KeepsOver(keys[k], r)
    BY <1>1 DEF Unissued, KeepsOver, OverIn
  <1>6. /\ [keys EXCEPT ![k] = r] \in Arrays /\ Keeps(keys, [keys EXCEPT ![k] = r])
        /\ Unissued([keys EXCEPT ![k] = r], keyIds')
    BY <1>1, <1>3, <1>5, OneKeyChanges
  <1>7. EndsAll([keys EXCEPT ![k] = r], {}, 0)
    BY DEF EndsAll
  <1>8. 0 \in Times /\ 0 # Never + Grace
    BY ClockBounds DEF Times
  <1>9. UNCHANGED <<clock, keys, keyFile, ends, keysLost>>
    BY DEF IssueKey
  <1> QED
    BY <1>1, <1>4, <1>6, <1>7, <1>8, <1>9, SaveBegins

\* A change to the one record of k.
LEMMA RecordChanges ==
    ASSUME KeyInv, NEW s \in Savers, NEW k \in Keys, keys[k] # Nil, NEW r \in KeyType,
           KeepsOver(keys[k], r), NEW over \in SUBSET SecretsOf(Keys), NEW at \in Times,
           at # Never + Grace,
           \A j \in Keys, g \in 1..MaxGen : <<j, g>> \in over => j = k /\ OverIn(r, g, at),
           WillSave(s, [keys EXCEPT ![k] = r], over, at),
           UNCHANGED <<clock, keys, keyFile, keyIds, ends, keysLost>>
    PROVE  KeyInv'
  <1> DEFINE array == [keys EXCEPT ![k] = r]
  <1>1. /\ array \in Arrays /\ array[k] = r
        /\ Keeps(keys, array) /\ Unissued(array, keyIds)
    BY ReadKey, OneKeyChanges
  <1>2. WillSave(s, array, over, at)
    OBVIOUS
  <1> HIDE DEF array
  <1>3. EndsAll(array, over, at)
    BY <1>1 DEF EndsAll
  <1>4. keyIds' = keyIds
    OBVIOUS
  <1> QED
    BY <1>1, <1>2, <1>3, <1>4, SaveBegins

LEMMA RevokeKeyHolds ==
    ASSUME KeyInv, NEW s \in Savers, NEW k \in Keys, RevokeKey(s, k)
    PROVE  KeyInv'
  <1>1. /\ keys[k] # Nil /\ WillSave(s, [keys EXCEPT ![k] = Revoked(keys[k])], SecretsOf({k}), clock)
        /\ UNCHANGED <<clock, keys, keyFile, keyIds, ends, keysLost>>
    BY DEF RevokeKey
  <1>2. /\ Revoked(keys[k]) \in KeyType /\ KeepsOver(keys[k], Revoked(keys[k]))
        /\ \A g, t : OverIn(Revoked(keys[k]), g, t)
    BY <1>1, ReadKey, RevokedHolds
  <1>3. /\ SecretsOf({k}) \subseteq SecretsOf(Keys)
        /\ \A j, g : <<j, g>> \in SecretsOf({k}) => j = k
    BY DEF SecretsOf
  <1>4. clock \in Times /\ clock # Never + Grace
    BY <1>1, ReadKey, ClockBounds
  <1> QED
    BY <1>1, <1>2, <1>3, <1>4, RecordChanges

LEMMA RotateKeyHolds ==
    ASSUME KeyInv, NEW s \in Savers, NEW k \in Keys, RotateKey(s, k)
    PROVE  KeyInv'
  <1>1. /\ keys[k] # Nil /\ keys[k].gen < MaxGen
        /\ WillSave(s, [keys EXCEPT ![k] = Rotated(keys[k])], {<<k, keys[k].gen>>}, clock + Grace)
        /\ UNCHANGED <<clock, keys, keyFile, keyIds, ends, keysLost>>
    BY DEF RotateKey, Live
  <1>2. /\ Rotated(keys[k]) \in KeyType /\ KeepsOver(keys[k], Rotated(keys[k]))
        /\ OverIn(Rotated(keys[k]), keys[k].gen, clock + Grace)
    BY <1>1, ReadKey, RotatedHolds
  <1>3. {<<k, keys[k].gen>>} \subseteq SecretsOf(Keys)
    BY <1>1, ReadKey DEF SecretsOf
  <1>4. clock + Grace \in Times /\ clock + Grace # Never + Grace
    BY <1>1, ReadKey, ClockBounds
  <1>5. \A j \in Keys, g \in 1..MaxGen : <<j, g>> \in {<<k, keys[k].gen>>} =>
           j = k /\ OverIn(Rotated(keys[k]), g, clock + Grace)
    BY <1>2
  <1> QED
    BY <1>1, <1>2, <1>3, <1>4, <1>5, RecordChanges

LEMMA ScheduleKeyHolds ==
    ASSUME KeyInv, NEW s \in Savers, NEW k \in Keys, NEW from \in 0..MaxClock,
           ScheduleKey(s, k, from)
    PROVE  KeyInv'
  <1> DEFINE r == [keys[k] EXCEPT !.from = from]
  <1>1. /\ keys[k] # Nil
        /\ WillSave(s, [keys EXCEPT ![k].from = from], {}, 0)
        /\ UNCHANGED <<clock, keys, keyFile, keyIds, ends, keysLost>>
    BY DEF ScheduleKey, Live
  <1>2. WillSave(s, [keys EXCEPT ![k] = r], {}, 0)
    BY <1>1
  <1>3. r \in KeyType /\ KeepsOver(keys[k], r)
    BY <1>1, ReadKey, ScheduledHolds
  <1> HIDE DEF r
  <1>4. 0 \in Times /\ 0 # Never + Grace
    BY ClockBounds DEF Times
  <1> QED
    BY <1>1, <1>2, <1>3, <1>4, RecordChanges

LEMMA SweepKeysHolds ==
    ASSUME KeyInv, NEW s \in Savers, NEW u \in Users, SweepKeys(s, u)
    PROVE  KeyInv'
  <1>1. /\ WillSave(s, SweptKeys(u), SecretsOf(OwnKeys(u)), clock)
        /\ UNCHANGED <<clock, keys, keyFile, keyIds, ends, keysLost>>
    BY DEF SweepKeys
  <1>2. clock \in 0..MaxClock /\ keys \in Arrays /\ keyIds \subseteq Keys /\ Unissued(keys, keyIds)
    BY DEF KeyInv, FileInv
  <1>3. /\ SweptKeys(u) \in Arrays /\ Keeps(keys, SweptKeys(u)) /\ Unissued(SweptKeys(u), keyIds)
        /\ \A k \in OwnKeys(u) : \A g, t : OverIn(SweptKeys(u)[k], g, t)
    BY <1>2, SweptHolds
  <1>4. SecretsOf(OwnKeys(u)) \subseteq SecretsOf(Keys)
    BY DEF SecretsOf, OwnKeys
  <1>5. EndsAll(SweptKeys(u), SecretsOf(OwnKeys(u)), clock)
    BY <1>3 DEF EndsAll, SecretsOf
  <1>6. clock \in Times /\ clock # Never + Grace
    BY <1>2, ClockBounds
  <1> QED
    BY <1>1, <1>3, <1>4, <1>5, <1>6, SaveBegins

LEMMA UseKeyHolds ==
    ASSUME KeyInv, NEW s \in Savers, NEW k \in Keys, NEW g \in 1..MaxGen, UseKey(s, k, g)
    PROVE  KeyInv'
  <1>1. WillSave(s, keys, {}, 0) /\ UNCHANGED <<clock, keys, keyFile, keyIds, ends, keysLost>>
    BY DEF UseKey
  <1>2. keys \in Arrays /\ Unissued(keys, keyIds)
    BY DEF KeyInv, FileInv
  <1>3. Keeps(keys, keys) /\ EndsAll(keys, {}, 0)
    BY DEF Keeps, KeepsOver, EndsAll
  <1>4. 0 \in Times /\ 0 # Never + Grace
    BY ClockBounds DEF Times
  <1> QED
    BY <1>1, <1>2, <1>3, <1>4, SaveBegins

-----------------------------------------------------------------------------
(* The save itself *)

LEMMA TruncateHolds ==
    ASSUME KeyInv, NEW s \in Savers, Truncate(s)
    PROVE  KeyInv'
  <1>1. /\ saver[s].pc = "save" /\ keyFile' = "empty"
        /\ saver' = [saver EXCEPT ![s].pc = "fill"]
        /\ UNCHANGED <<clock, keys, keyIds, ends, keysLost>>
    BY DEF Truncate, KAt
  <1> DEFINE v == [saver[s] EXCEPT !.pc = "fill"]
  <1>2. saver[s] \in SaverType /\ SaverInv(saver[s], keys, keyIds)
    BY DEF KeyInv, SaversInv
  <1>3. /\ v \in SaverType /\ v.pc = "fill" /\ v.array = saver[s].array
        /\ v.over = saver[s].over /\ v.at = saver[s].at /\ v.stale = saver[s].stale
    BY <1>2 DEF SaverType
  <1>4. saver' = [saver EXCEPT ![s] = v]
    BY <1>1
  <1> HIDE DEF v
  <1>5. SaverInv(v, keys, keyIds)
    BY <1>1, <1>2, <1>3 DEF SaverInv
  <1>6. SaversInv'
    BY <1>1, <1>3, <1>4, <1>5 DEF KeyInv, SaversInv
  <1>7. FileInv'
    BY <1>1 DEF KeyInv, FileInv
  <1> QED
    BY <1>6, <1>7 DEF KeyInv

\* Whatever another save has in hand is marked as read before, or reads the same.
LEMMA OthersAfterFill ==
    ASSUME KeyInv, NEW s \in Savers, Fill(s), NEW t \in Savers
    PROVE  saver'[t] \in SaverType /\ SaverInv(saver'[t], keys', keyIds)
  <1>1. saver' = AfterFill(s) /\ keys' = saver[s].array
    BY DEF Fill
  <1>2. saver[t] \in SaverType /\ SaverInv(saver[t], keys, keyIds)
    BY DEF KeyInv, SaversInv
  <1>3. CASE t = s
    BY <1>1, <1>3, NoSaveHolds DEF AfterFill
  <1>4. CASE t # s /\ (saver[t].pc = "idle" \/ saver[s].array = keys)
    <2>1. saver'[t] = saver[t]
      BY <1>1, <1>4 DEF AfterFill, KAt
    <2> QED
      BY <1>1, <1>2, <1>4, <2>1 DEF SaverInv
  <1>5. CASE t # s /\ saver[t].pc # "idle" /\ saver[s].array # keys
    <2> DEFINE v == Saver(saver[t].pc, saver[t].array, saver[t].over, saver[t].at, TRUE)
    <2>1. saver'[t] = v
      BY <1>1, <1>5 DEF AfterFill, KAt
    <2>2. v \in SaverType
      BY <1>2, SaverTypes DEF SaverType
    <2>3. /\ v.pc = saver[t].pc /\ v.array = saver[t].array /\ v.over = saver[t].over
          /\ v.at = saver[t].at /\ v.stale = TRUE
      BY DEF Saver
    <2> HIDE DEF v
    <2> QED
      BY <1>2, <1>5, <2>1, <2>2, <2>3 DEF SaverInv
  <1> QED
    BY <1>3, <1>4, <1>5

LEMMA FillHolds ==
    ASSUME KeyInv, NEW s \in Savers, Fill(s)
    PROVE  KeyInv'
  <1> DEFINE v == saver[s]
  <1>1. /\ v.pc = "fill" /\ keys' = v.array
        /\ keyFile' \in {"whole", "garbled"}
        /\ saver' = AfterFill(s)
        /\ keysLost' = (keysLost \/ (v.stale /\ v.array # keys))
        /\ UNCHANGED <<clock, keyIds>>
    BY DEF Fill, KAt
  <1>2. ends' = [x \in SecretsOf(Keys) |->
                    IF x \in v.over /\ v.at < ends[x] THEN v.at ELSE ends[x]]
    BY DEF Fill
  <1>3. v \in SaverType /\ SaverInv(v, keys, keyIds)
    BY DEF KeyInv, SaversInv
  <1> HIDE DEF v
  <1>4. /\ v.array \in Arrays /\ v.at \in Times /\ v.at # Never + Grace
        /\ Unissued(v.array, keyIds) /\ EndsAll(v.array, v.over, v.at)
        /\ ~v.stale => Keeps(keys, v.array)
        /\ v.stale \in BOOLEAN
    BY <1>1, <1>3 DEF SaverInv, SaverType
  <1>5. ends' \in [SecretsOf(Keys) -> Times]
    BY <1>2, <1>4 DEF KeyInv, FileInv
  <1>6. ASSUME ~keysLost', NEW k \in Keys, NEW g \in 1..MaxGen, ends'[<<k, g>>] # Never + Grace
        PROVE  OverIn(keys'[k], g, ends'[<<k, g>>])
    <2> DEFINE x == <<k, g>>
    <2>1. x \in SecretsOf(Keys) /\ ends[x] \in Times
      BY DEF SecretsOf, KeyInv, FileInv
    <2>2. ~keysLost /\ Keeps(keys, v.array)
      <3>1. ~keysLost /\ (v.stale => v.array = keys)
        BY <1>1, <1>6
      <3> QED
        BY <1>4, <3>1 DEF Keeps, KeepsOver
    <2>3. CASE x \in v.over /\ v.at < ends[x]
      <3>1. ends'[x] = v.at
        BY <1>2, <2>1, <2>3
      <3> QED
        BY <1>1, <1>4, <2>3, <3>1 DEF EndsAll
    <2>4. CASE ~(x \in v.over /\ v.at < ends[x])
      <3>1. ends'[x] = ends[x]
        BY <1>2, <2>1, <2>4
      <3>2. OverIn(keys[k], g, ends[x])
        BY <1>6, <2>2, <3>1 DEF KeyInv, FileInv
      <3> QED
        BY <1>1, <2>1, <2>2, <3>1, <3>2 DEF Keeps, KeepsOver
    <2> QED
      BY <2>3, <2>4
  <1>7. FileInv'
    <2>1. keysLost' \in BOOLEAN
      BY <1>1
    <2>2. /\ clock' \in 0..MaxClock /\ keys' \in Arrays /\ keyFile' \in {"whole", "empty", "garbled"}
          /\ keyIds' \subseteq Keys /\ Unissued(keys', keyIds')
      BY <1>1, <1>4 DEF KeyInv, FileInv
    <2> QED
      BY <1>5, <1>6, <2>1, <2>2 DEF FileInv
  <1>8. SaversInv'
    <2>1. saver' \in [Savers -> SaverType]
      BY <1>1, OthersAfterFill DEF AfterFill
    <2> QED
      BY <1>1, <2>1, OthersAfterFill DEF SaversInv
  <1> QED
    BY <1>7, <1>8 DEF KeyInv

LEMMA KeysCrashHolds ==
    ASSUME KeyInv, KeysCrash
    PROVE  KeyInv'
  <1>1. /\ saver' = [s \in Savers |-> NoSave]
        /\ UNCHANGED <<clock, keys, keyFile, keyIds, ends, keysLost>>
    BY DEF KeysCrash
  <1>2. SaversInv'
    BY <1>1, NoSaveHolds DEF SaversInv
  <1> QED
    BY <1>1, <1>2 DEF KeyInv, FileInv

LEMMA KeysFrame ==
    ASSUME KeyInv, UNCHANGED keyVars, clock' \in 0..MaxClock
    PROVE  KeyInv'
  <1>1. UNCHANGED <<keys, keyFile, keyIds, saver, ends, keysLost>>
    BY DEF keyVars
  <1> QED
    BY <1>1 DEF KeyInv, FileInv, SaversInv

LEMMA TickHolds ==
    ASSUME clock \in 0..MaxClock, Tick
    PROVE  clock' \in 0..MaxClock
  BY ClockBounds DEF Tick

LEMMA KeyInitHolds == clock = 0 /\ KeyInit => KeyInv
  <1> SUFFICES ASSUME clock = 0, KeyInit PROVE KeyInv
    OBVIOUS
  <1>1. clock \in 0..MaxClock /\ Never + Grace \in Times
    BY ClockBounds DEF Times
  <1>2. keys \in Arrays /\ Unissued(keys, keyIds) /\ keyIds \subseteq Keys
    BY DEF KeyInit, Arrays, Unissued
  <1>3. FileInv
    BY <1>1, <1>2 DEF FileInv, KeyInit, SecretsOf
  <1>4. SaversInv
    BY NoSaveHolds DEF SaversInv, KeyInit
  <1> QED
    BY <1>3, <1>4 DEF KeyInv

LEMMA KeyStepHolds == KeyInv /\ [KeyNext]_<<clock, keyVars>> => KeyInv'
  <1> SUFFICES ASSUME KeyInv, [KeyNext]_<<clock, keyVars>> PROVE KeyInv'
    OBVIOUS
  <1>1. CASE UNCHANGED <<clock, keyVars>>
    BY <1>1, KeysFrame DEF KeyInv, FileInv
  <1>2. CASE Tick /\ UNCHANGED keyVars
    BY <1>2, TickHolds, KeysFrame DEF KeyInv, FileInv
  <1> QED
    BY <1>1, <1>2, TruncateHolds, FillHolds, IssueKeyHolds, ScheduleKeyHolds, UseKeyHolds,
       RevokeKeyHolds, RotateKeyHolds, SweepKeysHolds, KeysCrashHolds DEF KeyNext

LEMMA KeyInvHolds == KeySpec => []KeyInv
  BY KeyInitHolds, KeyStepHolds, PTL DEF KeySpec

LEMMA KeyInvTypes == KeyInv => KeysTypeOK
  BY DEF KeyInv, FileInv, SaversInv, SaverType, KeysTypeOK, Times

\* A secret that is over is accepted no more.
LEMMA KeyInvSuffices == KeyInv => EndedSecretsFail
  <1> SUFFICES ASSUME KeyInv, ~keysLost, NEW k \in Keys, NEW g \in 1..MaxGen,
                      clock >= ends[<<k, g>>]
               PROVE  ~Accepts(k, g)
    BY DEF EndedSecretsFail
  <1> DEFINE t == ends[<<k, g>>]
  <1>1. <<k, g>> \in SecretsOf(Keys) /\ clock \in 0..MaxClock
    BY DEF SecretsOf, KeyInv, FileInv
  <1>2. t \in Times
    BY <1>1 DEF KeyInv, FileInv
  <1>3. t # Never + Grace
    BY <1>1, ClockBounds
  <1>4. OverIn(keys[k], g, t)
    BY <1>3 DEF KeyInv, FileInv
  <1>5. CASE keys[k].revoked
    BY <1>5 DEF Accepts, Live
  <1>6. CASE ~keys[k].revoked
    <2>1. keys[k] # Nil /\ keys[k].gen > g /\ (keys[k].old = g => keys[k].oldUntil <= t)
      BY <1>4, <1>6 DEF OverIn
    <2>2. keys[k].gen \in 1..MaxGen /\ keys[k].oldUntil \in Times
      BY <2>1, KeyFields DEF KeyInv, FileInv
    <2>3. keys[k].gen # g
      BY <2>1, <2>2, ClockBounds
    <2>4. keys[k].old = g => ~(keys[k].oldUntil > clock)
      BY <1>1, <1>2, <2>1, <2>2, ClockBounds DEF Times
    <2> QED
      BY <2>3, <2>4 DEF Accepts, Matches
  <1> QED
    BY <1>5, <1>6

\* Every variable of api-keys.ts keeps its type.
THEOREM KeyTypesHold == KeySpec => []KeysTypeOK
  BY KeyInvHolds, KeyInvTypes, PTL

\* However calls, background saves and crashes interleave, a secret that an answered
\* rotation or revocation has ended is accepted no more, until a save with an array
\* from before replaces that change.
THEOREM EndedSecretsStayEnded == KeySpec => []EndedSecretsFail
  BY KeyInvHolds, KeyInvSuffices, PTL

-----------------------------------------------------------------------------
(* Sessions: RevokedSessionFailsForADay.  For a session whose cookie is    *)
(* alive, the record on file and the answers given so far tell the same    *)
(* story (Told); a file in hand that is not stale may only revoke it or    *)
(* let the day of a revoked record run out (Follows), and revokes what its *)
(* call will answer for (Marks).                                           *)

Expired(t) == t + Retention < clock

\* r: the record on file; ck: the user whose cookie is alive; ra: revokedAt.
Told(r, ck, ra) ==
    ck # Nil =>
        IF r = Nil THEN ra # Active /\ Expired(ra)
        ELSE IF r.revoked = Active THEN ra = Active
        ELSE ra # Active /\ ra <= r.revoked

\* q: the record in hand; at and over: of the call that has it in hand.
Follows(q, r, ck, at, over) ==
    ck # Nil =>
        IF r = Nil THEN q = Nil
        ELSE IF r.revoked = Active
        THEN q # Nil /\ (q.revoked = Active \/ (q.revoked = at /\ over))
        ELSE \/ q # Nil /\ q.revoked = r.revoked
             \/ q = Nil /\ Expired(r.revoked)
Marks(q, ck, ra, at, over) ==
    over /\ ck # Nil => ra # Active \/ (q # Nil /\ q.revoked = at)

Agrees(q, ck) == q # Nil /\ ck # Nil => q.user = ck
CapOK(f) == \A u \in Users : Cardinality(ActiveOf(f, u)) <= HardCap

\* A session nobody has heard of.
Blank(s) == sessions[s] = Nil /\ cookies[s] = Nil /\ revokedAt[s] = Active
Untouched(v, s) == v.file[s] = Nil /\ s \notin v.over /\ v.login # s

ClerkType == [pc : {"idle", "write"}, file : Files \cup {Nil}, over : SUBSET Sids,
              at : 0..MaxClock, login : Sids \cup {Nil}, stale : BOOLEAN]

ClerkInv(v) ==
    v.pc = "write" =>
        /\ v.file \in Files /\ CapOK(v.file)
        /\ \A s \in sids : Untouched(v, s)
        /\ v.login # Nil =>
              /\ v.login \notin sids /\ Blank(v.login) /\ v.login \notin v.over
              /\ v.file[v.login] # Nil /\ v.file[v.login].revoked = Active
        /\ \A s \in Sids : Agrees(v.file[s], cookies[s])
        /\ ~sessionsLost => \A s \in Sids \ shed :
              /\ Marks(v.file[s], cookies[s], revokedAt[s], v.at, s \in v.over)
              /\ ~v.stale => Follows(v.file[s], sessions[s], cookies[s], v.at, s \in v.over)

\* No two calls log the same session in, and no other file has it.
Apart(v, w) ==
    v.pc = "write" /\ w.pc = "write" /\ v.login # Nil => Untouched(w, v.login)

ClerksInv ==
    /\ clerk \in [Clerks -> ClerkType]
    /\ \A c \in Clerks : ClerkInv(clerk[c])
    /\ \A c, d \in Clerks : c # d => Apart(clerk[c], clerk[d])

SessionFileInv ==
    /\ clock \in 0..MaxClock
    /\ sessions \in Files /\ CapOK(sessions)
    /\ cookies \in [Sids -> Users \cup {Nil}]
    /\ sids \subseteq Sids
    /\ revokedAt \in [Sids -> 0..Active]
    /\ shed \subseteq Sids
    /\ sessionsLost \in BOOLEAN
    /\ \A s \in sids : Blank(s)
    /\ \A s \in Sids : Agrees(sessions[s], cookies[s])
    /\ ~sessionsLost => \A s \in Sids \ shed : Told(sessions[s], cookies[s], revokedAt[s])

SessionInv == SessionFileInv /\ ClerksInv

LEMMA SessionBounds ==
    /\ MaxClock \in Nat /\ Retention \in Nat /\ HardCap \in Nat \ {0}
    /\ Active \in Nat /\ Active = MaxClock + 1 /\ Nil \notin Users /\ Nil \notin Sids
    /\ \A t \in 0..MaxClock : t \in Nat /\ t # Active /\ t \in 0..Active
  BY ClockAssumption, SessionsAssumption, AccessAssumption DEF Active, Never

LEMMA SessionFields ==
    ASSUME NEW f \in Files, NEW s \in Sids, f[s] # Nil
    PROVE  /\ f[s] \in SessionType
           /\ f[s].user \in Users /\ f[s].seen \in 0..MaxClock
           /\ f[s].revoked \in 0..Active /\ f[s].revoked \in Nat
  <1>1. f[s] \in SessionType
    BY DEF Files
  <1> QED
    BY <1>1, SessionBounds DEF SessionType

LEMMA ReadFile ==
    ASSUME SessionInv
    PROVE  /\ clock \in 0..MaxClock /\ sessions \in Files /\ CapOK(sessions)
           /\ cookies \in [Sids -> Users \cup {Nil}] /\ sids \subseteq Sids
           /\ clerk \in [Clerks -> ClerkType]
  BY DEF SessionInv, SessionFileInv, ClerksInv

-----------------------------------------------------------------------------
(* What the functions of sessions.ts make of the file *)

LEMMA SeenHolds ==
    ASSUME NEW r \in SessionType, clock \in 0..MaxClock
    PROVE  /\ [r EXCEPT !.seen = clock] \in SessionType /\ [r EXCEPT !.seen = clock] # Nil
           /\ [r EXCEPT !.seen = clock].user = r.user
           /\ [r EXCEPT !.seen = clock].revoked = r.revoked
  <1>1. [r EXCEPT !.seen = clock] \in SessionType
    BY DEF SessionType
  <1> QED
    BY <1>1, NoSessionAssumption DEF SessionType

LEMMA RevokedRecord ==
    ASSUME NEW r \in SessionType, clock \in 0..MaxClock
    PROVE  /\ [r EXCEPT !.revoked = clock] \in SessionType /\ [r EXCEPT !.revoked = clock] # Nil
           /\ [r EXCEPT !.revoked = clock].user = r.user
           /\ [r EXCEPT !.revoked = clock].revoked = clock
  <1>1. [r EXCEPT !.revoked = clock] \in SessionType
    BY SessionBounds DEF SessionType
  <1> QED
    BY <1>1, NoSessionAssumption DEF SessionType

LEMMA NewSession ==
    ASSUME NEW u \in Users, clock \in 0..MaxClock
    PROVE  /\ Session(u, clock, Active) \in SessionType /\ Session(u, clock, Active) # Nil
           /\ Session(u, clock, Active).user = u /\ Session(u, clock, Active).revoked = Active
  <1>1. Session(u, clock, Active) \in SessionType
    BY SessionBounds DEF Session, SessionType
  <1> QED
    BY <1>1, NoSessionAssumption DEF Session

LEMMA RevokeRecords ==
    ASSUME NEW f \in Files, NEW ss, \A s \in ss : s \in Sids /\ f[s] # Nil, clock \in 0..MaxClock
    PROVE  /\ Revoke(f, ss) \in Files
           /\ \A s \in ss : /\ Revoke(f, ss)[s] # Nil /\ Revoke(f, ss)[s].revoked = clock
                            /\ Revoke(f, ss)[s].user = f[s].user
           /\ \A s \in Sids \ ss : Revoke(f, ss)[s] = f[s]
  <1>1. ASSUME NEW s \in ss
        PROVE  /\ Revoke(f, ss)[s] \in SessionType /\ Revoke(f, ss)[s] # Nil
               /\ Revoke(f, ss)[s].revoked = clock /\ Revoke(f, ss)[s].user = f[s].user
    <2>1. Revoke(f, ss)[s] = [f[s] EXCEPT !.revoked = clock] /\ f[s] \in SessionType
      BY <1>1, SessionFields DEF Revoke
    <2> QED
      BY <2>1, RevokedRecord
  <1>2. \A s \in Sids \ ss : Revoke(f, ss)[s] = f[s] /\ f[s] \in SessionType \cup {Nil}
    BY DEF Revoke, Files
  <1>3. Revoke(f, ss) \in Files
    BY <1>1, <1>2 DEF Revoke, Files
  <1> QED
    BY <1>1, <1>2, <1>3

LEMMA DropRecords ==
    ASSUME NEW f \in Files, NEW ss
    PROVE  /\ Drop(f, ss) \in Files
           /\ \A s \in Sids : Drop(f, ss)[s] = IF s \in ss THEN Nil ELSE f[s]
  BY DEF Drop, Files

LEMMA PrunedRecords ==
    ASSUME NEW f \in Files
    PROVE  /\ Pruned(f) \in Files
           /\ \A s \in Sids :
                 \/ Pruned(f)[s] = f[s]
                 \/ f[s] # Nil /\ Pruned(f)[s] = Nil /\ f[s].revoked # Active /\ Expired(f[s].revoked)
           /\ \A u \in Users : ActiveOf(Pruned(f), u) = ActiveOf(f, u)
  <1> DEFINE ss == {s \in Sids : f[s] # Nil /\ f[s].revoked # Active
                                  /\ f[s].revoked + Retention < clock}
  <1>1. Pruned(f) = Drop(f, ss)
    BY DEF Pruned
  <1>2. /\ Pruned(f) \in Files
        /\ \A s \in Sids : Pruned(f)[s] = IF s \in ss THEN Nil ELSE f[s]
    BY <1>1, DropRecords
  <1>3. \A s \in ss : s \in Sids /\ f[s] # Nil /\ f[s].revoked # Active /\ Expired(f[s].revoked)
    BY DEF Expired
  <1> HIDE DEF ss
  <1> QED
    BY <1>2, <1>3 DEF ActiveOf, IsActive

-----------------------------------------------------------------------------
(* The cap *)

LEMMA ActiveIsFinite ==
    ASSUME NEW f, NEW u
    PROVE  /\ ActiveOf(f, u) \subseteq Sids /\ IsFiniteSet(ActiveOf(f, u))
           /\ Cardinality(ActiveOf(f, u)) \in Nat
  <1>1. ActiveOf(f, u) \subseteq Sids
    BY DEF ActiveOf
  <1> QED
    BY <1>1, SessionsAssumption, FS_Subset, FS_CardinalityType

LEMMA FewerAreActive ==
    ASSUME NEW f, NEW g, CapOK(f), \A u \in Users : ActiveOf(g, u) \subseteq ActiveOf(f, u)
    PROVE  CapOK(g)
  <1> SUFFICES ASSUME NEW u \in Users PROVE Cardinality(ActiveOf(g, u)) <= HardCap
    BY DEF CapOK
  <1>1. Cardinality(ActiveOf(g, u)) <= Cardinality(ActiveOf(f, u))
    BY ActiveIsFinite, FS_Subset
  <1>2. Cardinality(ActiveOf(f, u)) <= HardCap
    BY DEF CapOK
  <1> QED
    BY <1>1, <1>2, ActiveIsFinite, SessionBounds

\* A login makes room for itself before it counts itself in.
LEMMA RoomForOne ==
    ASSUME NEW f, NEW g, NEW u \in Users, NEW s \in Sids, NEW cap \in 1..HardCap, NEW out,
           CapOK(f), Oldest(f, u, OverCap(f, u, cap), out),
           ActiveOf(g, u) \subseteq (ActiveOf(f, u) \ out) \cup {s},
           \A v \in Users \ {u} : ActiveOf(g, v) \subseteq ActiveOf(f, v)
    PROVE  CapOK(g)
  <1> DEFINE A == ActiveOf(f, u)
             n == Cardinality(A)
  <1>1. /\ IsFiniteSet(A) /\ n \in Nat
        /\ out \subseteq A /\ Cardinality(out) = OverCap(f, u, cap)
    BY ActiveIsFinite DEF Oldest
  <1>2. HardCap \in Nat \ {0} /\ cap \in Nat \ {0} /\ cap <= HardCap
    BY SessionBounds
  <1>3. IsFiniteSet(out) /\ IsFiniteSet(A \ out)
    BY <1>1, FS_Subset
  <1>4. Cardinality(A \ out) = n - Cardinality(out)
    <2>1. A \ out = A \ (A \cap out) /\ A \cap out = out
      BY <1>1
    <2>2. Cardinality(A \ out) = n - Cardinality(A \cap out)
      BY <1>1, FS_Difference
    <2> QED
      BY <2>1, <2>2
  <1>5. Cardinality(A \ out) < cap
    <2>1. OverCap(f, u, cap) = IF n >= cap THEN n - cap + 1 ELSE 0
      BY DEF OverCap
    <2> HIDE DEF n
    <2> QED
      BY <1>1, <1>2, <1>4, <2>1
  <1>6. IsFiniteSet((A \ out) \cup {s}) /\ Cardinality((A \ out) \cup {s}) <= Cardinality(A \ out) + 1
    <2>1. /\ IsFiniteSet((A \ out) \cup {s})
          /\ Cardinality((A \ out) \cup {s}) =
                IF s \in A \ out THEN Cardinality(A \ out) ELSE Cardinality(A \ out) + 1
      BY <1>3, FS_AddElement
    <2> QED
      BY <1>3, <2>1, FS_CardinalityType
  <1>7. Cardinality(ActiveOf(g, u)) <= Cardinality((A \ out) \cup {s})
    BY <1>6, FS_Subset
  <1>8. Cardinality(ActiveOf(g, u)) <= HardCap
    <2>1. /\ Cardinality(ActiveOf(g, u)) \in Nat /\ Cardinality(A \ out) \in Nat
          /\ Cardinality((A \ out) \cup {s}) \in Nat
      BY <1>3, <1>6, ActiveIsFinite, FS_CardinalityType
    <2> QED
      BY <1>2, <1>5, <1>6, <1>7, <2>1
  <1>9. ASSUME NEW v \in Users \ {u}
        PROVE  Cardinality(ActiveOf(g, v)) <= HardCap
    <2>1. Cardinality(ActiveOf(g, v)) <= Cardinality(ActiveOf(f, v))
      BY ActiveIsFinite, FS_Subset
    <2>2. Cardinality(ActiveOf(f, v)) <= HardCap
      BY DEF CapOK
    <2> QED
      BY <2>1, <2>2, ActiveIsFinite, SessionBounds
  <1> QED
    BY <1>8, <1>9 DEF CapOK

-----------------------------------------------------------------------------
(* A call that goes on to write *)

LEMMA ClerkTypes ==
    ASSUME NEW pc \in {"idle", "write"}, NEW file \in Files \cup {Nil}, NEW over \in SUBSET Sids,
           NEW at \in 0..MaxClock, NEW login \in Sids \cup {Nil}, NEW stale \in BOOLEAN
    PROVE  Clerk(pc, file, over, at, login, stale) \in ClerkType
  BY DEF Clerk, ClerkType

LEMMA NoClerkHolds == NoClerk \in ClerkType /\ NoClerk.pc = "idle"
  <1>1. 0 \in 0..MaxClock /\ {} \in SUBSET Sids
    BY SessionBounds
  <1> QED
    BY <1>1 DEF NoClerk, Clerk, ClerkType

\* Cookies end, sessions are shed and ids given out: a file in hand stays as good.
CookiesEnd ==
    /\ cookies' \in [Sids -> Users \cup {Nil}]
    /\ \A s \in Sids : cookies'[s] = cookies[s] \/ cookies'[s] = Nil
    /\ sids' \subseteq sids
    /\ shed \subseteq shed' /\ shed' \subseteq Sids
    /\ clock' \in 0..MaxClock /\ clock <= clock'
    /\ UNCHANGED <<sessions, revokedAt, sessionsLost>>

LEMMA LaterIsExpired ==
    ASSUME clock \in 0..MaxClock, clock' \in 0..MaxClock, clock <= clock',
           NEW t \in Nat, Expired(t)
    PROVE  Expired(t)'
  <1>1. t + Retention < clock' <=> Expired(t)'
    BY DEF Expired
  <1> QED
    BY <1>1, SessionBounds DEF Expired

LEMMA ClerkFrame ==
    ASSUME SessionInv, CookiesEnd, NEW d \in Clerks, clerk'[d] = clerk[d]
    PROVE  ClerkInv(clerk[d])'
  <1> DEFINE v == clerk[d]
  <1>1. ClerkInv(v) /\ sessions \in Files /\ clock \in 0..MaxClock
    BY DEF SessionInv, ClerksInv, SessionFileInv
  <1>2. SUFFICES ASSUME v.pc = "write"
                 PROVE  /\ v.file \in Files /\ CapOK(v.file)
                        /\ \A s \in sids' : Untouched(v, s)
                        /\ v.login # Nil =>
                              /\ v.login \notin sids' /\ Blank(v.login)' /\ v.login \notin v.over
                              /\ v.file[v.login] # Nil /\ v.file[v.login].revoked = Active
                        /\ \A s \in Sids : Agrees(v.file[s], cookies'[s])
                        /\ ~sessionsLost' => \A s \in Sids \ shed' :
                              /\ Marks(v.file[s], cookies'[s], revokedAt'[s], v.at, s \in v.over)
                              /\ ~v.stale => Follows(v.file[s], sessions[s], cookies[s], v.at, s \in v.over)'
    BY DEF ClerkInv, CookiesEnd, Untouched
  <1>3. v.file \in Files /\ CapOK(v.file) /\ \A s \in sids' : Untouched(v, s)
    BY <1>1, <1>2 DEF ClerkInv, CookiesEnd
  <1>4. ASSUME v.login # Nil
        PROVE  /\ v.login \notin sids' /\ Blank(v.login)' /\ v.login \notin v.over
               /\ v.file[v.login] # Nil /\ v.file[v.login].revoked = Active
    <2>1. v.login \in Sids
      BY <1>4 DEF SessionInv, ClerksInv, ClerkType
    <2>2. /\ v.login \notin sids /\ Blank(v.login) /\ v.login \notin v.over
          /\ v.file[v.login] # Nil /\ v.file[v.login].revoked = Active
      BY <1>1, <1>2, <1>4 DEF ClerkInv
    <2>3. sessions'[v.login] = Nil /\ cookies'[v.login] = Nil /\ revokedAt'[v.login] = Active
      BY <2>1, <2>2 DEF Blank, CookiesEnd
    <2>4. Blank(v.login)'
      BY <2>3 DEF Blank
    <2> QED
      BY <2>2, <2>4 DEF CookiesEnd
  <1>5. \A s \in Sids : Agrees(v.file[s], cookies'[s])
    BY <1>1, <1>2 DEF ClerkInv, CookiesEnd, Agrees
  <1>6. ASSUME ~sessionsLost', NEW s \in Sids \ shed'
        PROVE  /\ Marks(v.file[s], cookies'[s], revokedAt'[s], v.at, s \in v.over)
               /\ ~v.stale => Follows(v.file[s], sessions[s], cookies[s], v.at, s \in v.over)'
    <2>1. /\ Marks(v.file[s], cookies[s], revokedAt[s], v.at, s \in v.over)
          /\ ~v.stale => Follows(v.file[s], sessions[s], cookies[s], v.at, s \in v.over)
      BY <1>1, <1>2, <1>6 DEF ClerkInv, CookiesEnd
    <2>2. Marks(v.file[s], cookies'[s], revokedAt'[s], v.at, s \in v.over)
      BY <2>1 DEF Marks, CookiesEnd
    <2>3. sessions[s] # Nil /\ Expired(sessions[s].revoked) => Expired(sessions[s].revoked)'
      <3>1. sessions[s] # Nil => sessions[s].revoked \in Nat
        BY <1>1, SessionFields
      <3>2. sessions' = sessions /\ clock' \in 0..MaxClock /\ clock <= clock'
        BY DEF CookiesEnd
      <3> QED
        BY <1>1, <3>1, <3>2, SessionBounds DEF Expired
    <2>4. ASSUME ~v.stale
          PROVE  Follows(v.file[s], sessions[s], cookies[s], v.at, s \in v.over)'
      BY <2>1, <2>3, <2>4 DEF Follows, CookiesEnd
    <2> QED
      BY <2>2, <2>4
  <1> QED
    BY <1>3, <1>4, <1>5, <1>6

LEMMA SessionFileFrame ==
    ASSUME SessionInv, CookiesEnd
    PROVE  SessionFileInv'
  <1>1. SessionFileInv
    BY DEF SessionInv
  <1>2. ASSUME NEW s \in sids' PROVE Blank(s)'
    BY <1>1 DEF SessionFileInv, CookiesEnd, Blank
  <1>3. ASSUME NEW s \in Sids PROVE Agrees(sessions[s], cookies[s])'
    BY <1>1 DEF SessionFileInv, CookiesEnd, Agrees
  <1>4. ASSUME ~sessionsLost', NEW s \in Sids \ shed'
        PROVE  Told(sessions[s], cookies[s], revokedAt[s])'
    <2>1. Told(sessions[s], cookies[s], revokedAt[s]) /\ revokedAt[s] \in 0..Active
      BY <1>1, <1>4 DEF SessionFileInv, CookiesEnd
    <2>2. Expired(revokedAt[s]) => Expired(revokedAt[s])'
      <3>1. revokedAt' = revokedAt /\ clock' \in 0..MaxClock /\ clock <= clock' /\ clock \in 0..MaxClock
        BY <1>1 DEF CookiesEnd, SessionFileInv
      <3> QED
        BY <2>1, <3>1, SessionBounds DEF Expired
    <2> QED
      BY <2>1, <2>2 DEF Told, CookiesEnd
  <1> QED
    BY <1>1, <1>2, <1>3, <1>4 DEF SessionFileInv, CookiesEnd

\* What a call may be about to write, given the file it has read.
Goes(file, over, login) ==
    /\ file \in Files /\ CapOK(file)
    /\ login # Nil => /\ login \in sids /\ login \notin over
                      /\ file[login] # Nil /\ file[login].revoked = Active
    /\ \A s \in Sids \ {login} : sessions[s] = Nil => file[s] = Nil
    /\ \A s \in over : sessions[s] # Nil \/ cookies[s] # Nil
    /\ \A s \in Sids : file[s] # Nil /\ sessions[s] # Nil => file[s].user = sessions[s].user

LEMMA FileBegins ==
    ASSUME SessionInv, NEW c \in Clerks, CAt(c, "idle"), NEW file, NEW over \in SUBSET Sids,
           NEW login \in Sids \cup {Nil}, Goes(file, over, login), CookiesEnd, clock' = clock,
           sids' = sids \ {login}, WillFile(c, file, over, login),
           ~sessionsLost => \A s \in Sids \ shed' :
              /\ Marks(file[s], cookies'[s], revokedAt[s], clock, s \in over)
              /\ Follows(file[s], sessions[s], cookies'[s], clock, s \in over)
    PROVE  SessionInv'
  <1> DEFINE v == Clerk("write", file, over, clock, login, FALSE)
  <1>1. /\ v.pc = "write" /\ v.file = file /\ v.over = over /\ v.at = clock /\ v.login = login
        /\ v.stale = FALSE
    BY DEF Clerk
  <1>2. v \in ClerkType
    BY ClerkTypes, ReadFile DEF Goes
  <1>3. clerk' = [clerk EXCEPT ![c] = v] /\ clerk \in [Clerks -> ClerkType]
    BY ReadFile DEF WillFile
  <1> HIDE DEF v
  <1>4. clerk'[c] = v /\ \A d \in Clerks \ {c} : clerk'[d] = clerk[d]
    BY <1>3
  <1>5. SessionFileInv /\ sids \subseteq Sids
    BY DEF SessionInv, SessionFileInv
  <1>6. ASSUME NEW s \in sids'
        PROVE  Untouched(v, s)
    <2>1. s \in sids /\ s # login /\ Blank(s)
      BY <1>5, <1>6 DEF SessionFileInv
    <2> QED
      BY <1>1, <1>5, <2>1 DEF Blank, Goes, Untouched
  <1>7. ASSUME NEW s \in Sids
        PROVE  Agrees(file[s], cookies'[s])
    <2>1. CASE s = login
      BY <1>5, <2>1, SessionBounds DEF Goes, SessionFileInv, Blank, Agrees, CookiesEnd
    <2>2. CASE s # login
      <3>1. file[s] # Nil => sessions[s] # Nil /\ file[s].user = sessions[s].user
        BY <2>2 DEF Goes
      <3>2. Agrees(sessions[s], cookies[s])
        BY <1>5 DEF SessionFileInv
      <3> QED
        BY <3>1, <3>2 DEF Agrees, CookiesEnd
    <2> QED
      BY <2>1, <2>2
  <1>8. ClerkInv(clerk[c])'
    <2>1. v.file \in Files /\ CapOK(v.file) /\ \A s \in sids' : Untouched(v, s)
      BY <1>1, <1>6 DEF Goes
    <2>2. ASSUME login # Nil
          PROVE  /\ login \notin sids' /\ Blank(login)' /\ login \notin over
                 /\ file[login] # Nil /\ file[login].revoked = Active
      <3>1. login \in sids /\ Blank(login)
        BY <1>5, <2>2 DEF Goes, SessionFileInv
      <3>2. sessions'[login] = Nil /\ cookies'[login] = Nil /\ revokedAt'[login] = Active
        BY <1>5, <3>1 DEF Blank, CookiesEnd
      <3>3. Blank(login)'
        BY <3>2 DEF Blank
      <3> QED
        BY <2>2, <3>3 DEF Goes
    <2>3. ASSUME ~sessionsLost', NEW s \in Sids \ shed'
          PROVE  /\ Marks(file[s], cookies[s], revokedAt[s], clock, s \in over)'
                 /\ Follows(file[s], sessions[s], cookies[s], clock, s \in over)'
      <3>1. /\ Marks(file[s], cookies'[s], revokedAt[s], clock, s \in over)
            /\ Follows(file[s], sessions[s], cookies'[s], clock, s \in over)
        BY <2>3 DEF CookiesEnd
      <3> QED
        BY <3>1 DEF Follows, Marks, Expired, CookiesEnd
    <2>4. /\ clerk'[c].file = file /\ clerk'[c].over = over /\ clerk'[c].at = clock'
          /\ clerk'[c].login = login /\ clerk'[c].stale = FALSE
      BY <1>1, <1>4
    <2>5. /\ file \in Files /\ CapOK(file) /\ \A s \in sids' : Untouched(clerk'[c], s)
      BY <1>1, <1>4, <2>1
    <2> QED
      BY <1>7, <2>2, <2>3, <2>4, <2>5 DEF ClerkInv, Untouched
  <1>9. ASSUME NEW d \in Clerks
        PROVE  ClerkInv(clerk[d])'
    <2>1. CASE d = c
      BY <1>8, <2>1
    <2>2. CASE d # c
      BY <1>4, <2>2, ClerkFrame
    <2> QED
      BY <2>1, <2>2
  <1>10. ASSUME NEW d \in Clerks \ {c}
         PROVE  Apart(v, clerk[d]) /\ Apart(clerk[d], v)
    <2>1. ClerkInv(clerk[d]) /\ clerk[d] \in ClerkType
      BY DEF SessionInv, ClerksInv
    <2>2. Apart(v, clerk[d])
      BY <1>1, <2>1 DEF Apart, ClerkInv, Goes, Untouched
    <2>3. ASSUME clerk[d].pc = "write", clerk[d].login # Nil
          PROVE  Untouched(v, clerk[d].login)
      <3>1. clerk[d].login \in Sids /\ clerk[d].login \notin sids /\ Blank(clerk[d].login)
        BY <2>1, <2>3 DEF ClerkInv, ClerkType
      <3>2. clerk[d].login # login
        BY <2>3, <3>1 DEF Goes
      <3> QED
        BY <1>1, <3>1, <3>2 DEF Blank, Goes, Untouched
    <2> QED
      BY <2>2, <2>3 DEF Apart
  <1>11. ClerksInv'
    <2>1. clerk' \in [Clerks -> ClerkType]
      BY <1>2, <1>3
    <2>2. \A d, e \in Clerks : d # e => Apart(clerk'[d], clerk'[e])
      BY <1>4, <1>10 DEF SessionInv, ClerksInv
    <2>3. \A d, e \in Clerks : d # e => Apart(clerk[d], clerk[e])'
      BY <2>2 DEF Apart, Untouched
    <2> QED
      BY <1>9, <2>1, <2>3 DEF ClerksInv
  <1> QED
    BY <1>11, SessionFileFrame DEF SessionInv

-----------------------------------------------------------------------------
(* The functions of sessions.ts *)

LEMMA OwnRecord ==
    ASSUME SessionInv, NEW s \in Sids
    PROVE  /\ Agrees(sessions[s], cookies[s])
           /\ cookies[s] \in Users \cup {Nil} /\ sessions[s] \in SessionType \cup {Nil}
           /\ ~sessionsLost /\ s \notin shed => Told(sessions[s], cookies[s], revokedAt[s])
  BY DEF SessionInv, SessionFileInv, Files

LEMMA Stays ==
    ASSUME SessionInv
    PROVE  clock' = clock /\ UNCHANGED <<sessions, cookies, sids, shed, revokedAt, sessionsLost>>
              => CookiesEnd
  BY SessionBounds DEF CookiesEnd, SessionInv, SessionFileInv

LEMMA TouchHolds ==
    ASSUME SessionInv, NEW c \in Clerks, NEW s \in Sids, Touch(c, s)
    PROVE  SessionInv'
  <1> DEFINE r    == [sessions[s] EXCEPT !.seen = clock]
             file == [sessions EXCEPT ![s] = r]
  <1>1. /\ CAt(c, "idle") /\ IsActive(sessions, s)
        /\ WillFile(c, [sessions EXCEPT ![s].seen = clock], {}, Nil)
        /\ UNCHANGED <<clock, sessions, cookies, sids, sessionHistory>>
    BY DEF Touch
  <1>2. UNCHANGED <<shed, revokedAt, sessionsLost>>
    BY <1>1 DEF sessionHistory
  <1>3. sessions \in Files /\ sessions[s] # Nil /\ sessions[s].revoked = Active /\ CapOK(sessions)
        /\ clock \in 0..MaxClock
    BY <1>1, ReadFile DEF IsActive
  <1>4. /\ r \in SessionType /\ r # Nil /\ r.user = sessions[s].user /\ r.revoked = Active
    BY <1>3, SeenHolds, SessionFields
  <1>5. WillFile(c, file, {}, Nil)
    BY <1>1
  <1> HIDE DEF r
  <1>6. /\ file \in Files /\ file[s] = r /\ \A t \in Sids \ {s} : file[t] = sessions[t]
    BY <1>3, <1>4 DEF Files
  <1> HIDE DEF file
  <1>7. CapOK(file)
    BY <1>3, <1>4, <1>6, FewerAreActive DEF ActiveOf, IsActive
  <1>8. Goes(file, {}, Nil)
    BY <1>3, <1>4, <1>6, <1>7 DEF Goes
  <1>9. CookiesEnd
    BY <1>1, <1>2, Stays
  <1>10. \A t \in Sids : Follows(file[t], sessions[t], cookies'[t], clock, t \in {})
    BY <1>3, <1>4, <1>6 DEF Follows
  <1>11. \A t \in Sids : Marks(file[t], cookies'[t], revokedAt[t], clock, t \in {})
    BY DEF Marks
  <1>12. Nil \in Sids \cup {Nil} /\ {} \in SUBSET Sids /\ sids' = sids \ {Nil} /\ clock' = clock
    BY <1>1, SessionBounds DEF SessionInv, SessionFileInv
  <1> QED
    BY <1>1, <1>5, <1>8, <1>9, <1>10, <1>11, <1>12, FileBegins

\* revokeById, revokeBySid and revokeAllForUser.
LEMMA RevokesHolds ==
    ASSUME SessionInv, NEW c \in Clerks, CAt(c, "idle"), NEW ss, NEW over \in SUBSET Sids,
           \A s \in ss : s \in Sids /\ IsActive(sessions, s) /\ (s \in over \/ cookies[s] = Nil),
           \A s \in over : s \in ss \/ (cookies[s] # Nil /\ ~IsActive(sessions, s)),
           WillFile(c, Revoke(sessions, ss), over, Nil),
           UNCHANGED <<clock, sessions, cookies, sids, sessionHistory>>
    PROVE  SessionInv'
  <1> DEFINE file == Revoke(sessions, ss)
  <1>1. UNCHANGED <<shed, revokedAt, sessionsLost>>
    BY DEF sessionHistory
  <1>2. \A s \in ss : s \in Sids /\ sessions[s] # Nil /\ sessions[s].revoked = Active
    BY DEF IsActive
  <1>3. sessions \in Files /\ CapOK(sessions) /\ clock \in 0..MaxClock
    BY ReadFile
  <1>4. /\ file \in Files
        /\ \A s \in ss : file[s] # Nil /\ file[s].revoked = clock /\ file[s].user = sessions[s].user
        /\ \A s \in Sids \ ss : file[s] = sessions[s]
    BY <1>2, <1>3, RevokeRecords
  <1>5. WillFile(c, file, over, Nil)
    OBVIOUS
  <1> HIDE DEF file
  <1>6. clock # Active
    BY <1>3, SessionBounds
  <1>7. CapOK(file)
    <2>1. \A u \in Users : ActiveOf(file, u) \subseteq ActiveOf(sessions, u)
      BY <1>2, <1>4, <1>6 DEF ActiveOf, IsActive
    <2> QED
      BY <1>3, <2>1, FewerAreActive
  <1>8. Goes(file, over, Nil)
    <2>1. \A s \in over : sessions[s] # Nil \/ cookies[s] # Nil
      BY <1>2
    <2>2. \A s \in Sids : sessions[s] = Nil => file[s] = Nil
      BY <1>2, <1>4
    <2>3. \A s \in Sids : file[s] # Nil /\ sessions[s] # Nil => file[s].user = sessions[s].user
      BY <1>4
    <2> QED
      BY <1>4, <1>7, <2>1, <2>2, <2>3 DEF Goes
  <1>9. CookiesEnd
    BY <1>1, Stays
  <1>10. ASSUME NEW s \in Sids
         PROVE  Follows(file[s], sessions[s], cookies'[s], clock, s \in over)
    BY <1>2, <1>4 DEF Follows
  <1>11. ASSUME ~sessionsLost, NEW s \in Sids \ shed
         PROVE  Marks(file[s], cookies'[s], revokedAt[s], clock, s \in over)
    <2>1. CASE s \in ss
      BY <1>4, <2>1 DEF Marks
    <2>2. CASE s \notin over
      BY <2>2 DEF Marks
    <2>3. CASE s \in over /\ s \notin ss
      <3>1. cookies[s] # Nil /\ ~(sessions[s] # Nil /\ sessions[s].revoked = Active)
        BY <2>3 DEF IsActive
      <3>2. revokedAt[s] # Active
        BY <1>11, <3>1, OwnRecord DEF Told
      <3> QED
        BY <3>2 DEF Marks
    <2> QED
      BY <2>1, <2>2, <2>3
  <1>12. Nil \in Sids \cup {Nil} /\ sids' = sids \ {Nil} /\ clock' = clock
    BY SessionBounds DEF SessionInv, SessionFileInv
  <1> QED
    BY <1>1, <1>5, <1>8, <1>9, <1>10, <1>11, <1>12, FileBegins

LEMMA RevokeSessionHolds ==
    ASSUME SessionInv, NEW c \in Clerks, NEW s \in Sids, RevokeSession(c, s)
    PROVE  SessionInv'
  <1>1. /\ CAt(c, "idle") /\ IsActive(sessions, s)
        /\ WillFile(c, Revoke(sessions, {s}), {s}, Nil)
        /\ UNCHANGED <<clock, sessions, cookies, sids, sessionHistory>>
    BY DEF RevokeSession
  <1> QED
    BY <1>1, RevokesHolds

LEMMA RevokeAllHolds ==
    ASSUME SessionInv, NEW c \in Clerks, NEW u \in Users, NEW except \in Sids \cup {Nil},
           RevokeAll(c, u, except)
    PROVE  SessionInv'
  <1> DEFINE ss   == ActiveOf(sessions, u) \ {except}
             over == {s \in Sids : cookies[s] = u} \ {except}
  <1>1. /\ CAt(c, "idle")
        /\ WillFile(c, Revoke(sessions, ss), over, Nil)
        /\ UNCHANGED <<clock, sessions, cookies, sids, sessionHistory>>
    BY DEF RevokeAll
  <1>2. ASSUME NEW s \in ss
        PROVE  s \in Sids /\ IsActive(sessions, s) /\ (s \in over \/ cookies[s] = Nil)
    <2>1. s \in Sids /\ IsActive(sessions, s) /\ sessions[s].user = u /\ s # except
      BY DEF ActiveOf
    <2>2. cookies[s] # Nil => cookies[s] = u
      BY <2>1, OwnRecord DEF Agrees, IsActive
    <2> QED
      BY <2>1, <2>2
  <1>3. ASSUME NEW s \in over
        PROVE  s \in ss \/ (cookies[s] # Nil /\ ~IsActive(sessions, s))
    <2>1. s \in Sids /\ cookies[s] = u /\ cookies[s] # Nil /\ s # except
      BY SessionBounds
    <2>2. IsActive(sessions, s) => sessions[s].user = u
      BY <2>1, OwnRecord DEF Agrees, IsActive
    <2> QED
      BY <2>1, <2>2 DEF ActiveOf
  <1>4. over \in SUBSET Sids
    OBVIOUS
  <1> HIDE DEF ss, over
  <1> QED
    BY <1>1, <1>2, <1>3, <1>4, RevokesHolds

LEMMA LogoutHolds ==
    ASSUME SessionInv, NEW c \in Clerks, NEW s \in Sids, Logout(c, s)
    PROVE  SessionInv'
  <1>1. /\ CAt(c, "idle") /\ LetIn(s)
        /\ cookies' = [cookies EXCEPT ![s] = Nil]
        /\ UNCHANGED <<clock, sessions, sids, shed, revokedAt, sessionsLost>>
    BY DEF Logout, sessionHistory
  <1>2. CookiesEnd
    BY <1>1, SessionBounds DEF CookiesEnd, SessionInv, SessionFileInv
  <1>3. CASE UNCHANGED clerk
    <2>1. \A d \in Clerks : clerk'[d] = clerk[d]
      BY <1>3
    <2>2. \A d \in Clerks : ClerkInv(clerk[d])'
      BY <1>2, <2>1, ClerkFrame
    <2>3. ClerksInv'
      BY <1>3, <2>2 DEF SessionInv, ClerksInv, Apart, Untouched
    <2> QED
      BY <1>2, <2>3, SessionFileFrame DEF SessionInv
  <1>4. CASE WillFile(c, Drop(sessions, {s}), {}, Nil)
    <2> DEFINE file == Drop(sessions, {s})
    <2>1. sessions \in Files /\ CapOK(sessions) /\ cookies'[s] = Nil
      BY <1>1, ReadFile
    <2>2. /\ file \in Files /\ file[s] = Nil
          /\ \A t \in Sids \ {s} : file[t] = sessions[t]
      BY <2>1, DropRecords
    <2>3. WillFile(c, file, {}, Nil)
      BY <1>4
    <2> HIDE DEF file
    <2>4. CapOK(file)
      <3>1. \A u \in Users : ActiveOf(file, u) \subseteq ActiveOf(sessions, u)
        BY <2>2 DEF ActiveOf, IsActive
      <3> QED
        BY <2>1, <3>1, FewerAreActive
    <2>5. Goes(file, {}, Nil)
      BY <2>2, <2>4 DEF Goes
    <2>6. \A t \in Sids : /\ Follows(file[t], sessions[t], cookies'[t], clock, t \in {})
                          /\ Marks(file[t], cookies'[t], revokedAt[t], clock, t \in {})
      BY <2>1, <2>2 DEF Follows, Marks
    <2>7. Nil \in Sids \cup {Nil} /\ {} \in SUBSET Sids /\ sids' = sids \ {Nil} /\ clock' = clock
      BY <1>1, SessionBounds DEF SessionInv, SessionFileInv
    <2> QED
      BY <1>1, <1>2, <2>3, <2>5, <2>6, <2>7, FileBegins
  <1> QED
    BY <1>3, <1>4 DEF Logout

\* A cookie ends, the process dies, or time passes.
LEMMA EndsOnlyHold ==
    ASSUME SessionInv, CookiesEnd,
           \A c \in Clerks : clerk'[c] = clerk[c] \/ clerk'[c] = NoClerk,
           clerk' \in [Clerks -> ClerkType]
    PROVE  SessionInv'
  <1>1. ASSUME NEW c \in Clerks
        PROVE  ClerkInv(clerk[c])'
    <2>1. CASE clerk'[c] = clerk[c]
      BY <2>1, ClerkFrame
    <2>2. CASE clerk'[c] = NoClerk
      BY <2>2, NoClerkHolds DEF ClerkInv
    <2> QED
      BY <2>1, <2>2
  <1>2. ASSUME NEW c \in Clerks, NEW d \in Clerks, c # d
        PROVE  Apart(clerk[c], clerk[d])'
    <2>1. Apart(clerk[c], clerk[d])
      BY <1>2 DEF SessionInv, ClerksInv
    <2> QED
      BY <2>1, NoClerkHolds DEF Apart, Untouched
  <1> QED
    BY <1>1, <1>2, SessionFileFrame DEF SessionInv, ClerksInv

LEMMA RefuseHolds ==
    ASSUME SessionInv, NEW s \in Sids, Refuse(s)
    PROVE  SessionInv'
  <1>1. /\ cookies' = [cookies EXCEPT ![s] = Nil]
        /\ UNCHANGED <<clock, sessions, sids, clerk, shed, revokedAt, sessionsLost>>
    BY DEF Refuse, sessionHistory
  <1>2. CookiesEnd
    BY <1>1, SessionBounds DEF CookiesEnd, SessionInv, SessionFileInv
  <1> QED
    BY <1>1, <1>2, ReadFile, EndsOnlyHold

LEMMA SessionsRestartHolds ==
    ASSUME SessionInv, SessionsRestart
    PROVE  SessionInv'
  <1>1. /\ cookies' = [s \in Sids |-> Nil]
        /\ clerk' = [c \in Clerks |-> NoClerk]
        /\ UNCHANGED <<clock, sessions, sids, shed, revokedAt, sessionsLost>>
    BY DEF SessionsRestart, sessionHistory
  <1>2. CookiesEnd
    BY <1>1, SessionBounds DEF CookiesEnd, SessionInv, SessionFileInv
  <1> QED
    BY <1>1, <1>2, NoClerkHolds, EndsOnlyHold

LEMMA SessionsFrame ==
    ASSUME SessionInv, UNCHANGED sessionVars, clock' \in 0..MaxClock, clock <= clock'
    PROVE  SessionInv'
  <1>1. UNCHANGED <<sessions, cookies, sids, clerk, shed, revokedAt, sessionsLost>>
    BY DEF sessionVars, sessionHistory
  <1>2. CookiesEnd
    BY <1>1 DEF CookiesEnd, SessionInv, SessionFileInv
  <1> QED
    BY <1>1, <1>2, ReadFile, EndsOnlyHold

\* A login over a policy cap revokes, one over the hard cap drops.
LoginFollows(f, file, u, s, out, over) ==
    \A t \in Sids \ {s} :
        \/ file[t] = f[t] /\ t \notin over
        \/ f[t] # Nil /\ file[t] = Nil /\ f[t].revoked # Active /\ Expired(f[t].revoked) /\ t \notin over
        \/ /\ t \in out /\ f[t] # Nil /\ f[t].revoked = Active
           /\ \/ t \in over /\ file[t] # Nil /\ file[t].revoked = clock /\ file[t].user = f[t].user
              \/ file[t] = Nil /\ t \notin over

LEMMA LoginRecords ==
    ASSUME SessionInv, NEW s \in Sids, s \in sids, NEW u \in Users, NEW policy \in PolicyCaps,
           NEW out \in SUBSET Sids, Oldest(Pruned(sessions), u, OverCap(Pruned(sessions), u, Cap(policy)), out)
    PROVE  LET file == LoggedIn(Pruned(sessions), s, u, policy, out)
               over == IF policy \in 1..HardCap THEN out ELSE {}
           IN  /\ file \in Files /\ CapOK(file)
               /\ file[s] # Nil /\ file[s].revoked = Active /\ file[s].user = u /\ s \notin over
               /\ LoginFollows(sessions, file, u, s, out, over)
  <1> DEFINE p    == Pruned(sessions)
             g    == IF policy \in 1..HardCap THEN Revoke(p, out) ELSE Drop(p, out)
             file == LoggedIn(p, s, u, policy, out)
             over == IF policy \in 1..HardCap THEN out ELSE {}
             r    == Session(u, clock, Active)
  <1>1. sessions \in Files /\ CapOK(sessions) /\ clock \in 0..MaxClock /\ sessions[s] = Nil
    BY ReadFile DEF SessionInv, SessionFileInv, Blank
  <1>2. /\ p \in Files
        /\ \A t \in Sids :
              \/ p[t] = sessions[t]
              \/ /\ sessions[t] # Nil /\ p[t] = Nil /\ sessions[t].revoked # Active
                 /\ Expired(sessions[t].revoked)
        /\ \A v \in Users : ActiveOf(p, v) = ActiveOf(sessions, v)
    BY <1>1, PrunedRecords
  <1>3. Oldest(p, u, OverCap(p, u, Cap(policy)), out)
    OBVIOUS
  <1>4. file = [g EXCEPT ![s] = r]
    BY DEF LoggedIn
  <1>5. r \in SessionType /\ r # Nil /\ r.user = u /\ r.revoked = Active
    BY <1>1, NewSession
  <1> HIDE DEF p, r
  <1>6. \A t \in out : t \in Sids /\ p[t] # Nil /\ p[t].revoked = Active /\ p[t].user = u /\ p[t] = sessions[t]
    BY <1>2, <1>3 DEF Oldest, ActiveOf, IsActive
  <1>7. s \notin out
    BY <1>1, <1>6
  <1>8. /\ g \in Files
        /\ \A t \in Sids \ out : g[t] = p[t]
        /\ policy \in 1..HardCap => \A t \in out : g[t] # Nil /\ g[t].revoked = clock /\ g[t].user = p[t].user
        /\ policy \notin 1..HardCap => \A t \in out : g[t] = Nil
    BY <1>1, <1>2, <1>6, RevokeRecords, DropRecords
  <1> HIDE DEF g
  <1>9. /\ file \in Files /\ file[s] = r
        /\ \A t \in Sids \ {s} : file[t] = g[t]
    BY <1>4, <1>5, <1>8 DEF Files
  <1> HIDE DEF file
  <1>10. clock # Active
    BY <1>1, SessionBounds
  <1>11. CapOK(p)
    BY <1>1, <1>2, FewerAreActive
  <1>12. CapOK(file)
    <2>1. ActiveOf(file, u) \subseteq (ActiveOf(p, u) \ out) \cup {s}
      BY <1>8, <1>9, <1>10 DEF ActiveOf, IsActive
    <2>2. ASSUME NEW v \in Users \ {u}
          PROVE  ActiveOf(file, v) \subseteq ActiveOf(p, v)
      BY <1>5, <1>8, <1>9, <1>10 DEF ActiveOf, IsActive
    <2>3. Cap(policy) \in 1..HardCap
      BY SessionBounds DEF Cap
    <2> QED
      BY <1>3, <1>11, <2>1, <2>2, <2>3, RoomForOne
  <1>13. ASSUME NEW t \in Sids \ {s}
         PROVE  \/ file[t] = sessions[t] /\ t \notin over
                \/ /\ sessions[t] # Nil /\ file[t] = Nil /\ sessions[t].revoked # Active
                   /\ Expired(sessions[t].revoked) /\ t \notin over
                \/ /\ t \in out /\ sessions[t] # Nil /\ sessions[t].revoked = Active
                   /\ \/ t \in over /\ file[t] # Nil /\ file[t].revoked = clock /\ file[t].user = sessions[t].user
                      \/ file[t] = Nil /\ t \notin over
    <2>1. CASE t \in out
      BY <1>6, <1>8, <1>9, <2>1
    <2>2. CASE t \notin out
      <3>1. file[t] = p[t] /\ t \notin over
        BY <1>8, <1>9, <2>2
      <3> QED
        BY <1>2, <3>1
    <2> QED
      BY <2>1, <2>2
  <1>14. s \notin over
    BY <1>7
  <1> QED
    BY <1>5, <1>9, <1>12, <1>13, <1>14 DEF file, p, LoginFollows

LEMMA LoginHolds ==
    ASSUME SessionInv, NEW c \in Clerks, NEW s \in Sids, NEW u \in Users,
           NEW policy \in PolicyCaps, Login(c, s, u, policy)
    PROVE  SessionInv'
  <1>1. PICK out \in SUBSET Sids :
           /\ Oldest(Pruned(sessions), u, OverCap(Pruned(sessions), u, Cap(policy)), out)
           /\ WillFile(c, LoggedIn(Pruned(sessions), s, u, policy, out),
                       IF policy \in 1..HardCap THEN out ELSE {}, s)
           /\ shed' = IF policy \in 1..HardCap THEN shed ELSE shed \cup out
    BY DEF Login
  <1> DEFINE file == LoggedIn(Pruned(sessions), s, u, policy, out)
             over == IF policy \in 1..HardCap THEN out ELSE {}
  <1>2. /\ CAt(c, "idle") /\ s \in sids /\ sids' = sids \ {s}
        /\ UNCHANGED <<clock, sessions, cookies, revokedAt, sessionsLost>>
    BY DEF Login
  <1>3. /\ file \in Files /\ CapOK(file)
        /\ file[s] # Nil /\ file[s].revoked = Active /\ file[s].user = u /\ s \notin over
        /\ LoginFollows(sessions, file, u, s, out, over)
    BY <1>1, <1>2, LoginRecords
  <1>4. /\ WillFile(c, file, over, s)
        /\ over \in SUBSET Sids
        /\ over = out \/ (over = {} /\ out \subseteq shed')
        /\ shed \subseteq shed'
    BY <1>1
  <1> HIDE DEF file, over
  <1>5. sessions[s] = Nil /\ cookies[s] = Nil /\ clock \in 0..MaxClock
    BY <1>2 DEF SessionInv, SessionFileInv, Blank
  <1>6. Goes(file, over, s)
    <2>1. \A t \in Sids \ {s} : sessions[t] = Nil => file[t] = Nil
      BY <1>3 DEF LoginFollows
    <2>2. \A t \in over : sessions[t] # Nil
      BY <1>3, <1>4 DEF LoginFollows
    <2>3. \A t \in Sids : file[t] # Nil /\ sessions[t] # Nil => file[t].user = sessions[t].user
      BY <1>3, <1>5 DEF LoginFollows
    <2> QED
      BY <1>2, <1>3, <2>1, <2>2, <2>3 DEF Goes
  <1>7. CookiesEnd
    <2>1. shed' \subseteq Sids
      BY <1>1 DEF SessionInv, SessionFileInv
    <2> QED
      BY <1>2, <1>4, <2>1, SessionBounds DEF CookiesEnd, SessionInv, SessionFileInv
  <1>8. ASSUME NEW t \in Sids \ shed'
        PROVE  /\ Follows(file[t], sessions[t], cookies'[t], clock, t \in over)
               /\ Marks(file[t], cookies'[t], revokedAt[t], clock, t \in over)
    <2>1. CASE t = s
      BY <1>2, <1>5, <2>1 DEF Follows, Marks
    <2>2. CASE t # s
      BY <1>3, <1>4, <1>8, <2>2 DEF Follows, Marks, LoginFollows
    <2> QED
      BY <2>1, <2>2
  <1> QED
    BY <1>2, <1>4, <1>6, <1>7, <1>8, FileBegins

-----------------------------------------------------------------------------
(* The write itself *)

LEMMA AfterWriteFields ==
    ASSUME SessionInv, NEW c \in Clerks, WriteSessions(c), NEW d \in Clerks \ {c}
    PROVE  /\ clerk'[d] \in ClerkType
           /\ clerk'[d].pc = clerk[d].pc
           /\ clerk[d].pc = "write" =>
                 /\ clerk'[d].file = clerk[d].file /\ clerk'[d].over = clerk[d].over
                 /\ clerk'[d].at = clerk[d].at /\ clerk'[d].login = clerk[d].login
                 /\ ~clerk'[d].stale => ~clerk[d].stale /\ clerk[c].file = sessions
  <1>1. clerk[d] \in ClerkType /\ clerk' = AfterWrite(c)
    BY ReadFile DEF WriteSessions
  <1>2. CASE ~CAt(d, "write") \/ clerk[c].file = sessions
    <2>1. clerk'[d] = clerk[d]
      BY <1>1, <1>2 DEF AfterWrite
    <2> QED
      BY <1>1, <1>2, <2>1 DEF CAt
  <1>3. CASE CAt(d, "write") /\ clerk[c].file # sessions
    <2>1. clerk'[d] = Clerk("write", clerk[d].file, clerk[d].over, clerk[d].at, clerk[d].login, TRUE)
      BY <1>1, <1>3 DEF AfterWrite
    <2>2. clerk'[d] \in ClerkType
      BY <1>1, <2>1 DEF Clerk, ClerkType
    <2> QED
      BY <1>3, <2>1, <2>2 DEF Clerk, CAt
  <1> QED
    BY <1>2, <1>3

\* A file written with its answer tells the story it told.
LEMMA ToldAfterWrite ==
    ASSUME SessionInv, NEW c \in Clerks, WriteSessions(c), ~sessionsLost', NEW s \in Sids \ shed
    PROVE  Told(sessions[s], cookies[s], revokedAt[s])'
  <1> DEFINE v == clerk[c]
  <1>1. /\ v.pc = "write" /\ sessions' = v.file /\ clock' = clock
        /\ cookies' = IF v.login = Nil THEN cookies
                      ELSE [cookies EXCEPT ![v.login] = v.file[v.login].user]
        /\ revokedAt'[s] = IF s \in v.over /\ revokedAt[s] = Active THEN v.at ELSE revokedAt[s]
        /\ sessionsLost' = (sessionsLost \/ (v.stale /\ v.file # sessions))
    BY DEF WriteSessions, CAt
  <1>2. ClerkInv(v) /\ v \in ClerkType
    BY DEF SessionInv, ClerksInv
  <1>3. SessionFileInv
    BY DEF SessionInv
  <1> HIDE DEF v
  <1>4. SUFFICES ASSUME cookies'[s] # Nil
                 PROVE  IF v.file[s] = Nil
                        THEN revokedAt'[s] # Active /\ revokedAt'[s] + Retention < clock
                        ELSE IF v.file[s].revoked = Active THEN revokedAt'[s] = Active
                        ELSE revokedAt'[s] # Active /\ revokedAt'[s] <= v.file[s].revoked
    BY <1>1 DEF Told, Expired
  <1>5. CASE v.login = s
    <2>1. /\ s \notin v.over /\ revokedAt[s] = Active
          /\ v.file[s] # Nil /\ v.file[s].revoked = Active
      BY <1>1, <1>2, <1>5, SessionBounds DEF ClerkInv, Blank
    <2> QED
      BY <1>1, <2>1
  <1>6. CASE v.login # s
    <2>1. cookies'[s] = cookies[s] /\ cookies[s] # Nil
      BY <1>1, <1>3, <1>4, <1>6 DEF SessionFileInv
    <2>2. ~sessionsLost /\ (v.stale => v.file = sessions)
      BY <1>1
    <2>3. Told(sessions[s], cookies[s], revokedAt[s])
      BY <1>3, <2>2 DEF SessionFileInv
    <2>4. Marks(v.file[s], cookies[s], revokedAt[s], v.at, s \in v.over)
      BY <1>1, <1>2, <2>2 DEF ClerkInv
    <2>5. Follows(v.file[s], sessions[s], cookies[s], v.at, s \in v.over)
      <3>1. CASE ~v.stale
        BY <1>1, <1>2, <2>2, <3>1 DEF ClerkInv
      <3>2. CASE v.file = sessions
        BY <3>2 DEF Follows
      <3> QED
        BY <2>2, <3>1, <3>2, <1>2 DEF ClerkType
    <2>6. /\ v.at \in Nat /\ v.at # Active /\ revokedAt[s] \in Nat /\ clock \in Nat
          /\ Retention \in Nat
      BY <1>2, <1>3, SessionBounds DEF ClerkType, SessionFileInv
    <2>7. /\ v.file[s] # Nil => v.file[s].revoked \in Nat
          /\ sessions[s] # Nil => sessions[s].revoked \in Nat
      BY <1>1, <1>2, <1>3, SessionFields DEF ClerkInv, SessionFileInv
    <2>8. CASE sessions[s] = Nil
      <3>1. v.file[s] = Nil /\ revokedAt[s] # Active /\ Expired(revokedAt[s])
        BY <2>1, <2>3, <2>5, <2>8 DEF Told, Follows
      <3> QED
        BY <1>1, <3>1 DEF Expired
    <2>9. CASE sessions[s] # Nil /\ sessions[s].revoked = Active
      <3>1. /\ v.file[s] # Nil /\ revokedAt[s] = Active
            /\ v.file[s].revoked = Active \/ (v.file[s].revoked = v.at /\ s \in v.over)
            /\ s \in v.over => v.file[s].revoked = v.at
        BY <2>1, <2>3, <2>4, <2>5, <2>9 DEF Told, Follows, Marks
      <3> QED
        BY <1>1, <2>6, <3>1
    <2>10. CASE sessions[s] # Nil /\ sessions[s].revoked # Active
      <3>1. /\ revokedAt[s] # Active /\ revokedAt[s] <= sessions[s].revoked
            /\ \/ v.file[s] # Nil /\ v.file[s].revoked = sessions[s].revoked
               \/ v.file[s] = Nil /\ Expired(sessions[s].revoked)
        BY <2>1, <2>3, <2>5, <2>10 DEF Told, Follows
      <3>2. revokedAt'[s] = revokedAt[s]
        BY <1>1, <3>1
      <3>3. v.file[s] = Nil => revokedAt[s] + Retention < clock
        BY <2>6, <2>7, <2>10, <3>1 DEF Expired
      <3> QED
        BY <2>10, <3>1, <3>2, <3>3
    <2> QED
      BY <2>8, <2>9, <2>10
  <1> QED
    BY <1>5, <1>6

LEMMA WriteSessionsHolds ==
    ASSUME SessionInv, NEW c \in Clerks, WriteSessions(c)
    PROVE  SessionInv'
  <1> DEFINE v == clerk[c]
  <1>1. /\ v.pc = "write" /\ sessions' = v.file /\ clock' = clock /\ sids' = sids /\ shed' = shed
        /\ cookies' = IF v.login = Nil THEN cookies
                      ELSE [cookies EXCEPT ![v.login] = v.file[v.login].user]
        /\ revokedAt' = [s \in Sids |-> IF s \in v.over /\ revokedAt[s] = Active
                                        THEN v.at ELSE revokedAt[s]]
        /\ sessionsLost' = (sessionsLost \/ (v.stale /\ v.file # sessions))
        /\ clerk'[c] = NoClerk /\ clerk' = AfterWrite(c)
    BY DEF WriteSessions, CAt, AfterWrite
  <1>2. ClerkInv(v) /\ v \in ClerkType /\ SessionFileInv
    BY DEF SessionInv, ClerksInv
  <1> HIDE DEF v
  <1>3. /\ v.file \in Files /\ CapOK(v.file)
        /\ v.login # Nil => /\ v.login \in Sids /\ v.login \notin sids /\ Blank(v.login)
                            /\ v.file[v.login] # Nil /\ v.file[v.login].revoked = Active
                            /\ v.file[v.login].user \in Users
    BY <1>1, <1>2, SessionFields DEF ClerkInv, ClerkType
  <1>4. cookies' \in [Sids -> Users \cup {Nil}]
    BY <1>1, <1>2, <1>3 DEF SessionFileInv
  <1>5. ASSUME NEW s \in Sids, s # v.login
        PROVE  cookies'[s] = cookies[s]
    BY <1>1, <1>2, <1>3, <1>5 DEF SessionFileInv
  <1>6. ASSUME NEW s \in Sids, Blank(s), Untouched(v, s)
        PROVE  Blank(s)'
    <2>1. cookies'[s] = cookies[s] /\ sessions'[s] = Nil /\ revokedAt'[s] = revokedAt[s]
      BY <1>1, <1>5, <1>6 DEF Untouched
    <2> QED
      BY <1>6, <2>1 DEF Blank
  <1>7. SessionFileInv'
    <2>1. revokedAt' \in [Sids -> 0..Active]
      BY <1>1, <1>2, SessionBounds DEF ClerkType, SessionFileInv
    <2>2. sessionsLost' \in BOOLEAN
      BY <1>1
    <2>3. ASSUME NEW s \in sids'
          PROVE  Blank(s)'
      BY <1>1, <1>2, <1>6, <2>3 DEF ClerkInv, SessionFileInv
    <2>4. ASSUME NEW s \in Sids
          PROVE  Agrees(sessions'[s], cookies'[s])
      <3>1. CASE s = v.login
        <4>1. cookies'[s] = v.file[s].user
          BY <1>1, <1>2, <3>1, SessionBounds DEF SessionFileInv
        <4> QED
          BY <1>1, <4>1 DEF Agrees
      <3>2. CASE s # v.login
        BY <1>1, <1>2, <1>5, <3>2 DEF ClerkInv
      <3> QED
        BY <3>1, <3>2
    <2>5. ASSUME ~sessionsLost', NEW s \in Sids \ shed'
          PROVE  Told(sessions[s], cookies[s], revokedAt[s])'
      BY <1>1, <2>5, ToldAfterWrite
    <2>6. /\ clock' \in 0..MaxClock /\ sessions' \in Files /\ CapOK(sessions')
          /\ sids' \subseteq Sids /\ shed' \subseteq Sids
      BY <1>1, <1>2, <1>3 DEF SessionFileInv
    <2>7. /\ \A s \in sids' : Blank(s)'
          /\ \A s \in Sids : Agrees(sessions[s], cookies[s])'
          /\ ~sessionsLost' => \A s \in Sids \ shed' : Told(sessions[s], cookies[s], revokedAt[s])'
      BY <2>3, <2>4, <2>5
    <2> QED
      BY <1>4, <2>1, <2>2, <2>6, <2>7 DEF SessionFileInv, CapOK
  <1>8. ASSUME NEW d \in Clerks \ {c}
        PROVE  ClerkInv(clerk[d])' /\ Apart(clerk[d], clerk[c])'
    <2>1. /\ clerk'[d] \in ClerkType /\ clerk'[d].pc = clerk[d].pc
          /\ clerk[d].pc = "write" =>
                 /\ clerk'[d].file = clerk[d].file /\ clerk'[d].over = clerk[d].over
                 /\ clerk'[d].at = clerk[d].at /\ clerk'[d].login = clerk[d].login
                 /\ ~clerk'[d].stale => ~clerk[d].stale /\ v.file = sessions
      BY AfterWriteFields DEF v
    <2>2. Apart(clerk[d], clerk[c])'
      BY <1>1, NoClerkHolds DEF Apart
    <2>3. CASE clerk[d].pc # "write"
      BY <2>1, <2>2, <2>3 DEF ClerkInv
    <2>4. CASE clerk[d].pc = "write"
      <3> DEFINE w == clerk[d]
      <3>1. ClerkInv(w) /\ w \in ClerkType /\ Apart(v, w) /\ Apart(w, v)
        BY DEF SessionInv, ClerksInv, v
      <3>2. w.pc = "write"
        BY <2>4
      <3>3. /\ clerk'[d].file = w.file /\ clerk'[d].over = w.over
            /\ clerk'[d].at = w.at /\ clerk'[d].login = w.login
            /\ ~clerk'[d].stale => ~w.stale /\ v.file = sessions
        BY <2>1, <2>4
      <3> HIDE DEF w
      <3>4. v.login # Nil => Untouched(w, v.login)
        BY <1>1, <3>1, <3>2 DEF Apart
      <3>5. w.login # Nil => Untouched(v, w.login)
        BY <1>1, <3>1, <3>2 DEF Apart
      <3>6. w.file \in Files /\ CapOK(w.file) /\ \A s \in sids' : Untouched(w, s)
        BY <1>1, <3>1, <3>2 DEF ClerkInv
      <3>7. ASSUME w.login # Nil
            PROVE  /\ w.login \notin sids' /\ w.login \notin w.over
                   /\ w.file[w.login] # Nil /\ w.file[w.login].revoked = Active
                   /\ sessions'[w.login] = Nil /\ cookies'[w.login] = Nil
                   /\ revokedAt'[w.login] = Active
        <4>1. /\ w.login \in Sids /\ w.login \notin sids /\ Blank(w.login) /\ w.login \notin w.over
              /\ w.file[w.login] # Nil /\ w.file[w.login].revoked = Active
          BY <3>1, <3>2, <3>7 DEF ClerkInv, ClerkType
        <4>2. /\ sessions'[w.login] = Nil /\ cookies'[w.login] = cookies[w.login]
              /\ revokedAt'[w.login] = revokedAt[w.login]
          BY <1>1, <1>5, <3>5, <3>7, <4>1 DEF Untouched
        <4> QED
          BY <1>1, <4>1, <4>2 DEF Blank
      <3>8. ASSUME NEW s \in Sids
            PROVE  Agrees(w.file[s], cookies'[s])
        <4>1. CASE s = v.login
          BY <3>4, <4>1, SessionBounds DEF Untouched, Agrees
        <4>2. CASE s # v.login
          BY <1>5, <3>1, <3>2, <4>2 DEF ClerkInv
        <4> QED
          BY <4>1, <4>2
      <3>9. ASSUME ~sessionsLost', NEW s \in Sids \ shed'
            PROVE  /\ Marks(w.file[s], cookies'[s], revokedAt'[s], w.at, s \in w.over)
                   /\ ~w.stale /\ v.file = sessions =>
                        Follows(w.file[s], sessions'[s], cookies'[s], w.at, s \in w.over)
        <4>1. /\ Marks(w.file[s], cookies[s], revokedAt[s], w.at, s \in w.over)
              /\ ~w.stale => Follows(w.file[s], sessions[s], cookies[s], w.at, s \in w.over)
          BY <1>1, <3>1, <3>2, <3>9 DEF ClerkInv
        <4>2. CASE s = v.login
          <5>1. s \notin w.over /\ w.file[s] = Nil /\ v.file # sessions
            BY <1>3, <3>4, <4>2, SessionBounds DEF Untouched, Blank
          <5> QED
            BY <5>1 DEF Marks
        <4>3. CASE s # v.login
          <5>1. cookies'[s] = cookies[s]
            BY <1>5, <4>3
          <5>2. revokedAt[s] # Active => revokedAt'[s] # Active
            BY <1>1
          <5> QED
            BY <1>1, <4>1, <5>1, <5>2 DEF Marks
        <4> QED
          BY <4>2, <4>3
      <3>10. ASSUME ~sessionsLost', NEW s \in Sids \ shed', ~clerk'[d].stale
             PROVE  Follows(clerk[d].file[s], sessions[s], cookies[s], clerk[d].at, s \in clerk[d].over)'
        <4>1. Follows(w.file[s], sessions'[s], cookies'[s], w.at, s \in w.over)
          BY <3>3, <3>9, <3>10
        <4> QED
          BY <1>1, <3>3, <4>1 DEF Follows, Expired
      <3>11. /\ clerk'[d].file \in Files /\ CapOK(clerk'[d].file)
             /\ \A s \in sids' : Untouched(clerk'[d], s)
        BY <3>3, <3>6 DEF Untouched
      <3>12. clerk'[d].login # Nil =>
                 /\ clerk'[d].login \notin sids' /\ Blank(clerk[d].login)'
                 /\ clerk'[d].login \notin clerk'[d].over
                 /\ clerk'[d].file[clerk'[d].login] # Nil
                 /\ clerk'[d].file[clerk'[d].login].revoked = Active
        BY <3>3, <3>7 DEF Blank
      <3>13. \A s \in Sids : Agrees(clerk'[d].file[s], cookies'[s])
        BY <3>3, <3>8
      <3>14. ~sessionsLost' => \A s \in Sids \ shed' :
                /\ Marks(clerk'[d].file[s], cookies'[s], revokedAt'[s], clerk'[d].at, s \in clerk'[d].over)
                /\ ~clerk'[d].stale =>
                      Follows(clerk[d].file[s], sessions[s], cookies[s], clerk[d].at, s \in clerk[d].over)'
        BY <3>3, <3>9, <3>10
      <3> QED
        BY <2>2, <3>11, <3>12, <3>13, <3>14 DEF ClerkInv
    <2> QED
      BY <2>2, <2>3, <2>4
  <1>9. ClerkInv(clerk[c])'
    BY <1>1, NoClerkHolds DEF ClerkInv
  <1>10. clerk' \in [Clerks -> ClerkType]
    BY <1>1, NoClerkHolds, AfterWriteFields DEF AfterWrite
  <1>11. ASSUME NEW d \in Clerks, NEW e \in Clerks, d # e
         PROVE  Apart(clerk[d], clerk[e])'
    <2>1. CASE d = c
      BY <1>1, <2>1, NoClerkHolds DEF Apart
    <2>2. CASE e = c
      BY <1>8, <1>11, <2>2
    <2>3. CASE d # c /\ e # c
      <3>1. Apart(clerk[d], clerk[e])
        BY <1>11 DEF SessionInv, ClerksInv
      <3>2. /\ clerk'[d].pc = clerk[d].pc /\ clerk'[e].pc = clerk[e].pc
            /\ clerk[d].pc = "write" => clerk'[d].login = clerk[d].login
            /\ clerk[e].pc = "write" => /\ clerk'[e].login = clerk[e].login
                                        /\ clerk'[e].file = clerk[e].file
                                        /\ clerk'[e].over = clerk[e].over
        BY <2>3, AfterWriteFields
      <3> QED
        BY <3>1, <3>2 DEF Apart, Untouched
    <2> QED
      BY <2>1, <2>2, <2>3
  <1> QED
    BY <1>7, <1>8, <1>9, <1>10, <1>11 DEF SessionInv, ClerksInv

-----------------------------------------------------------------------------

LEMMA SessionInitHolds == clock = 0 /\ SessionInit => SessionInv
  <1> SUFFICES ASSUME clock = 0, SessionInit PROVE SessionInv
    OBVIOUS
  <1>1. /\ clock \in 0..MaxClock /\ sessions \in Files /\ revokedAt \in [Sids -> 0..Active]
    BY SessionBounds DEF SessionInit, Files
  <1>2. CapOK(sessions)
    <2>1. ASSUME NEW u \in Users PROVE Cardinality(ActiveOf(sessions, u)) = 0
      <3>1. ActiveOf(sessions, u) = {}
        BY DEF SessionInit, ActiveOf, IsActive
      <3> QED
        BY <3>1, FS_EmptySet
    <2>2. 0 <= HardCap
      BY SessionBounds
    <2> QED
      BY <2>1, <2>2 DEF CapOK
  <1>3. SessionFileInv
    BY <1>1, <1>2 DEF SessionFileInv, SessionInit, Blank, Agrees, Told
  <1>4. ClerksInv
    BY NoClerkHolds DEF SessionInit, ClerksInv, ClerkInv, Apart
  <1> QED
    BY <1>3, <1>4 DEF SessionInv

LEMMA SessionStepHolds == SessionInv /\ [SessionNext]_<<clock, sessionVars>> => SessionInv'
  <1> SUFFICES ASSUME SessionInv, [SessionNext]_<<clock, sessionVars>> PROVE SessionInv'
    OBVIOUS
  <1>1. CASE UNCHANGED <<clock, sessionVars>>
    BY <1>1, ReadFile, SessionBounds, SessionsFrame
  <1>2. CASE Tick /\ UNCHANGED sessionVars
    <2>1. clock' \in 0..MaxClock /\ clock <= clock'
      BY <1>2, ReadFile, TickHolds, SessionBounds DEF Tick
    <2> QED
      BY <1>2, <2>1, SessionsFrame
  <1> QED
    BY <1>1, <1>2, WriteSessionsHolds, LoginHolds, TouchHolds, RevokeSessionHolds, LogoutHolds,
       RevokeAllHolds, RefuseHolds, SessionsRestartHolds DEF SessionNext

LEMMA SessionInvHolds == SessionSpec => []SessionInv
  BY SessionInitHolds, SessionStepHolds, PTL DEF SessionSpec

LEMMA SessionInvTypes == SessionInv => SessionsTypeOK
  <1> SUFFICES ASSUME SessionInv PROVE SessionsTypeOK
    OBVIOUS
  <1>1. ASSUME NEW f \in FileVersions PROVE CapOK(f)
    BY <1>1 DEF FileVersions, CAt, SessionInv, SessionFileInv, ClerksInv, ClerkInv
  <1> QED
    BY <1>1 DEF SessionsTypeOK, SessionInv, SessionFileInv, ClerksInv, ClerkType, CapOK

\* A revoked session is let in no more while its day lasts.
LEMMA SessionInvSuffices == SessionInv => RevokedSessionFailsForADay
  <1> SUFFICES ASSUME SessionInv, ~sessionsLost, NEW s \in Sids \ shed, revokedAt[s] # Active,
                      clock <= revokedAt[s] + Retention, cookies[s] # Nil
               PROVE  IsRevoked(s)
    BY DEF RevokedSessionFailsForADay, LetIn
  <1>1. Told(sessions[s], cookies[s], revokedAt[s])
    BY OwnRecord
  <1>2. revokedAt[s] \in Nat /\ clock \in Nat
    BY SessionBounds DEF SessionInv, SessionFileInv
  <1>3. ~Expired(revokedAt[s])
    BY <1>2, SessionBounds DEF Expired
  <1> QED
    BY <1>1, <1>3 DEF Told, IsRevoked

\* Every variable of sessions.ts keeps its type, and no version of the file has
\* more active sessions of a user than the hard cap, however logins overlap.
THEOREM SessionTypesHold == SessionSpec => []SessionsTypeOK
  BY SessionInvHolds, SessionInvTypes, PTL

\* However logins, touches, revocations, logouts and restarts interleave, a session
\* that an answered call has revoked is let in no more as long as its record is kept,
\* until a write with a file from before replaces it.
THEOREM RevokedSessionsFail == SessionSpec => []RevokedSessionFailsForADay
  BY SessionInvHolds, SessionInvSuffices, PTL

-----------------------------------------------------------------------------
(* Offboarding.  While a removal is at work and nothing overlaps with it,  *)
(* all else is idle (Alone), and what it has done so far stays done        *)
(* (Halfway).  When it is answered, no file and no copy in hand has the    *)
(* user any more, and no request is on his behalf (Gone): from there he    *)
(* comes back only by a cookie whose session is on no file.                *)

Steps == {"free", "cookie", "register", "route", "mint", "delete", "keys", "swept", "sessions"}
JobType == [step : Steps, user : Users \cup {Nil}]

\* Where the request of a job stands; k and c: its save and its file.
Place == [step \in Steps |->
             CASE step = "register" -> "seen"
               [] step = "route"    -> "authed"
               [] step = "delete"   -> "write"
               [] OTHER             -> "idle"]
JobOK(j, m, k, c) ==
    /\ j.step # "free" => j.user \in Users
    /\ m.pc = Place[j.step]
    /\ j.step \notin {"register", "delete"} => m.next = Nil
    /\ j.step \notin {"mint", "swept"} => k = "idle"
    /\ j.step # "sessions" => c = "idle"

JobsInv ==
    /\ job \in [MemberCalls -> JobType]
    /\ removed \subseteq Users /\ overlap \in BOOLEAN /\ revived \in BOOLEAN
    /\ \A p \in MemberCalls : JobOK(job[p], mcall[p], saver[p].pc, clerk[p].pc)

NoKeyOf(a, u)     == \A k \in Keys : a[k] # Nil /\ a[k].user = u => a[k].revoked
NoSessionOf(f, u) == \A s \in Sids : f[s] # Nil /\ f[s].user = u => f[s].revoked # Active

Alone(p) ==
    /\ \A q \in MemberCalls \ {p} : job[q].step = "free"
    /\ \A s \in Savers \ {p} : saver[s].pc = "idle"
    /\ \A c \in Clerks \ {p} : clerk[c].pc = "idle"
Halfway(p) ==
    LET u == job[p].user IN
    /\ IF job[p].step = "delete" THEN mcall[p].next # Nil /\ mcall[p].next[u] = Absent
       ELSE registry[u] = Absent
    /\ job[p].step \in {"swept", "sessions"} =>
          NoKeyOf(IF saver[p].pc = "idle" THEN keys ELSE saver[p].array, u)
    /\ job[p].step = "sessions" =>
          NoSessionOf(IF clerk[p].pc = "idle" THEN sessions ELSE clerk[p].file, u)
RemovingInv == ~overlap => \A p \in Removing : Alone(p) /\ Halfway(p)

CallAway(m, u) == m.next # Nil => m.next[u] = Absent
JobAway(j, u)  == j.step \in {"cookie", "register", "route", "mint"} => j.user # u
SaveAway(v, u) == v.pc # "idle" => NoKeyOf(v.array, u)
FileAway(w, u) == w.pc = "write" => NoSessionOf(w.file, u)
Gone(u) ==
    /\ registry[u] = Absent /\ NoKeyOf(keys, u) /\ NoSessionOf(sessions, u)
    /\ \A p \in MemberCalls : CallAway(mcall[p], u) /\ JobAway(job[p], u)
    /\ \A s \in Savers : SaveAway(saver[s], u)
    /\ \A c \in Clerks : FileAway(clerk[c], u)
GoneInv == ~overlap /\ ~revived => \A u \in removed : Gone(u)

PartsInv  == MemberInv /\ KeyInv /\ SessionInv /\ JobsInv
AccessInv == PartsInv /\ RemovingInv /\ GoneInv

-----------------------------------------------------------------------------
(* Each step of a request is a step of members.ts, of api-keys.ts and of   *)
(* sessions.ts, or leaves them alone.                                      *)

KeysStep     == [KeyNext]_<<clock, keyVars>>
SessionsStep == [SessionNext]_<<clock, sessionVars>>
MembersStep  == [MemberNext]_memberVars

LEMMA SharedNames ==
    /\ MemberCalls \subseteq Savers /\ Background \subseteq Savers
    /\ MemberCalls \subseteq Clerks /\ Background \subseteq Clerks
    /\ \A b \in Background : b \notin MemberCalls
  BY OffboardingAssumption

LEMMA JobUser ==
    ASSUME JobsInv, NEW p \in MemberCalls
    PROVE  /\ job[p] \in JobType
           /\ job[p].step # "free" => job[p].user \in Users
  BY DEF JobsInv, JobOK

LEMMA MembersMove ==
    ASSUME PartsInv, [AccessNext]_accessVars
    PROVE  MembersStep
  <1>1. CASE UNCHANGED accessVars
    BY <1>1 DEF accessVars, MembersStep
  <1>2. ASSUME NEW p \in MemberCalls, NEW b \in Background, NEW k \in Keys, NEW g \in 1..MaxGen,
               NEW role \in KeyRoles, ComeByKey(p, b, k, g, role)
        PROVE  MembersStep
    <2>1. ArriveByKey(p, keys[k].user, role) /\ keys[k] # Nil
      BY <1>2 DEF ComeByKey, UseKey, Accepts, Live
    <2>2. keys[k].user \in Users
      BY <2>1, KeyFields DEF PartsInv, KeyInv, FileInv
    <2> QED
      BY <2>1, <2>2 DEF MembersStep, MemberNext
  <1>3. ASSUME NEW p \in MemberCalls, Bootstrap(p)
        PROVE  MembersStep
    <2>1. Arrive(p, job[p].user) /\ job[p].user \in Users
      BY <1>3, JobUser DEF Bootstrap, Doing, PartsInv
    <2> QED
      BY <2>1 DEF MembersStep, MemberNext
  <1>4. ASSUME NEW p \in MemberCalls, Register(p) PROVE MembersStep
    BY <1>4 DEF Register, MembersStep, MemberNext
  <1>5. ASSUME NEW p \in MemberCalls, NEW k \in Keys, Mint(p, k) PROVE MembersStep
    BY <1>5 DEF Mint, MembersStep, MemberNext, Route
  <1>6. ASSUME NEW p \in MemberCalls, Finish(p) PROVE MembersStep
    BY <1>6 DEF Finish, MembersStep, MemberNext, Route
  <1>7. ASSUME NEW p \in MemberCalls, NEW u \in Users, Delete(p, u) PROVE MembersStep
    BY <1>7 DEF Delete, MembersStep, MemberNext, Route
  <1>8. ASSUME NEW p \in MemberCalls, Unlist(p) PROVE MembersStep
    BY <1>8 DEF Unlist, MembersStep, MemberNext, Route
  <1>9. ASSUME NEW p \in MemberCalls,
               \/ \E s \in Sids : ComeByCookie(p, s)
               \/ SweepOfKeys(p) \/ SweepOfSessions(p) \/ Answer(p)
        PROVE  MembersStep
    BY <1>9 DEF ComeByCookie, SweepOfKeys, SweepOfSessions, Answer, MembersStep
  <1>10. ASSUME NEW p \in MemberCalls, Request(p) PROVE MembersStep
    BY <1>2, <1>3, <1>4, <1>5, <1>6, <1>7, <1>8, <1>9, <1>10 DEF Request
  <1>11. ASSUME \/ \E b \in Background, s \in Sids : TouchLater(b, s) \/ \E u \in Users : SignIn(b, s, u)
                \/ \E s \in Savers : SaveKeys(s)
                \/ \E c \in Clerks : SaveSessions(c)
                \/ \E s \in Sids : Rejected(s)
         PROVE  MembersStep
    BY <1>11 DEF TouchLater, SignIn, SaveKeys, SaveSessions, Rejected, MembersStep
  <1>12. ASSUME Crash PROVE MembersStep
    BY <1>12 DEF Crash, MembersStep, MemberNext
  <1> QED
    BY <1>1, <1>10, <1>11, <1>12 DEF AccessNext

LEMMA KeysMove ==
    ASSUME PartsInv, [AccessNext]_accessVars
    PROVE  KeysStep
  <1>1. CASE UNCHANGED accessVars
    BY <1>1 DEF accessVars, KeysStep
  <1>2. ASSUME NEW p \in MemberCalls, NEW b \in Background, NEW k \in Keys, NEW g \in 1..MaxGen,
               NEW role \in KeyRoles, ComeByKey(p, b, k, g, role)
        PROVE  KeysStep
    BY <1>2, SharedNames DEF ComeByKey, KeysStep, KeyNext
  <1>3. ASSUME NEW p \in MemberCalls, NEW k \in Keys, Mint(p, k) PROVE KeysStep
    <2>1. IssueKey(p, k, job[p].user, 0) /\ job[p].user \in Users
      BY <1>3, JobUser DEF Mint, Doing, PartsInv
    <2>2. 0 \in 0..MaxClock /\ p \in Savers
      BY ClockBounds, SharedNames
    <2> QED
      BY <2>1, <2>2 DEF KeysStep, KeyNext
  <1>4. ASSUME NEW p \in MemberCalls, SweepOfKeys(p) PROVE KeysStep
    <2>1. job[p].user \in Users /\ p \in Savers
      BY <1>4, JobUser, SharedNames DEF SweepOfKeys, Doing, PartsInv
    <2>2. UNCHANGED <<clock, keyVars>> \/ SweepKeys(p, job[p].user)
      BY <1>4 DEF SweepOfKeys
    <2> QED
      BY <2>1, <2>2 DEF KeysStep, KeyNext
  <1>5. ASSUME NEW p \in MemberCalls,
               \/ \E s \in Sids : ComeByCookie(p, s)
               \/ Bootstrap(p) \/ Register(p) \/ Finish(p)
               \/ \E u \in Users : Delete(p, u)
               \/ Unlist(p) \/ Answer(p)
        PROVE  KeysStep
    BY <1>5 DEF ComeByCookie, Bootstrap, Register, Finish, Delete, Unlist, Answer, KeysStep
  <1>6. ASSUME NEW p \in MemberCalls, SweepOfSessions(p)
        PROVE  KeysStep
    <2>1. UNCHANGED keyVars /\ UNCHANGED clock
      BY <1>6 DEF SweepOfSessions, RevokeAll
    <2> QED
      BY <2>1 DEF KeysStep
  <1>7. ASSUME NEW p \in MemberCalls, Request(p) PROVE KeysStep
    BY <1>2, <1>3, <1>4, <1>5, <1>6, <1>7 DEF Request
  <1>8. ASSUME NEW b \in Background, NEW s \in Sids, TouchLater(b, s) \/ \E u \in Users : SignIn(b, s, u)
        PROVE  KeysStep
    <2>1. UNCHANGED keyVars /\ UNCHANGED clock
      BY <1>8 DEF TouchLater, Touch, SignIn, Login
    <2> QED
      BY <2>1 DEF KeysStep
  <1>9. ASSUME NEW s \in Savers, SaveKeys(s) PROVE KeysStep
    BY <1>9 DEF SaveKeys, KeysStep, KeyNext
  <1>10. ASSUME (\E c \in Clerks : SaveSessions(c)) \/ \E s \in Sids : Rejected(s)
         PROVE  KeysStep
    <2>1. UNCHANGED keyVars /\ UNCHANGED clock
      BY <1>10 DEF SaveSessions, WriteSessions, Rejected, Refuse
    <2> QED
      BY <2>1 DEF KeysStep
  <1>11. ASSUME Crash PROVE KeysStep
    BY <1>11 DEF Crash, KeysStep, KeyNext
  <1> QED
    BY <1>1, <1>7, <1>8, <1>9, <1>10, <1>11 DEF AccessNext

LEMMA SessionsMove ==
    ASSUME PartsInv, [AccessNext]_accessVars
    PROVE  SessionsStep
  <1>1. CASE UNCHANGED accessVars
    BY <1>1 DEF accessVars, SessionsStep
  <1>2. ASSUME NEW p \in MemberCalls,
               \/ \E s \in Sids : ComeByCookie(p, s)
               \/ Bootstrap(p) \/ Register(p) \/ Finish(p)
               \/ \E u \in Users : Delete(p, u)
               \/ Unlist(p) \/ Answer(p)
        PROVE  SessionsStep
    BY <1>2 DEF ComeByCookie, Bootstrap, Register, Finish, Delete, Unlist, Answer, SessionsStep
  <1>3. ASSUME NEW p \in MemberCalls,
               \/ \E b \in Background, k \in Keys, g \in 1..MaxGen, role \in KeyRoles :
                     ComeByKey(p, b, k, g, role)
               \/ \E k \in Keys : Mint(p, k)
               \/ SweepOfKeys(p)
        PROVE  SessionsStep
    <2>1. UNCHANGED sessionVars /\ UNCHANGED clock
      BY <1>3 DEF ComeByKey, UseKey, Mint, IssueKey, SweepOfKeys, SweepKeys
    <2> QED
      BY <2>1 DEF SessionsStep
  <1>4. ASSUME NEW p \in MemberCalls, SweepOfSessions(p)
        PROVE  SessionsStep
    <2>1. job[p].user \in Users /\ p \in Clerks
      BY <1>4, JobUser, SharedNames DEF SweepOfSessions, Doing, PartsInv
    <2>2. UNCHANGED <<clock, sessionVars>> \/ RevokeAll(p, job[p].user, Nil)
      BY <1>4 DEF SweepOfSessions
    <2> QED
      BY <2>1, <2>2 DEF SessionsStep, SessionNext
  <1>5. ASSUME NEW p \in MemberCalls, Request(p) PROVE SessionsStep
    BY <1>2, <1>3, <1>4, <1>5 DEF Request
  <1>6. ASSUME NEW b \in Background, NEW s \in Sids, TouchLater(b, s) PROVE SessionsStep
    BY <1>6, SharedNames DEF TouchLater, SessionsStep, SessionNext
  <1>7. ASSUME NEW b \in Background, NEW s \in Sids, NEW u \in Users, SignIn(b, s, u) PROVE SessionsStep
    BY <1>7, SharedNames DEF SignIn, SessionsStep, SessionNext
  <1>8. ASSUME NEW s \in Savers, SaveKeys(s) PROVE SessionsStep
    <2>1. UNCHANGED sessionVars /\ UNCHANGED clock
      BY <1>8 DEF SaveKeys, Truncate, Fill
    <2> QED
      BY <2>1 DEF SessionsStep
  <1>9. ASSUME (\E c \in Clerks : SaveSessions(c)) \/ (\E s \in Sids : Rejected(s)) \/ Crash
        PROVE  SessionsStep
    BY <1>9 DEF SaveSessions, Rejected, Crash, SessionsStep, SessionNext
  <1> QED
    BY <1>1, <1>5, <1>6, <1>7, <1>8, <1>9 DEF AccessNext

LEMMA PartsMove ==
    ASSUME PartsInv, [AccessNext]_accessVars
    PROVE  MemberInv' /\ KeyInv' /\ SessionInv'
  <1>1. MembersStep /\ KeysStep /\ SessionsStep
    BY MembersMove, KeysMove, SessionsMove
  <1> QED
    BY <1>1, MemberStepHolds, KeyStepHolds, SessionStepHolds
       DEF PartsInv, MembersStep, KeysStep, SessionsStep

LEMMA AccessInitHolds == AccessInit => AccessInv
  <1> SUFFICES ASSUME AccessInit PROVE AccessInv
    OBVIOUS
  <1>1. PICK o \in Users, holder \in [Keys -> Users \cup {Nil}], guest \in [Sids -> Users \cup {Nil}] :
        /\ clock = 1
        /\ registry = [u \in Users |-> IF u = o THEN "owner" ELSE "member"]
        /\ invitations = [i \in Invites |-> Nil] /\ drawn = {} /\ lapsed = {}
        /\ mcall = [c \in MemberCalls |-> NoCall] /\ crowned = {o} /\ outcomes = {}
        /\ keys = [k \in Keys |-> IF holder[k] = Nil THEN Nil
                                   ELSE Key(holder[k], 1, 0, 0, FALSE, 0, Never)]
        /\ keyFile = "whole" /\ keyIds = {k \in Keys : holder[k] = Nil}
        /\ saver = [s \in Savers |-> NoSave]
        /\ ends = [x \in SecretsOf(Keys) |-> Never + Grace] /\ keysLost = FALSE
        /\ sessions = [s \in Sids |-> IF guest[s] = Nil THEN Nil ELSE Session(guest[s], 0, Active)]
        /\ \A u \in Users : Cardinality(ActiveOf(sessions, u)) <= HardCap
        /\ cookies = guest /\ sids = {s \in Sids : guest[s] = Nil}
        /\ clerk = [c \in Clerks |-> NoClerk]
        /\ revokedAt = [s \in Sids |-> Active] /\ shed = {} /\ sessionsLost = FALSE
        /\ job = [p \in MemberCalls |-> Free]
        /\ removed = {} /\ overlap = FALSE /\ revived = FALSE
    BY DEF AccessInit
  <1>2. clock \in 0..MaxClock
    BY <1>1, OffboardingAssumption, ClockBounds
  <1>3. MemberInv
    <2>1. /\ registry \in Registries /\ Owners(registry) = {o}
      BY <1>1 DEF Registries, Roles, Owners
    <2>2. invitations \in InvitationFiles /\ Rightful(invitations, crowned)
      BY <1>1 DEF InvitationFiles, Rightful
    <2>3. SharedInv
      BY <1>1, <2>1, <2>2 DEF SharedInv, Good
    <2>4. CallsInv
      BY <1>1, IdleCall DEF CallsInv
    <2> QED
      BY <2>3, <2>4 DEF MemberInv
  <1>4. KeyInv
    <2>1. ASSUME NEW u \in Users PROVE Key(u, 1, 0, 0, FALSE, 0, Never) \in KeyType
      <3>1. 0 \in 0..MaxClock /\ Never \in 0..(Never + Ttl)
        BY ClockBounds
      <3> QED
        BY <3>1, NewKeyHolds
    <2>2. keys \in Arrays /\ Unissued(keys, keyIds) /\ keyIds \subseteq Keys
      BY <1>1, <2>1 DEF Arrays, Unissued
    <2>3. Never + Grace \in Times
      BY ClockBounds DEF Times
    <2>4. FileInv
      BY <1>1, <1>2, <2>2, <2>3 DEF FileInv, SecretsOf
    <2>5. SaversInv
      BY <1>1, NoSaveHolds DEF SaversInv
    <2> QED
      BY <2>4, <2>5 DEF KeyInv
  <1>5. SessionInv
    <2>1. ASSUME NEW u \in Users
          PROVE  /\ Session(u, 0, Active) \in SessionType /\ Session(u, 0, Active) # Nil
                 /\ Session(u, 0, Active).user = u /\ Session(u, 0, Active).revoked = Active
      <3>1. Session(u, 0, Active) \in SessionType
        BY SessionBounds DEF Session, SessionType
      <3> QED
        BY <3>1, NoSessionAssumption DEF Session
    <2>2. sessions \in Files /\ CapOK(sessions)
      BY <1>1, <2>1 DEF Files, CapOK
    <2>3. revokedAt \in [Sids -> 0..Active]
      BY <1>1, SessionBounds
    <2>4. \A s \in sids : Blank(s)
      BY <1>1 DEF Blank
    <2>5. \A s \in Sids : /\ Agrees(sessions[s], cookies[s])
                          /\ Told(sessions[s], cookies[s], revokedAt[s])
      BY <1>1, <2>1 DEF Agrees, Told
    <2>6. SessionFileInv
      BY <1>1, <1>2, <2>2, <2>3, <2>4, <2>5 DEF SessionFileInv
    <2>7. ClerksInv
      BY <1>1, NoClerkHolds DEF ClerksInv, ClerkInv, Apart
    <2> QED
      BY <2>6, <2>7 DEF SessionInv
  <1>6. JobsInv
    <2>1. Free \in JobType /\ Free.step = "free"
      BY DEF Free, Job, JobType, Steps
    <2>2. NoCall.pc = "idle" /\ NoCall.next = Nil
      BY DEF NoCall, MemberCall
    <2>3. Place["free"] = "idle"
      BY DEF Place, Steps
    <2>4. \A p \in MemberCalls : JobOK(job[p], mcall[p], saver[p].pc, clerk[p].pc)
      BY <1>1, <2>1, <2>2, <2>3, NoSaveHolds, NoClerkHolds, SharedNames DEF JobOK
    <2> QED
      BY <1>1, <2>1, <2>4 DEF JobsInv
  <1>7. RemovingInv /\ GoneInv
    BY <1>1 DEF RemovingInv, GoneInv, Removing, Free, Job
  <1> QED
    BY <1>3, <1>4, <1>5, <1>6, <1>7 DEF AccessInv, PartsInv

-----------------------------------------------------------------------------
(* What each step of a request changes *)

LEMMA JobFields ==
    ASSUME NEW step, NEW user
    PROVE  Job(step, user).step = step /\ Job(step, user).user = user
  BY DEF Job

LEMMA OneCallMoves ==
    ASSUME PartsInv, NEW p \in MemberCalls, NEW m, MMove(p, m)
    PROVE  /\ mcall'[p] = m
           /\ \A q \in MemberCalls \ {p} : mcall'[q] = mcall[q]
  BY DEF MMove, PartsInv, MemberInv, CallsInv

LEMMA OneJobTurns ==
    ASSUME PartsInv, NEW p \in MemberCalls, NEW j, Turns(p, j)
    PROVE  /\ job'[p] = j
           /\ \A q \in MemberCalls \ {p} : job'[q] = job[q]
  BY DEF Turns, PartsInv, JobsInv

LEMMA OneSaves ==
    ASSUME PartsInv, NEW s \in Savers, NEW array, NEW over, NEW at, WillSave(s, array, over, at)
    PROVE  /\ saver'[s].pc = "save" /\ saver'[s].array = array
           /\ \A t \in Savers \ {s} : saver'[t] = saver[t]
  BY DEF WillSave, Saver, PartsInv, KeyInv, SaversInv

LEMMA OneWrites ==
    ASSUME PartsInv, NEW c \in Clerks, NEW file, NEW over, NEW login, WillFile(c, file, over, login)
    PROVE  /\ clerk'[c].pc = "write" /\ clerk'[c].file = file
           /\ \A d \in Clerks \ {c} : clerk'[d] = clerk[d]
  BY DEF WillFile, Clerk, PartsInv, SessionInv, ClerksInv

LEMMA EndedCall == NoCall.pc = "idle" /\ NoCall.next = Nil
  BY DEF NoCall, MemberCall

CallStays(p) == mcall'[p] = mcall[p]
KeysStay     == keys' = keys /\ saver' = saver
SessionsStay == sessions' = sessions /\ clerk' = clerk /\ cookies' = cookies
OthersStay(p) ==
    /\ \A q \in MemberCalls \ {p} : mcall'[q] = mcall[q] /\ job'[q] = job[q]
    /\ \A c \in Clerks \ {p} : clerk'[c] = clerk[c]
Unmarked == UNCHANGED <<removed, overlap, revived>>

LEMMA ComeByCookieDoes ==
    ASSUME PartsInv, NEW p \in MemberCalls, NEW s \in Sids, ComeByCookie(p, s)
    PROVE  /\ job[p].step = "free" /\ job'[p] = Job("cookie", cookies[s])
           /\ LetIn(s) /\ cookies[s] \in Users
           /\ OthersStay(p) /\ CallStays(p) /\ KeysStay /\ SessionsStay
           /\ registry' = registry /\ removed' = removed
           /\ overlap' = (overlap \/ Removing # {})
           /\ revived' = (revived \/ sessions[s] = Nil)
  <1>1. /\ Doing(p, "free") /\ LetIn(s) /\ Turns(p, Job("cookie", cookies[s]))
        /\ overlap' = (overlap \/ Removing # {}) /\ revived' = (revived \/ sessions[s] = Nil)
        /\ UNCHANGED <<registry, mcall, keys, saver, sessions, clerk, cookies, removed>>
    BY DEF ComeByCookie, Overlaps, memberVars, keyVars, sessionVars
  <1>2. cookies[s] \in Users
    BY <1>1 DEF LetIn, PartsInv, SessionInv, SessionFileInv
  <1> QED
    BY <1>1, <1>2, OneJobTurns DEF Doing, OthersStay, CallStays, KeysStay, SessionsStay

LEMMA BootstrapDoes ==
    ASSUME PartsInv, NEW p \in MemberCalls, Bootstrap(p)
    PROVE  /\ job[p].step = "cookie" /\ job'[p] = Job("register", job[p].user)
           /\ mcall'[p].pc = "seen"
           /\ \E d \in Defaults : mcall'[p].next = Seen(registry, job[p].user, d)
           /\ OthersStay(p) /\ KeysStay /\ SessionsStay /\ Unmarked
           /\ registry' = registry
  <1>1. /\ Doing(p, "cookie") /\ Arrive(p, job[p].user) /\ Turns(p, Job("register", job[p].user))
        /\ UNCHANGED <<keys, saver, sessions, clerk, cookies, removed, overlap, revived>>
    BY DEF Bootstrap, keyVars, sessionVars
  <1>2. PICK d \in Defaults :
           MMove(p, MemberCall("seen", job[p].user, Absent, Seen(registry, job[p].user, d), Nil, Nil))
    BY <1>1 DEF Arrive
  <1>3. registry' = registry
    BY <1>1 DEF Arrive
  <1>4. mcall'[p].pc = "seen" /\ mcall'[p].next = Seen(registry, job[p].user, d)
    BY <1>2, OneCallMoves DEF MemberCall
  <1> QED
    BY <1>1, <1>2, <1>3, <1>4, OneJobTurns, OneCallMoves
       DEF Doing, OthersStay, KeysStay, SessionsStay, Unmarked

LEMMA RegisterDoes ==
    ASSUME PartsInv, NEW p \in MemberCalls, Register(p)
    PROVE  /\ job[p].step = "register" /\ job'[p] = Job("route", job[p].user)
           /\ mcall'[p].pc = "authed" /\ mcall'[p].next = Nil
           /\ OthersStay(p) /\ KeysStay /\ SessionsStay /\ Unmarked
           /\ registry' = mcall[p].next /\ mcall[p].next # Nil
  <1>1. /\ Doing(p, "register") /\ Recorded(p) /\ Turns(p, Job("route", job[p].user))
        /\ UNCHANGED <<keys, saver, sessions, clerk, cookies, removed, overlap, revived>>
    BY DEF Register, keyVars, sessionVars
  <1>2. /\ mcall[p].pc = "seen" /\ registry' = mcall[p].next
        /\ MMove(p, Entered(mcall[p].user, mcall[p].next[mcall[p].user]))
    BY <1>1 DEF Recorded, MAt
  <1>3. mcall'[p].pc = "authed" /\ mcall'[p].next = Nil
    BY <1>2, OneCallMoves DEF Entered, MemberCall
  <1>4. mcall[p].next # Nil
    <2>1. CallInv(mcall[p], registry, crowned)
      BY CallHolds DEF PartsInv
    <2>2. mcall[p].next \in Registries
      BY <1>2, <2>1 DEF CallInv
    <2> QED
      BY <2>2, MembersAssumption DEF Registries
  <1> QED
    BY <1>1, <1>2, <1>3, <1>4, OneJobTurns, OneCallMoves
       DEF Doing, OthersStay, KeysStay, SessionsStay, Unmarked

LEMMA ComeByKeyDoes ==
    ASSUME PartsInv, NEW p \in MemberCalls, NEW b \in Background, NEW k \in Keys, NEW g \in 1..MaxGen,
           NEW role \in KeyRoles, ComeByKey(p, b, k, g, role)
    PROVE  /\ job[p].step = "free" /\ job'[p] = Job("route", keys[k].user)
           /\ keys[k] # Nil /\ ~keys[k].revoked /\ keys[k].user \in Users
           /\ mcall'[p].pc = "authed" /\ mcall'[p].next = Nil
           /\ OthersStay(p) /\ SessionsStay
           /\ saver'[b].array = keys /\ keys' = keys
           /\ \A s \in Savers \ {b} : saver'[s] = saver[s]
           /\ registry' = registry /\ removed' = removed /\ revived' = revived
           /\ overlap' = (overlap \/ Removing # {})
  <1>1. /\ Doing(p, "free") /\ UseKey(b, k, g) /\ ArriveByKey(p, keys[k].user, role)
        /\ Turns(p, Job("route", keys[k].user))
        /\ overlap' = (overlap \/ Removing # {})
        /\ UNCHANGED <<sessions, clerk, cookies, removed, revived>>
    BY DEF ComeByKey, Overlaps, sessionVars
  <1>2. /\ keys[k] # Nil /\ ~keys[k].revoked /\ WillSave(b, keys, {}, 0) /\ keys' = keys
    BY <1>1 DEF UseKey, Accepts, Live
  <1>3. keys[k].user \in Users
    BY <1>2, KeyFields DEF PartsInv, KeyInv, FileInv
  <1>4. MMove(p, Entered(keys[k].user, role)) /\ registry' = registry
    BY <1>1 DEF ArriveByKey
  <1>5. mcall'[p].pc = "authed" /\ mcall'[p].next = Nil
    BY <1>4, OneCallMoves DEF Entered, MemberCall
  <1>6. saver'[b].array = keys /\ \A s \in Savers \ {b} : saver'[s] = saver[s]
    BY <1>2, SharedNames, OneSaves
  <1> QED
    BY <1>1, <1>2, <1>3, <1>4, <1>5, <1>6, OneJobTurns, OneCallMoves
       DEF Doing, OthersStay, SessionsStay

LEMMA MintDoes ==
    ASSUME PartsInv, NEW p \in MemberCalls, NEW k \in Keys, Mint(p, k)
    PROVE  /\ job[p].step = "route" /\ job'[p] = Job("mint", job[p].user)
           /\ mcall'[p].pc = "idle" /\ mcall'[p].next = Nil
           /\ \E r : /\ r.user = job[p].user
                     /\ saver'[p].array = [keys EXCEPT ![k] = r]
           /\ \A s \in Savers \ {p} : saver'[s] = saver[s]
           /\ OthersStay(p) /\ SessionsStay /\ Unmarked
           /\ registry' = registry /\ keys' = keys
  <1>1. /\ Doing(p, "route") /\ IssueKey(p, k, job[p].user, 0) /\ Leave(p)
        /\ Turns(p, Job("mint", job[p].user))
        /\ UNCHANGED <<sessions, clerk, cookies, removed, overlap, revived>>
    BY DEF Mint, sessionVars
  <1> DEFINE r == Key(job[p].user, 1, 0, 0, FALSE, 0, IF Ttl = 0 THEN Never ELSE clock + Ttl)
  <1>2. WillSave(p, [keys EXCEPT ![k] = r], {}, 0) /\ keys' = keys
    BY <1>1 DEF IssueKey
  <1>3. r.user = job[p].user
    BY DEF Key
  <1> HIDE DEF r
  <1>4. saver'[p].array = [keys EXCEPT ![k] = r] /\ \A s \in Savers \ {p} : saver'[s] = saver[s]
    BY <1>2, SharedNames, OneSaves
  <1>5. MMove(p, NoCall) /\ registry' = registry
    BY <1>1 DEF Leave
  <1> QED
    BY <1>1, <1>2, <1>3, <1>4, <1>5, EndedCall, OneJobTurns, OneCallMoves
       DEF Doing, OthersStay, SessionsStay, Unmarked

LEMMA FinishDoes ==
    ASSUME PartsInv, NEW p \in MemberCalls, Finish(p)
    PROVE  /\ job[p].step \in {"route", "mint"} /\ job'[p] = Free
           /\ mcall'[p].pc = "idle" /\ mcall'[p].next = Nil
           /\ job[p].step = "mint" => saver[p].pc = "idle"
           /\ OthersStay(p) /\ KeysStay /\ SessionsStay /\ Unmarked
           /\ registry' = registry
  <1>1. /\ Turns(p, Free)
        /\ UNCHANGED <<sessions, clerk, cookies, removed, overlap, revived>>
    BY DEF Finish, sessionVars
  <1>2. CASE Doing(p, "route") /\ Leave(p) /\ UNCHANGED keyVars
    <2>1. MMove(p, NoCall) /\ UNCHANGED <<registry, keys, saver>>
      BY <1>2 DEF Leave, keyVars
    <2> QED
      BY <1>1, <1>2, <2>1, EndedCall, OneJobTurns, OneCallMoves
         DEF Doing, OthersStay, KeysStay, SessionsStay, Unmarked
  <1>3. CASE Doing(p, "mint") /\ KAt(p, "idle") /\ UNCHANGED <<memberVars, keyVars>>
    <2>1. UNCHANGED <<registry, mcall, keys, saver>> /\ saver[p].pc = "idle" /\ job[p].step = "mint"
      BY <1>3 DEF memberVars, keyVars, KAt, Doing
    <2>2. JobOK(job[p], mcall[p], saver[p].pc, clerk[p].pc)
      BY DEF PartsInv, JobsInv
    <2>3. mcall[p].pc = "idle" /\ mcall[p].next = Nil
      BY <2>1, <2>2 DEF JobOK, Place, Steps
    <2> QED
      BY <1>1, <2>1, <2>3, OneJobTurns DEF OthersStay, KeysStay, SessionsStay, Unmarked
  <1> QED
    BY <1>2, <1>3 DEF Finish

LEMMA DeleteDoes ==
    ASSUME PartsInv, NEW p \in MemberCalls, NEW u \in Users, Delete(p, u)
    PROVE  /\ job[p].step = "route" /\ job'[p] = Job("delete", u)
           /\ mcall'[p].pc = "write" /\ mcall'[p].next = Removed(registry, u)
           /\ OthersStay(p) /\ KeysStay /\ SessionsStay
           /\ registry' = registry /\ removed' = removed /\ revived' = revived
           /\ overlap' \in BOOLEAN /\ (overlap => overlap')
           /\ ~overlap' => Alone(p) /\ \A s \in Savers : saver[s].pc = "idle"
  <1>1. /\ Doing(p, "route") /\ RemoveMember(p, u) /\ Turns(p, Job("delete", u))
        /\ overlap' = (overlap \/ (\/ \E q \in MemberCalls \ {p} : ~Doing(q, "free")
                                   \/ \E s \in Savers : ~KAt(s, "idle")
                                   \/ \E c \in Clerks : ~CAt(c, "idle")))
        /\ UNCHANGED <<keys, saver, sessions, clerk, cookies, removed, revived>>
    BY DEF Delete, Overlaps, keyVars, sessionVars
  <1>2. /\ MMove(p, MemberCall("write", mcall[p].user, mcall[p].role, Removed(registry, u), Nil, Nil))
        /\ registry' = registry
    BY <1>1 DEF RemoveMember, WillWrite
  <1>3. mcall'[p].pc = "write" /\ mcall'[p].next = Removed(registry, u)
    BY <1>2, OneCallMoves DEF MemberCall
  <1>4. overlap' \in BOOLEAN /\ (overlap => overlap')
    BY <1>1
  <1>5. ~overlap' => Alone(p) /\ \A s \in Savers : saver[s].pc = "idle"
    BY <1>1 DEF Alone, Doing, KAt, CAt
  <1> QED
    BY <1>1, <1>2, <1>3, <1>4, <1>5, OneJobTurns, OneCallMoves
       DEF Doing, OthersStay, KeysStay, SessionsStay

LEMMA UnlistDoes ==
    ASSUME PartsInv, NEW p \in MemberCalls, Unlist(p)
    PROVE  /\ job[p].step = "delete" /\ job'[p] = Job("keys", job[p].user)
           /\ mcall'[p].pc = "idle" /\ mcall'[p].next = Nil
           /\ OthersStay(p) /\ KeysStay /\ SessionsStay /\ Unmarked
           /\ registry' = mcall[p].next /\ mcall[p].next # Nil
  <1>1. /\ Doing(p, "delete") /\ WriteRegistry(p) /\ Turns(p, Job("keys", job[p].user))
        /\ UNCHANGED <<keys, saver, sessions, clerk, cookies, removed, overlap, revived>>
    BY DEF Unlist, keyVars, sessionVars
  <1>2. mcall[p].pc = "write" /\ registry' = mcall[p].next /\ MMove(p, NoCall)
    BY <1>1 DEF WriteRegistry, MAt
  <1>3. mcall[p].next # Nil
    <2>1. CallInv(mcall[p], registry, crowned)
      BY CallHolds DEF PartsInv
    <2>2. mcall[p].next \in Registries
      BY <1>2, <2>1 DEF CallInv
    <2> QED
      BY <2>2, MembersAssumption DEF Registries
  <1> QED
    BY <1>1, <1>2, <1>3, EndedCall, OneJobTurns, OneCallMoves
       DEF Doing, OthersStay, KeysStay, SessionsStay, Unmarked

LEMMA SweepOfKeysDoes ==
    ASSUME PartsInv, NEW p \in MemberCalls, SweepOfKeys(p)
    PROVE  /\ job[p].step = "keys" /\ job'[p] = Job("swept", job[p].user)
           /\ CallStays(p) /\ OthersStay(p) /\ SessionsStay /\ Unmarked
           /\ registry' = registry /\ keys' = keys
           /\ \A s \in Savers \ {p} : saver'[s] = saver[s]
           /\ \/ OwnKeys(job[p].user) = {} /\ saver'[p] = saver[p]
              \/ saver'[p].pc = "save" /\ saver'[p].array = SweptKeys(job[p].user)
  <1>1. /\ Doing(p, "keys") /\ Turns(p, Job("swept", job[p].user))
        /\ UNCHANGED <<registry, mcall, sessions, clerk, cookies, removed, overlap, revived>>
    BY DEF SweepOfKeys, memberVars, sessionVars
  <1>2. CASE OwnKeys(job[p].user) = {}
    <2>1. keys' = keys /\ saver' = saver
      BY <1>2 DEF SweepOfKeys, keyVars
    <2> QED
      BY <1>1, <1>2, <2>1, OneJobTurns DEF Doing, CallStays, OthersStay, SessionsStay, Unmarked
  <1>3. CASE OwnKeys(job[p].user) # {}
    <2>1. /\ keys' = keys
          /\ WillSave(p, SweptKeys(job[p].user), SecretsOf(OwnKeys(job[p].user)), clock)
      BY <1>3 DEF SweepOfKeys, SweepKeys
    <2>2. /\ saver'[p].pc = "save" /\ saver'[p].array = SweptKeys(job[p].user)
          /\ \A s \in Savers \ {p} : saver'[s] = saver[s]
      BY <2>1, SharedNames, OneSaves
    <2> QED
      BY <1>1, <2>1, <2>2, OneJobTurns DEF Doing, CallStays, OthersStay, SessionsStay, Unmarked
  <1> QED
    BY <1>2, <1>3

LEMMA SweepOfSessionsDoes ==
    ASSUME PartsInv, NEW p \in MemberCalls, SweepOfSessions(p)
    PROVE  /\ job[p].step = "swept" /\ job'[p] = Job("sessions", job[p].user)
           /\ saver[p].pc = "idle"
           /\ CallStays(p) /\ OthersStay(p) /\ KeysStay /\ Unmarked
           /\ registry' = registry /\ sessions' = sessions /\ cookies' = cookies
           /\ \/ ActiveOf(sessions, job[p].user) = {} /\ clerk'[p] = clerk[p]
              \/ /\ clerk'[p].pc = "write"
                 /\ clerk'[p].file = Revoke(sessions, ActiveOf(sessions, job[p].user))
  <1>1. /\ Doing(p, "swept") /\ KAt(p, "idle") /\ Turns(p, Job("sessions", job[p].user))
        /\ UNCHANGED <<registry, mcall, keys, saver, removed, overlap, revived>>
    BY DEF SweepOfSessions, memberVars, keyVars
  <1>2. CASE ActiveOf(sessions, job[p].user) = {}
    <2>1. sessions' = sessions /\ cookies' = cookies /\ clerk' = clerk
      BY <1>2 DEF SweepOfSessions, sessionVars
    <2> QED
      BY <1>1, <1>2, <2>1, OneJobTurns DEF Doing, KAt, CallStays, OthersStay, KeysStay, Unmarked
  <1>3. CASE ActiveOf(sessions, job[p].user) # {}
    <2>1. RevokeAll(p, job[p].user, Nil)
      BY <1>3 DEF SweepOfSessions
    <2>2. /\ sessions' = sessions /\ cookies' = cookies
          /\ WillFile(p, Revoke(sessions, ActiveOf(sessions, job[p].user) \ {Nil}),
                      {s \in Sids : cookies[s] = job[p].user} \ {Nil}, Nil)
      BY <2>1 DEF RevokeAll
    <2>3. ActiveOf(sessions, job[p].user) \ {Nil} = ActiveOf(sessions, job[p].user)
      BY SessionBounds DEF ActiveOf
    <2>4. /\ clerk'[p].pc = "write"
          /\ clerk'[p].file = Revoke(sessions, ActiveOf(sessions, job[p].user))
          /\ \A c \in Clerks \ {p} : clerk'[c] = clerk[c]
      BY <2>2, <2>3, SharedNames, OneWrites
    <2> QED
      BY <1>1, <2>2, <2>4, OneJobTurns DEF Doing, KAt, CallStays, OthersStay, KeysStay, Unmarked
  <1> QED
    BY <1>2, <1>3

LEMMA AnswerDoes ==
    ASSUME PartsInv, NEW p \in MemberCalls, Answer(p)
    PROVE  /\ job[p].step = "sessions" /\ job'[p] = Free
           /\ clerk[p].pc = "idle"
           /\ CallStays(p) /\ OthersStay(p) /\ KeysStay /\ SessionsStay
           /\ registry' = registry /\ overlap' = overlap /\ revived' = revived
           /\ removed' = removed \cup {job[p].user}
  <1>1. /\ Doing(p, "sessions") /\ CAt(p, "idle") /\ Turns(p, Free)
        /\ removed' = removed \cup {job[p].user}
        /\ UNCHANGED <<registry, mcall, keys, saver, sessions, clerk, cookies, overlap, revived>>
    BY DEF Answer, memberVars, keyVars, sessionVars
  <1> QED
    BY <1>1, OneJobTurns DEF Doing, CAt, CallStays, OthersStay, KeysStay, SessionsStay

-----------------------------------------------------------------------------
(* What goes on beside the requests *)

LEMMA SaveKeysDoes ==
    ASSUME PartsInv, NEW s \in Savers, SaveKeys(s)
    PROVE  /\ saver[s].pc # "idle"
           /\ UNCHANGED <<registry, mcall, sessions, clerk, cookies, requestVars>>
           /\ \/ /\ keys' = keys
                 /\ saver'[s].pc # "idle" /\ saver'[s].array = saver[s].array
              \/ keys' = saver[s].array /\ saver'[s].pc = "idle"
           /\ \A t \in Savers \ {s} :
                 /\ saver'[t].pc = saver[t].pc
                 /\ saver[t].pc # "idle" => saver'[t].array = saver[t].array
  <1>1. UNCHANGED <<registry, mcall, sessions, clerk, cookies, requestVars>>
    BY DEF SaveKeys, memberVars, sessionVars
  <1>2. saver \in [Savers -> SaverType]
    BY DEF PartsInv, KeyInv, SaversInv
  <1>3. CASE Truncate(s)
    <2>1. saver[s].pc = "save" /\ keys' = keys /\ saver' = [saver EXCEPT ![s].pc = "fill"]
      BY <1>3 DEF Truncate, KAt
    <2>2. saver'[s].pc = "fill" /\ saver'[s].array = saver[s].array
      BY <1>2, <2>1 DEF SaverType
    <2>3. \A t \in Savers \ {s} : saver'[t] = saver[t]
      BY <1>2, <2>1
    <2> QED
      BY <1>1, <2>1, <2>2, <2>3
  <1>4. CASE Fill(s)
    <2>1. saver[s].pc = "fill" /\ keys' = saver[s].array /\ saver' = AfterFill(s)
      BY <1>4 DEF Fill, KAt
    <2>2. saver'[s] = NoSave /\ NoSave.pc = "idle"
      BY <2>1, NoSaveHolds DEF AfterFill
    <2>3. ASSUME NEW t \in Savers \ {s}
          PROVE  /\ saver'[t].pc = saver[t].pc
                 /\ saver[t].pc # "idle" => saver'[t].array = saver[t].array
      <3>1. \/ saver'[t] = saver[t]
            \/ saver'[t] = Saver(saver[t].pc, saver[t].array, saver[t].over, saver[t].at, TRUE)
        BY <2>1, <2>3 DEF AfterFill
      <3> QED
        BY <3>1 DEF Saver
    <2> QED
      BY <1>1, <2>1, <2>2, <2>3
  <1> QED
    BY <1>3, <1>4 DEF SaveKeys

LEMMA SaveSessionsDoes ==
    ASSUME PartsInv, NEW c \in Clerks, SaveSessions(c)
    PROVE  /\ clerk[c].pc = "write"
           /\ UNCHANGED <<registry, mcall, keys, saver, requestVars>>
           /\ sessions' = clerk[c].file /\ clerk'[c].pc = "idle"
           /\ \A d \in Clerks \ {c} :
                 /\ clerk'[d].pc = clerk[d].pc
                 /\ clerk[d].pc = "write" => clerk'[d].file = clerk[d].file
  <1>1. /\ WriteSessions(c) /\ UNCHANGED <<registry, mcall, keys, saver, requestVars>>
    BY DEF SaveSessions, memberVars, keyVars
  <1>2. clerk[c].pc = "write" /\ sessions' = clerk[c].file /\ clerk' = AfterWrite(c)
    BY <1>1 DEF WriteSessions, CAt
  <1>3. clerk'[c].pc = "idle"
    BY <1>2, NoClerkHolds DEF AfterWrite
  <1> QED
    BY <1>1, <1>2, <1>3, AfterWriteFields DEF PartsInv

\* A login writes a record of its own user, and revokes or drops what it meets.
LEMMA SignInDoes ==
    ASSUME PartsInv, NEW b \in Background, NEW s \in Sids, NEW u \in Users, SignIn(b, s, u)
    PROVE  /\ u \notin removed
           /\ UNCHANGED <<registry, mcall, keys, saver, sessions, cookies, job, removed, revived>>
           /\ overlap' = (overlap \/ Removing # {})
           /\ \A d \in Clerks \ {b} : clerk'[d] = clerk[d]
           /\ \A v \in Users \ {u} : NoSessionOf(sessions, v) => NoSessionOf(clerk'[b].file, v)
  <1>1. /\ u \notin removed
        /\ UNCHANGED <<registry, mcall, keys, saver, job, removed, revived>>
        /\ overlap' = (overlap \/ Removing # {})
    BY DEF SignIn, Overlaps, memberVars, keyVars
  <1>2. PICK policy \in PolicyCaps : Login(b, s, u, policy)
    BY DEF SignIn
  <1>3. PICK out \in SUBSET Sids :
           /\ Oldest(Pruned(sessions), u, OverCap(Pruned(sessions), u, Cap(policy)), out)
           /\ WillFile(b, LoggedIn(Pruned(sessions), s, u, policy, out),
                       IF policy \in 1..HardCap THEN out ELSE {}, s)
    BY <1>2 DEF Login
  <1> DEFINE file == LoggedIn(Pruned(sessions), s, u, policy, out)
             over == IF policy \in 1..HardCap THEN out ELSE {}
  <1>4. s \in sids /\ UNCHANGED <<sessions, cookies>> /\ clock \in 0..MaxClock
    BY <1>2, ReadFile DEF Login, PartsInv
  <1>5. file[s].user = u /\ LoginFollows(sessions, file, u, s, out, over)
    BY <1>2, <1>3, <1>4, LoginRecords DEF PartsInv
  <1>6. WillFile(b, file, over, s)
    BY <1>3
  <1> HIDE DEF file, over
  <1>7. clerk'[b].file = file /\ \A d \in Clerks \ {b} : clerk'[d] = clerk[d]
    BY <1>6, OneWrites, SharedNames
  <1>8. ASSUME NEW v \in Users \ {u}, NoSessionOf(sessions, v), NEW t \in Sids,
               file[t] # Nil, file[t].user = v
        PROVE  file[t].revoked # Active
    <2>1. t # s
      BY <1>5, <1>8
    <2>2. \/ file[t] = sessions[t]
          \/ file[t].revoked = clock
      BY <1>5, <1>8, <2>1 DEF LoginFollows
    <2> QED
      BY <1>4, <1>8, <2>2, SessionBounds DEF NoSessionOf
  <1> QED
    BY <1>1, <1>4, <1>7, <1>8 DEF NoSessionOf

LEMMA TouchLaterDoes ==
    ASSUME PartsInv, NEW b \in Background, NEW s \in Sids, TouchLater(b, s)
    PROVE  /\ UNCHANGED <<registry, mcall, keys, saver, sessions, cookies, job, removed, revived>>
           /\ overlap' = (overlap \/ Removing # {})
           /\ \A d \in Clerks \ {b} : clerk'[d] = clerk[d]
           /\ \A v \in Users : NoSessionOf(sessions, v) => NoSessionOf(clerk'[b].file, v)
  <1>1. /\ Touch(b, s)
        /\ UNCHANGED <<registry, mcall, keys, saver, job, removed, revived>>
        /\ overlap' = (overlap \/ Removing # {})
    BY DEF TouchLater, Overlaps, memberVars, keyVars
  <1> DEFINE file == [sessions EXCEPT ![s].seen = clock]
  <1>2. WillFile(b, file, {}, Nil) /\ UNCHANGED <<sessions, cookies>> /\ IsActive(sessions, s)
    BY <1>1 DEF Touch
  <1>3. sessions \in Files /\ clock \in 0..MaxClock
    BY ReadFile DEF PartsInv
  <1>4. sessions[s] # Nil
    BY <1>2 DEF IsActive
  <1>5. /\ file[s].user = sessions[s].user /\ file[s].revoked = sessions[s].revoked
        /\ \A t \in Sids \ {s} : file[t] = sessions[t]
    <2>1. file[s] = [sessions[s] EXCEPT !.seen = clock]
      BY <1>3 DEF Files
    <2>2. \A t \in Sids \ {s} : file[t] = sessions[t]
      BY <1>3 DEF Files
    <2> QED
      BY <1>3, <1>4, <2>1, <2>2, SeenHolds, SessionFields
  <1> HIDE DEF file
  <1>6. clerk'[b].file = file /\ \A d \in Clerks \ {b} : clerk'[d] = clerk[d]
    BY <1>2, OneWrites, SharedNames
  <1> QED
    BY <1>1, <1>2, <1>4, <1>5, <1>6 DEF NoSessionOf

LEMMA CrashDoes ==
    ASSUME PartsInv, Crash
    PROVE  /\ UNCHANGED <<registry, keys, sessions, removed, overlap, revived>>
           /\ \A p \in MemberCalls : mcall'[p] = NoCall /\ job'[p] = Free
           /\ \A s \in Savers : saver'[s] = NoSave
           /\ \A c \in Clerks : clerk'[c] = NoClerk
  BY DEF Crash, Restart, KeysCrash, SessionsRestart

-----------------------------------------------------------------------------
(* Every request is where its job says *)

LEMMA TurnHolds ==
    ASSUME PartsInv, NEW p \in MemberCalls, NEW j \in JobType, Turns(p, j),
           removed' \subseteq Users, overlap' \in BOOLEAN, revived' \in BOOLEAN,
           \A q \in MemberCalls \ {p} :
              /\ mcall'[q] = mcall[q]
              /\ saver'[q].pc = saver[q].pc /\ clerk'[q].pc = clerk[q].pc,
           JobOK(j, mcall'[p], saver'[p].pc, clerk'[p].pc)
    PROVE  JobsInv'
  <1>1. job' \in [MemberCalls -> JobType]
    BY DEF Turns, PartsInv, JobsInv
  <1>2. ASSUME NEW q \in MemberCalls
        PROVE  JobOK(job'[q], mcall'[q], saver'[q].pc, clerk'[q].pc)
    <2>1. CASE q = p
      BY <2>1, OneJobTurns
    <2>2. CASE q # p
      <3>1. JobOK(job[q], mcall[q], saver[q].pc, clerk[q].pc)
        BY DEF PartsInv, JobsInv
      <3>2. job'[q] = job[q]
        BY <2>2, OneJobTurns
      <3> QED
        BY <2>2, <3>1, <3>2
    <2> QED
      BY <2>1, <2>2
  <1> QED
    BY <1>1, <1>2 DEF JobsInv

\* A save or a file that goes on, or starts where nobody waits for it.
LEMMA BesideHolds ==
    ASSUME PartsInv, UNCHANGED <<mcall, job, removed, revived>>, overlap' \in BOOLEAN,
           \A q \in MemberCalls :
              /\ saver[q].pc = "idle" => saver'[q].pc = "idle"
              /\ clerk[q].pc = "idle" => clerk'[q].pc = "idle"
    PROVE  JobsInv'
  BY DEF PartsInv, JobsInv, JobOK

LEMMA JobHolds ==
    ASSUME PartsInv, NEW p \in MemberCalls
    PROVE  JobOK(job[p], mcall[p], saver[p].pc, clerk[p].pc)
  BY DEF PartsInv, JobsInv

LEMMA JobTypes ==
    ASSUME NEW step \in Steps, NEW user \in Users \cup {Nil}
    PROVE  Job(step, user) \in JobType
  BY DEF Job, JobType

LEMMA FreeHolds == Free \in JobType /\ Free.step = "free"
  BY DEF Free, Job, JobType, Steps

\* Where a job is that has just turned to a step.
LEMMA TurnedTo ==
    ASSUME NEW step \in Steps, NEW user \in Users, NEW m, NEW k, NEW c,
           m.pc = Place[step], step \notin {"register", "delete"} => m.next = Nil,
           step \notin {"mint", "swept"} => k = "idle", step # "sessions" => c = "idle"
    PROVE  Job(step, user) \in JobType /\ JobOK(Job(step, user), m, k, c)
  BY JobTypes, JobFields DEF JobOK

LEMMA TurnedFree ==
    ASSUME NEW m, NEW k, NEW c, m.pc = "idle", m.next = Nil, k = "idle", c = "idle"
    PROVE  Free \in JobType /\ JobOK(Free, m, k, c)
  BY FreeHolds DEF JobOK, Place, Steps

\* What a job at a step has in hand.
LEMMA AtStep ==
    ASSUME PartsInv, NEW p \in MemberCalls
    PROVE  /\ job[p].step = "free" => mcall[p].pc = "idle" /\ mcall[p].next = Nil
           /\ job[p].step = "cookie" => mcall[p].pc = "idle" /\ mcall[p].next = Nil
           /\ job[p].step \in {"keys", "swept", "sessions"} => mcall[p].pc = "idle" /\ mcall[p].next = Nil
           /\ job[p].step \notin {"mint", "swept"} => saver[p].pc = "idle"
           /\ job[p].step # "sessions" => clerk[p].pc = "idle"
           /\ job[p].step # "free" => job[p].user \in Users
           /\ job[p].step \notin {"register", "delete"} => mcall[p].next = Nil
  BY JobHolds DEF JobOK, Place, Steps

LEMMA Places ==
    /\ Steps = DOMAIN Place
    /\ Place["cookie"] = "idle" /\ Place["register"] = "seen" /\ Place["route"] = "authed"
    /\ Place["mint"] = "idle" /\ Place["delete"] = "write" /\ Place["keys"] = "idle"
    /\ Place["swept"] = "idle" /\ Place["sessions"] = "idle"
    /\ {"cookie", "register", "route", "mint", "delete", "keys", "swept", "sessions"} \subseteq Steps
  BY DEF Place, Steps

LEMMA RequestJobsHold ==
    ASSUME PartsInv, NEW p \in MemberCalls, Request(p)
    PROVE  JobsInv'
  <1>1. /\ removed \subseteq Users /\ overlap \in BOOLEAN /\ revived \in BOOLEAN
        /\ (Unmarked => removed' \subseteq Users /\ overlap' \in BOOLEAN /\ revived' \in BOOLEAN)
    BY DEF PartsInv, JobsInv, Unmarked
  <1>2. /\ p \in Savers /\ p \in Clerks /\ MemberCalls \subseteq Savers /\ MemberCalls \subseteq Clerks
        /\ \A b \in Background : b \notin MemberCalls
    BY SharedNames
  <1>3. ASSUME NEW s \in Sids, ComeByCookie(p, s) PROVE JobsInv'
    <2>1. Turns(p, Job("cookie", cookies[s])) /\ revived' \in BOOLEAN
      BY <1>1, <1>3 DEF ComeByCookie
    <2>2. mcall[p].pc = "idle" /\ mcall[p].next = Nil /\ saver[p].pc = "idle" /\ clerk[p].pc = "idle"
      BY <1>3, ComeByCookieDoes, AtStep
    <2>3. /\ Job("cookie", cookies[s]) \in JobType
          /\ JobOK(Job("cookie", cookies[s]), mcall'[p], saver'[p].pc, clerk'[p].pc)
      BY <1>3, <2>2, ComeByCookieDoes, TurnedTo, Places DEF CallStays, KeysStay, SessionsStay
    <2>4. overlap' \in BOOLEAN /\ removed' \subseteq Users
      BY <1>1, <1>3, ComeByCookieDoes
    <2>5. \A q \in MemberCalls \ {p} : mcall'[q] = mcall[q]
                /\ saver'[q].pc = saver[q].pc /\ clerk'[q].pc = clerk[q].pc
      BY <1>3, ComeByCookieDoes DEF OthersStay, KeysStay, SessionsStay
    <2> QED
      BY <2>1, <2>3, <2>4, <2>5, TurnHolds
  <1>4. ASSUME Bootstrap(p) PROVE JobsInv'
    <2>1. Turns(p, Job("register", job[p].user)) /\ job[p].user \in Users
      BY <1>4, BootstrapDoes, AtStep DEF Bootstrap
    <2>2. saver[p].pc = "idle" /\ clerk[p].pc = "idle"
      BY <1>4, BootstrapDoes, AtStep
    <2>3. /\ Job("register", job[p].user) \in JobType
          /\ JobOK(Job("register", job[p].user), mcall'[p], saver'[p].pc, clerk'[p].pc)
      BY <1>4, <2>1, <2>2, BootstrapDoes, TurnedTo, Places DEF KeysStay, SessionsStay
    <2>4. \A q \in MemberCalls \ {p} : mcall'[q] = mcall[q]
                /\ saver'[q].pc = saver[q].pc /\ clerk'[q].pc = clerk[q].pc
      BY <1>4, BootstrapDoes DEF OthersStay, KeysStay, SessionsStay
    <2> QED
      BY <1>1, <1>4, <2>1, <2>3, <2>4, BootstrapDoes, TurnHolds
  <1>5. ASSUME Register(p) PROVE JobsInv'
    <2>1. Turns(p, Job("route", job[p].user)) /\ job[p].user \in Users
      BY <1>5, RegisterDoes, AtStep DEF Register
    <2>2. saver[p].pc = "idle" /\ clerk[p].pc = "idle"
      BY <1>5, RegisterDoes, AtStep
    <2>3. /\ Job("route", job[p].user) \in JobType
          /\ JobOK(Job("route", job[p].user), mcall'[p], saver'[p].pc, clerk'[p].pc)
      BY <1>5, <2>1, <2>2, RegisterDoes, TurnedTo, Places DEF KeysStay, SessionsStay
    <2>4. \A q \in MemberCalls \ {p} : mcall'[q] = mcall[q]
                /\ saver'[q].pc = saver[q].pc /\ clerk'[q].pc = clerk[q].pc
      BY <1>5, RegisterDoes DEF OthersStay, KeysStay, SessionsStay
    <2> QED
      BY <1>1, <1>5, <2>1, <2>3, <2>4, RegisterDoes, TurnHolds
  <1>6. ASSUME NEW b \in Background, NEW k \in Keys, NEW g \in 1..MaxGen, NEW role \in KeyRoles,
               ComeByKey(p, b, k, g, role)
        PROVE  JobsInv'
    <2>1. Turns(p, Job("route", keys[k].user)) /\ keys[k].user \in Users
      BY <1>6, ComeByKeyDoes DEF ComeByKey
    <2>2. saver[p].pc = "idle" /\ clerk[p].pc = "idle"
      BY <1>6, ComeByKeyDoes, AtStep
    <2>3. \A q \in MemberCalls : saver'[q] = saver[q] /\ clerk' = clerk
      BY <1>2, <1>6, ComeByKeyDoes DEF SessionsStay
    <2>4. /\ Job("route", keys[k].user) \in JobType
          /\ JobOK(Job("route", keys[k].user), mcall'[p], saver'[p].pc, clerk'[p].pc)
      BY <1>6, <2>1, <2>2, <2>3, ComeByKeyDoes, TurnedTo, Places
    <2>5. \A q \in MemberCalls \ {p} : mcall'[q] = mcall[q]
      BY <1>6, ComeByKeyDoes DEF OthersStay
    <2>6. overlap' \in BOOLEAN /\ revived' \in BOOLEAN /\ removed' \subseteq Users
      BY <1>1, <1>6, ComeByKeyDoes
    <2> QED
      BY <2>1, <2>3, <2>4, <2>5, <2>6, TurnHolds
  <1>7. ASSUME NEW k \in Keys, Mint(p, k) PROVE JobsInv'
    <2>1. Turns(p, Job("mint", job[p].user)) /\ job[p].user \in Users
      BY <1>7, MintDoes, AtStep DEF Mint
    <2>2. clerk[p].pc = "idle" /\ clerk' = clerk
      BY <1>7, MintDoes, AtStep DEF SessionsStay
    <2>3. /\ Job("mint", job[p].user) \in JobType
          /\ JobOK(Job("mint", job[p].user), mcall'[p], saver'[p].pc, clerk'[p].pc)
      BY <1>7, <2>1, <2>2, MintDoes, TurnedTo, Places
    <2>4. \A q \in MemberCalls \ {p} : mcall'[q] = mcall[q]
                /\ saver'[q].pc = saver[q].pc /\ clerk'[q].pc = clerk[q].pc
      BY <1>2, <1>7, <2>2, MintDoes DEF OthersStay
    <2> QED
      BY <1>1, <1>7, <2>1, <2>3, <2>4, MintDoes, TurnHolds
  <1>8. ASSUME Finish(p) PROVE JobsInv'
    <2>1. Turns(p, Free)
      BY <1>8 DEF Finish
    <2>2. saver[p].pc = "idle" /\ clerk[p].pc = "idle"
      BY <1>8, FinishDoes, AtStep
    <2>3. Free \in JobType /\ JobOK(Free, mcall'[p], saver'[p].pc, clerk'[p].pc)
      BY <1>8, <2>2, FinishDoes, TurnedFree DEF KeysStay, SessionsStay
    <2>4. \A q \in MemberCalls \ {p} : mcall'[q] = mcall[q]
                /\ saver'[q].pc = saver[q].pc /\ clerk'[q].pc = clerk[q].pc
      BY <1>8, FinishDoes DEF OthersStay, KeysStay, SessionsStay
    <2> QED
      BY <1>1, <1>8, <2>1, <2>3, <2>4, FinishDoes, TurnHolds
  <1>9. ASSUME NEW u \in Users, Delete(p, u) PROVE JobsInv'
    <2>1. Turns(p, Job("delete", u))
      BY <1>9 DEF Delete
    <2>2. saver[p].pc = "idle" /\ clerk[p].pc = "idle"
      BY <1>9, DeleteDoes, AtStep
    <2>3. /\ Job("delete", u) \in JobType
          /\ JobOK(Job("delete", u), mcall'[p], saver'[p].pc, clerk'[p].pc)
      BY <1>9, <2>2, DeleteDoes, TurnedTo, Places DEF KeysStay, SessionsStay
    <2>4. \A q \in MemberCalls \ {p} : mcall'[q] = mcall[q]
                /\ saver'[q].pc = saver[q].pc /\ clerk'[q].pc = clerk[q].pc
      BY <1>9, DeleteDoes DEF OthersStay, KeysStay, SessionsStay
    <2>5. overlap' \in BOOLEAN /\ revived' \in BOOLEAN /\ removed' \subseteq Users
      BY <1>1, <1>9, DeleteDoes
    <2> QED
      BY <2>1, <2>3, <2>4, <2>5, TurnHolds
  <1>10. ASSUME Unlist(p) PROVE JobsInv'
    <2>1. Turns(p, Job("keys", job[p].user)) /\ job[p].user \in Users
      BY <1>10, UnlistDoes, AtStep DEF Unlist
    <2>2. saver[p].pc = "idle" /\ clerk[p].pc = "idle"
      BY <1>10, UnlistDoes, AtStep
    <2>3. /\ Job("keys", job[p].user) \in JobType
          /\ JobOK(Job("keys", job[p].user), mcall'[p], saver'[p].pc, clerk'[p].pc)
      BY <1>10, <2>1, <2>2, UnlistDoes, TurnedTo, Places DEF KeysStay, SessionsStay
    <2>4. \A q \in MemberCalls \ {p} : mcall'[q] = mcall[q]
                /\ saver'[q].pc = saver[q].pc /\ clerk'[q].pc = clerk[q].pc
      BY <1>10, UnlistDoes DEF OthersStay, KeysStay, SessionsStay
    <2> QED
      BY <1>1, <1>10, <2>1, <2>3, <2>4, UnlistDoes, TurnHolds
  <1>11. ASSUME SweepOfKeys(p) PROVE JobsInv'
    <2>1. Turns(p, Job("swept", job[p].user)) /\ job[p].user \in Users
      BY <1>11, SweepOfKeysDoes, AtStep DEF SweepOfKeys
    <2>2. clerk[p].pc = "idle" /\ mcall[p].pc = "idle" /\ mcall[p].next = Nil
      BY <1>11, SweepOfKeysDoes, AtStep
    <2>3. /\ Job("swept", job[p].user) \in JobType
          /\ JobOK(Job("swept", job[p].user), mcall'[p], saver'[p].pc, clerk'[p].pc)
      BY <1>11, <2>1, <2>2, SweepOfKeysDoes, TurnedTo, Places DEF CallStays, SessionsStay
    <2>4. \A q \in MemberCalls \ {p} : mcall'[q] = mcall[q]
                /\ saver'[q].pc = saver[q].pc /\ clerk'[q].pc = clerk[q].pc
      BY <1>2, <1>11, SweepOfKeysDoes DEF OthersStay, SessionsStay
    <2> QED
      BY <1>1, <1>11, <2>1, <2>3, <2>4, SweepOfKeysDoes, TurnHolds
  <1>12. ASSUME SweepOfSessions(p) PROVE JobsInv'
    <2>1. Turns(p, Job("sessions", job[p].user)) /\ job[p].user \in Users
      BY <1>12, SweepOfSessionsDoes, AtStep DEF SweepOfSessions
    <2>2. saver[p].pc = "idle" /\ mcall[p].pc = "idle" /\ mcall[p].next = Nil
      BY <1>12, SweepOfSessionsDoes, AtStep
    <2>3. /\ Job("sessions", job[p].user) \in JobType
          /\ JobOK(Job("sessions", job[p].user), mcall'[p], saver'[p].pc, clerk'[p].pc)
      BY <1>12, <2>1, <2>2, SweepOfSessionsDoes, TurnedTo, Places DEF CallStays, KeysStay
    <2>4. \A q \in MemberCalls \ {p} : mcall'[q] = mcall[q]
                /\ saver'[q].pc = saver[q].pc /\ clerk'[q].pc = clerk[q].pc
      BY <1>2, <1>12, SweepOfSessionsDoes DEF OthersStay, KeysStay
    <2> QED
      BY <1>1, <1>12, <2>1, <2>3, <2>4, SweepOfSessionsDoes, TurnHolds
  <1>13. ASSUME Answer(p) PROVE JobsInv'
    <2>1. Turns(p, Free) /\ removed' \subseteq Users
      BY <1>1, <1>13, AnswerDoes, AtStep DEF Answer
    <2>2. saver[p].pc = "idle" /\ mcall[p].pc = "idle" /\ mcall[p].next = Nil /\ clerk[p].pc = "idle"
      BY <1>13, AnswerDoes, AtStep
    <2>3. Free \in JobType /\ JobOK(Free, mcall'[p], saver'[p].pc, clerk'[p].pc)
      BY <1>13, <2>2, AnswerDoes, TurnedFree DEF CallStays, KeysStay, SessionsStay
    <2>4. \A q \in MemberCalls \ {p} : mcall'[q] = mcall[q]
                /\ saver'[q].pc = saver[q].pc /\ clerk'[q].pc = clerk[q].pc
      BY <1>13, AnswerDoes DEF OthersStay, KeysStay, SessionsStay
    <2> QED
      BY <1>1, <1>13, <2>1, <2>3, <2>4, AnswerDoes, TurnHolds
  <1> QED
    BY <1>3, <1>4, <1>5, <1>6, <1>7, <1>8, <1>9, <1>10, <1>11, <1>12, <1>13 DEF Request

LEMMA JobsMove ==
    ASSUME PartsInv, [AccessNext]_accessVars
    PROVE  JobsInv'
  <1>1. overlap \in BOOLEAN /\ MemberCalls \subseteq Savers /\ MemberCalls \subseteq Clerks
    BY SharedNames DEF PartsInv, JobsInv
  <1>2. CASE UNCHANGED accessVars
    BY <1>1, <1>2, BesideHolds DEF accessVars, memberVars, keyVars, sessionVars, requestVars
  <1>3. ASSUME NEW b \in Background, NEW s \in Sids, TouchLater(b, s) PROVE JobsInv'
    BY <1>1, <1>3, TouchLaterDoes, SharedNames, BesideHolds
  <1>4. ASSUME NEW b \in Background, NEW s \in Sids, NEW u \in Users, SignIn(b, s, u) PROVE JobsInv'
    BY <1>1, <1>4, SignInDoes, SharedNames, BesideHolds
  <1>5. ASSUME NEW s \in Savers, SaveKeys(s) PROVE JobsInv'
    BY <1>1, <1>5, SaveKeysDoes, BesideHolds DEF requestVars
  <1>6. ASSUME NEW c \in Clerks, SaveSessions(c) PROVE JobsInv'
    BY <1>1, <1>6, SaveSessionsDoes, BesideHolds DEF requestVars
  <1>7. ASSUME NEW s \in Sids, Rejected(s) PROVE JobsInv'
    <2>1. UNCHANGED <<mcall, saver, clerk, requestVars>>
      BY <1>7 DEF Rejected, Refuse, memberVars, keyVars
    <2> QED
      BY <1>1, <2>1, BesideHolds DEF requestVars
  <1>8. ASSUME Crash PROVE JobsInv'
    <2>1. job' \in [MemberCalls -> JobType]
      BY <1>8, FreeHolds DEF Crash
    <2>2. UNCHANGED <<removed, overlap, revived>>
      BY <1>8 DEF Crash
    <2>3. \A p \in MemberCalls : JobOK(job'[p], mcall'[p], saver'[p].pc, clerk'[p].pc)
      BY <1>1, <1>8, CrashDoes, EndedCall, NoSaveHolds, NoClerkHolds, TurnedFree
    <2> QED
      BY <2>1, <2>2, <2>3 DEF PartsInv, JobsInv
  <1> QED
    BY <1>2, <1>3, <1>4, <1>5, <1>6, <1>7, <1>8, RequestJobsHold DEF AccessNext

-----------------------------------------------------------------------------
(* Nothing is beside a removal but what has overlapped with it, and what   *)
(* it has done stays done.                                                 *)

LEMMA RemovingStep ==
    ASSUME NEW p \in MemberCalls
    PROVE  p \in Removing <=> job[p].step \in {"delete", "keys", "swept", "sessions"}
  BY DEF Removing

LEMMA RemovedRegistry ==
    ASSUME PartsInv, NEW u \in Users
    PROVE  /\ Removed(registry, u) # Nil /\ Removed(registry, u)[u] = Absent
           /\ \A w \in Users \ {u} : Removed(registry, u)[w] = registry[w]
           /\ registry \in Registries
  <1>1. registry \in Registries
    BY DEF PartsInv, MemberInv, SharedInv
  <1>2. Removed(registry, u) \in Registries
    BY <1>1, RegistryTypes DEF Registries, Removed
  <1> QED
    BY <1>1, <1>2, MembersAssumption DEF Registries, Removed

\* A request that is under way moves only where no removal is at work but its own.
LEMMA OnlyItself ==
    ASSUME RemovingInv, ~overlap, NEW p \in MemberCalls, job[p].step # "free", OthersStay(p),
           NEW r \in MemberCalls, job'[r].step \in {"delete", "keys", "swept", "sessions"}
    PROVE  r = p
  <1> SUFFICES ASSUME r # p PROVE FALSE
    OBVIOUS
  <1>1. r \in Removing
    BY RemovingStep DEF OthersStay
  <1> QED
    BY <1>1 DEF RemovingInv, Alone

LEMMA OwnStep ==
    ASSUME RemovingInv, ~overlap, NEW p \in MemberCalls,
           job[p].step \in {"delete", "keys", "swept", "sessions"}
    PROVE  /\ \A q \in MemberCalls \ {p} : job[q].step = "free"
           /\ \A s \in Savers \ {p} : saver[s].pc = "idle"
           /\ \A c \in Clerks \ {p} : clerk[c].pc = "idle"
           /\ job[p].step = "delete" => mcall[p].next # Nil /\ mcall[p].next[job[p].user] = Absent
           /\ job[p].step # "delete" => registry[job[p].user] = Absent
           /\ job[p].step \in {"swept", "sessions"} =>
                 NoKeyOf(IF saver[p].pc = "idle" THEN keys ELSE saver[p].array, job[p].user)
           /\ job[p].step = "sessions" =>
                 NoSessionOf(IF clerk[p].pc = "idle" THEN sessions ELSE clerk[p].file, job[p].user)
  BY DEF RemovingInv, Removing, Alone, Halfway

\* The same, after a step.
LEMMA OwnStepAfter ==
    ASSUME NEW p \in MemberCalls, OthersStay(p),
           \A q \in MemberCalls \ {p} : job[q].step = "free",
           \A s \in Savers \ {p} : saver'[s].pc = "idle",
           \A c \in Clerks \ {p} : clerk[c].pc = "idle",
           job'[p].step = "delete" => mcall'[p].next # Nil /\ mcall'[p].next[job'[p].user] = Absent,
           job'[p].step # "delete" => registry'[job'[p].user] = Absent,
           job'[p].step \in {"swept", "sessions"} =>
              NoKeyOf(IF saver'[p].pc = "idle" THEN keys' ELSE saver'[p].array, job'[p].user),
           job'[p].step = "sessions" =>
              NoSessionOf(IF clerk'[p].pc = "idle" THEN sessions' ELSE clerk'[p].file, job'[p].user)
    PROVE  (Alone(p) /\ Halfway(p))'
  <1>1. \A q \in MemberCalls \ {p} : job'[q].step = "free"
    BY DEF OthersStay
  <1>2. \A c \in Clerks \ {p} : clerk'[c].pc = "idle"
    BY DEF OthersStay
  <1> QED
    BY <1>1, <1>2 DEF Alone, Halfway

LEMMA ComeLeavesNone ==
    ASSUME PartsInv, NEW p \in MemberCalls, overlap' = (overlap \/ Removing # {}), OthersStay(p),
           job'[p].step \notin {"delete", "keys", "swept", "sessions"}
    PROVE  RemovingInv'
  <1> SUFFICES ASSUME ~overlap', NEW r \in MemberCalls,
                      job'[r].step \in {"delete", "keys", "swept", "sessions"}
               PROVE  FALSE
    BY DEF RemovingInv, Removing
  <1>1. Removing = {}
    OBVIOUS
  <1> QED
    BY <1>1, RemovingStep DEF OthersStay

\* A step of a request that is no removal afterwards.
LEMMA NoRemovalAfter ==
    ASSUME RemovingInv, NEW p \in MemberCalls, job[p].step # "free", overlap' = overlap,
           OthersStay(p), job'[p].step \notin {"delete", "keys", "swept", "sessions"}
    PROVE  RemovingInv'
  <1> SUFFICES ASSUME ~overlap', NEW r \in MemberCalls,
                      job'[r].step \in {"delete", "keys", "swept", "sessions"}
               PROVE  FALSE
    BY DEF RemovingInv, Removing
  <1> QED
    BY OnlyItself

LEMMA RequestRemovingHolds ==
    ASSUME PartsInv, RemovingInv, NEW p \in MemberCalls, Request(p)
    PROVE  RemovingInv'
  <1>1. ASSUME NEW s \in Sids, ComeByCookie(p, s) PROVE RemovingInv'
    BY <1>1, ComeByCookieDoes, ComeLeavesNone, JobFields
  <1>2. ASSUME NEW b \in Background, NEW k \in Keys, NEW g \in 1..MaxGen, NEW role \in KeyRoles,
               ComeByKey(p, b, k, g, role)
        PROVE  RemovingInv'
    BY <1>2, ComeByKeyDoes, ComeLeavesNone, JobFields
  <1>3. ASSUME Bootstrap(p) PROVE RemovingInv'
    BY <1>3, BootstrapDoes, NoRemovalAfter, JobFields DEF Unmarked
  <1>4. ASSUME Register(p) PROVE RemovingInv'
    BY <1>4, RegisterDoes, NoRemovalAfter, JobFields DEF Unmarked
  <1>5. ASSUME Finish(p) PROVE RemovingInv'
    BY <1>5, FinishDoes, NoRemovalAfter, FreeHolds DEF Unmarked
  <1>6. ASSUME NEW k \in Keys, Mint(p, k) PROVE RemovingInv'
    BY <1>6, MintDoes, NoRemovalAfter, JobFields DEF Unmarked
  <1>7. ASSUME Answer(p) PROVE RemovingInv'
    BY <1>7, AnswerDoes, NoRemovalAfter, FreeHolds
  <1>8. ASSUME NEW u \in Users, Delete(p, u) PROVE RemovingInv'
    <2> SUFFICES ASSUME ~overlap', NEW r \in MemberCalls,
                        job'[r].step \in {"delete", "keys", "swept", "sessions"}
                 PROVE  (Alone(r) /\ Halfway(r))'
      BY DEF RemovingInv, Removing
    <2>1. r = p
      BY <1>8, DeleteDoes, OnlyItself
    <2>2. Alone(p) /\ (\A s \in Savers : saver[s].pc = "idle") /\ OthersStay(p) /\ saver' = saver
      BY <1>8, DeleteDoes DEF KeysStay
    <2>3. job'[p].step = "delete" /\ job'[p].user = u
      BY <1>8, DeleteDoes, JobFields
    <2>4. mcall'[p].next # Nil /\ mcall'[p].next[u] = Absent
      BY <1>8, DeleteDoes, RemovedRegistry
    <2> QED
      BY <2>1, <2>2, <2>3, <2>4, OwnStepAfter DEF Alone
  <1>9. ASSUME Unlist(p) PROVE RemovingInv'
    <2> SUFFICES ASSUME ~overlap', NEW r \in MemberCalls,
                        job'[r].step \in {"delete", "keys", "swept", "sessions"}
                 PROVE  (Alone(r) /\ Halfway(r))'
      BY DEF RemovingInv, Removing
    <2>1. r = p /\ ~overlap
      BY <1>9, UnlistDoes, OnlyItself DEF Unmarked
    <2>2. job[p].step = "delete" /\ job'[p].step = "keys" /\ job'[p].user = job[p].user
          /\ OthersStay(p) /\ saver' = saver /\ registry' = mcall[p].next
      BY <1>9, UnlistDoes, JobFields DEF KeysStay
    <2> QED
      BY <2>1, <2>2, OwnStep, OwnStepAfter
  <1>10. ASSUME SweepOfKeys(p) PROVE RemovingInv'
    <2> SUFFICES ASSUME ~overlap', NEW r \in MemberCalls,
                        job'[r].step \in {"delete", "keys", "swept", "sessions"}
                 PROVE  (Alone(r) /\ Halfway(r))'
      BY DEF RemovingInv, Removing
    <2> DEFINE u == job[p].user
    <2>1. r = p /\ ~overlap
      BY <1>10, SweepOfKeysDoes, OnlyItself DEF Unmarked
    <2>2. /\ job[p].step = "keys" /\ job'[p].step = "swept" /\ job'[p].user = u
          /\ OthersStay(p) /\ registry' = registry /\ keys' = keys
          /\ \A s \in Savers \ {p} : saver'[s] = saver[s]
          /\ u \in Users /\ saver[p].pc = "idle"
      BY <1>10, SweepOfKeysDoes, JobFields, AtStep
    <2>3. NoKeyOf(IF saver'[p].pc = "idle" THEN keys' ELSE saver'[p].array, u)
      <3>1. CASE OwnKeys(u) = {} /\ saver'[p] = saver[p]
        BY <2>2, <3>1 DEF NoKeyOf, OwnKeys
      <3>2. CASE saver'[p].pc = "save" /\ saver'[p].array = SweptKeys(u)
        <4>1. keys \in Arrays /\ keyIds \subseteq Keys /\ Unissued(keys, keyIds)
          BY DEF PartsInv, KeyInv, FileInv
        <4>2. NoKeyOf(SweptKeys(u), u)
          BY <2>2, <4>1, SweptHolds DEF NoKeyOf
        <4> QED
          BY <3>2, <4>2
      <3> QED
        BY <1>10, <3>1, <3>2, SweepOfKeysDoes
    <2> QED
      BY <2>1, <2>2, <2>3, OwnStep, OwnStepAfter
  <1>11. ASSUME SweepOfSessions(p) PROVE RemovingInv'
    <2> SUFFICES ASSUME ~overlap', NEW r \in MemberCalls,
                        job'[r].step \in {"delete", "keys", "swept", "sessions"}
                 PROVE  (Alone(r) /\ Halfway(r))'
      BY DEF RemovingInv, Removing
    <2> DEFINE u == job[p].user
    <2>1. r = p /\ ~overlap
      BY <1>11, SweepOfSessionsDoes, OnlyItself DEF Unmarked
    <2>2. /\ job[p].step = "swept" /\ job'[p].step = "sessions" /\ job'[p].user = u
          /\ OthersStay(p) /\ registry' = registry /\ keys' = keys /\ saver' = saver
          /\ sessions' = sessions /\ u \in Users /\ saver[p].pc = "idle" /\ clerk[p].pc = "idle"
      BY <1>11, SweepOfSessionsDoes, JobFields, AtStep DEF KeysStay
    <2>3. NoSessionOf(IF clerk'[p].pc = "idle" THEN sessions' ELSE clerk'[p].file, u)
      <3>1. CASE ActiveOf(sessions, u) = {} /\ clerk'[p] = clerk[p]
        BY <2>2, <3>1 DEF NoSessionOf, ActiveOf, IsActive
      <3>2. CASE clerk'[p].pc = "write" /\ clerk'[p].file = Revoke(sessions, ActiveOf(sessions, u))
        <4> DEFINE ss == ActiveOf(sessions, u)
        <4>1. sessions \in Files /\ clock \in 0..MaxClock
          BY ReadFile DEF PartsInv
        <4>2. \A s \in ss : s \in Sids /\ sessions[s] # Nil
          BY DEF ActiveOf, IsActive
        <4>3. \A s \in Sids \ ss : sessions[s] # Nil /\ sessions[s].user = u => sessions[s].revoked # Active
          BY DEF ActiveOf, IsActive
        <4> HIDE DEF ss
        <4>4. NoSessionOf(Revoke(sessions, ss), u)
          BY <4>1, <4>2, <4>3, RevokeRecords, SessionBounds DEF NoSessionOf
        <4> QED
          BY <3>2, <4>4 DEF ss
      <3> QED
        BY <1>11, <3>1, <3>2, SweepOfSessionsDoes
    <2> QED
      BY <2>1, <2>2, <2>3, OwnStep, OwnStepAfter
  <1> QED
    BY <1>1, <1>2, <1>3, <1>4, <1>5, <1>6, <1>7, <1>8, <1>9, <1>10, <1>11 DEF Request

LEMMA RemovingMoves ==
    ASSUME PartsInv, RemovingInv, [AccessNext]_accessVars
    PROVE  RemovingInv'
  <1>1. CASE UNCHANGED accessVars
    BY <1>1 DEF accessVars, memberVars, keyVars, sessionVars, requestVars, RemovingInv, Removing,
                Alone, Halfway, NoKeyOf, NoSessionOf
  <1>2. ASSUME NEW b \in Background, NEW s \in Sids,
               TouchLater(b, s) \/ \E u \in Users : SignIn(b, s, u)
        PROVE  RemovingInv'
    <2>1. job' = job /\ overlap' = (overlap \/ Removing # {})
      BY <1>2, TouchLaterDoes, SignInDoes
    <2> QED
      BY <2>1 DEF RemovingInv, Removing
  <1>3. ASSUME NEW s \in Savers, SaveKeys(s) PROVE RemovingInv'
    <2> SUFFICES ASSUME ~overlap', NEW r \in MemberCalls,
                        job'[r].step \in {"delete", "keys", "swept", "sessions"}
                 PROVE  (Alone(r) /\ Halfway(r))'
      BY DEF RemovingInv, Removing
    <2>1. /\ UNCHANGED <<registry, mcall, sessions, clerk, job, overlap>> /\ saver[s].pc # "idle"
          /\ \A t \in Savers \ {s} : saver'[t].pc = saver[t].pc
      BY <1>3, SaveKeysDoes DEF requestVars
    <2>2. r = s
      BY <2>1, OwnStep
    <2>3. OthersStay(r) /\ \A t \in Savers \ {r} : saver'[t].pc = "idle"
      BY <2>1, <2>2, OwnStep DEF OthersStay
    <2>4. \/ saver'[r].pc # "idle" /\ saver'[r].array = saver[r].array
          \/ saver'[r].pc = "idle" /\ keys' = saver[r].array
      BY <1>3, <2>2, SaveKeysDoes
    <2>5. job'[r].step \in {"swept", "sessions"} =>
             NoKeyOf(IF saver'[r].pc = "idle" THEN keys' ELSE saver'[r].array, job'[r].user)
      BY <2>1, <2>2, <2>4, OwnStep
    <2> QED
      BY <2>1, <2>3, <2>5, OwnStep, OwnStepAfter
  <1>4. ASSUME NEW c \in Clerks, SaveSessions(c) PROVE RemovingInv'
    <2> SUFFICES ASSUME ~overlap', NEW r \in MemberCalls,
                        job'[r].step \in {"delete", "keys", "swept", "sessions"}
                 PROVE  (Alone(r) /\ Halfway(r))'
      BY DEF RemovingInv, Removing
    <2>1. /\ UNCHANGED <<registry, mcall, keys, saver, job, overlap>> /\ clerk[c].pc = "write"
          /\ sessions' = clerk[c].file /\ clerk'[c].pc = "idle"
          /\ \A d \in Clerks \ {c} : clerk'[d].pc = clerk[d].pc
      BY <1>4, SaveSessionsDoes DEF requestVars
    <2>2. r = c
      BY <2>1, OwnStep
    <2>3. \A d \in Clerks \ {r} : clerk'[d].pc = "idle"
      BY <2>1, <2>2, OwnStep
    <2>4. job'[r].step = "sessions" => NoSessionOf(sessions', job'[r].user)
      BY <2>1, <2>2, OwnStep
    <2>5. Alone(r)'
      BY <2>1, <2>3, OwnStep DEF Alone
    <2>6. Halfway(r)'
      BY <2>1, <2>2, <2>4, OwnStep DEF Halfway
    <2> QED
      BY <2>5, <2>6
  <1>5. ASSUME NEW s \in Sids, Rejected(s) PROVE RemovingInv'
    <2>1. UNCHANGED <<registry, mcall, keys, saver, sessions, clerk, job, overlap>>
      BY <1>5 DEF Rejected, Refuse, memberVars, keyVars, requestVars
    <2> QED
      BY <2>1 DEF RemovingInv, Removing, Alone, Halfway, NoKeyOf, NoSessionOf
  <1>6. ASSUME Crash PROVE RemovingInv'
    BY <1>6, CrashDoes, FreeHolds DEF RemovingInv, Removing
  <1> QED
    BY <1>1, <1>2, <1>3, <1>4, <1>5, <1>6, RequestRemovingHolds DEF AccessNext

-----------------------------------------------------------------------------
(* Whoever is gone stays gone.                                             *)

\* One request moves, with its own save and its own file, or another's save or file.
LEMMA GoneAfter ==
    ASSUME NEW u \in Users, Gone(u), NEW p \in MemberCalls, OthersStay(p),
           registry'[u] = Absent, UNCHANGED <<keys, sessions>>,
           CallAway(mcall'[p], u), JobAway(job'[p], u),
           \A s \in Savers : saver'[s] = saver[s] \/ SaveAway(saver'[s], u),
           clerk'[p] = clerk[p] \/ FileAway(clerk'[p], u)
    PROVE  Gone(u)'
  <1>1. NoKeyOf(keys', u) /\ NoSessionOf(sessions', u)
    BY DEF Gone
  <1>2. ASSUME NEW q \in MemberCalls PROVE CallAway(mcall'[q], u) /\ JobAway(job'[q], u)
    BY DEF Gone, OthersStay
  <1>3. ASSUME NEW s \in Savers PROVE SaveAway(saver'[s], u)
    BY DEF Gone
  <1>4. ASSUME NEW c \in Clerks PROVE FileAway(clerk'[c], u)
    BY DEF Gone, OthersStay
  <1> QED
    BY <1>1, <1>2, <1>3, <1>4 DEF Gone

LEMMA GoneIs ==
    ASSUME NEW u \in Users, Gone(u), NEW p \in MemberCalls
    PROVE  /\ registry[u] = Absent /\ NoKeyOf(keys, u) /\ NoSessionOf(sessions, u)
           /\ CallAway(mcall[p], u) /\ JobAway(job[p], u)
  BY DEF Gone

LEMMA RequestGoneStays ==
    ASSUME PartsInv, NEW u \in Users, Gone(u), NEW p \in MemberCalls, Request(p), ~revived'
    PROVE  Gone(u)'
  <1>1. /\ registry[u] = Absent /\ NoKeyOf(keys, u) /\ NoSessionOf(sessions, u)
        /\ CallAway(mcall[p], u) /\ JobAway(job[p], u)
    BY GoneIs
  <1>2. p \in Savers /\ p \in Clerks
    BY SharedNames
  <1>3. ASSUME NEW s \in Sids, ComeByCookie(p, s) PROVE Gone(u)'
    <2>1. sessions[s] # Nil /\ sessions[s].revoked = Active /\ cookies[s] \in Users
      BY <1>3, ComeByCookieDoes DEF LetIn, IsRevoked
    <2>2. sessions[s].user = cookies[s]
      <3>1. Agrees(sessions[s], cookies[s]) /\ cookies[s] # Nil
        BY <2>1, OwnRecord, SessionBounds DEF PartsInv
      <3> QED
        BY <2>1, <3>1 DEF Agrees
    <2>3. cookies[s] # u
      BY <1>1, <2>1, <2>2 DEF NoSessionOf
    <2>4. JobAway(job'[p], u)
      BY <1>3, <2>3, ComeByCookieDoes, JobFields DEF JobAway
    <2> QED
      BY <1>1, <1>2, <1>3, <2>4, ComeByCookieDoes, GoneAfter DEF CallStays, KeysStay, SessionsStay
  <1>4. ASSUME Bootstrap(p) PROVE Gone(u)'
    <2>1. job[p].user # u /\ job[p].user \in Users
      BY <1>1, <1>4, BootstrapDoes, AtStep DEF JobAway
    <2>2. PICK d \in Defaults : mcall'[p].next = Seen(registry, job[p].user, d)
      BY <1>4, BootstrapDoes
    <2>3. Seen(registry, job[p].user, d)[u] = registry[u]
      BY <2>1, RemovedRegistry DEF Seen, Registries
    <2>4. CallAway(mcall'[p], u) /\ JobAway(job'[p], u)
      BY <1>1, <1>4, <2>1, <2>2, <2>3, BootstrapDoes, JobFields DEF CallAway, JobAway
    <2> QED
      BY <1>1, <1>2, <1>4, <2>4, BootstrapDoes, GoneAfter DEF KeysStay, SessionsStay
  <1>5. ASSUME Register(p) PROVE Gone(u)'
    <2>1. registry'[u] = Absent
      BY <1>1, <1>5, RegisterDoes DEF CallAway
    <2>2. CallAway(mcall'[p], u) /\ JobAway(job'[p], u)
      BY <1>1, <1>5, RegisterDoes, JobFields DEF CallAway, JobAway
    <2> QED
      BY <1>2, <1>5, <2>1, <2>2, RegisterDoes, GoneAfter DEF KeysStay, SessionsStay
  <1>6. ASSUME NEW b \in Background, NEW k \in Keys, NEW g \in 1..MaxGen, NEW role \in KeyRoles,
               ComeByKey(p, b, k, g, role)
        PROVE  Gone(u)'
    <2>1. keys[k].user # u
      BY <1>1, <1>6, ComeByKeyDoes DEF NoKeyOf
    <2>2. CallAway(mcall'[p], u) /\ JobAway(job'[p], u)
      BY <1>6, <2>1, ComeByKeyDoes, JobFields DEF CallAway, JobAway
    <2>3. \A s \in Savers : saver'[s] = saver[s] \/ SaveAway(saver'[s], u)
      BY <1>1, <1>6, ComeByKeyDoes DEF SaveAway
    <2> QED
      BY <1>1, <1>2, <1>6, <2>2, <2>3, ComeByKeyDoes, GoneAfter DEF SessionsStay
  <1>7. ASSUME NEW k \in Keys, Mint(p, k) PROVE Gone(u)'
    <2>1. job[p].user # u
      BY <1>1, <1>7, MintDoes DEF JobAway
    <2>2. CallAway(mcall'[p], u) /\ JobAway(job'[p], u)
      BY <1>7, <2>1, MintDoes, JobFields DEF CallAway, JobAway
    <2>3. PICK r : r.user = job[p].user /\ saver'[p].array = [keys EXCEPT ![k] = r]
      BY <1>7, MintDoes
    <2>4. SaveAway(saver'[p], u)
      <3>1. keys \in Arrays
        BY DEF PartsInv, KeyInv, FileInv
      <3>2. [keys EXCEPT ![k] = r][k] = r /\ \A j \in Keys \ {k} : [keys EXCEPT ![k] = r][j] = keys[j]
        BY <3>1 DEF Arrays
      <3> QED
        BY <1>1, <2>1, <2>3, <3>2 DEF SaveAway, NoKeyOf
    <2>5. \A s \in Savers : saver'[s] = saver[s] \/ SaveAway(saver'[s], u)
      BY <1>7, <2>4, MintDoes
    <2> QED
      BY <1>1, <1>2, <1>7, <2>2, <2>5, MintDoes, GoneAfter DEF SessionsStay
  <1>8. ASSUME Finish(p) PROVE Gone(u)'
    <2>1. CallAway(mcall'[p], u) /\ JobAway(job'[p], u)
      BY <1>8, FinishDoes, FreeHolds DEF CallAway, JobAway
    <2> QED
      BY <1>1, <1>2, <1>8, <2>1, FinishDoes, GoneAfter DEF KeysStay, SessionsStay
  <1>9. ASSUME NEW w \in Users, Delete(p, w) PROVE Gone(u)'
    <2>1. CallAway(mcall'[p], u) /\ JobAway(job'[p], u)
      BY <1>1, <1>9, DeleteDoes, RemovedRegistry, JobFields DEF CallAway, JobAway
    <2> QED
      BY <1>1, <1>2, <1>9, <2>1, DeleteDoes, GoneAfter DEF KeysStay, SessionsStay
  <1>10. ASSUME Unlist(p) PROVE Gone(u)'
    <2>1. registry'[u] = Absent
      BY <1>1, <1>10, UnlistDoes DEF CallAway
    <2>2. CallAway(mcall'[p], u) /\ JobAway(job'[p], u)
      BY <1>10, UnlistDoes, JobFields DEF CallAway, JobAway
    <2> QED
      BY <1>2, <1>10, <2>1, <2>2, UnlistDoes, GoneAfter DEF KeysStay, SessionsStay
  <1>11. ASSUME SweepOfKeys(p) PROVE Gone(u)'
    <2> DEFINE w == job[p].user
    <2>1. CallAway(mcall'[p], u) /\ JobAway(job'[p], u)
      BY <1>1, <1>11, SweepOfKeysDoes, JobFields DEF CallStays, JobAway
    <2>2. NoKeyOf(SweptKeys(w), u)
      <3>1. ASSUME NEW k \in Keys PROVE SweptKeys(w)[k] = keys[k] \/ SweptKeys(w)[k].revoked
        <4>1. CASE k \in OwnKeys(w)
          <5>1. SweptKeys(w)[k] = Revoked(keys[k]) /\ keys[k] # Nil /\ keys \in Arrays
            BY <4>1 DEF SweptKeys, OwnKeys, PartsInv, KeyInv, FileInv
          <5> QED
            BY <5>1 DEF Revoked, Arrays, KeyType
        <4>2. CASE k \notin OwnKeys(w)
          BY <4>2 DEF SweptKeys
        <4> QED
          BY <4>1, <4>2
      <3> QED
        BY <1>1, <3>1 DEF NoKeyOf
    <2>3. \A s \in Savers : saver'[s] = saver[s] \/ SaveAway(saver'[s], u)
      BY <1>11, <2>2, SweepOfKeysDoes DEF SaveAway
    <2> QED
      BY <1>1, <1>2, <1>11, <2>1, <2>3, SweepOfKeysDoes, GoneAfter DEF SessionsStay
  <1>12. ASSUME SweepOfSessions(p) PROVE Gone(u)'
    <2> DEFINE ss == ActiveOf(sessions, job[p].user)
    <2>1. CallAway(mcall'[p], u) /\ JobAway(job'[p], u)
      BY <1>1, <1>12, SweepOfSessionsDoes, JobFields DEF CallStays, JobAway
    <2>2. NoSessionOf(Revoke(sessions, ss), u)
      <3>1. sessions \in Files /\ clock \in 0..MaxClock
        BY ReadFile DEF PartsInv
      <3>2. \A s \in ss : s \in Sids /\ sessions[s] # Nil
        BY DEF ActiveOf, IsActive
      <3> HIDE DEF ss
      <3>3. /\ \A s \in ss : Revoke(sessions, ss)[s].revoked = clock
            /\ \A s \in Sids \ ss : Revoke(sessions, ss)[s] = sessions[s]
        BY <3>1, <3>2, RevokeRecords
      <3> QED
        BY <1>1, <3>1, <3>3, SessionBounds DEF NoSessionOf
    <2>3. clerk'[p] = clerk[p] \/ FileAway(clerk'[p], u)
      BY <1>12, <2>2, SweepOfSessionsDoes DEF FileAway
    <2> QED
      BY <1>1, <1>2, <1>12, <2>1, <2>3, SweepOfSessionsDoes, GoneAfter DEF KeysStay
  <1>13. ASSUME Answer(p) PROVE Gone(u)'
    <2>1. CallAway(mcall'[p], u) /\ JobAway(job'[p], u)
      BY <1>1, <1>13, AnswerDoes, FreeHolds DEF CallStays, JobAway
    <2> QED
      BY <1>1, <1>2, <1>13, <2>1, AnswerDoes, GoneAfter DEF KeysStay, SessionsStay
  <1> QED
    BY <1>3, <1>4, <1>5, <1>6, <1>7, <1>8, <1>9, <1>10, <1>11, <1>12, <1>13 DEF Request

LEMMA GoneStays ==
    ASSUME PartsInv, NEW u \in Users, Gone(u), u \in removed, [AccessNext]_accessVars, ~revived'
    PROVE  Gone(u)'
  <1>1. CASE UNCHANGED accessVars
    BY <1>1 DEF accessVars, memberVars, keyVars, sessionVars, requestVars, Gone, NoKeyOf, NoSessionOf
  <1>2. ASSUME NEW b \in Background, NEW s \in Sids, TouchLater(b, s) PROVE Gone(u)'
    <2>1. UNCHANGED <<registry, mcall, keys, saver, sessions, job>>
      BY <1>2, TouchLaterDoes
    <2>2. \A c \in Clerks : FileAway(clerk'[c], u)
      BY <1>2, TouchLaterDoes DEF Gone, FileAway
    <2> QED
      BY <2>1, <2>2 DEF Gone, NoKeyOf, NoSessionOf
  <1>3. ASSUME NEW b \in Background, NEW s \in Sids, NEW w \in Users, SignIn(b, s, w) PROVE Gone(u)'
    <2>1. UNCHANGED <<registry, mcall, keys, saver, sessions, job>>
      BY <1>3, SignInDoes
    <2>2. \A c \in Clerks : FileAway(clerk'[c], u)
      BY <1>3, SignInDoes DEF Gone, FileAway
    <2> QED
      BY <2>1, <2>2 DEF Gone, NoKeyOf, NoSessionOf
  <1>4. ASSUME NEW s \in Savers, SaveKeys(s) PROVE Gone(u)'
    <2>1. UNCHANGED <<registry, mcall, sessions, clerk, job>>
      BY <1>4, SaveKeysDoes DEF requestVars
    <2>2. NoKeyOf(saver[s].array, u) /\ NoKeyOf(keys, u)
      BY <1>4, SaveKeysDoes DEF Gone, SaveAway
    <2>3. NoKeyOf(keys', u)
      BY <1>4, <2>2, SaveKeysDoes
    <2>4. \A t \in Savers : SaveAway(saver'[t], u)
      BY <1>4, <2>2, SaveKeysDoes DEF Gone, SaveAway
    <2>5. NoSessionOf(sessions', u) /\ registry'[u] = Absent
      BY <2>1 DEF Gone
    <2> QED
      BY <2>1, <2>3, <2>4, <2>5 DEF Gone
  <1>5. ASSUME NEW c \in Clerks, SaveSessions(c) PROVE Gone(u)'
    <2>1. UNCHANGED <<registry, mcall, keys, saver, job>>
      BY <1>5, SaveSessionsDoes DEF requestVars
    <2>2. NoSessionOf(sessions', u)
      BY <1>5, SaveSessionsDoes DEF Gone, FileAway
    <2>3. \A d \in Clerks : FileAway(clerk'[d], u)
      BY <1>5, SaveSessionsDoes DEF Gone, FileAway
    <2>4. NoKeyOf(keys', u) /\ registry'[u] = Absent
      BY <2>1 DEF Gone
    <2> QED
      BY <2>1, <2>2, <2>3, <2>4 DEF Gone
  <1>6. ASSUME NEW s \in Sids, Rejected(s) PROVE Gone(u)'
    <2>1. UNCHANGED <<registry, mcall, keys, saver, sessions, clerk, job>>
      BY <1>6 DEF Rejected, Refuse, memberVars, keyVars, requestVars
    <2> QED
      BY <2>1 DEF Gone, NoKeyOf, NoSessionOf
  <1>7. ASSUME Crash PROVE Gone(u)'
    <2>1. \A p \in MemberCalls : CallAway(mcall'[p], u) /\ JobAway(job'[p], u)
      BY <1>7, CrashDoes, EndedCall, FreeHolds DEF CallAway, JobAway
    <2>2. \A s \in Savers : SaveAway(saver'[s], u)
      BY <1>7, CrashDoes, NoSaveHolds DEF SaveAway
    <2>3. \A c \in Clerks : FileAway(clerk'[c], u)
      BY <1>7, CrashDoes, NoClerkHolds DEF FileAway
    <2>4. registry'[u] = Absent /\ NoKeyOf(keys', u) /\ NoSessionOf(sessions', u)
      BY <1>7, CrashDoes DEF Gone
    <2> QED
      BY <2>1, <2>2, <2>3, <2>4 DEF Gone
  <1> QED
    BY <1>1, <1>2, <1>3, <1>4, <1>5, <1>6, <1>7, RequestGoneStays DEF AccessNext

\* A removal that nothing has overlapped with is complete when it is answered.
LEMMA AnswerIsComplete ==
    ASSUME PartsInv, RemovingInv, ~overlap, NEW p \in MemberCalls, Answer(p),
           NEW u \in Users, u = job[p].user
    PROVE  Gone(u)'
  <1>1. /\ job[p].step = "sessions" /\ clerk[p].pc = "idle" /\ saver[p].pc = "idle"
        /\ mcall[p].next = Nil /\ job'[p] = Free
        /\ UNCHANGED <<registry, keys, saver, sessions, clerk>> /\ mcall'[p] = mcall[p]
        /\ OthersStay(p)
    BY AnswerDoes, AtStep DEF KeysStay, SessionsStay, CallStays
  <1>2. \A s \in Savers : saver[s].pc = "idle"
    BY <1>1, OwnStep
  <1>3. \A c \in Clerks : clerk[c].pc = "idle"
    BY <1>1, OwnStep
  <1>4. NoKeyOf(keys, u) /\ NoSessionOf(sessions, u) /\ registry[u] = Absent
    BY <1>1, OwnStep
  <1>5. ASSUME NEW q \in MemberCalls PROVE CallAway(mcall'[q], u) /\ JobAway(job'[q], u)
    <2>1. mcall'[q].next = Nil /\ job'[q].step = "free"
      <3>1. CASE q = p
        BY <1>1, <3>1, FreeHolds
      <3>2. CASE q # p
        BY <1>1, <3>2, OwnStep, AtStep DEF OthersStay
      <3> QED
        BY <3>1, <3>2
    <2> QED
      BY <2>1 DEF CallAway, JobAway
  <1>6. /\ \A s \in Savers : SaveAway(saver'[s], u)
        /\ \A c \in Clerks : FileAway(clerk'[c], u)
    BY <1>1, <1>2, <1>3 DEF SaveAway, FileAway
  <1>7. NoKeyOf(keys', u) /\ NoSessionOf(sessions', u) /\ registry'[u] = Absent
    BY <1>1, <1>4
  <1>8. \A q \in MemberCalls : CallAway(mcall'[q], u) /\ JobAway(job'[q], u)
    BY <1>5
  <1> QED
    BY <1>6, <1>7, <1>8 DEF Gone

-----------------------------------------------------------------------------
(* What it comes to *)

LEMMA GoneMoves ==
    ASSUME AccessInv, [AccessNext]_accessVars
    PROVE  GoneInv'
  <1> SUFFICES ASSUME ~overlap', ~revived', NEW u \in Users, u \in removed'
               PROVE  Gone(u)'
    <2>1. removed' \subseteq Users
      BY JobsMove DEF AccessInv, JobsInv
    <2> QED
      BY <2>1 DEF GoneInv
  <1>1. overlap \in BOOLEAN /\ revived \in BOOLEAN /\ PartsInv /\ RemovingInv /\ GoneInv
    BY DEF AccessInv, PartsInv, JobsInv
  <1>2. ASSUME NEW p \in MemberCalls, Answer(p) PROVE Gone(u)'
    <2>1. ~overlap /\ ~revived /\ (u \in removed \/ u = job[p].user)
      BY <1>1, <1>2, AnswerDoes
    <2>2. CASE u \in removed
      BY <1>1, <2>1, <2>2, GoneStays DEF GoneInv
    <2>3. CASE u = job[p].user
      BY <1>1, <1>2, <2>1, <2>3, AnswerIsComplete
    <2> QED
      BY <2>1, <2>2, <2>3
  <1>3. ASSUME u \in removed, ~overlap, ~revived PROVE Gone(u)'
    BY <1>1, <1>3, GoneStays DEF GoneInv
  <1>4. ASSUME NEW p \in MemberCalls, Request(p) PROVE Gone(u)'
    <2>1. ASSUME NEW s \in Sids, ComeByCookie(p, s) PROVE Gone(u)'
      BY <1>1, <1>3, <2>1, ComeByCookieDoes
    <2>2. ASSUME NEW b \in Background, NEW k \in Keys, NEW g \in 1..MaxGen, NEW role \in KeyRoles,
                 ComeByKey(p, b, k, g, role)
          PROVE  Gone(u)'
      BY <1>1, <1>3, <2>2, ComeByKeyDoes
    <2>3. ASSUME NEW w \in Users, Delete(p, w) PROVE Gone(u)'
      BY <1>1, <1>3, <2>3, DeleteDoes
    <2>4. ASSUME NEW k \in Keys, Mint(p, k) PROVE Gone(u)'
      BY <1>1, <1>3, <2>4, MintDoes DEF Unmarked
    <2>5. CASE Bootstrap(p)
      BY <1>1, <1>3, <2>5, BootstrapDoes DEF Unmarked
    <2>6. CASE Register(p)
      BY <1>1, <1>3, <2>6, RegisterDoes DEF Unmarked
    <2>7. CASE Finish(p)
      BY <1>1, <1>3, <2>7, FinishDoes DEF Unmarked
    <2>8. CASE Unlist(p)
      BY <1>1, <1>3, <2>8, UnlistDoes DEF Unmarked
    <2>9. CASE SweepOfKeys(p)
      BY <1>1, <1>3, <2>9, SweepOfKeysDoes DEF Unmarked
    <2>10. CASE SweepOfSessions(p)
      BY <1>1, <1>3, <2>10, SweepOfSessionsDoes DEF Unmarked
    <2> QED
      BY <1>2, <1>4, <2>1, <2>2, <2>3, <2>4, <2>5, <2>6, <2>7, <2>8, <2>9, <2>10 DEF Request
  <1>5. ASSUME \/ UNCHANGED accessVars
               \/ \E s \in Savers : SaveKeys(s)
               \/ \E c \in Clerks : SaveSessions(c)
               \/ \E s \in Sids : Rejected(s)
               \/ Crash
        PROVE  Gone(u)'
    <2>1. UNCHANGED <<removed, overlap, revived>>
      BY <1>5 DEF accessVars, requestVars, SaveKeys, SaveSessions, Rejected, Crash
    <2> QED
      BY <1>3, <2>1
  <1>6. ASSUME NEW b \in Background, NEW s \in Sids,
               TouchLater(b, s) \/ \E w \in Users : SignIn(b, s, w)
        PROVE  Gone(u)'
    <2>1. removed' = removed /\ revived' = revived /\ overlap' = (overlap \/ Removing # {})
      BY <1>1, <1>6, TouchLaterDoes, SignInDoes
    <2> QED
      BY <1>1, <1>3, <2>1
  <1> QED
    BY <1>4, <1>5, <1>6 DEF AccessNext

LEMMA AccessStepHolds == AccessInv /\ [AccessNext]_accessVars => AccessInv'
  <1> SUFFICES ASSUME AccessInv, [AccessNext]_accessVars PROVE AccessInv'
    OBVIOUS
  <1>1. PartsInv /\ RemovingInv
    BY DEF AccessInv
  <1>2. MemberInv' /\ KeyInv' /\ SessionInv' /\ JobsInv'
    BY <1>1, PartsMove, JobsMove
  <1>3. RemovingInv' /\ GoneInv'
    BY <1>1, RemovingMoves, GoneMoves
  <1> QED
    BY <1>2, <1>3 DEF AccessInv, PartsInv

LEMMA AccessInvHolds == AccessSpec => []AccessInv
  BY AccessInitHolds, AccessStepHolds, PTL DEF AccessSpec

LEMMA GoneIsOut == AccessInv => OffboardedIsOut
  <1> SUFFICES ASSUME AccessInv, ~overlap, ~revived, NEW u \in removed
               PROVE  /\ registry[u] = Absent
                      /\ OwnKeys(u) = {}
                      /\ \A s \in Sids : LetIn(s) /\ cookies[s] = u => sessions[s] = Nil
    BY DEF OffboardedIsOut
  <1>1. u \in Users /\ Gone(u)
    BY DEF AccessInv, PartsInv, JobsInv, GoneInv
  <1>2. registry[u] = Absent /\ NoKeyOf(keys, u) /\ NoSessionOf(sessions, u)
    BY <1>1 DEF Gone
  <1>3. OwnKeys(u) = {}
    BY <1>2 DEF NoKeyOf, OwnKeys
  <1>4. ASSUME NEW s \in Sids, LetIn(s), cookies[s] = u, sessions[s] # Nil PROVE FALSE
    <2>1. Agrees(sessions[s], cookies[s]) /\ u # Nil
      BY <1>1, OwnRecord, SessionBounds DEF AccessInv, PartsInv
    <2>2. sessions[s].user = u /\ sessions[s].revoked = Active
      BY <1>4, <2>1 DEF Agrees, LetIn, IsRevoked
    <2> QED
      BY <1>2, <1>4, <2>2 DEF NoSessionOf
  <1> QED
    BY <1>2, <1>3, <1>4

\* The requests as the auth plugin lets them in, the three files and the removals
\* keep to their types.
THEOREM AccessTypesHold == AccessSpec => []AccessTypeOK
  <1>1. AccessInv => AccessTypeOK
    <2> SUFFICES ASSUME AccessInv PROVE AccessTypeOK
      OBVIOUS
    <2>1. MemberTypeOK
      BY DEF AccessInv, PartsInv, MemberInv, SharedInv, CallsInv, MemberTypeOK
    <2>2. KeysTypeOK /\ SessionsTypeOK
      BY KeyInvTypes, SessionInvTypes DEF AccessInv, PartsInv
    <2> QED
      BY <2>1, <2>2 DEF AccessInv, PartsInv, JobsInv, AccessTypeOK, JobType, Steps
  <1> QED
    BY <1>1, AccessInvHolds, PTL

\* Once a removal is answered the user is no member, owns no live key and has no
\* session on file that is let in (members.ts and sweepUser): true of any number
\* of requests, saves, logins and crashes around it, as long as nothing overlaps
\* with a removal and no cookie whose session is on no file is let in.
THEOREM RemovedMembersAreOut == AccessSpec => []OffboardedIsOut
  BY GoneIsOut, AccessInvHolds, PTL

\* What each of the three files promises by itself it also promises where requests
\* go from one to the next: there is always an owner, owners are made by owners,
\* and neither an ended secret nor a revoked session is let in.
THEOREM FilesKeepTheirPromises ==
    AccessSpec => [](/\ AlwaysAnOwner /\ OwnersMadeByOwners
                     /\ EndedSecretsFail /\ RevokedSessionFailsForADay)
  <1>1. AccessInv => MemberInv /\ KeyInv /\ SessionInv
    BY DEF AccessInv, PartsInv
  <1>2. MemberInv => AlwaysAnOwner /\ OwnersMadeByOwners
    BY VersionsAreSound DEF AlwaysAnOwner, OwnersMadeByOwners, Good
  <1> QED
    BY <1>1, <1>2, KeyInvSuffices, SessionInvSuffices, AccessInvHolds, PTL
=============================================================================
