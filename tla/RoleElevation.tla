---------------------------- MODULE RoleElevation ---------------------------
(***************************************************************************)
(* Time-bound role elevation (role-elevation.json).                        *)
(*                                                                         *)
(* A member asks for a higher role and a window; an owner, who may himself *)
(* be one by elevation, approves or denies it and may revoke it early.     *)
(* Nothing ends a window: the preHandler looks for a live grant on every   *)
(* request.  Each function reads the file, changes its copy and renames    *)
(* it into place, so calls that overlap replace one another's changes.     *)
(*                                                                         *)
(* Requests are numbered as they are filed.  A copy that holds a request   *)
(* was read after all those with lower numbers were filed, so the numbers  *)
(* are the order of the records in every copy.                             *)
(***************************************************************************)
EXTENDS AccessClock, FiniteSets

CONSTANTS
    ElevCalls,     \* requests alive at once
    Windows,       \* durationMinutes
    MaxRecords,    \* MAX_RECORDS
    MaxElevations  \* bound: elevation requests ever filed

ASSUME ElevationAssumption ==
    /\ Windows \subseteq Nat
    /\ MaxRecords \in Nat \ {0} /\ MaxElevations \in Nat

VARIABLES
    standing,    \* owners in the member registry (Members); everyone else is a member
    elevations,  \* role-elevation.json: the record of each request, or Nil
    filed,       \* how many requests were filed
    ecall,       \* each call: who it is, and the file it is about to write
    elevEnds,    \* history: the end of each request that was last promised in an answer
    elevLost     \* history: a write has replaced a change its file did not have

elevVars == <<standing, elevations, filed, ecall, elevEnds, elevLost>>
Elevations == 1..MaxElevations

Standing(u) == IF u \in standing THEN "owner" ELSE "member"
ElevRank == [member |-> 2, admin |-> 3, owner |-> 4]

Elevation(user, to, window, status, until) ==
    [user |-> user, to |-> to, window |-> window, status |-> status, until |-> until]
Approved(r)   == Elevation(r.user, r.to, r.window, "approved", clock + r.window)
Closed(r, st) == Elevation(r.user, r.to, r.window, st, r.until)

\* (mutant) any approved record will do
Stays(g, r)    == g[r] # Nil /\ g[r].status = "approved"
\* getActiveGrant, and the second half of what createRequest refuses
IsLive(g, r)   == g[r] # Nil /\ g[r].status = "approved" /\ g[r].until > clock
IsPending(g, r) == g[r] # Nil /\ g[r].status = "pending"
\* (mutant) only looks for a pending request
MayAskAgain(g, u) == \A r \in Elevations : IsPending(g, r) => g[r].user # u
MayAsk(g, u) == \A r \in Elevations : IsPending(g, r) \/ IsLive(g, r) => g[r].user # u

\* The overlay in the preHandler: the grant if it outranks the role at hand.
Overlaid(u) ==
    {Standing(u)} \cup {elevations[r].to : r \in {q \in Elevations : IsLive(elevations, q)
                                                                    /\ elevations[q].user = u}}
RoleNow(u) == CHOOSE role \in Overlaid(u) : \A other \in Overlaid(u) :
                                                ElevRank[other] <= ElevRank[role]

\* write keeps the youngest MAX_RECORDS records.
Younger(g, r) == {q \in Elevations : q > r /\ g[q] # Nil}
Capped(g) == [r \in Elevations |-> IF Cardinality(Younger(g, r)) < MaxRecords
                                   THEN g[r] ELSE Nil]

-----------------------------------------------------------------------------
(* Calls *)

\* one: the request this call decides, which then ends at end.
ElevCall(pc, user, role, next, one, end, stale) ==
    [pc |-> pc, user |-> user, role |-> role, next |-> next, one |-> one, end |-> end,
     stale |-> stale]
NoElevCall == ElevCall("idle", Nil, "member", Nil, 0, 0, FALSE)

EAt(c, pc)  == ecall[c].pc = pc
EMove(c, s) == ecall' = [ecall EXCEPT ![c] = s]
WillReplace(c, next, one, end) ==
    EMove(c, ElevCall("write", ecall[c].user, ecall[c].role, next, one, end, FALSE))
Owner(c)    == EAt(c, "authed") /\ ecall[c].role = "owner"

ElevInit ==
    /\ standing \in SUBSET Users
    /\ elevations = [r \in Elevations |-> Nil]
    /\ filed = 0
    /\ ecall = [c \in ElevCalls |-> NoElevCall]
    /\ elevEnds = [r \in Elevations |-> Never]
    /\ elevLost = FALSE

\* The preHandler gives the request its role.
Enter(c, u) ==
    /\ EAt(c, "idle")
    /\ EMove(c, ElevCall("authed", u, RoleNow(u), Nil, 0, 0, FALSE))
    /\ UNCHANGED <<clock, standing, elevations, filed, elevEnds, elevLost>>

\* createRequest
RequestElevation(c, to, window) ==
    LET u == ecall[c].user  r == filed + 1 IN
    /\ EAt(c, "authed")
    /\ ElevRank[to] > ElevRank[ecall[c].role]
    /\ r \in Elevations
    /\ MayAsk(elevations, u)
    /\ filed' = r
    /\ WillReplace(c, Capped([elevations EXCEPT ![r] = Elevation(u, to, window, "pending", 0)]), 0, 0)
    /\ UNCHANGED <<clock, standing, elevations, elevEnds, elevLost>>

\* approveRequest, denyRequest: by another owner than the one who asks.
Approve(c, r) ==
    /\ Owner(c)
    /\ IsPending(elevations, r) /\ elevations[r].user # ecall[c].user
    /\ WillReplace(c, Capped([elevations EXCEPT ![r] = Approved(@)]),
                   r, clock + elevations[r].window)
    /\ UNCHANGED <<clock, standing, elevations, filed, elevEnds, elevLost>>
Deny(c, r) ==
    /\ Owner(c)
    /\ IsPending(elevations, r) /\ elevations[r].user # ecall[c].user
    /\ WillReplace(c, Capped([elevations EXCEPT ![r] = Closed(@, "denied")]), r, clock)
    /\ UNCHANGED <<clock, standing, elevations, filed, elevEnds, elevLost>>

\* revokeRequest
RevokeElevation(c, r) ==
    /\ Owner(c)
    /\ elevations[r] # Nil /\ elevations[r].status = "approved"
    /\ WillReplace(c, Capped([elevations EXCEPT ![r] = Closed(@, "revoked")]), r, clock)
    /\ UNCHANGED <<clock, standing, elevations, filed, elevEnds, elevLost>>

\* GET: sweepExpired, for an admin's dashboard.
Overdue(g, r) == g[r] # Nil /\ g[r].status = "approved" /\ g[r].until <= clock
SweepExpired(c) ==
    /\ EAt(c, "authed") /\ ElevRank[ecall[c].role] >= ElevRank["admin"]
    /\ \E r \in Elevations : Overdue(elevations, r)
    /\ WillReplace(c, Capped([r \in Elevations |-> IF Overdue(elevations, r)
                                                   THEN Closed(elevations[r], "expired")
                                                   ELSE elevations[r]]), 0, 0)
    /\ UNCHANGED <<clock, standing, elevations, filed, elevEnds, elevLost>>

\* Every other file in hand has been read before this one was written.
AfterReplace(c) ==
    [d \in ElevCalls |-> IF d = c THEN NoElevCall
                         ELSE IF ~EAt(d, "write") \/ ecall[c].next = elevations THEN ecall[d]
                         ELSE ElevCall("write", ecall[d].user, ecall[d].role, ecall[d].next,
                                       ecall[d].one, ecall[d].end, TRUE)]
WriteElevations(c) ==
    /\ EAt(c, "write")
    /\ elevations' = ecall[c].next
    /\ ecall' = AfterReplace(c)
    /\ elevEnds' = IF ecall[c].one = 0 THEN elevEnds
                   ELSE [elevEnds EXCEPT ![ecall[c].one] = ecall[c].end]
    /\ elevLost' = (elevLost \/ ecall[c].stale)
    /\ UNCHANGED <<clock, standing, filed>>

\* The registry makes and unmakes owners.
Reassign ==
    /\ standing' \in SUBSET Users
    /\ UNCHANGED <<clock, elevations, filed, ecall, elevEnds, elevLost>>

\* A refusal, or another route; and the death of the process.
Depart(c) ==
    /\ EAt(c, "authed")
    /\ EMove(c, NoElevCall)
    /\ UNCHANGED <<clock, standing, elevations, filed, elevEnds, elevLost>>
ElevCrash ==
    /\ ecall' = [c \in ElevCalls |-> NoElevCall]
    /\ UNCHANGED <<clock, standing, elevations, filed, elevEnds, elevLost>>

ElevStep(c) ==
    \/ \E u \in Users : Enter(c, u)
    \/ \E to \in {"admin", "owner"}, window \in Windows : RequestElevation(c, to, window)
    \/ \E r \in Elevations : Approve(c, r) \/ Deny(c, r) \/ RevokeElevation(c, r)
    \/ SweepExpired(c) \/ WriteElevations(c) \/ Depart(c)
ElevNext ==
    \/ \E c \in ElevCalls : ElevStep(c)
    \/ Reassign \/ ElevCrash
    \/ Tick /\ UNCHANGED elevVars
ElevSpec == clock = 0 /\ ElevInit /\ [][ElevNext]_<<clock, elevVars>>

-----------------------------------------------------------------------------
(* Properties *)

ElevationType == [user : Users, to : {"admin", "owner"}, window : Windows,
                  status : {"pending", "approved", "denied", "revoked", "expired"}, until : Nat]
ElevFiles == [Elevations -> ElevationType \cup {Nil}]

Bounded(g) == Cardinality({r \in Elevations : g[r] # Nil}) <= MaxRecords

\* Every variable stays in its type, and the file within MAX_RECORDS.
ElevTypeOK ==
    /\ standing \subseteq Users
    /\ elevations \in ElevFiles /\ Bounded(elevations)
    /\ filed \in 0..MaxElevations
    /\ ecall \in [ElevCalls -> [pc : {"idle", "authed", "write"}, user : Users \cup {Nil},
                                role : {"member", "admin", "owner"}, next : ElevFiles \cup {Nil},
                                one : 0..MaxElevations, end : Nat, stale : BOOLEAN]]
    /\ elevEnds \in [Elevations -> Nat]
    /\ elevLost \in BOOLEAN

\* role-elevation.ts: "no stacking of windows, predictable expiry".  In what the
\* file holds, and in what any call is about to make of it, a user has one
\* request at most that is pending or live, whichever calls overlap.
ElevVersions == {elevations} \cup {ecall[c].next : c \in {d \in ElevCalls : EAt(d, "write")}}
OneWindow ==
    \A g \in ElevVersions, r, q \in Elevations :
        /\ IsPending(g, r) \/ IsLive(g, r)
        /\ IsPending(g, q) \/ IsLive(g, q)
        /\ g[r].user = g[q].user
        => r = q

\* A denial and a revocation end a request, an approval sets its end: once that
\* has been answered and the time has come, no request of that user gets the
\* role from it, unless overlapping writes have replaced one another.
ElevationEndsAsPromised ==
    ~elevLost => \A r \in Elevations : clock >= elevEnds[r] => ~IsLive(elevations, r)
=============================================================================
