--------------------------- MODULE Records_proofs ---------------------------
(***************************************************************************)
(* OneWindow and ElevationEndsAsPromised of the elevations,                *)
(* PausedByItsFailures and SecretsSignInTime of the webhooks,              *)
(* OthersKeepTheirs and ErasedUnlessCut of the deletions: for any users,   *)
(* hooks, records, windows, limits and number of overlapping calls.        *)
(*                                                                         *)
(* Elevations.  Windows do not stack because every copy is made from a     *)
(* file in which they do not: what a call does to its copy opens nothing   *)
(* that MayAsk has not looked for, and time only closes.  A window ends as *)
(* promised as long as a call that is not stale differs from the file in   *)
(* nothing but the request it decides.                                     *)
(*                                                                         *)
(* Webhooks.  A copy of the file that is not stale differs from it in what *)
(* its owner's call, or the books of its deliveries, make of a hook, so    *)
(* that saving it changes nothing else.  A hook's failures are no more     *)
(* than those in a row, and no secret that a copy may sign with ends       *)
(* before the copy says so.                                                *)
(*                                                                         *)
(* Deletions.  A record that was stored is on file or was taken by a call  *)
(* of its own user, since what a call removes is picked by owner: a write  *)
(* either loses nothing it had not read, or sets dataLost.  What an        *)
(* erasure removes it never meets again, since ids are given out once.     *)
(***************************************************************************)
EXTENDS RoleElevation, Webhooks, Erasure, FiniteSetTheorems, WellFoundedInduction, TLAPS

-----------------------------------------------------------------------------
(* Elevations *)

ElevRoles == {"member", "admin", "owner"}

\* IsPending or IsLive, at time t
Open(g, r, t) ==
    g[r] # Nil /\ (g[r].status = "pending" \/ (g[r].status = "approved" /\ g[r].until > t))
Single(g, t) ==
    \A r, q \in Elevations :
        Open(g, r, t) /\ Open(g, q, t) /\ g[r].user = g[q].user => r = q

\* What is approved in g ends by e.
EndsBy(g, e) == \A r \in Elevations : g[r] # Nil /\ g[r].status = "approved" => g[r].until <= e[r]

\* h differs from g in the approved requests by one, which ends at end.
Faithful(h, one, end, g) ==
    \A r \in Elevations :
        h[r] # Nil /\ h[r].status = "approved" =>
            IF r = one THEN h[r].until = end
            ELSE g[r] # Nil /\ g[r].status = "approved" /\ g[r].until = h[r].until

ElevCallType ==
    [pc : {"idle", "authed", "write"}, user : Users \cup {Nil},
     role : {"member", "admin", "owner"}, next : ElevFiles \cup {Nil},
     one : 0..MaxElevations, end : Nat, stale : BOOLEAN]

CallOK(m, g, t) ==
    /\ m.pc # "idle" => m.user \in Users
    /\ m.pc = "write" => m.next \in ElevFiles /\ Bounded(m.next) /\ Single(m.next, t)
    /\ m.pc = "write" /\ ~m.stale => Faithful(m.next, m.one, m.end, g)

FileInv ==
    /\ clock \in Nat
    /\ standing \subseteq Users /\ filed \in 0..MaxElevations
    /\ elevations \in ElevFiles /\ Bounded(elevations) /\ Single(elevations, clock)
    /\ elevEnds \in [Elevations -> Nat] /\ elevLost \in BOOLEAN
    /\ ~elevLost => EndsBy(elevations, elevEnds)
CallsInv ==
    /\ ecall \in [ElevCalls -> ElevCallType]
    /\ \A c \in ElevCalls : CallOK(ecall[c], elevations, clock)
Inv == FileInv /\ CallsInv

-----------------------------------------------------------------------------
(* Records and files *)

LEMMA ElevationFields ==
    ASSUME NEW g \in ElevFiles, NEW r \in Elevations, g[r] # Nil
    PROVE  /\ g[r] \in ElevationType
           /\ g[r].user \in Users /\ g[r].to \in {"admin", "owner"} /\ g[r].window \in Windows
           /\ g[r].window \in Nat /\ g[r].until \in Nat
  BY ElevationAssumption DEF ElevFiles, ElevationType

LEMMA MadeRecord ==
    ASSUME NEW user \in Users, NEW to \in {"admin", "owner"}, NEW window \in Windows,
           NEW st \in {"pending", "approved", "denied", "revoked", "expired"}, NEW until \in Nat
    PROVE  /\ Elevation(user, to, window, st, until) \in ElevationType
           /\ Elevation(user, to, window, st, until).user = user
           /\ Elevation(user, to, window, st, until).status = st
           /\ Elevation(user, to, window, st, until).until = until
  BY DEF Elevation, ElevationType

\* Whatever opens nothing keeps windows single.
LEMMA Narrower ==
    ASSUME NEW g, NEW h, NEW t, NEW s, Single(g, t),
           \A r \in Elevations : Open(h, r, s) => Open(g, r, t) /\ h[r].user = g[r].user
    PROVE  Single(h, s)
  BY DEF Single

LEMMA TimeCloses ==
    ASSUME NEW g \in ElevFiles, NEW t \in Nat, NEW s \in Nat, t <= s, Single(g, t)
    PROVE  Single(g, s)
  <1>1. ASSUME NEW r \in Elevations, Open(g, r, s)
        PROVE  Open(g, r, t)
    BY <1>1, ElevationFields DEF Open
  <1> QED
    BY <1>1, Narrower

LEMMA CappedFile ==
    ASSUME NEW g \in ElevFiles
    PROVE  /\ Capped(g) \in ElevFiles
           /\ \A r \in Elevations : Capped(g)[r] # Nil => Capped(g)[r] = g[r]
  BY DEF Capped, ElevFiles

LEMMA CappedSingle ==
    ASSUME NEW g \in ElevFiles, NEW t, Single(g, t)
    PROVE  Single(Capped(g), t)
  BY CappedFile, Narrower DEF Open

LEMMA CappedFaithful ==
    ASSUME NEW h \in ElevFiles, NEW one, NEW end, NEW g, Faithful(h, one, end, g)
    PROVE  Faithful(Capped(h), one, end, g)
  BY CappedFile DEF Faithful

\* The oldest record that write keeps has fewer than MAX_RECORDS younger ones,
\* and these are all the others it keeps.
LEMMA CappedBounded ==
    ASSUME NEW g \in ElevFiles
    PROVE  Bounded(Capped(g))
  <1> DEFINE S == {r \in Elevations : Capped(g)[r] # Nil}
  <1>1. IsFiniteSet(Elevations)
    BY ElevationAssumption, FS_Interval DEF Elevations
  <1>2. IsFiniteSet(S)
    BY <1>1, FS_Subset
  <1>3. CASE S = {}
    BY <1>3, FS_EmptySet, ElevationAssumption DEF Bounded
  <1>4. CASE S # {}
    <2>1. PICK m \in S : \A r \in S : ~(r < m)
      <3>1. S \subseteq Nat
        BY DEF Elevations
      <3>2. PICK m \in S : \A r \in S : ~(<<r, m>> \in OpToRel(<, Nat))
        BY <1>4, <3>1, NatLessThanWellFounded, WFMin
      <3> QED
        BY <3>1, <3>2 DEF OpToRel
    <2> DEFINE Y == Younger(g, m)
    <2>2. IsFiniteSet(Y) /\ Cardinality(Y) < MaxRecords
      <3>1. IsFiniteSet(Y)
        BY <1>1, FS_Subset DEF Younger
      <3>2. Cardinality(Y) < MaxRecords
        BY <2>1 DEF Capped
      <3> QED
        BY <3>1, <3>2
    <2>3. S \ {m} \subseteq Y
      BY <2>1, CappedFile DEF Younger, Elevations
    <2>4. Cardinality(S \ {m}) <= Cardinality(Y)
      BY <2>2, <2>3, FS_Subset
    <2>5. Cardinality(S \ {m}) = Cardinality(S) - 1
      BY <1>2, <2>1, FS_RemoveElement
    <2>6. Cardinality(S) \in Nat /\ Cardinality(Y) \in Nat
      BY <1>2, <2>2, FS_CardinalityType
    <2> HIDE DEF S, Y
    <2>7. Cardinality(S) <= MaxRecords
      BY <2>2, <2>4, <2>5, <2>6, ElevationAssumption
    <2> QED
      BY <2>7 DEF S, Bounded
  <1> QED
    BY <1>3, <1>4

-----------------------------------------------------------------------------
(* Calls *)

LEMMA ElevCallFields ==
    ASSUME NEW pc, NEW user, NEW role, NEW next, NEW one, NEW end, NEW stale
    PROVE  LET m == ElevCall(pc, user, role, next, one, end, stale)
           IN  /\ m.pc = pc /\ m.user = user /\ m.role = role /\ m.next = next
               /\ m.one = one /\ m.end = end /\ m.stale = stale
  BY DEF ElevCall

LEMMA MadeElevCall ==
    ASSUME NEW pc \in {"idle", "authed", "write"}, NEW user \in Users \cup {Nil},
           NEW role \in ElevRoles, NEW next \in ElevFiles \cup {Nil},
           NEW one \in 0..MaxElevations, NEW end \in Nat, NEW stale \in BOOLEAN
    PROVE  ElevCall(pc, user, role, next, one, end, stale) \in ElevCallType
  BY DEF ElevCall, ElevCallType, ElevRoles

LEMMA IdleElevCall ==
    ASSUME NEW g, NEW t
    PROVE  NoElevCall \in ElevCallType /\ CallOK(NoElevCall, g, t)
  <1>1. NoElevCall \in ElevCallType
    BY ElevationAssumption DEF NoElevCall, ElevCall, ElevCallType
  <1>2. NoElevCall.pc = "idle"
    BY DEF NoElevCall, ElevCall
  <1> QED
    BY <1>1, <1>2 DEF CallOK

LEMMA CallHolds ==
    ASSUME Inv, NEW c \in ElevCalls
    PROVE  ecall[c] \in ElevCallType /\ CallOK(ecall[c], elevations, clock)
  BY DEF Inv, CallsInv

\* One call moves while the files stay.
LEMMA Moved ==
    ASSUME Inv, NEW c \in ElevCalls, NEW s \in ElevCallType, EMove(c, s),
           CallOK(s, elevations, clock), UNCHANGED <<clock, elevations>>
    PROVE  CallsInv'
  <1>1. ecall' \in [ElevCalls -> ElevCallType]
    BY DEF Inv, CallsInv, EMove
  <1>2. ASSUME NEW d \in ElevCalls
        PROVE  CallOK(ecall'[d], elevations, clock)
    BY CallHolds DEF EMove, Inv, CallsInv
  <1> QED
    BY <1>1, <1>2 DEF CallsInv

\* A call of somebody that is about to write what it has made of the file.
LEMMA AboutToWrite ==
    ASSUME Inv, NEW c \in ElevCalls, ecall[c].pc = "authed", NEW h \in ElevFiles,
           NEW one \in 0..MaxElevations, NEW end \in Nat,
           Single(h, clock), Faithful(h, one, end, elevations),
           WillReplace(c, Capped(h), one, end), UNCHANGED <<clock, elevations>>
    PROVE  CallsInv'
  <1> DEFINE next == Capped(h)
             s == ElevCall("write", ecall[c].user, ecall[c].role, next, one, end, FALSE)
  <1>1. ecall[c].user \in Users /\ ecall[c].role \in ElevRoles
    BY CallHolds DEF CallOK, ElevCallType, ElevRoles
  <1>2. /\ next \in ElevFiles /\ Bounded(next) /\ Single(next, clock)
        /\ Faithful(next, one, end, elevations)
    BY CappedFile, CappedBounded, CappedSingle, CappedFaithful
  <1> HIDE DEF next
  <1>3. s \in ElevCallType
    BY <1>1, <1>2, MadeElevCall
  <1>4. /\ s.pc = "write" /\ s.user = ecall[c].user /\ s.next = next
        /\ s.one = one /\ s.end = end
    BY DEF ElevCall
  <1>5. EMove(c, s)
    BY DEF WillReplace, next
  <1> HIDE DEF s
  <1>6. CallOK(s, elevations, clock)
    BY <1>1, <1>2, <1>4 DEF CallOK
  <1> QED
    BY <1>3, <1>5, <1>6, Moved

\* The steps that only read the files.
LEMMA OnlyRead ==
    ASSUME Inv, UNCHANGED <<clock, standing, elevations, elevEnds, elevLost>>,
           filed' \in 0..MaxElevations
    PROVE  FileInv'
  BY DEF Inv, FileInv

LEMMA RoleIsARole ==
    ASSUME Inv, NEW u \in Users
    PROVE  RoleNow(u) \in ElevRoles
  <1> DEFINE O == Overlaid(u)
  <1>1. O \subseteq ElevRoles
    BY ElevationFields DEF Inv, FileInv, Overlaid, Standing, ElevRoles, IsLive
  <1>2. "owner" \in O \/ "member" \in O
    BY DEF Overlaid, Standing
  <1> HIDE DEF O
  <1>3. \E role \in O : \A other \in O : ElevRank[other] <= ElevRank[role]
    <2>1. CASE "owner" \in O
      BY <1>1, <2>1 DEF ElevRank, ElevRoles
    <2>2. CASE "owner" \notin O /\ "admin" \in O
      BY <1>1, <2>2 DEF ElevRank, ElevRoles
    <2>3. CASE "owner" \notin O /\ "admin" \notin O
      BY <1>1, <1>2, <2>3 DEF ElevRank, ElevRoles
    <2> QED
      BY <2>1, <2>2, <2>3
  <1> QED
    BY <1>1, <1>3 DEF RoleNow, O

-----------------------------------------------------------------------------
(* Every step *)

LEMMA EnterHolds ==
    ASSUME Inv, NEW c \in ElevCalls, NEW u \in Users, Enter(c, u)
    PROVE  Inv'
  <1> DEFINE role == RoleNow(u)
             s == ElevCall("authed", u, role, Nil, 0, 0, FALSE)
  <1>1. role \in ElevRoles
    BY RoleIsARole
  <1>2. EMove(c, s) /\ UNCHANGED <<clock, standing, elevations, filed, elevEnds, elevLost>>
    BY DEF Enter
  <1> HIDE DEF role
  <1>3. s \in ElevCallType
    BY <1>1, ElevationAssumption DEF ElevCall, ElevCallType, ElevRoles
  <1>4. s.pc = "authed" /\ s.user = u
    BY DEF ElevCall
  <1> HIDE DEF s
  <1>5. CallOK(s, elevations, clock)
    BY <1>4 DEF CallOK
  <1> QED
    BY <1>2, <1>3, <1>5, Moved, OnlyRead DEF Inv, FileInv

LEMMA RequestElevationHolds ==
    ASSUME Inv, NEW c \in ElevCalls, NEW to \in {"admin", "owner"}, NEW window \in Windows,
           RequestElevation(c, to, window)
    PROVE  Inv'
  <1> DEFINE u   == ecall[c].user
             r   == filed + 1
             new == Elevation(u, to, window, "pending", 0)
             h   == [elevations EXCEPT ![r] = new]
  <1>1. /\ ecall[c].pc = "authed" /\ r \in Elevations /\ filed' = r /\ MayAsk(elevations, u)
        /\ WillReplace(c, Capped(h), 0, 0)
        /\ UNCHANGED <<clock, standing, elevations, elevEnds, elevLost>>
    BY DEF RequestElevation, EAt
  <1>2. u \in Users
    BY <1>1, CallHolds DEF CallOK
  <1>3. new \in ElevationType /\ new.user = u /\ new.status = "pending"
    BY <1>2, MadeRecord
  <1>4. elevations \in ElevFiles /\ Single(elevations, clock) /\ r \in 0..MaxElevations
    BY <1>1 DEF Inv, FileInv, Elevations
  <1> HIDE DEF new, r, u
  <1>5. h \in ElevFiles
    BY <1>1, <1>3, <1>4 DEF ElevFiles
  <1>6. /\ h[r] = new
        /\ \A q \in Elevations : q # r => h[q] = elevations[q]
    BY <1>1, <1>4 DEF ElevFiles
  <1> HIDE DEF h
  <1>7. Single(h, clock)
    <2>1. ASSUME NEW q \in Elevations, q # r, Open(h, q, clock)
          PROVE  Open(elevations, q, clock) /\ h[q].user = elevations[q].user /\ h[q].user # u
      BY <1>1, <1>6, <2>1 DEF Open, MayAsk, IsPending, IsLive
    <2> QED
      BY <1>3, <1>4, <1>6, <2>1 DEF Single
  <1>8. Faithful(h, 0, 0, elevations)
    BY <1>3, <1>6 DEF Faithful, Elevations
  <1>9. CallsInv'
    BY <1>1, <1>5, <1>7, <1>8, AboutToWrite, ElevationAssumption
  <1> QED
    BY <1>1, <1>4, <1>9, OnlyRead DEF Inv

\* The calls that decide one request of the file.
LEMMA DecisionHolds ==
    ASSUME Inv, NEW c \in ElevCalls, NEW r \in Elevations, ecall[c].pc = "authed",
           elevations[r] # Nil, NEW new \in ElevationType, NEW end \in Nat,
           new.user = elevations[r].user, new.status \in {"approved", "denied", "revoked"},
           new.status = "approved" => new.until = end /\ elevations[r].status = "pending",
           WillReplace(c, Capped([elevations EXCEPT ![r] = new]), r, end),
           UNCHANGED <<clock, standing, elevations, filed, elevEnds, elevLost>>
    PROVE  Inv'
  <1> DEFINE h == [elevations EXCEPT ![r] = new]
  <1>1. elevations \in ElevFiles /\ Single(elevations, clock) /\ filed \in 0..MaxElevations
    BY DEF Inv, FileInv
  <1>2. h \in ElevFiles
    BY <1>1 DEF ElevFiles
  <1>3. /\ h[r] = new
        /\ \A q \in Elevations : q # r => h[q] = elevations[q]
    BY <1>1 DEF ElevFiles
  <1>4. WillReplace(c, Capped(h), r, end)
    OBVIOUS
  <1> HIDE DEF h
  <1>5. \A q \in Elevations :
           Open(h, q, clock) => Open(elevations, q, clock) /\ h[q].user = elevations[q].user
    BY <1>3 DEF Open
  <1>6. Single(h, clock)
    BY <1>1, <1>5, Narrower
  <1>7. Faithful(h, r, end, elevations)
    BY <1>3 DEF Faithful
  <1>8. r \in 0..MaxElevations
    BY DEF Elevations
  <1>9. CallsInv'
    BY <1>2, <1>4, <1>6, <1>7, <1>8, AboutToWrite
  <1> QED
    BY <1>1, <1>9, OnlyRead DEF Inv

LEMMA DecideHolds ==
    ASSUME Inv, NEW c \in ElevCalls, NEW r \in Elevations,
           Approve(c, r) \/ Deny(c, r) \/ RevokeElevation(c, r)
    PROVE  Inv'
  <1> DEFINE e == elevations[r]
             new(st, until) == Elevation(e.user, e.to, e.window, st, until)
  <1>1. /\ ecall[c].pc = "authed" /\ e # Nil
        /\ UNCHANGED <<clock, standing, elevations, filed, elevEnds, elevLost>>
    BY DEF Approve, Deny, RevokeElevation, Owner, EAt, IsPending
  <1>2. elevations \in ElevFiles /\ clock \in Nat
    BY DEF Inv, FileInv
  <1>3. /\ e.user \in Users /\ e.to \in {"admin", "owner"} /\ e.window \in Windows
        /\ e.window \in Nat /\ e.until \in Nat /\ clock + e.window \in Nat
    BY <1>1, <1>2, ElevationFields
  <1>4. ASSUME NEW st \in {"approved", "denied", "revoked"}, NEW until \in Nat
        PROVE  /\ new(st, until) \in ElevationType /\ new(st, until).user = e.user
               /\ new(st, until).status = st /\ new(st, until).until = until
    BY <1>3, MadeRecord
  <1>5. CASE Approve(c, r)
    <2>1. /\ WillReplace(c, Capped([elevations EXCEPT ![r] = new("approved", clock + e.window)]),
                         r, clock + e.window)
          /\ e.status = "pending"
      BY <1>2, <1>5 DEF Approve, Approved, IsPending, ElevFiles
    <2>2. /\ new("approved", clock + e.window) \in ElevationType
          /\ new("approved", clock + e.window).user = e.user
          /\ new("approved", clock + e.window).status = "approved"
          /\ new("approved", clock + e.window).until = clock + e.window
      BY <1>3, <1>4
    <2> HIDE DEF new
    <2> QED
      BY <1>1, <1>3, <2>1, <2>2, DecisionHolds
  <1>6. CASE Deny(c, r)
    <2>1. WillReplace(c, Capped([elevations EXCEPT ![r] = new("denied", e.until)]), r, clock)
      BY <1>2, <1>6 DEF Deny, Closed, ElevFiles
    <2>2. /\ new("denied", e.until) \in ElevationType /\ new("denied", e.until).user = e.user
          /\ new("denied", e.until).status = "denied"
      BY <1>3, <1>4
    <2> HIDE DEF new
    <2> QED
      BY <1>1, <1>2, <2>1, <2>2, DecisionHolds
  <1>7. CASE RevokeElevation(c, r)
    <2>1. WillReplace(c, Capped([elevations EXCEPT ![r] = new("revoked", e.until)]), r, clock)
      BY <1>2, <1>7 DEF RevokeElevation, Closed, ElevFiles
    <2>2. /\ new("revoked", e.until) \in ElevationType /\ new("revoked", e.until).user = e.user
          /\ new("revoked", e.until).status = "revoked"
      BY <1>3, <1>4
    <2> HIDE DEF new
    <2> QED
      BY <1>1, <1>2, <2>1, <2>2, DecisionHolds
  <1> QED
    BY <1>5, <1>6, <1>7

LEMMA SweepHolds ==
    ASSUME Inv, NEW c \in ElevCalls, SweepExpired(c)
    PROVE  Inv'
  <1> DEFINE h == [r \in Elevations |-> IF Overdue(elevations, r) THEN Closed(elevations[r], "expired")
                                        ELSE elevations[r]]
  <1>1. /\ ecall[c].pc = "authed" /\ WillReplace(c, Capped(h), 0, 0)
        /\ UNCHANGED <<clock, standing, elevations, filed, elevEnds, elevLost>>
    BY DEF SweepExpired, EAt
  <1>2. elevations \in ElevFiles /\ Single(elevations, clock) /\ filed \in 0..MaxElevations
    BY DEF Inv, FileInv
  <1>3. ASSUME NEW r \in Elevations, Overdue(elevations, r)
        PROVE  h[r] \in ElevationType /\ h[r].status = "expired"
    <2>1. h[r] = Elevation(elevations[r].user, elevations[r].to, elevations[r].window, "expired",
                           elevations[r].until)
      BY <1>3 DEF Closed
    <2>2. elevations[r] # Nil
      BY <1>3 DEF Overdue
    <2> HIDE DEF h
    <2> QED
      BY <1>2, <2>1, <2>2, ElevationFields, MadeRecord
  <1>4. \A r \in Elevations : ~Overdue(elevations, r) => h[r] = elevations[r]
    OBVIOUS
  <1>5. h \in ElevFiles
    <2>1. \A r \in Elevations : h[r] \in ElevationType \cup {Nil}
      BY <1>2, <1>3, <1>4 DEF ElevFiles
    <2> QED
      BY <2>1 DEF ElevFiles
  <1> HIDE DEF h
  <1>6. \A r \in Elevations :
           Open(h, r, clock) => Open(elevations, r, clock) /\ h[r].user = elevations[r].user
    BY <1>3, <1>4 DEF Open
  <1>7. Single(h, clock)
    BY <1>2, <1>6, Narrower
  <1>8. Faithful(h, 0, 0, elevations)
    BY <1>3, <1>4 DEF Faithful, Elevations
  <1>9. CallsInv'
    BY <1>1, <1>5, <1>7, <1>8, AboutToWrite, ElevationAssumption
  <1> QED
    BY <1>1, <1>2, <1>9, OnlyRead DEF Inv

LEMMA WriteElevationsHolds ==
    ASSUME Inv, NEW c \in ElevCalls, WriteElevations(c)
    PROVE  Inv'
  <1> DEFINE m == ecall[c]
  <1>1. /\ m.pc = "write" /\ elevations' = m.next /\ ecall' = AfterReplace(c)
        /\ elevEnds' = IF m.one = 0 THEN elevEnds ELSE [elevEnds EXCEPT ![m.one] = m.end]
        /\ elevLost' = (elevLost \/ m.stale)
        /\ UNCHANGED <<clock, standing, filed>>
    BY DEF WriteElevations, EAt
  <1>2. m \in ElevCallType /\ CallOK(m, elevations, clock)
    BY CallHolds
  <1>3. m.one \in 0..MaxElevations /\ m.end \in Nat /\ m.stale \in BOOLEAN
    BY <1>2 DEF ElevCallType
  <1>4. /\ m.next \in ElevFiles /\ Bounded(m.next) /\ Single(m.next, clock)
        /\ ~m.stale => Faithful(m.next, m.one, m.end, elevations)
    BY <1>1, <1>2 DEF CallOK
  <1> HIDE DEF m
  <1>5. elevEnds \in [Elevations -> Nat] /\ elevLost \in BOOLEAN
        /\ (~elevLost => EndsBy(elevations, elevEnds))
    BY DEF Inv, FileInv
  <1>6. /\ elevEnds' \in [Elevations -> Nat]
        /\ \A r \in Elevations : elevEnds'[r] = IF r = m.one THEN m.end ELSE elevEnds[r]
    BY <1>1, <1>3, <1>5 DEF Elevations
  <1>7. ~elevLost' => EndsBy(elevations', elevEnds')
    <2> SUFFICES ASSUME ~elevLost', NEW r \in Elevations,
                        m.next[r] # Nil, m.next[r].status = "approved"
                 PROVE  m.next[r].until <= elevEnds'[r]
      BY <1>1 DEF EndsBy
    <2>1. Faithful(m.next, m.one, m.end, elevations) /\ EndsBy(elevations, elevEnds)
      BY <1>1, <1>4, <1>5
    <2>2. CASE r = m.one
      BY <1>3, <1>6, <2>1, <2>2 DEF Faithful
    <2>3. CASE r # m.one
      BY <1>6, <2>1, <2>3 DEF Faithful, EndsBy
    <2> QED
      BY <2>2, <2>3
  <1>8. FileInv'
    <2>1. elevLost' \in BOOLEAN
      BY <1>1, <1>3, <1>5
    <2> QED
      BY <1>1, <1>4, <1>6, <1>7, <2>1 DEF Inv, FileInv
  <1>9. ASSUME NEW d \in ElevCalls
        PROVE  ecall'[d] \in ElevCallType /\ CallOK(ecall'[d], elevations', clock')
    <2>1. ecall[d] \in ElevCallType /\ CallOK(ecall[d], elevations, clock)
      BY CallHolds
    <2>2. CASE d = c
      <3>1. ecall'[d] = NoElevCall
        BY <1>1, <2>2 DEF AfterReplace
      <3> QED
        BY <3>1, IdleElevCall
    <2>3. CASE d # c /\ (ecall[d].pc # "write" \/ m.next = elevations)
      <3>1. ecall'[d] = ecall[d]
        BY <1>1, <2>3 DEF AfterReplace, EAt, m
      <3> QED
        BY <1>1, <2>1, <2>3, <3>1 DEF CallOK
    <2>4. CASE d # c /\ ecall[d].pc = "write" /\ m.next # elevations
      <3> DEFINE n == ecall[d]
                 s == ElevCall("write", n.user, n.role, n.next, n.one, n.end, TRUE)
      <3>1. ecall'[d] = s
        BY <1>1, <2>4 DEF AfterReplace, EAt, m
      <3>2. n \in ElevCallType
        BY <2>1
      <3> HIDE DEF n
      <3>3. s \in ElevCallType
        BY <3>2 DEF ElevCall, ElevCallType
      <3>4. s.pc = "write" /\ s.user = n.user /\ s.next = n.next /\ s.stale = TRUE
        BY DEF ElevCall
      <3> HIDE DEF s
      <3>5. n.user \in Users /\ n.next \in ElevFiles /\ Bounded(n.next) /\ Single(n.next, clock)
        BY <2>1, <2>4 DEF CallOK, n
      <3> QED
        BY <1>1, <3>1, <3>3, <3>4, <3>5 DEF CallOK
    <2> QED
      BY <2>2, <2>3, <2>4
  <1>10. CallsInv'
    <2>1. ecall' = [d \in ElevCalls |-> ecall'[d]]
      BY <1>1 DEF AfterReplace
    <2> QED
      BY <1>9, <2>1 DEF CallsInv
  <1> QED
    BY <1>8, <1>10 DEF Inv

\* The registry moves, a request ends or the process dies.
LEMMA OtherHolds ==
    ASSUME Inv, Reassign \/ ElevCrash \/ \E c \in ElevCalls : Depart(c)
    PROVE  Inv'
  <1>1. CASE Reassign
    <2>1. standing' \subseteq Users /\ UNCHANGED <<clock, elevations, filed, ecall, elevEnds, elevLost>>
      BY <1>1 DEF Reassign
    <2> QED
      BY <2>1 DEF Inv, FileInv, CallsInv
  <1>2. CASE ElevCrash
    <2>1. /\ ecall' = [c \in ElevCalls |-> NoElevCall]
          /\ UNCHANGED <<clock, standing, elevations, filed, elevEnds, elevLost>>
      BY <1>2 DEF ElevCrash
    <2>2. CallsInv'
      BY <2>1, IdleElevCall DEF CallsInv
    <2> QED
      BY <2>1, <2>2, OnlyRead DEF Inv, FileInv
  <1>3. ASSUME NEW c \in ElevCalls, Depart(c)
        PROVE  Inv'
    <2>1. EMove(c, NoElevCall) /\ UNCHANGED <<clock, standing, elevations, filed, elevEnds, elevLost>>
      BY <1>3 DEF Depart
    <2> QED
      BY <2>1, IdleElevCall, Moved, OnlyRead DEF Inv, FileInv
  <1> QED
    BY <1>1, <1>2, <1>3

\* Time closes windows in the file and in every copy.
LEMMA TickHolds ==
    ASSUME Inv, Tick, UNCHANGED elevVars
    PROVE  Inv'
  <1>1. /\ clock \in Nat /\ clock' \in Nat /\ clock <= clock'
        /\ UNCHANGED <<standing, elevations, filed, ecall, elevEnds, elevLost>>
    BY DEF Tick, elevVars, Inv, FileInv
  <1>2. FileInv'
    BY <1>1, TimeCloses DEF Inv, FileInv
  <1>3. ASSUME NEW c \in ElevCalls
        PROVE  CallOK(ecall[c], elevations, clock')
    BY <1>1, CallHolds, TimeCloses DEF CallOK
  <1> QED
    BY <1>1, <1>2, <1>3 DEF Inv, CallsInv

LEMMA ElevInitHolds == clock = 0 /\ ElevInit => Inv
  <1> SUFFICES ASSUME clock = 0, ElevInit PROVE Inv
    OBVIOUS
  <1>1. elevations = [r \in Elevations |-> Nil]
    BY DEF ElevInit
  <1>2. elevations \in ElevFiles /\ Single(elevations, clock) /\ EndsBy(elevations, elevEnds)
    BY <1>1 DEF ElevFiles, Single, Open, EndsBy
  <1>3. Bounded(elevations)
    <2>1. {r \in Elevations : elevations[r] # Nil} = {}
      BY <1>1
    <2> QED
      BY <2>1, FS_EmptySet, ElevationAssumption DEF Bounded
  <1>4. FileInv
    <2>1. elevEnds \in [Elevations -> Nat]
      BY ClockAssumption DEF ElevInit, Never
    <2>2. standing \subseteq Users /\ elevLost \in BOOLEAN
      BY DEF ElevInit
    <2>3. clock \in Nat /\ filed \in 0..MaxElevations
      BY ElevationAssumption DEF ElevInit
    <2> QED
      BY <1>2, <1>3, <2>1, <2>2, <2>3 DEF FileInv
  <1>5. CallsInv
    BY IdleElevCall DEF CallsInv, ElevInit
  <1> QED
    BY <1>4, <1>5 DEF Inv

LEMMA ElevStepHolds == Inv /\ [ElevNext]_<<clock, elevVars>> => Inv'
  <1> SUFFICES ASSUME Inv, [ElevNext]_<<clock, elevVars>> PROVE Inv'
    OBVIOUS
  <1>1. CASE UNCHANGED <<clock, elevVars>>
    BY <1>1, OnlyRead DEF elevVars, Inv, FileInv, CallsInv
  <1>2. ASSUME NEW c \in ElevCalls, ElevStep(c)
        PROVE  Inv'
    BY <1>2, EnterHolds, RequestElevationHolds, DecideHolds, SweepHolds, WriteElevationsHolds,
       OtherHolds DEF ElevStep
  <1> QED
    BY <1>1, <1>2, OtherHolds, TickHolds DEF ElevNext

LEMMA InvHolds == ElevSpec => []Inv
  BY ElevInitHolds, ElevStepHolds, PTL DEF ElevSpec

-----------------------------------------------------------------------------
(* What the invariant is for *)

\* Every variable of role-elevation.ts keeps its type, and the file never grows
\* past MAX_RECORDS.
THEOREM ElevTypesHold == ElevSpec => []ElevTypeOK
  <1>1. Inv => ElevTypeOK
    BY DEF Inv, FileInv, CallsInv, ElevTypeOK, ElevCallType
  <1> QED
    BY <1>1, InvHolds, PTL

\* However many calls overlap, nobody gets a second window while one is open.
THEOREM WindowsDoNotStack == ElevSpec => []OneWindow
  <1>1. ASSUME Inv, NEW g \in ElevVersions
        PROVE  Single(g, clock)
    <2>1. CASE g = elevations
      BY <1>1, <2>1 DEF Inv, FileInv
    <2>2. CASE \E c \in ElevCalls : ecall[c].pc = "write" /\ g = ecall[c].next
      BY <1>1, <2>2, CallHolds DEF CallOK
    <2> QED
      BY <2>1, <2>2 DEF ElevVersions, EAt
  <1>2. Inv => OneWindow
    BY <1>1 DEF OneWindow, Single, Open, IsPending, IsLive
  <1> QED
    BY <1>2, InvHolds, PTL

\* A window that an answer has ended is over when it said, until a call's write
\* has replaced another's.
THEOREM WindowsEndAsPromised == ElevSpec => []ElevationEndsAsPromised
  <1>1. Inv => ElevationEndsAsPromised
    <2> SUFFICES ASSUME Inv, ~elevLost, NEW r \in Elevations, clock >= elevEnds[r],
                        IsLive(elevations, r)
                 PROVE  FALSE
      BY DEF ElevationEndsAsPromised
    <2>1. /\ clock \in Nat /\ elevEnds[r] \in Nat /\ EndsBy(elevations, elevEnds)
          /\ elevations \in ElevFiles
      BY DEF Inv, FileInv
    <2>2. elevations[r].until \in Nat /\ elevations[r].until <= elevEnds[r]
      BY <2>1, ElevationFields DEF EndsBy, IsLive
    <2> QED
      BY <2>1, <2>2 DEF IsLive
  <1> QED
    BY <1>1, InvHolds, PTL
-----------------------------------------------------------------------------
(* Webhooks: what a call knows of the file, from its copy of it.           *)

Sound(w) == w # Nil /\ w.active => w.failures < AutoDisable

\* The hooks an emit or a redelivery has still to settle.
Due(p) == p.todo \cup (IF p.pc = "try" THEN {p.hook} ELSE {})

Shape(p) ==
    p.pc # "idle" =>
        /\ p.copy \in HookFiles /\ \A h \in Hooks : Sound(p.copy[h])
        /\ p.kind = "owner" => p.pc \in {"save", "fill"} /\ p.hook \in Hooks /\ p.good = {} /\ p.bad = {}
        /\ p.pc = "try" => p.hook \in Hooks /\ p.hook \notin p.todo
        /\ \A h \in Due(p) : /\ p.kind # "owner" => p.copy[h] # Nil
                             /\ p.kind = "emit" => p.copy[h].active
                             /\ h \notin p.good \cup p.bad
        /\ \A h \in p.good : p.copy[h] # Nil => p.copy[h].failures = 0
        /\ p.good \cap p.bad = {}

\* w is what an emit or a redelivery has made of v: what it was signed with, and the books.
SameSecrets(w, v) ==
    /\ w.secret = v.secret
    /\ w.prev # 0 => w.prev = v.prev /\ w.prevUntil = v.prevUntil
BooksOf(w, v, kind, good, bad) ==
    CASE good -> w.active = v.active /\ w.failures = 0
      [] bad /\ kind = "emit" -> /\ w.failures = v.failures + 1
                                 /\ w.active <=> v.active /\ w.failures < AutoDisable
      [] OTHER -> w.active = v.active /\ w.failures = v.failures
Delivers(p, f) ==
    \A h \in Hooks :
        /\ (p.copy[h] = Nil) = (f[h] = Nil)
        /\ f[h] # Nil => /\ SameSecrets(p.copy[h], f[h])
                         /\ BooksOf(p.copy[h], f[h], p.kind, h \in p.good, h \in p.bad)

\* w is what its owner's call makes of v.
Turned(w, v) == \/ w.active = v.active /\ w.failures = v.failures
                \/ w.active /\ w.failures = 0
                \/ ~w.active /\ w.failures = v.failures
Changes(w, v) ==
    /\ \/ w.secret = v.secret /\ w.prev = v.prev /\ w.prevUntil = v.prevUntil
       \/ w.secret = v.secret + 1 /\ w.prev = v.secret
    /\ Turned(w, v)
Owns(p, f, ends) ==
    /\ \A h \in Hooks \ {p.hook} : p.copy[h] = f[h]
    /\ LET w == p.copy[p.hook]  v == f[p.hook] IN
       IF v = Nil
       THEN /\ w = Hook(1, 0, 0, TRUE, 0)
            /\ \A g \in 1..MaxSecret : ends[<<p.hook, g>>] = Never + RotationGrace
       ELSE w # Nil => Changes(w, v)

\* The signatures of the delivery at hand, and the secrets of its copy.
Signs(p) ==
    LET w == p.copy[p.hook] IN
    /\ p.signed \subseteq {w.secret, w.prev} \ {0}
    /\ w.prev # 0 => p.began <= w.prevUntil

InStep(p, f, ends) ==
    /\ p.kind = "owner" => Owns(p, f, ends)
    /\ p.kind # "owner" => Delivers(p, f)
    /\ p.pc = "try" => Signs(p)

CourierType ==
    [pc : {"idle", "pick", "try", "save", "fill"}, kind : {"owner", "emit", "redeliver"},
     copy : HookFiles \cup {Nil}, hook : Hooks \cup {Nil}, todo : SUBSET Hooks,
     good : SUBSET Hooks, bad : SUBSET Hooks, attempt : 0..MaxAttempts,
     signed : SUBSET (1..MaxSecret), began : 0..MaxClock, stale : BOOLEAN]

HookTypes ==
    /\ clock \in 0..MaxClock
    /\ HookTypeOK
    /\ \A h \in Hooks : Sound(hooks[h])
    /\ \A c \in Couriers : Shape(courier[c])
\* An id that was not given out is in no copy, and none of its secrets has an end.
UnusedInv ==
    \A h \in hookIds :
        /\ hooks[h] = Nil
        /\ \A c \in Couriers : courier[c].pc # "idle" => courier[c].copy[h] = Nil
        /\ \A g \in 1..MaxSecret : secretEnds[<<h, g>>] = Never + RotationGrace
OnFile(w, v, n) ==
    /\ (w = Nil) = (v = Nil)
    /\ w # Nil => /\ w.secret = v.secret
                  /\ w.active # v.active => n >= AutoDisable
                  /\ w.failures <= n
Ends(h, w, ends) ==
    w # Nil => /\ \A g \in w.secret..MaxSecret : ends[<<h, g>>] = Never + RotationGrace
               /\ w.prev # 0 => w.prev < w.secret /\ w.prevUntil <= ends[<<h, w.prev>>]
KeptInv ==
    ~hooksLost =>
        /\ \A h \in Hooks : OnFile(hooks[h], word[h], row[h]) /\ Ends(h, hooks[h], secretEnds)
        /\ \A c \in Couriers : courier[c].pc # "idle" /\ ~courier[c].stale =>
              InStep(courier[c], hooks, secretEnds)
HooksInv == HookTypes /\ UnusedInv /\ KeptInv

-----------------------------------------------------------------------------
(* Records and copies *)

LEMMA HookConstants ==
    /\ RotationGrace \in Nat /\ AutoDisable \in Nat /\ AutoDisable > 0
    /\ MaxAttempts \in Nat /\ MaxAttempts > 0 /\ MaxSecret \in Nat /\ MaxSecret > 0
    /\ MaxClock \in Nat /\ Never = MaxClock + 1 /\ Nil \notin HookType
  BY WebhooksAssumption, ClockAssumption DEF Never

LEMMA HookFields ==
    ASSUME NEW w \in HookType
    PROVE  /\ w.secret \in Nat /\ w.secret \in 1..MaxSecret /\ w.prev \in Nat /\ w.prev \in 0..MaxSecret
           /\ w.prevUntil \in Nat /\ w.prevUntil <= Never + RotationGrace
           /\ w.active \in BOOLEAN /\ w.failures \in Nat /\ w.failures <= AutoDisable
  BY HookConstants DEF HookType

LEMMA HookIs ==
    ASSUME NEW secret, NEW prev, NEW prevUntil, NEW active, NEW failures
    PROVE  /\ Hook(secret, prev, prevUntil, active, failures).secret = secret
           /\ Hook(secret, prev, prevUntil, active, failures).prev = prev
           /\ Hook(secret, prev, prevUntil, active, failures).prevUntil = prevUntil
           /\ Hook(secret, prev, prevUntil, active, failures).active = active
           /\ Hook(secret, prev, prevUntil, active, failures).failures = failures
  BY DEF Hook

LEMMA HookTyped ==
    ASSUME NEW secret \in 1..MaxSecret, NEW prev \in 0..MaxSecret,
           NEW prevUntil \in 0..(Never + RotationGrace), NEW active \in BOOLEAN,
           NEW failures \in 0..AutoDisable
    PROVE  Hook(secret, prev, prevUntil, active, failures) \in HookType
  BY DEF Hook, HookType

LEMMA CourierIs ==
    ASSUME NEW pc, NEW kind, NEW copy, NEW hook, NEW todo, NEW good, NEW bad, NEW attempt,
           NEW signed, NEW began, NEW stale
    PROVE  /\ Courier(pc, kind, copy, hook, todo, good, bad, attempt, signed, began, stale).pc = pc
           /\ Courier(pc, kind, copy, hook, todo, good, bad, attempt, signed, began, stale).kind = kind
           /\ Courier(pc, kind, copy, hook, todo, good, bad, attempt, signed, began, stale).copy = copy
           /\ Courier(pc, kind, copy, hook, todo, good, bad, attempt, signed, began, stale).hook = hook
           /\ Courier(pc, kind, copy, hook, todo, good, bad, attempt, signed, began, stale).todo = todo
           /\ Courier(pc, kind, copy, hook, todo, good, bad, attempt, signed, began, stale).good = good
           /\ Courier(pc, kind, copy, hook, todo, good, bad, attempt, signed, began, stale).bad = bad
           /\ Courier(pc, kind, copy, hook, todo, good, bad, attempt, signed, began, stale).attempt = attempt
           /\ Courier(pc, kind, copy, hook, todo, good, bad, attempt, signed, began, stale).signed = signed
           /\ Courier(pc, kind, copy, hook, todo, good, bad, attempt, signed, began, stale).began = began
           /\ Courier(pc, kind, copy, hook, todo, good, bad, attempt, signed, began, stale).stale = stale
  BY DEF Courier

LEMMA CourierTyped ==
    ASSUME NEW pc \in {"idle", "pick", "try", "save", "fill"},
           NEW kind \in {"owner", "emit", "redeliver"}, NEW copy \in HookFiles \cup {Nil},
           NEW hook \in Hooks \cup {Nil}, NEW todo \in SUBSET Hooks, NEW good \in SUBSET Hooks,
           NEW bad \in SUBSET Hooks, NEW attempt \in 0..MaxAttempts,
           NEW signed \in SUBSET (1..MaxSecret), NEW began \in 0..MaxClock, NEW stale \in BOOLEAN
    PROVE  Courier(pc, kind, copy, hook, todo, good, bad, attempt, signed, began, stale) \in CourierType
  BY DEF Courier, CourierType

LEMMA CourierFields ==
    ASSUME NEW p \in CourierType
    PROVE  /\ p.pc \in {"idle", "pick", "try", "save", "fill"}
           /\ p.kind \in {"owner", "emit", "redeliver"} /\ p.copy \in HookFiles \cup {Nil}
           /\ p.hook \in Hooks \cup {Nil} /\ p.todo \in SUBSET Hooks /\ p.good \in SUBSET Hooks
           /\ p.bad \in SUBSET Hooks /\ p.attempt \in 0..MaxAttempts
           /\ p.signed \in SUBSET (1..MaxSecret) /\ p.began \in 0..MaxClock /\ p.stale \in BOOLEAN
  BY DEF CourierType

LEMMA NoCourierIs ==
    NoCourier \in CourierType /\ NoCourier.pc = "idle" /\ Shape(NoCourier)
  <1>1. NoCourier \in CourierType
    BY HookConstants DEF NoCourier, Courier, CourierType
  <1>2. NoCourier.pc = "idle"
    BY DEF NoCourier, Courier
  <1> QED
    BY <1>1, <1>2 DEF Shape

LEMMA FileTyped ==
    ASSUME NEW f \in HookFiles, NEW h \in Hooks, NEW w \in HookType \cup {Nil}
    PROVE  /\ [f EXCEPT ![h] = w] \in HookFiles /\ [f EXCEPT ![h] = w][h] = w
           /\ \A x \in Hooks \ {h} : [f EXCEPT ![h] = w][x] = f[x]
  BY DEF HookFiles

\* What the owner's calls, deliverOnce and the books make of a hook.
LEMMA RotateIs ==
    ASSUME clock \in 0..MaxClock, NEW w \in HookType, w.secret < MaxSecret
    PROVE  /\ Rotate(w) \in HookType
           /\ Rotate(w).secret = w.secret + 1 /\ Rotate(w).prev = w.secret
           /\ Rotate(w).active = w.active /\ Rotate(w).failures = w.failures
  <1>1. /\ w.secret + 1 \in 1..MaxSecret /\ w.secret \in 0..MaxSecret
        /\ clock + RotationGrace \in 0..(Never + RotationGrace)
        /\ w.active \in BOOLEAN /\ w.failures \in 0..AutoDisable
    BY HookFields, HookConstants
  <1> QED
    BY <1>1, HookTyped, HookIs DEF Rotate

LEMMA SwitchedIs ==
    ASSUME NEW w \in HookType, NEW active \in BOOLEAN
    PROVE  /\ Switched(w, active) \in HookType
           /\ Switched(w, active).secret = w.secret /\ Switched(w, active).prev = w.prev
           /\ Switched(w, active).prevUntil = w.prevUntil /\ Switched(w, active).active = active
           /\ active => Switched(w, active).failures = 0
           /\ ~active => Switched(w, active).failures = w.failures
  <1> DEFINE n == IF active THEN 0 ELSE w.failures
  <1>1. n \in 0..AutoDisable /\ (active => n = 0) /\ (~active => n = w.failures)
    BY HookFields, HookConstants
  <1>2. Switched(w, active) = [w EXCEPT !.active = active, !.failures = n]
    BY DEF Switched
  <1> HIDE DEF n
  <1>3. [w EXCEPT !.active = active, !.failures = n] \in HookType
    BY <1>1 DEF HookType
  <1>4. /\ [w EXCEPT !.active = active, !.failures = n].secret = w.secret
        /\ [w EXCEPT !.active = active, !.failures = n].prev = w.prev
        /\ [w EXCEPT !.active = active, !.failures = n].prevUntil = w.prevUntil
        /\ [w EXCEPT !.active = active, !.failures = n].active = active
        /\ [w EXCEPT !.active = active, !.failures = n].failures = n
    BY DEF HookType
  <1> QED
    BY <1>1, <1>2, <1>3, <1>4

LEMMA WithoutExpiredIs ==
    ASSUME clock \in 0..MaxClock, NEW w \in HookType
    PROVE  /\ WithoutExpired(w) \in HookType
           /\ WithoutExpired(w).secret = w.secret
           /\ WithoutExpired(w).active = w.active /\ WithoutExpired(w).failures = w.failures
           /\ WithoutExpired(w).prev # 0 =>
                 /\ WithoutExpired(w).prev = w.prev /\ WithoutExpired(w).prevUntil = w.prevUntil
                 /\ clock <= WithoutExpired(w).prevUntil
  <1>1. w.secret \in 1..MaxSecret /\ 0 \in 0..MaxSecret /\ 0 \in 0..(Never + RotationGrace)
        /\ w.active \in BOOLEAN /\ w.failures \in 0..AutoDisable /\ w.prevUntil \in Nat
    BY HookFields, HookConstants
  <1>2. CASE w.prev # 0 /\ w.prevUntil < clock
    BY <1>1, <1>2, HookTyped, HookIs DEF WithoutExpired
  <1>3. CASE ~(w.prev # 0 /\ w.prevUntil < clock)
    <2>1. WithoutExpired(w) = w
      BY <1>3 DEF WithoutExpired
    <2> QED
      BY <1>1, <1>3, <2>1
  <1> QED
    BY <1>2, <1>3

LEMMA BooksIs ==
    ASSUME NEW w \in HookType, NEW kind \in {"emit", "redeliver"}, NEW ok \in BOOLEAN,
           kind = "emit" => w.failures < AutoDisable
    PROVE  /\ Books(w, kind, ok) \in HookType
           /\ Books(w, kind, ok).secret = w.secret /\ Books(w, kind, ok).prev = w.prev
           /\ Books(w, kind, ok).prevUntil = w.prevUntil
           /\ ok => Books(w, kind, ok).active = w.active /\ Books(w, kind, ok).failures = 0
           /\ ~ok /\ kind = "redeliver" => Books(w, kind, ok) = w
           /\ ~ok /\ kind = "emit" =>
                 /\ Books(w, kind, ok).failures = w.failures + 1
                 /\ Books(w, kind, ok).active <=> w.active /\ w.failures + 1 < AutoDisable
  <1>1. CASE ok
    BY <1>1, HookConstants DEF Books, HookType
  <1>2. CASE ~ok /\ kind = "redeliver"
    BY <1>2 DEF Books
  <1>3. CASE ~ok /\ kind = "emit"
    <2> DEFINE a == w.active /\ w.failures + 1 < AutoDisable
    <2>1. Books(w, kind, ok) = [w EXCEPT !.failures = w.failures + 1, !.active = a]
      BY <1>3 DEF Books
    <2>2. a \in BOOLEAN
      OBVIOUS
    <2>3. w.failures + 1 \in 0..AutoDisable
      BY <1>3, HookFields, HookConstants
    <2>4. a <=> w.active /\ w.failures + 1 < AutoDisable
      OBVIOUS
    <2> HIDE DEF a
    <2> DEFINE n == w.failures + 1
    <2>5. n \in 0..AutoDisable /\ n = w.failures + 1
      BY <2>3
    <2> HIDE DEF n
    <2>6. Books(w, kind, ok) = [w EXCEPT !.failures = n, !.active = a]
      BY <2>1, <2>5
    <2>7. [w EXCEPT !.failures = n, !.active = a] \in HookType
      BY <2>2, <2>5 DEF HookType
    <2>8. /\ [w EXCEPT !.failures = n, !.active = a].failures = n
          /\ [w EXCEPT !.failures = n, !.active = a].active = a
          /\ [w EXCEPT !.failures = n, !.active = a].secret = w.secret
          /\ [w EXCEPT !.failures = n, !.active = a].prev = w.prev
          /\ [w EXCEPT !.failures = n, !.active = a].prevUntil = w.prevUntil
      BY DEF HookType
    <2> QED
      BY <1>3, <2>4, <2>5, <2>6, <2>7, <2>8
  <1> QED
    BY <1>1, <1>2, <1>3

-----------------------------------------------------------------------------
(* A call goes on to p; the file stays as it is.                           *)

HookKept == UNCHANGED <<clock, hooks, hookFile, hookHistory>> /\ logged' \subseteq Hooks

Fits(p) ==
    /\ p \in CourierType /\ Shape(p)
    /\ ~hooksLost /\ p.pc # "idle" /\ ~p.stale => InStep(p, hooks, secretEnds)

LEMMA HookCallGoesOn ==
    ASSUME HooksInv, HookKept, NEW c \in Couriers, NEW p, Fits(p),
           courier' = [courier EXCEPT ![c] = p],
           hookIds' \subseteq hookIds,
           \A h \in hookIds' : p.pc # "idle" => p.copy[h] = Nil
    PROVE  HooksInv'
  <1>1. courier \in [Couriers -> CourierType]
    BY DEF HooksInv, HookTypes, HookTypeOK, CourierType
  <1>2. courier'[c] = p /\ \A d \in Couriers \ {c} : courier'[d] = courier[d]
    BY <1>1
  <1>3. UNCHANGED <<clock, hooks, hookFile, word, row, secretEnds, hooksLost>>
    BY DEF HookKept, hookHistory
  <1>4. courier' \in [Couriers -> CourierType]
    BY <1>1 DEF Fits
  <1>5. HookTypes'
    <2>1. HookTypeOK'
      BY <1>3, <1>4 DEF HooksInv, HookTypes, HookTypeOK, HookKept, CourierType
    <2>2. \A d \in Couriers : Shape(courier'[d])
      BY <1>2 DEF HooksInv, HookTypes, Fits
    <2> QED
      BY <1>3, <2>1, <2>2 DEF HooksInv, HookTypes
  <1>6. UnusedInv'
    <2> SUFFICES ASSUME NEW h \in hookIds'
                 PROVE  /\ hooks'[h] = Nil
                        /\ \A d \in Couriers : courier'[d].pc # "idle" => courier'[d].copy[h] = Nil
                        /\ \A g \in 1..MaxSecret : secretEnds'[<<h, g>>] = Never + RotationGrace
      BY DEF UnusedInv
    <2> QED
      BY <1>2, <1>3 DEF HooksInv, UnusedInv
  <1>7. KeptInv'
    <2> SUFFICES ASSUME ~hooksLost'
                 PROVE  /\ \A h \in Hooks : OnFile(hooks'[h], word'[h], row'[h])
                                            /\ Ends(h, hooks'[h], secretEnds')
                        /\ \A d \in Couriers : courier'[d].pc # "idle" /\ ~courier'[d].stale =>
                              InStep(courier'[d], hooks', secretEnds')
      BY DEF KeptInv
    <2> QED
      BY <1>2, <1>3 DEF HooksInv, KeptInv, Fits
  <1> QED
    BY <1>5, <1>6, <1>7 DEF HooksInv

-----------------------------------------------------------------------------
(* The owner's calls *)

LEMMA CallIsTyped ==
    ASSUME HooksInv
    PROVE  /\ clock \in 0..MaxClock /\ hooks \in HookFiles /\ logged \subseteq Hooks /\ hookIds \subseteq Hooks
           /\ courier \in [Couriers -> CourierType]
           /\ \A h \in Hooks : hooks[h] \in HookType \cup {Nil} /\ Sound(hooks[h])
  BY DEF HooksInv, HookTypes, HookTypeOK, CourierType, HookFiles

LEMMA OwnerSavesHolds ==
    ASSUME HooksInv, HookKept, NEW c \in Couriers, NEW h \in Hooks, NEW w \in HookType \cup {Nil},
           OwnerSaves(c, [hooks EXCEPT ![h] = w], h), Sound(w),
           hookIds' \subseteq hookIds, h \notin hookIds',
           ~hooksLost => IF hooks[h] = Nil
                         THEN /\ w = Hook(1, 0, 0, TRUE, 0)
                              /\ \A g \in 1..MaxSecret : secretEnds[<<h, g>>] = Never + RotationGrace
                         ELSE w # Nil => Changes(w, hooks[h])
    PROVE  HooksInv'
  <1> DEFINE copy == [hooks EXCEPT ![h] = w]
             p == Courier("save", "owner", copy, h, {}, {}, {}, 0, {}, 0, FALSE)
  <1>1. copy \in HookFiles /\ copy[h] = w /\ \A x \in Hooks \ {h} : copy[x] = hooks[x]
    BY CallIsTyped, FileTyped
  <1>2. courier' = [courier EXCEPT ![c] = p]
    BY DEF OwnerSaves, HMove
  <1> HIDE DEF copy
  <1>3. p \in CourierType
    BY <1>1, HookConstants DEF Courier, CourierType
  <1>4. /\ p.pc = "save" /\ p.kind = "owner" /\ p.copy = copy /\ p.hook = h /\ p.todo = {}
        /\ p.good = {} /\ p.bad = {} /\ p.stale = FALSE
    BY DEF Courier
  <1> HIDE DEF p
  <1>5. Shape(p)
    BY <1>1, <1>4, CallIsTyped DEF Shape, Due
  <1>6. ~hooksLost => InStep(p, hooks, secretEnds)
    BY <1>1, <1>4 DEF InStep, Owns
  <1>7. \A x \in hookIds' : p.copy[x] = Nil
    BY <1>1, <1>4, CallIsTyped DEF HooksInv, UnusedInv
  <1>8. Fits(p)
    BY <1>3, <1>5, <1>6 DEF Fits
  <1> QED
    BY <1>2, <1>7, <1>8, HookCallGoesOn

LEMMA HandsOnKeeps ==
    ASSUME HooksInv, HandsOn PROVE HookKept /\ hookIds' = hookIds
  BY CallIsTyped DEF HandsOn, HookKept, hookHistory

LEMMA CreateHookHolds ==
    ASSUME HooksInv, NEW c \in Couriers, NEW h \in Hooks, CreateHook(c, h) PROVE HooksInv'
  <1> DEFINE w == Hook(1, 0, 0, TRUE, 0)
  <1>1. w \in HookType
    BY HookConstants DEF Hook, HookType
  <1>2. Sound(w)
    BY HookConstants DEF Sound, Hook
  <1>3. OwnerSaves(c, [hooks EXCEPT ![h] = w], h) /\ hookIds' = hookIds \ {h} /\ h \in hookIds
    BY DEF CreateHook
  <1>4. HookKept
    BY CallIsTyped DEF CreateHook, HookKept, hookHistory
  <1>5. hooks[h] = Nil /\ \A g \in 1..MaxSecret : secretEnds[<<h, g>>] = Never + RotationGrace
    BY <1>3 DEF HooksInv, UnusedInv
  <1> HIDE DEF w
  <1>6. w = Hook(1, 0, 0, TRUE, 0)
    BY DEF w
  <1> QED
    BY <1>1, <1>2, <1>3, <1>4, <1>5, <1>6, OwnerSavesHolds

LEMMA NotUnused ==
    ASSUME HooksInv, NEW h \in Hooks, hooks[h] # Nil
    PROVE  h \notin hookIds /\ hooks[h] \in HookType
  BY CallIsTyped DEF HooksInv, UnusedInv

LEMMA SwitchHookHolds ==
    ASSUME HooksInv, NEW c \in Couriers, NEW h \in Hooks, NEW active \in BOOLEAN,
           SwitchHook(c, h, active)
    PROVE  HooksInv'
  <1>1. hooks[h] # Nil /\ HandsOn /\ OwnerSaves(c, [hooks EXCEPT ![h] = Switched(hooks[h], active)], h)
    BY CallIsTyped DEF SwitchHook, HookFiles
  <1>2. hooks[h] \in HookType /\ h \notin hookIds
    BY <1>1, NotUnused
  <1> DEFINE w == Switched(hooks[h], active)
  <1>3. /\ w \in HookType /\ w.secret = hooks[h].secret /\ w.prev = hooks[h].prev
        /\ w.prevUntil = hooks[h].prevUntil /\ w.active = active
        /\ active => w.failures = 0
        /\ ~active => w.failures = hooks[h].failures
    BY <1>2, SwitchedIs
  <1> HIDE DEF w
  <1>4. OwnerSaves(c, [hooks EXCEPT ![h] = w], h)
    BY <1>1 DEF w
  <1>5. Sound(w)
    BY <1>3, HookConstants DEF Sound
  <1>6. Turned(w, hooks[h])
    BY <1>3 DEF Turned
  <1>7. Changes(w, hooks[h])
    BY <1>3, <1>6 DEF Changes
  <1> QED
    BY <1>1, <1>2, <1>3, <1>4, <1>5, <1>7, HandsOnKeeps, OwnerSavesHolds

LEMMA RotateSecretHolds ==
    ASSUME HooksInv, NEW c \in Couriers, NEW h \in Hooks, RotateSecret(c, h) PROVE HooksInv'
  <1>1. /\ hooks[h] # Nil /\ hooks[h].secret < MaxSecret /\ HandsOn
        /\ OwnerSaves(c, [hooks EXCEPT ![h] = Rotate(hooks[h])], h)
    BY CallIsTyped DEF RotateSecret, HookFiles
  <1>2. hooks[h] \in HookType /\ h \notin hookIds
    BY <1>1, NotUnused
  <1> DEFINE w == Rotate(hooks[h])
  <1>3. /\ w \in HookType /\ w.secret = hooks[h].secret + 1 /\ w.prev = hooks[h].secret
        /\ w.active = hooks[h].active /\ w.failures = hooks[h].failures
    BY <1>1, <1>2, RotateIs, CallIsTyped
  <1> HIDE DEF w
  <1>4. OwnerSaves(c, [hooks EXCEPT ![h] = w], h)
    BY <1>1 DEF w
  <1>5. Sound(w)
    BY <1>1, <1>3, CallIsTyped DEF Sound
  <1>6. Turned(w, hooks[h])
    BY <1>3 DEF Turned
  <1>7. Changes(w, hooks[h])
    BY <1>3, <1>6 DEF Changes
  <1> QED
    BY <1>1, <1>2, <1>3, <1>4, <1>5, <1>7, HandsOnKeeps, OwnerSavesHolds

LEMMA DeleteHookHolds ==
    ASSUME HooksInv, NEW c \in Couriers, NEW h \in Hooks, DeleteHook(c, h) PROVE HooksInv'
  <1>1. hooks[h] # Nil /\ HandsOn /\ OwnerSaves(c, [hooks EXCEPT ![h] = Nil], h)
    BY DEF DeleteHook
  <1>2. h \notin hookIds
    BY <1>1, NotUnused
  <1>3. Sound(Nil)
    BY DEF Sound
  <1> QED
    BY <1>1, <1>2, <1>3, HandsOnKeeps, OwnerSavesHolds

-----------------------------------------------------------------------------
(* Deliveries *)

LEMMA StartsDelivering ==
    ASSUME HooksInv, HookKept, NEW c \in Couriers, NEW kind \in {"emit", "redeliver"},
           NEW todo \in SUBSET Hooks, hookIds' = hookIds,
           HMove(c, Courier("pick", kind, hooks, Nil, todo, {}, {}, 0, {}, 0, FALSE)),
           \A h \in todo : hooks[h] # Nil /\ (kind = "emit" => hooks[h].active)
    PROVE  HooksInv'
  <1> DEFINE p == Courier("pick", kind, hooks, Nil, todo, {}, {}, 0, {}, 0, FALSE)
  <1>1. courier' = [courier EXCEPT ![c] = p]
    BY DEF HMove
  <1>2. p \in CourierType
    BY CallIsTyped, HookConstants DEF Courier, CourierType
  <1>3. /\ p.pc = "pick" /\ p.kind = kind /\ p.copy = hooks /\ p.hook = Nil /\ p.todo = todo
        /\ p.good = {} /\ p.bad = {} /\ p.stale = FALSE
    BY DEF Courier
  <1> HIDE DEF p
  <1>4. Shape(p)
    BY <1>3, CallIsTyped DEF Shape, Due
  <1>5. Delivers(p, hooks)
    BY <1>3 DEF Delivers, SameSecrets, BooksOf
  <1>6. InStep(p, hooks, secretEnds)
    BY <1>3, <1>5 DEF InStep
  <1>7. Fits(p)
    BY <1>2, <1>4, <1>6 DEF Fits
  <1>8. \A h \in hookIds' : p.copy[h] = Nil
    BY <1>3 DEF HooksInv, UnusedInv
  <1> QED
    BY <1>1, <1>7, <1>8, HookCallGoesOn

LEMMA EmitHolds ==
    ASSUME HooksInv, NEW c \in Couriers, NEW targets \in SUBSET Hooks, Emit(c, targets) PROVE HooksInv'
  BY StartsDelivering, HandsOnKeeps DEF Emit

LEMMA RedeliverHolds ==
    ASSUME HooksInv, NEW c \in Couriers, NEW h \in Hooks, Redeliver(c, h) PROVE HooksInv'
  <1>1. hooks[h] # Nil /\ HandsOn
        /\ HMove(c, Courier("pick", "redeliver", hooks, Nil, {h}, {}, {}, 0, {}, 0, FALSE))
    BY DEF Redeliver
  <1>2. \A x \in {h} : hooks[x] # Nil
    BY <1>1
  <1>3. {h} \in SUBSET Hooks
    OBVIOUS
  <1> QED
    BY <1>1, <1>2, <1>3, StartsDelivering, HandsOnKeeps

\* What a call knows of itself.
LEMMA HookCall ==
    ASSUME HooksInv, NEW c \in Couriers
    PROVE  /\ courier[c] \in CourierType /\ Shape(courier[c])
           /\ ~hooksLost /\ courier[c].pc # "idle" /\ ~courier[c].stale =>
                 InStep(courier[c], hooks, secretEnds)
           /\ \A h \in hookIds : courier[c].pc # "idle" => courier[c].copy[h] = Nil
  BY CallIsTyped DEF HooksInv, HookTypes, UnusedInv, KeptInv

LEMMA BeginHolds ==
    ASSUME HooksInv, NEW c \in Couriers, NEW h \in Hooks, Begin(c, h) PROVE HooksInv'
  <1> DEFINE me == courier[c]
             w == WithoutExpired(me.copy[h])
             copy == [me.copy EXCEPT ![h] = w]
             signed == {w.secret, w.prev} \ {0}
             todo == me.todo \ {h}
             p == Courier("try", me.kind, copy, h, todo, me.good, me.bad, 1, signed, clock, me.stale)
  <1>1. me.pc = "pick" /\ h \in me.todo /\ courier' = [courier EXCEPT ![c] = p] /\ HandsOn
    BY DEF Begin, HAt, HMove
  <1>2. me \in CourierType /\ Shape(me) /\ clock \in 0..MaxClock
    BY HookCall, CallIsTyped
  <1>3. /\ me.kind \in {"emit", "redeliver"} /\ me.copy \in HookFiles
        /\ me.copy[h] \in HookType /\ me.copy[h] # Nil /\ (me.kind = "emit" => me.copy[h].active)
        /\ h \notin me.good \cup me.bad /\ Sound(me.copy[h]) /\ me.good \cap me.bad = {}
        /\ me.todo \subseteq Hooks /\ me.good \subseteq Hooks /\ me.bad \subseteq Hooks
        /\ \A x \in me.good : me.copy[x] # Nil => me.copy[x].failures = 0
    <2>1. me.kind \in {"emit", "redeliver"} /\ me.copy \in HookFiles
      BY <1>1, <1>2, CourierFields DEF Shape
    <2>2. h \in Due(me)
      BY <1>1 DEF Due
    <2> QED
      BY <1>1, <1>2, <2>1, <2>2, CourierFields DEF Shape, HookFiles
  <1>4. /\ w \in HookType /\ w.secret = me.copy[h].secret
        /\ w.active = me.copy[h].active /\ w.failures = me.copy[h].failures
        /\ w.prev # 0 => /\ w.prev = me.copy[h].prev /\ w.prevUntil = me.copy[h].prevUntil
                         /\ clock <= w.prevUntil
    BY <1>2, <1>3, WithoutExpiredIs
  <1>5. w.secret \in 1..MaxSecret /\ w.prev \in 0..MaxSecret
    BY <1>4, HookFields
  <1> HIDE DEF w, me
  <1>6. copy \in HookFiles /\ copy[h] = w /\ \A x \in Hooks \ {h} : copy[x] = me.copy[x]
    BY <1>3, <1>4, FileTyped
  <1>7. signed \subseteq 1..MaxSecret
    BY <1>5, HookConstants
  <1>8. todo \subseteq Hooks /\ h \notin todo /\ todo \subseteq me.todo
    BY <1>3
  <1> HIDE DEF copy, signed, todo
  <1>9. p \in CourierType
    BY <1>2, <1>3, <1>6, <1>7, <1>8, HookConstants, CourierFields DEF Courier, CourierType
  <1>10. /\ p.pc = "try" /\ p.kind = me.kind /\ p.copy = copy /\ p.hook = h /\ p.todo = todo
         /\ p.good = me.good /\ p.bad = me.bad /\ p.signed = signed /\ p.began = clock
         /\ p.stale = me.stale
    BY DEF Courier
  <1> HIDE DEF p
  <1>11. Shape(p)
    <2>1. \A x \in Hooks : Sound(p.copy[x])
      BY <1>1, <1>2, <1>3, <1>4, <1>6, <1>10 DEF Shape, Sound
    <2>2. \A x \in Due(p) : x = h \/ (x \in Due(me) /\ x \in Hooks \ {h})
      BY <1>8, <1>10 DEF Due
    <2>3. \A x \in Due(p) : /\ p.copy[x] # Nil
                            /\ p.kind = "emit" => p.copy[x].active
                            /\ x \notin p.good \cup p.bad
      <3> SUFFICES ASSUME NEW x \in Due(p)
                   PROVE  /\ p.copy[x] # Nil /\ (p.kind = "emit" => p.copy[x].active)
                          /\ x \notin p.good \cup p.bad
        OBVIOUS
      <3>1. CASE x = h
        BY <3>1, <1>3, <1>4, <1>6, <1>10, HookConstants
      <3>2. CASE x \in Due(me) /\ x \in Hooks \ {h}
        BY <3>2, <1>1, <1>2, <1>3, <1>6, <1>10 DEF Shape
      <3> QED
        BY <2>2, <3>1, <3>2
    <2>4. \A x \in p.good : p.copy[x] # Nil => p.copy[x].failures = 0
      BY <1>3, <1>6, <1>10
    <2> QED
      BY <1>3, <1>6, <1>8, <1>10, <2>1, <2>3, <2>4 DEF Shape
  <1>12. ~hooksLost /\ ~p.stale => InStep(p, hooks, secretEnds)
    <2> SUFFICES ASSUME ~hooksLost, ~p.stale PROVE InStep(p, hooks, secretEnds)
      OBVIOUS
    <2>1. Delivers(me, hooks)
      BY <1>1, <1>3, <1>10, HookCall DEF InStep, me
    <2>2. Delivers(p, hooks)
      <3> SUFFICES ASSUME NEW x \in Hooks
                   PROVE  /\ (p.copy[x] = Nil) = (hooks[x] = Nil)
                          /\ hooks[x] # Nil =>
                                /\ SameSecrets(p.copy[x], hooks[x])
                                /\ BooksOf(p.copy[x], hooks[x], p.kind, x \in p.good, x \in p.bad)
        BY DEF Delivers
      <3>1. CASE x # h
        <4>1. p.copy[x] = me.copy[x]
          BY <3>1, <1>6, <1>10
        <4> QED
          BY <4>1, <2>1, <1>10 DEF Delivers
      <3>2. CASE x = h
        <4>1. hooks[h] # Nil /\ SameSecrets(me.copy[h], hooks[h])
              /\ BooksOf(me.copy[h], hooks[h], me.kind, h \in me.good, h \in me.bad)
          BY <2>1, <1>3 DEF Delivers
        <4>2. SameSecrets(w, hooks[h])
          BY <4>1, <1>4 DEF SameSecrets
        <4>3. BooksOf(w, hooks[h], me.kind, h \in me.good, h \in me.bad)
          BY <4>1, <1>3, <1>4 DEF BooksOf
        <4> QED
          BY <3>2, <4>1, <4>2, <4>3, <1>4, <1>6, <1>10, HookConstants
      <3> QED
        BY <3>1, <3>2
    <2>3. Signs(p)
      BY <1>4, <1>6, <1>10 DEF Signs, signed
    <2> QED
      BY <1>3, <1>10, <2>2, <2>3 DEF InStep
  <1>13. Fits(p)
    BY <1>9, <1>11, <1>12 DEF Fits
  <1>14. \A x \in hookIds' : p.copy[x] = Nil
    BY <1>1, <1>3, <1>6, <1>10, HandsOnKeeps, HookCall, CallIsTyped DEF me
  <1> QED
    BY <1>1, <1>13, <1>14, HandsOnKeeps, HookCallGoesOn

\* The books of the delivery at hand; Blocked, Respond and Fail end with this.
LEMMA SettleHolds ==
    ASSUME HooksInv, HookKept, NEW c \in Couriers, NEW ok \in BOOLEAN,
           courier[c].pc = "try", Settle(c, ok), hookIds' = hookIds
    PROVE  HooksInv'
  <1> DEFINE me == courier[c]
             h == me.hook
             w == Books(me.copy[h], me.kind, ok)
             copy == [me.copy EXCEPT ![h] = w]
             pc == IF me.todo = {} THEN "save" ELSE "pick"
             good == IF ok THEN me.good \cup {h} ELSE me.good
             bad == IF ok THEN me.bad ELSE me.bad \cup {h}
             p == Courier(pc, me.kind, copy, Nil, me.todo, good, bad, 0, {}, 0, me.stale)
  <1>1. me \in CourierType /\ Shape(me)
    BY HookCall
  <1>2. /\ me.kind \in {"emit", "redeliver"} /\ me.copy \in HookFiles /\ h \in Hooks /\ h \notin me.todo
        /\ me.copy[h] \in HookType /\ me.copy[h] # Nil /\ (me.kind = "emit" => me.copy[h].active)
        /\ h \notin me.good \cup me.bad /\ Sound(me.copy[h]) /\ me.good \cap me.bad = {}
        /\ me.todo \subseteq Hooks /\ me.good \subseteq Hooks /\ me.bad \subseteq Hooks
        /\ \A x \in me.good : me.copy[x] # Nil => me.copy[x].failures = 0
    <2>1. me.kind \in {"emit", "redeliver"} /\ me.copy \in HookFiles /\ h \in Hooks
      BY <1>1, CourierFields DEF Shape
    <2>2. h \in Due(me)
      BY DEF Due
    <2> QED
      BY <1>1, <2>1, <2>2, CourierFields DEF Shape, HookFiles
  <1>3. courier' = [courier EXCEPT ![c] = p]
    <2>1. [me.copy EXCEPT ![h] = Books(@, me.kind, ok)] = copy
      BY <1>2 DEF HookFiles
    <2> QED
      BY <2>1 DEF Settle, HMove
  <1>4. me.kind = "emit" => me.copy[h].failures < AutoDisable
    BY <1>2 DEF Sound
  <1>5. /\ w \in HookType /\ w.secret = me.copy[h].secret /\ w.prev = me.copy[h].prev
        /\ w.prevUntil = me.copy[h].prevUntil
        /\ ok => w.active = me.copy[h].active /\ w.failures = 0
        /\ ~ok /\ me.kind = "redeliver" => w = me.copy[h]
        /\ ~ok /\ me.kind = "emit" =>
              /\ w.failures = me.copy[h].failures + 1
              /\ w.active <=> me.copy[h].active /\ me.copy[h].failures + 1 < AutoDisable
    BY <1>2, <1>4, BooksIs
  <1>6. Sound(w)
    <2>1. CASE ok
      BY <2>1, <1>5, HookConstants DEF Sound
    <2>2. CASE ~ok /\ me.kind = "redeliver"
      BY <2>2, <1>2, <1>5
    <2>3. CASE ~ok /\ me.kind = "emit"
      BY <2>3, <1>5 DEF Sound
    <2> QED
      BY <1>2, <2>1, <2>2, <2>3
  <1>7. /\ good \subseteq Hooks /\ bad \subseteq Hooks /\ good \cap bad = {}
        /\ h \in good <=> ok
        /\ h \in bad <=> ~ok
        /\ \A x \in Hooks \ {h} : (x \in good <=> x \in me.good) /\ (x \in bad <=> x \in me.bad)
    BY <1>2
  <1>8. pc \in {"save", "pick"}
    OBVIOUS
  <1> HIDE DEF w, me, h, good, bad, pc
  <1>9. copy \in HookFiles /\ copy[h] = w /\ \A x \in Hooks \ {h} : copy[x] = me.copy[x]
    BY <1>2, <1>5, FileTyped
  <1> HIDE DEF copy
  <1>10. p \in CourierType
    BY <1>1, <1>2, <1>7, <1>8, <1>9, HookConstants, CourierFields DEF Courier, CourierType
  <1>11. /\ p.pc = pc /\ p.kind = me.kind /\ p.copy = copy /\ p.todo = me.todo
         /\ p.good = good /\ p.bad = bad /\ p.stale = me.stale
    BY DEF Courier
  <1> HIDE DEF p
  <1>12. Shape(p)
    <2>1. \A x \in Hooks : Sound(p.copy[x])
      BY <1>1, <1>2, <1>6, <1>9, <1>11 DEF Shape, me, h
    <2>2. \A x \in Due(p) : x \in Due(me) /\ x \in Hooks \ {h}
      BY <1>2, <1>8, <1>11 DEF Due
    <2>3. \A x \in Due(p) : /\ p.copy[x] # Nil
                            /\ p.kind = "emit" => p.copy[x].active
                            /\ x \notin p.good \cup p.bad
      BY <2>2, <1>1, <1>2, <1>7, <1>9, <1>11 DEF Shape, me
    <2>4. \A x \in p.good : p.copy[x] # Nil => p.copy[x].failures = 0
      <3> SUFFICES ASSUME NEW x \in p.good, p.copy[x] # Nil PROVE p.copy[x].failures = 0
        OBVIOUS
      <3>1. x \in Hooks
        BY <1>7, <1>11
      <3>2. CASE x = h
        BY <3>2, <1>5, <1>7, <1>9, <1>11
      <3>3. CASE x # h
        BY <3>1, <3>3, <1>2, <1>7, <1>9, <1>11
      <3> QED
        BY <3>2, <3>3
    <2> QED
      BY <1>2, <1>7, <1>8, <1>9, <1>11, <2>1, <2>3, <2>4 DEF Shape
  <1>13. ~hooksLost /\ ~p.stale => InStep(p, hooks, secretEnds)
    <2> SUFFICES ASSUME ~hooksLost, ~p.stale PROVE InStep(p, hooks, secretEnds)
      OBVIOUS
    <2>1. Delivers(me, hooks)
      BY <1>2, <1>11, HookCall DEF InStep, me
    <2>2. Delivers(p, hooks)
      <3> SUFFICES ASSUME NEW x \in Hooks
                   PROVE  /\ (p.copy[x] = Nil) = (hooks[x] = Nil)
                          /\ hooks[x] # Nil =>
                                /\ SameSecrets(p.copy[x], hooks[x])
                                /\ BooksOf(p.copy[x], hooks[x], p.kind, x \in p.good, x \in p.bad)
        BY DEF Delivers
      <3>1. CASE x # h
        <4>1. p.copy[x] = me.copy[x] /\ p.kind = me.kind
              /\ (x \in p.good <=> x \in me.good) /\ (x \in p.bad <=> x \in me.bad)
          BY <3>1, <1>7, <1>9, <1>11
        <4>2. hooks[x] # Nil => BooksOf(me.copy[x], hooks[x], me.kind, x \in me.good, x \in me.bad)
          BY <2>1 DEF Delivers
        <4>3. hooks[x] # Nil => BooksOf(p.copy[x], hooks[x], p.kind, x \in p.good, x \in p.bad)
          BY <4>1, <4>2 DEF BooksOf
        <4> QED
          BY <4>1, <4>3, <2>1 DEF Delivers
      <3>2. CASE x = h
        <4>1. hooks[h] # Nil /\ SameSecrets(me.copy[h], hooks[h])
              /\ BooksOf(me.copy[h], hooks[h], me.kind, h \in me.good, h \in me.bad)
          BY <2>1, <1>2 DEF Delivers
        <4>2. SameSecrets(w, hooks[h])
          BY <4>1, <1>5 DEF SameSecrets
        <4>3. me.copy[h].active = hooks[h].active /\ me.copy[h].failures = hooks[h].failures
          BY <4>1, <1>2 DEF BooksOf
        <4>4. BooksOf(w, hooks[h], me.kind, h \in good, h \in bad)
          <5>1. CASE ok
            BY <5>1, <4>3, <1>5, <1>7 DEF BooksOf
          <5>2. CASE ~ok /\ me.kind = "redeliver"
            BY <5>2, <4>3, <1>5, <1>7 DEF BooksOf
          <5>3. CASE ~ok /\ me.kind = "emit"
            BY <5>3, <4>3, <1>5, <1>7 DEF BooksOf
          <5> QED
            BY <1>2, <5>1, <5>2, <5>3
        <4>5. p.copy[x] = w /\ p.kind = me.kind /\ p.good = good /\ p.bad = bad
          BY <3>2, <1>9, <1>11
        <4> QED
          BY <3>2, <4>1, <4>2, <4>4, <4>5, <1>5, HookConstants
      <3> QED
        BY <3>1, <3>2
    <2> QED
      BY <1>2, <1>8, <1>11, <2>2 DEF InStep
  <1>14. Fits(p)
    BY <1>10, <1>12, <1>13 DEF Fits
  <1>15. \A x \in hookIds' : p.copy[x] = Nil
    <2>1. \A x \in hookIds : me.copy[x] = Nil /\ x \in Hooks
      BY HookCall, CallIsTyped DEF me
    <2> QED
      BY <2>1, <1>2, <1>9, <1>11
  <1> QED
    BY <1>3, <1>14, <1>15, HookCallGoesOn

\* p is m but for its place and for being stale.
SameCall(p, m) ==
    /\ p.kind = m.kind /\ p.copy = m.copy /\ p.hook = m.hook /\ p.todo = m.todo /\ p.good = m.good
    /\ p.bad = m.bad /\ p.signed = m.signed /\ p.began = m.began

LEMMA SameCallInStep ==
    ASSUME NEW p, NEW m, NEW f, NEW ends, SameCall(p, m), p.pc = "try" => m.pc = "try",
           InStep(m, f, ends)
    PROVE  InStep(p, f, ends)
  <1>1. Owns(m, f, ends) => Owns(p, f, ends)
    BY DEF SameCall, Owns
  <1>2. Delivers(m, f) => Delivers(p, f)
    BY DEF SameCall, Delivers
  <1>3. Signs(m) => Signs(p)
    BY DEF SameCall, Signs
  <1>4. p.kind = m.kind
    BY DEF SameCall
  <1> QED
    BY <1>1, <1>2, <1>3, <1>4 DEF InStep

LEMMA DeliveryHolds ==
    ASSUME HooksInv, NEW c \in Couriers,
           Blocked(c) \/ Fail(c) \/ \E ok \in BOOLEAN : Respond(c, ok)
    PROVE  HooksInv'
  <1>1. courier[c].pc = "try"
    BY DEF Blocked, Fail, Respond, HAt
  <1>2. courier[c] \in CourierType /\ Shape(courier[c]) /\ courier[c].hook \in Hooks
    BY <1>1, HookCall DEF Shape
  <1>3. HookKept /\ hookIds' = hookIds
    BY <1>2, CallIsTyped, HandsOnKeeps DEF Blocked, Fail, Respond, HookKept, hookHistory
  <1>4. CASE \E ok \in BOOLEAN : Settle(c, ok)
    BY <1>1, <1>3, <1>4, SettleHolds
  <1>5. CASE courier[c].attempt < MaxAttempts /\ courier' = [courier EXCEPT ![c].attempt = @ + 1]
    <2> DEFINE n == courier[c].attempt + 1
               p == [courier[c] EXCEPT !.attempt = n]
    <2>1. n \in 0..MaxAttempts
      BY <1>2, <1>5, HookConstants, CourierFields
    <2>2. courier' = [courier EXCEPT ![c] = p]
      BY <1>5, CallIsTyped
    <2> HIDE DEF n
    <2>3. p \in CourierType
      BY <1>2, <2>1 DEF CourierType
    <2>4. /\ p.pc = courier[c].pc /\ p.kind = courier[c].kind /\ p.copy = courier[c].copy
          /\ p.hook = courier[c].hook /\ p.todo = courier[c].todo /\ p.good = courier[c].good
          /\ p.bad = courier[c].bad /\ p.signed = courier[c].signed /\ p.began = courier[c].began
          /\ p.stale = courier[c].stale
      BY <1>2 DEF CourierType
    <2> HIDE DEF p
    <2>5. Due(p) = Due(courier[c])
      BY <2>4 DEF Due
    <2>6. Shape(p)
      BY <1>2, <2>4, <2>5 DEF Shape
    <2>7. SameCall(p, courier[c])
      BY <2>4 DEF SameCall
    <2>8. ~hooksLost /\ ~p.stale => InStep(p, hooks, secretEnds)
      BY <1>1, <2>4, <2>7, HookCall, SameCallInStep
    <2>9. Fits(p)
      BY <2>3, <2>6, <2>8 DEF Fits
    <2>10. \A h \in hookIds' : p.copy[h] = Nil
      BY <1>1, <1>3, <2>4, HookCall
    <2> QED
      BY <1>3, <2>2, <2>9, <2>10, HookCallGoesOn
  <1> QED
    BY <1>4, <1>5 DEF Blocked, Fail, Respond

-----------------------------------------------------------------------------
(* Saving *)

LEMMA TruncateHolds ==
    ASSUME HooksInv, NEW c \in Couriers, TruncateHooks(c) PROVE HooksInv'
  <1> DEFINE p == [courier[c] EXCEPT !.pc = "fill"]
  <1>1. courier[c].pc = "save" /\ courier' = [courier EXCEPT ![c] = p] /\ hookFile' = "empty"
        /\ UNCHANGED <<clock, hooks, hookIds, logged, word, row, secretEnds, hooksLost>>
    BY DEF TruncateHooks, HAt, hookHistory
  <1>2. courier[c] \in CourierType /\ Shape(courier[c])
    BY HookCall
  <1>3. p \in CourierType /\ p.pc = "fill" /\ SameCall(p, courier[c]) /\ p.stale = courier[c].stale
    BY <1>2 DEF CourierType, SameCall
  <1> HIDE DEF p
  <1>4. courier'[c] = p /\ \A d \in Couriers \ {c} : courier'[d] = courier[d]
    BY <1>1, CallIsTyped
  <1>5. Shape(p)
    BY <1>1, <1>2, <1>3 DEF Shape, Due, SameCall
  <1>6. ~hooksLost /\ ~p.stale => InStep(p, hooks, secretEnds)
    BY <1>1, <1>3, HookCall, SameCallInStep
  <1>7. HookTypes'
    <2>1. HookTypeOK'
      BY <1>1, <1>3 DEF HooksInv, HookTypes, HookTypeOK, CourierType
    <2>2. \A d \in Couriers : Shape(courier'[d])
      BY <1>4, <1>5 DEF HooksInv, HookTypes
    <2> QED
      BY <1>1, <2>1, <2>2 DEF HooksInv, HookTypes
  <1>8. UnusedInv'
    <2>1. \A d \in Couriers : courier'[d].pc # "idle" =>
              courier[d].pc # "idle" /\ courier'[d].copy = courier[d].copy
      BY <1>1, <1>3, <1>4 DEF SameCall
    <2> SUFFICES ASSUME NEW h \in hookIds'
                 PROVE  /\ hooks'[h] = Nil
                        /\ \A d \in Couriers : courier'[d].pc # "idle" => courier'[d].copy[h] = Nil
                        /\ \A g \in 1..MaxSecret : secretEnds'[<<h, g>>] = Never + RotationGrace
      BY DEF UnusedInv
    <2> QED
      BY <1>1, <2>1 DEF HooksInv, UnusedInv
  <1>9. KeptInv'
    <2> SUFFICES ASSUME ~hooksLost'
                 PROVE  /\ \A h \in Hooks : OnFile(hooks'[h], word'[h], row'[h])
                                            /\ Ends(h, hooks'[h], secretEnds')
                        /\ \A d \in Couriers : courier'[d].pc # "idle" /\ ~courier'[d].stale =>
                              InStep(courier'[d], hooks', secretEnds')
      BY DEF KeptInv
    <2> QED
      BY <1>1, <1>4, <1>6 DEF HooksInv, KeptInv
  <1> QED
    BY <1>7, <1>8, <1>9 DEF HooksInv

LEMMA SameCallShape ==
    ASSUME NEW p, NEW m, SameCall(p, m), p.pc = m.pc, Shape(m)
    PROVE  Shape(p)
  <1>1. Due(p) = Due(m)
    BY DEF Due, SameCall
  <1> QED
    BY <1>1 DEF Shape, SameCall

\* What FillHooks makes of the calls and of the history.
LEMMA FillCalls ==
    ASSUME HooksInv, NEW c \in Couriers, FillHooks(c)
    PROVE  /\ courier' \in [Couriers -> CourierType]
           /\ courier'[c] = NoCourier
           /\ \A d \in Couriers \ {c} :
                 /\ SameCall(courier'[d], courier[d]) /\ courier'[d].pc = courier[d].pc
                 /\ courier'[d].pc # "idle" /\ ~courier'[d].stale =>
                       ~courier[d].stale /\ courier[c].copy = hooks
  <1>1. courier' = [d \in Couriers |->
                        IF d = c THEN NoCourier
                        ELSE IF HAt(d, "idle") \/ courier[c].copy = hooks THEN courier[d]
                        ELSE [courier[d] EXCEPT !.stale = TRUE]]
    BY DEF FillHooks, AfterFillHooks
  <1>2. \A d \in Couriers : courier[d] \in CourierType
    BY CallIsTyped
  <1>3. \A d \in Couriers :
            LET p == [courier[d] EXCEPT !.stale = TRUE] IN
            p \in CourierType /\ SameCall(p, courier[d]) /\ p.pc = courier[d].pc /\ p.stale = TRUE
    BY <1>2 DEF CourierType, SameCall
  <1>4. courier' \in [Couriers -> CourierType]
    BY <1>1, <1>2, <1>3, NoCourierIs
  <1> QED
    BY <1>1, <1>3, <1>4 DEF SameCall, HAt

LEMMA FillEnds ==
    ASSUME HooksInv, NEW c \in Couriers, FillHooks(c), NEW h \in Hooks, NEW g \in 1..MaxSecret
    PROVE  LET w == courier[c].copy[h]
               mine == courier[c].kind = "owner" /\ courier[c].hook = h /\ w # Nil /\ w.prev = g IN
           /\ ~mine => secretEnds'[<<h, g>>] = secretEnds[<<h, g>>]
           /\ mine => secretEnds'[<<h, g>>] =
                         IF w.prevUntil < secretEnds[<<h, g>>] THEN w.prevUntil ELSE secretEnds[<<h, g>>]
  <1>1. <<h, g>> \in SecretsOfHooks /\ <<h, g>>[1] = h /\ <<h, g>>[2] = g
    BY DEF SecretsOfHooks
  <1>2. secretEnds' =
          [x \in SecretsOfHooks |->
              IF courier[c].kind = "owner" /\ courier[c].hook = x[1] /\ courier[c].copy[x[1]] # Nil
                 /\ courier[c].copy[x[1]].prev = x[2] /\ courier[c].copy[x[1]].prevUntil < secretEnds[x]
              THEN courier[c].copy[x[1]].prevUntil ELSE secretEnds[x]]
    BY DEF FillHooks
  <1> QED
    BY <1>1, <1>2

LEMMA FillRow ==
    ASSUME HooksInv, NEW c \in Couriers, FillHooks(c), NEW h \in Hooks
    PROVE  /\ row[h] \in 0..AutoDisable /\ row'[h] \in 0..AutoDisable
           /\ Forgiven(c, h) => row'[h] = 0
           /\ ~Forgiven(c, h) =>
                 /\ row[h] >= AutoDisable => row'[h] = row[h]
                 /\ row[h] < AutoDisable /\ h \in courier[c].good => row'[h] = 0
                 /\ row[h] < AutoDisable /\ h \notin courier[c].good /\ h \in courier[c].bad =>
                       row'[h] = row[h] + 1
                 /\ h \notin courier[c].good /\ h \notin courier[c].bad => row'[h] = row[h]
  <1>1. row[h] \in 0..AutoDisable /\ AutoDisable \in Nat
    BY HookConstants DEF HooksInv, HookTypes, HookTypeOK
  <1>2. row'[h] = NewRow(c, h)
    BY DEF FillHooks
  <1>0. ~(h \in courier[c].good /\ h \in courier[c].bad)
        /\ (Forgiven(c, h) => h \notin courier[c].good /\ h \notin courier[c].bad)
    BY HookCall DEF FillHooks, HAt, Shape, Forgiven
  <1>3. Forgiven(c, h) => row'[h] = 0
    BY <1>0, <1>2 DEF NewRow
  <1>4. ~Forgiven(c, h) /\ row[h] < AutoDisable /\ h \in courier[c].good => row'[h] = 0
    BY <1>0, <1>2 DEF NewRow
  <1>5. ~Forgiven(c, h) /\ row[h] < AutoDisable /\ h \notin courier[c].good /\ h \in courier[c].bad =>
            row'[h] = row[h] + 1
    BY <1>2 DEF NewRow
  <1>6. ~Forgiven(c, h) /\ (~(row[h] < AutoDisable) \/ h \notin courier[c].good \cup courier[c].bad) =>
            row'[h] = row[h]
    BY <1>2 DEF NewRow
  <1> QED
    BY <1>1, <1>3, <1>4, <1>5, <1>6

LEMMA FillTypes ==
    ASSUME HooksInv, NEW c \in Couriers, FillHooks(c) PROVE HookTypes'
  <1>1. courier[c].pc = "fill" /\ hooks' = courier[c].copy
        /\ UNCHANGED <<clock, hookIds, logged>> /\ hookFile' \in {"whole", "garbled"}
    BY DEF FillHooks, HAt
  <1>2. hooks' \in HookFiles /\ \A h \in Hooks : Sound(hooks'[h])
    BY <1>1, HookCall DEF Shape
  <1>3. word' \in HookFiles
    <2>1. word' = Answered(c)
      BY DEF FillHooks
    <2>2. word \in HookFiles
      BY DEF HooksInv, HookTypes, HookTypeOK
    <2> QED
      BY <1>1, <1>2, <2>1, <2>2 DEF Answered, HookFiles
  <1>4. row' \in [Hooks -> 0..AutoDisable]
    <2>1. row' = [h \in Hooks |-> NewRow(c, h)]
      BY DEF FillHooks
    <2>2. \A h \in Hooks : row'[h] \in 0..AutoDisable
      BY FillRow
    <2> QED
      BY <2>1, <2>2
  <1>5. secretEnds' \in [SecretsOfHooks -> 0..(Never + RotationGrace)]
    <2>1. \A x \in SecretsOfHooks : secretEnds'[x] \in 0..(Never + RotationGrace)
      <3> SUFFICES ASSUME NEW h \in Hooks, NEW g \in 1..MaxSecret
                   PROVE  secretEnds'[<<h, g>>] \in 0..(Never + RotationGrace)
        BY DEF SecretsOfHooks
      <3>1. secretEnds[<<h, g>>] \in 0..(Never + RotationGrace)
        BY DEF HooksInv, HookTypes, HookTypeOK, SecretsOfHooks
      <3>2. courier[c].copy[h] # Nil => courier[c].copy[h].prevUntil \in 0..(Never + RotationGrace)
        BY <1>1, <1>2 DEF HookFiles, HookType
      <3> QED
        BY <3>1, <3>2, FillEnds
    <2> QED
      BY <2>1 DEF FillHooks
  <1>6. hooksLost' \in BOOLEAN
    BY DEF FillHooks
  <1>7. \A d \in Couriers : Shape(courier'[d])
    <2>1. \A d \in Couriers : Shape(courier[d])
      BY HookCall
    <2> QED
      BY <2>1, FillCalls, NoCourierIs, SameCallShape
  <1>8. courier' \in [Couriers -> CourierType]
    BY FillCalls
  <1>9. HookTypeOK'
    BY <1>1, <1>2, <1>3, <1>4, <1>5, <1>6, <1>8 DEF HooksInv, HookTypes, HookTypeOK, CourierType
  <1> QED
    BY <1>1, <1>2, <1>7, <1>9 DEF HooksInv, HookTypes

LEMMA FillUnused ==
    ASSUME HooksInv, NEW c \in Couriers, FillHooks(c) PROVE UnusedInv'
  <1>1. courier[c].pc = "fill" /\ hooks' = courier[c].copy /\ hookIds' = hookIds
    BY DEF FillHooks, HAt
  <1> SUFFICES ASSUME NEW h \in hookIds'
               PROVE  /\ hooks'[h] = Nil
                      /\ \A d \in Couriers : courier'[d].pc # "idle" => courier'[d].copy[h] = Nil
                      /\ \A g \in 1..MaxSecret : secretEnds'[<<h, g>>] = Never + RotationGrace
    BY DEF UnusedInv
  <1>2. courier[c].copy[h] = Nil /\ h \in Hooks
    BY <1>1, HookCall, CallIsTyped
  <1>3. \A g \in 1..MaxSecret : secretEnds'[<<h, g>>] = secretEnds[<<h, g>>]
    BY <1>2, FillEnds
  <1>4. \A d \in Couriers : courier'[d].pc # "idle" => courier'[d].copy[h] = Nil
    BY <1>1, FillCalls, NoCourierIs, HookCall DEF SameCall
  <1> QED
    BY <1>1, <1>2, <1>3, <1>4 DEF HooksInv, UnusedInv

LEMMA FillEndsHold ==
    ASSUME HooksInv, NEW c \in Couriers, FillHooks(c), ~hooksLost', NEW h \in Hooks
    PROVE  Ends(h, courier[c].copy[h], secretEnds')
  <1> DEFINE me == courier[c]
             w == me.copy[h]
             v == hooks[h]
  <1>1. me.pc = "fill" /\ ~hooksLost /\ (~me.stale \/ me.copy = hooks)
    BY DEF FillHooks, HAt
  <1>2. /\ w \in HookType \cup {Nil} /\ v \in HookType \cup {Nil} /\ Ends(h, v, secretEnds)
        /\ me.kind \in {"owner", "emit", "redeliver"}
        /\ ~me.stale => InStep(me, hooks, secretEnds)
    BY <1>1, HookCall, CallIsTyped, CourierFields DEF Shape, HookFiles, HooksInv, KeptInv
  <1> SUFFICES ASSUME w # Nil
               PROVE  /\ \A g \in w.secret..MaxSecret : secretEnds'[<<h, g>>] = Never + RotationGrace
                      /\ w.prev # 0 => w.prev < w.secret /\ w.prevUntil <= secretEnds'[<<h, w.prev>>]
    BY DEF Ends
  <1>3. w \in HookType
    BY <1>2
  <1>4. /\ w.secret \in Nat /\ w.secret \in 1..MaxSecret /\ w.prev \in Nat /\ w.prev \in 0..MaxSecret
        /\ w.prevUntil \in Nat /\ w.prevUntil <= Never + RotationGrace /\ MaxSecret \in Nat
        /\ Never + RotationGrace \in Nat
    BY <1>3, HookFields, HookConstants
  <1>5. \A g \in 1..MaxSecret : secretEnds[<<h, g>>] \in Nat
    BY HookConstants DEF HooksInv, HookTypes, HookTypeOK, SecretsOfHooks
  \* What is needed of the ends before: those of the secrets of the copy.
  <1>6. ASSUME \A g \in w.secret..MaxSecret : secretEnds[<<h, g>>] = Never + RotationGrace,
               w.prev # 0 => w.prev < w.secret /\ w.prevUntil <= secretEnds[<<h, w.prev>>]
        PROVE  /\ \A g \in w.secret..MaxSecret : secretEnds'[<<h, g>>] = Never + RotationGrace
               /\ w.prev # 0 => w.prev < w.secret /\ w.prevUntil <= secretEnds'[<<h, w.prev>>]
    <2>1. \A g \in w.secret..MaxSecret : g \in 1..MaxSecret /\ w.prev # g
      BY <1>4, <1>6
    <2>2. \A g \in w.secret..MaxSecret : secretEnds'[<<h, g>>] = Never + RotationGrace
      BY <2>1, <1>6, FillEnds
    <2>3. ASSUME w.prev # 0 PROVE w.prevUntil <= secretEnds'[<<h, w.prev>>]
      <3>1. w.prev \in 1..MaxSecret
        BY <2>3, <1>4
      <3>2. secretEnds[<<h, w.prev>>] \in Nat /\ w.prevUntil <= secretEnds[<<h, w.prev>>]
        BY <3>1, <1>5, <1>6, <2>3
      <3>3. \/ secretEnds'[<<h, w.prev>>] = secretEnds[<<h, w.prev>>]
            \/ secretEnds'[<<h, w.prev>>] = w.prevUntil
        BY <3>1, FillEnds
      <3> QED
        BY <3>2, <3>3, <1>4
    <2> QED
      BY <2>2, <2>3, <1>6
  <1>7. CASE w = v
    BY <1>2, <1>6, <1>7 DEF Ends
  <1>8. CASE w # v
    <2>1. ~me.stale /\ InStep(me, hooks, secretEnds)
      BY <1>1, <1>2, <1>8
    <2>2. CASE me.kind = "owner"
      <3>1. Owns(me, hooks, secretEnds) /\ h = me.hook
        BY <2>1, <2>2, <1>8 DEF InStep, Owns
      <3>2. CASE v = Nil
        <4>1. w = Hook(1, 0, 0, TRUE, 0) /\ \A g \in 1..MaxSecret : secretEnds[<<h, g>>] = Never + RotationGrace
          BY <3>1, <3>2 DEF Owns
        <4>2. w.secret = 1 /\ w.prev = 0
          BY <4>1 DEF Hook
        <4> QED
          BY <4>1, <4>2, <1>6
      <3>3. CASE v # Nil
        <4>1. Changes(w, v) /\ v \in HookType
          BY <3>1, <3>3, <1>2 DEF Owns
        <4>2. v.secret \in Nat /\ v.secret \in 1..MaxSecret
          BY <4>1, HookFields
        <4>3. /\ \A g \in v.secret..MaxSecret : secretEnds[<<h, g>>] = Never + RotationGrace
              /\ v.prev # 0 => v.prev < v.secret /\ v.prevUntil <= secretEnds[<<h, v.prev>>]
          BY <3>3, <1>2 DEF Ends
        <4>4. CASE w.secret = v.secret /\ w.prev = v.prev /\ w.prevUntil = v.prevUntil
          BY <4>3, <4>4, <1>6
        <4>5. CASE w.secret = v.secret + 1 /\ w.prev = v.secret
          <5>1. \A g \in w.secret..MaxSecret : g \in v.secret..MaxSecret
            BY <4>2, <4>5, <1>4
          <5>2. v.secret \in v.secret..MaxSecret
            BY <4>2, <1>4
          <5> QED
            BY <4>2, <4>3, <4>5, <5>1, <5>2, <1>4, <1>6
        <4> QED
          BY <4>1, <4>4, <4>5 DEF Changes
      <3> QED
        BY <3>2, <3>3
    <2>3. CASE me.kind # "owner"
      <3>1. v # Nil /\ SameSecrets(w, v)
        BY <2>1, <2>3 DEF InStep, Delivers
      <3>2. /\ \A g \in v.secret..MaxSecret : secretEnds[<<h, g>>] = Never + RotationGrace
            /\ v.prev # 0 => v.prev < v.secret /\ v.prevUntil <= secretEnds[<<h, v.prev>>]
        BY <3>1, <1>2 DEF Ends
      <3>3. w.secret = v.secret /\ (w.prev # 0 => w.prev = v.prev /\ w.prevUntil = v.prevUntil)
        BY <3>1 DEF SameSecrets
      <3> QED
        BY <3>2, <3>3, <1>6
    <2> QED
      BY <2>2, <2>3
  <1> QED
    BY <1>7, <1>8

\* A copy that was changed was the owner's, or it has new books.
LEMMA FillOnFile ==
    ASSUME HooksInv, NEW c \in Couriers, FillHooks(c), ~hooksLost', NEW h \in Hooks
    PROVE  OnFile(courier[c].copy[h], word'[h], row'[h])
  <1> DEFINE me == courier[c]
             w == me.copy[h]
             v == hooks[h]
             n == row[h]
             m == row'[h]
  <1>1. me.pc = "fill" /\ ~hooksLost /\ (~me.stale \/ me.copy = hooks)
    BY DEF FillHooks, HAt
  <1>2. /\ w \in HookType \cup {Nil} /\ v \in HookType \cup {Nil} /\ OnFile(v, word[h], n)
        /\ me.kind \in {"owner", "emit", "redeliver"} /\ Shape(me)
        /\ ~me.stale => InStep(me, hooks, secretEnds)
    BY <1>1, HookCall, CallIsTyped, CourierFields DEF Shape, HookFiles, HooksInv, KeptInv
  <1>3. word'[h] = IF me.kind = "owner" /\ me.hook = h THEN w ELSE word[h]
    BY DEF FillHooks, Answered
  <1>4. /\ n \in 0..AutoDisable /\ m \in 0..AutoDisable /\ AutoDisable \in Nat
        /\ Forgiven(c, h) => m = 0
        /\ ~Forgiven(c, h) =>
              /\ n >= AutoDisable => m = n
              /\ n < AutoDisable /\ h \in me.good => m = 0
              /\ n < AutoDisable /\ h \notin me.good /\ h \in me.bad => m = n + 1
              /\ h \notin me.good /\ h \notin me.bad => m = n
    BY FillRow, HookConstants
  <1>5. v # Nil => v.failures \in Nat /\ v.failures <= AutoDisable /\ v.failures <= n
    BY <1>2, HookFields DEF OnFile
  <1>6. w # Nil => w.failures \in Nat /\ w.failures <= AutoDisable
    BY <1>2, HookFields
  <1> HIDE DEF n, m
  <1>7. CASE me.kind = "owner"
    <2>1. me.good = {} /\ me.bad = {} /\ me.hook \in Hooks
      BY <1>1, <1>2, <1>7 DEF Shape
    <2>2. ~Forgiven(c, h) => m = n
      BY <2>1, <1>4
    <2>3. CASE me.copy = hooks
      <3>1. ~Forgiven(c, h)
        BY <2>3 DEF Forgiven
      <3>2. w = v /\ m = n /\ (word'[h] = v \/ word'[h] = word[h])
        BY <2>2, <2>3, <3>1, <1>3
      <3> QED
        BY <3>2, <1>2 DEF OnFile, m
    <2>4. CASE me.copy # hooks
      <3>1. Owns(me, hooks, secretEnds)
        BY <2>4, <1>1, <1>2, <1>7 DEF InStep
      <3>2. CASE h # me.hook
        <4>1. ~Forgiven(c, h) /\ w = v /\ word'[h] = word[h]
          BY <3>1, <3>2, <1>3 DEF Forgiven, Owns
        <4> QED
          BY <4>1, <2>2, <1>2 DEF OnFile, m
      <3>3. CASE h = me.hook
        <4>1. word'[h] = w
          BY <3>3, <1>3, <1>7
        <4>2. w # Nil => w.failures <= m
          <5> SUFFICES ASSUME w # Nil PROVE w.failures <= m
            OBVIOUS
          <5>1. CASE v = Nil
            <6>1. w = Hook(1, 0, 0, TRUE, 0)
              BY <3>1, <3>3, <5>1 DEF Owns
            <6>2. w.failures = 0
              BY <6>1 DEF Hook
            <6> QED
              BY <6>2, <1>4
          <5>2. CASE v # Nil
            <6>1. Turned(w, v)
              BY <3>1, <3>3, <5>2 DEF Owns, Changes
            <6>2. CASE Forgiven(c, h)
              <7>1. w.active /\ (w.failures = 0 \/ ~v.active)
                BY <5>2, <6>2 DEF Forgiven
              <7>2. w.failures = 0
                BY <6>1, <7>1 DEF Turned
              <7> QED
                BY <7>2, <1>4
            <6>3. CASE ~Forgiven(c, h)
              <7>1. w.failures = v.failures \/ w.failures = 0
                BY <6>1 DEF Turned
              <7> QED
                BY <7>1, <6>3, <5>2, <2>2, <1>4, <1>5
            <6> QED
              BY <6>2, <6>3
          <5> QED
            BY <5>1, <5>2
        <4> QED
          BY <4>1, <4>2 DEF OnFile, m
      <3> QED
        BY <3>2, <3>3
    <2> QED
      BY <2>3, <2>4
  <1>8. CASE me.kind # "owner"
    <2>1. ~Forgiven(c, h) /\ word'[h] = word[h]
      BY <1>3, <1>8 DEF Forgiven
    <2>2. /\ n >= AutoDisable => m = n
          /\ n < AutoDisable /\ h \in me.good => m = 0
          /\ n < AutoDisable /\ h \notin me.good /\ h \in me.bad => m = n + 1
          /\ h \notin me.good /\ h \notin me.bad => m = n
      BY <2>1, <1>4
    <2>3. CASE ~me.stale
      <3>1. (w = Nil) = (v = Nil)
        BY <2>3, <1>1, <1>2, <1>8 DEF InStep, Delivers
      <3> SUFFICES ASSUME v # Nil, w # Nil
                   PROVE  /\ w.secret = word[h].secret
                          /\ w.active # word[h].active => m >= AutoDisable
                          /\ w.failures <= m
        BY <3>1, <2>1, <1>2 DEF OnFile, m
      <3>2. SameSecrets(w, v) /\ BooksOf(w, v, me.kind, h \in me.good, h \in me.bad)
        BY <2>3, <1>1, <1>2, <1>8 DEF InStep, Delivers
      <3>3. v.secret = word[h].secret /\ (v.active # word[h].active => n >= AutoDisable)
        BY <1>2 DEF OnFile
      <3>4. w.secret = word[h].secret
        BY <3>2, <3>3 DEF SameSecrets
      <3>5. CASE h \in me.good
        <4> h \notin me.bad
          BY <3>5, <1>1, <1>2 DEF Shape
        <4>1. w.active = v.active /\ w.failures = 0
          BY <3>2, <3>5 DEF BooksOf
        <4> QED
          BY <4>1, <3>3, <3>4, <3>5, <2>2, <1>4
      <3>6. CASE h \notin me.good /\ h \in me.bad /\ me.kind = "emit"
        <4>1. w.failures = v.failures + 1 /\ (w.active <=> v.active /\ w.failures < AutoDisable)
          BY <3>2, <3>6 DEF BooksOf
        <4>2. w.active \in BOOLEAN /\ v.active \in BOOLEAN
          BY <1>2, HookFields
        <4>3. w.failures <= m
          BY <4>1, <3>6, <2>2, <1>4, <1>5, <1>6
        <4>4. w.active # v.active => ~(w.failures < AutoDisable)
          BY <4>1, <4>2
        <4>5. w.active # v.active => m >= AutoDisable
          BY <4>3, <4>4, <1>4, <1>6
        <4>6. n >= AutoDisable => m >= AutoDisable
          BY <2>2
        <4> QED
          BY <4>3, <4>5, <4>6, <3>3, <3>4
      <3>7. CASE h \notin me.good /\ ~(h \in me.bad /\ me.kind = "emit")
        <4>1. w.active = v.active /\ w.failures = v.failures
          BY <3>2, <3>7 DEF BooksOf
        <4>2. m >= n /\ (n >= AutoDisable => m >= AutoDisable)
          BY <3>7, <2>2, <1>4
        <4> QED
          BY <4>1, <4>2, <3>3, <3>4, <1>4, <1>5
      <3> QED
        BY <3>5, <3>6, <3>7
    <2>4. CASE me.copy = hooks
      <3>1. w = v
        BY <2>4
      <3> SUFFICES ASSUME v # Nil
                   PROVE  /\ v.active # word[h].active => m >= AutoDisable
                          /\ v.failures <= m
        BY <3>1, <2>1, <1>2 DEF OnFile, m
      <3>2. v.active # word[h].active => n >= AutoDisable
        BY <1>2 DEF OnFile
      <3>3. h \in me.good => v.failures = 0
        BY <3>1, <1>1, <1>2 DEF Shape
      <3>4. n >= AutoDisable => m >= AutoDisable
        BY <2>2
      <3>5. v.failures <= m
        BY <3>3, <2>2, <1>4, <1>5
      <3> QED
        BY <3>2, <3>4, <3>5
    <2> QED
      BY <2>3, <2>4, <1>1
  <1> QED
    BY <1>7, <1>8

LEMMA FillHooksHolds ==
    ASSUME HooksInv, NEW c \in Couriers, FillHooks(c) PROVE HooksInv'
  <1>1. KeptInv'
    <2> SUFFICES ASSUME ~hooksLost'
                 PROVE  /\ \A h \in Hooks : OnFile(hooks'[h], word'[h], row'[h])
                                            /\ Ends(h, hooks'[h], secretEnds')
                        /\ \A d \in Couriers : courier'[d].pc # "idle" /\ ~courier'[d].stale =>
                              InStep(courier'[d], hooks', secretEnds')
      BY DEF KeptInv
    <2>1. hooks' = courier[c].copy /\ ~hooksLost
      BY DEF FillHooks
    <2>2. \A h \in Hooks : OnFile(hooks'[h], word'[h], row'[h]) /\ Ends(h, hooks'[h], secretEnds')
      BY <2>1, FillOnFile, FillEndsHold
    <2>3. ASSUME NEW d \in Couriers, courier'[d].pc # "idle", ~courier'[d].stale
          PROVE  InStep(courier'[d], hooks', secretEnds')
      <3>1. d # c /\ courier[d].pc = courier'[d].pc /\ ~courier[d].stale /\ courier[c].copy = hooks
            /\ SameCall(courier'[d], courier[d])
        BY <2>3, FillCalls, NoCourierIs
      <3>2. hooks' = hooks /\ InStep(courier[d], hooks, secretEnds)
        BY <2>1, <2>3, <3>1, HookCall
      <3>3. \A h \in Hooks : hooks[h] = Nil =>
                \A g \in 1..MaxSecret : secretEnds'[<<h, g>>] = secretEnds[<<h, g>>]
        BY <3>1, FillEnds
      <3>4. courier[d].kind = "owner" => courier[d].hook \in Hooks
        BY <2>3, <3>1, HookCall DEF Shape
      <3>5. InStep(courier[d], hooks, secretEnds')
        BY <3>2, <3>3, <3>4 DEF InStep, Owns
      <3> QED
        BY <3>1, <3>2, <3>5, SameCallInStep
    <2> QED
      BY <2>2, <2>3
  <1> QED
    BY <1>1, FillTypes, FillUnused DEF HooksInv

-----------------------------------------------------------------------------
(* All steps of the webhooks                                               *)

LEMMA NobodyDelivers ==
    ASSUME HooksInv, \/ HooksCrash
                     \/ Tick /\ UNCHANGED hookVars
                     \/ UNCHANGED <<clock, hookVars>>
    PROVE  HooksInv'
  <1>1. UNCHANGED <<hooks, hookFile, hookIds, logged, word, row, secretEnds, hooksLost>>
    BY DEF HooksCrash, HandsOn, hookVars, hookHistory
  <1>2. clock' \in 0..MaxClock
    <2>1. clock' = clock \/ (clock < MaxClock /\ clock' = clock + 1)
      BY DEF HooksCrash, HandsOn, Tick
    <2> QED
      BY <2>1, CallIsTyped, HookConstants
  <1>3. courier' = courier \/ courier' = [d \in Couriers |-> NoCourier]
    BY DEF HooksCrash, hookVars
  <1>4. \A d \in Couriers : courier'[d] = courier[d] \/ courier'[d] = NoCourier
    BY <1>3
  <1>5. courier' \in [Couriers -> CourierType]
    BY <1>3, NoCourierIs, CallIsTyped
  <1>6. HookTypes'
    <2>1. HookTypeOK'
      BY <1>1, <1>5 DEF HooksInv, HookTypes, HookTypeOK, CourierType
    <2>2. \A d \in Couriers : Shape(courier'[d])
      BY <1>4, NoCourierIs DEF HooksInv, HookTypes
    <2> QED
      BY <1>1, <1>2, <2>1, <2>2 DEF HooksInv, HookTypes
  <1>7. UnusedInv'
    <2> SUFFICES ASSUME NEW h \in hookIds'
                 PROVE  /\ hooks'[h] = Nil
                        /\ \A d \in Couriers : courier'[d].pc # "idle" => courier'[d].copy[h] = Nil
                        /\ \A g \in 1..MaxSecret : secretEnds'[<<h, g>>] = Never + RotationGrace
      BY DEF UnusedInv
    <2> QED
      BY <1>1, <1>4, NoCourierIs DEF HooksInv, UnusedInv
  <1>8. KeptInv'
    <2> SUFFICES ASSUME ~hooksLost'
                 PROVE  /\ \A h \in Hooks : OnFile(hooks'[h], word'[h], row'[h])
                                            /\ Ends(h, hooks'[h], secretEnds')
                        /\ \A d \in Couriers : courier'[d].pc # "idle" /\ ~courier'[d].stale =>
                              InStep(courier'[d], hooks', secretEnds')
      BY DEF KeptInv
    <2> QED
      BY <1>1, <1>4, NoCourierIs DEF HooksInv, KeptInv
  <1> QED
    BY <1>6, <1>7, <1>8 DEF HooksInv

LEMMA HookSteps == HooksInv /\ [HookNext]_<<clock, hookVars>> => HooksInv'
  <1> SUFFICES ASSUME HooksInv, [HookNext]_<<clock, hookVars>> PROVE HooksInv'
    OBVIOUS
  <1>1. ASSUME NEW c \in Couriers, TruncateHooks(c) \/ FillHooks(c) PROVE HooksInv'
    BY <1>1, TruncateHolds, FillHooksHolds
  <1>2. ASSUME NEW c \in Couriers, Blocked(c) \/ Fail(c) \/ \E ok \in BOOLEAN : Respond(c, ok)
        PROVE  HooksInv'
    BY <1>2, DeliveryHolds
  <1>3. ASSUME NEW c \in Couriers, NEW h \in Hooks,
               CreateHook(c, h) \/ DeleteHook(c, h) \/ RotateSecret(c, h) \/ Redeliver(c, h) \/ Begin(c, h)
        PROVE  HooksInv'
    BY <1>3, CreateHookHolds, DeleteHookHolds, RotateSecretHolds, RedeliverHolds, BeginHolds
  <1>4. ASSUME NEW c \in Couriers, NEW h \in Hooks, NEW active \in BOOLEAN, SwitchHook(c, h, active)
        PROVE  HooksInv'
    BY <1>4, SwitchHookHolds
  <1>5. ASSUME NEW c \in Couriers, NEW targets \in SUBSET Hooks, Emit(c, targets) PROVE HooksInv'
    BY <1>5, EmitHolds
  <1>6. ASSUME NEW c \in Couriers, CourierStep(c) PROVE HooksInv'
    BY <1>1, <1>2, <1>3, <1>4, <1>5, <1>6 DEF CourierStep
  <1> QED
    BY <1>6, NobodyDelivers DEF HookNext

LEMMA HookStart == clock = 0 /\ HookInit => HooksInv
  <1> SUFFICES ASSUME clock = 0, HookInit PROVE HooksInv
    OBVIOUS
  <1>1. /\ hooks = [h \in Hooks |-> Nil] /\ hookFile = "whole" /\ hookIds = Hooks /\ logged = {}
        /\ courier = [c \in Couriers |-> NoCourier] /\ word = [h \in Hooks |-> Nil]
        /\ row = [h \in Hooks |-> 0] /\ hooksLost = FALSE
        /\ secretEnds = [x \in SecretsOfHooks |-> Never + RotationGrace]
    BY DEF HookInit
  <1>2. \A c \in Couriers : courier[c] = NoCourier
    BY <1>1
  <1>3. \A h \in Hooks : hooks[h] = Nil /\ word[h] = Nil /\ row[h] = 0
    BY <1>1
  <1>4. Never + RotationGrace \in Nat /\ AutoDisable \in Nat /\ MaxClock \in Nat
    BY HookConstants
  <1>5. \A h \in Hooks, g \in 1..MaxSecret : secretEnds[<<h, g>>] = Never + RotationGrace
    BY <1>1 DEF SecretsOfHooks
  <1>6. hooks \in HookFiles /\ word \in HookFiles
    BY <1>1 DEF HookFiles
  <1>7. courier \in [Couriers -> CourierType]
    BY <1>1, NoCourierIs
  <1>8. row \in [Hooks -> 0..AutoDisable]
    BY <1>1, <1>4
  <1>9. secretEnds \in [SecretsOfHooks -> 0..(Never + RotationGrace)]
    BY <1>1, <1>4
  <1>10. HookTypeOK
    BY <1>1, <1>6, <1>7, <1>8, <1>9 DEF HookTypeOK, CourierType
  <1>11. HookTypes
    BY <1>2, <1>3, <1>4, <1>10, NoCourierIs DEF HookTypes, Sound
  <1>12. UnusedInv
    BY <1>1, <1>2, <1>3, <1>5, NoCourierIs DEF UnusedInv
  <1>13. KeptInv
    BY <1>2, <1>3, NoCourierIs DEF KeptInv, OnFile, Ends
  <1> QED
    BY <1>11, <1>12, <1>13 DEF HooksInv

LEMMA HooksInvHolds == HookSpec => []HooksInv
  <1>1. clock = 0 /\ HookInit => HooksInv
    BY HookStart
  <1>2. HooksInv /\ [HookNext]_<<clock, hookVars>> => HooksInv'
    BY HookSteps
  <1> QED
    BY <1>1, <1>2, PTL DEF HookSpec

\* Every variable keeps its type, and no hook counts past AUTO_DISABLE_AFTER: an emit
\* counts only for hooks that were on, and a hook that is on has not reached it.
THEOREM HookTypesHold == HookSpec => []HookTypeOK
  <1>1. HooksInv => HookTypeOK
    BY DEF HooksInv, HookTypes
  <1> QED
    BY <1>1, HooksInvHolds, PTL

\* webhooks.ts: a subscription stays as its owner left it, and emit pauses it only
\* after AUTO_DISABLE_AFTER failures in a row, however owner and deliveries overlap,
\* unless a write has replaced a change.
THEOREM HooksStayAsTheirOwnerLeftThem == HookSpec => []PausedByItsFailures
  <1>1. HooksInv => PausedByItsFailures
    BY DEF HooksInv, KeptInv, OnFile, PausedByItsFailures
  <1> QED
    BY <1>1, HooksInvHolds, PTL

\* webhooks.ts: no delivery starts with a secret whose grace is over, unless its copy
\* of the file is from before the rotation was answered.
THEOREM NoStaleSecretSigns == HookSpec => []SecretsSignInTime
  <1>1. ASSUME HooksInv, ~hooksLost, NEW c \in Couriers, HAt(c, "try"), ~courier[c].stale,
               NEW g \in courier[c].signed
        PROVE  courier[c].began <= secretEnds[<<courier[c].hook, g>>]
    <2> DEFINE me == courier[c]
               h == me.hook
               w == me.copy[h]
               v == hooks[h]
    <2>1. me.pc = "try" /\ me.kind # "owner" /\ h \in Hooks /\ me \in CourierType
          /\ InStep(me, hooks, secretEnds) /\ me.copy \in HookFiles
      BY <1>1, HookCall DEF HAt, Shape
    <2>2. h \in Due(me)
      BY <2>1 DEF Due
    <2>3. w # Nil /\ w \in HookType
      BY <1>1, <2>1, <2>2, HookCall DEF Shape, HookFiles
    <2>4. v # Nil /\ SameSecrets(w, v) /\ Signs(me)
      BY <2>1, <2>3 DEF InStep, Delivers
    <2>5. Ends(h, v, secretEnds) /\ v \in HookType
      BY <1>1, <2>1, <2>4, CallIsTyped DEF HooksInv, KeptInv
    <2>6. g \in {w.secret, w.prev} \ {0} /\ (w.prev # 0 => me.began <= w.prevUntil)
      BY <1>1, <2>4 DEF Signs
    <2>7. me.began \in 0..MaxClock /\ MaxClock \in Nat /\ Never + RotationGrace \in Nat
          /\ MaxClock <= Never + RotationGrace
      BY <2>1, HookConstants, CourierFields
    <2>8. v.secret \in 1..MaxSecret /\ v.prevUntil \in Nat /\ v.prev \in 0..MaxSecret /\ MaxSecret \in Nat
      BY <2>5, HookFields, HookConstants
    <2>9. CASE g = w.secret
      <3>1. v.secret \in v.secret..MaxSecret /\ g = v.secret
        BY <2>4, <2>8, <2>9 DEF SameSecrets
      <3>2. secretEnds[<<h, g>>] = Never + RotationGrace
        BY <3>1, <2>4, <2>5 DEF Ends
      <3> QED
        BY <3>2, <2>7
    <2>10. CASE g = w.prev /\ w.prev # 0
      <3>1. w.prev = v.prev /\ w.prevUntil = v.prevUntil
        BY <2>4, <2>10 DEF SameSecrets
      <3>2. v.prevUntil <= secretEnds[<<h, g>>]
        BY <2>4, <2>5, <2>10, <3>1 DEF Ends
      <3>3. g \in 1..MaxSecret
        BY <2>8, <2>10, <3>1
      <3>4. secretEnds[<<h, g>>] \in Nat
        BY <1>1, <2>1, <2>7, <3>3 DEF HooksInv, HookTypes, HookTypeOK, SecretsOfHooks
      <3> QED
        BY <2>6, <2>7, <2>8, <2>10, <3>1, <3>2, <3>4
    <2> QED
      BY <2>6, <2>9, <2>10
  <1>2. HooksInv => SecretsSignInTime
    BY <1>1 DEF SecretsSignInTime
  <1> QED
    BY <1>2, HooksInvHolds, PTL
-----------------------------------------------------------------------------
(* Erasure: what a call knows of the records it is about.  The predicates  *)
(* take the files as arguments, so that they can be said of the next ones. *)

Its(own, u)  == {id \in Ids : own[id] = u}
OwnedIn(own) == {id \in Ids : own[id] # Nil}
FilesIn(cs)  == {k \in Convs : cs[k] # Nil}

\* A call is about records of its own user, and so is what it has read and will
\* remove.
Mine(p, own) ==
    /\ p.pc \in {"idle", "edit", "add", "log", "relog", "list", "visit", "unlink",
                 "rows", "rewrite", "answer"}
    /\ p.pc # "idle" =>
          /\ p.user \in Users
          /\ p.ids \subseteq Its(own, p.user) /\ p.todo \subseteq Its(own, p.user)
    /\ p.pc = "edit" => p.kind \in {"turn", "archive"}
    /\ p.pc = "add" => p.kind = "save"
    /\ p.pc \in {"log", "relog"} => p.kind \in {"erase", "sweep", "prune", "item"}
    /\ p.pc \in {"list", "visit"} => p.kind \in {"erase", "sweep"}
    /\ p.pc = "unlink" => p.kind \in {"erase", "sweep", "item"}
    /\ p.pc \in {"rows", "answer"} => p.kind = "erase"
    /\ p.pc = "rewrite" => p.kind \in {"erase", "item"}
    /\ p.pc = "idle" => p.kind = "none"
    /\ p.pc = "unlink" /\ p.kind # "item" => p.seen \subseteq Its(own, p.user)
    /\ p.pc \in {"relog", "add", "rewrite"} => p.seen \subseteq OwnedIn(own)

\* How far an erasure has come: the files it has been through hold nothing of
\* what it is about.
Erasing(p, lg, fs, sv) ==
    p.kind = "erase" =>
        /\ p.pc = "relog" => p.seen \cap p.ids \subseteq p.todo
        /\ p.pc \notin {"log", "relog"} => p.ids \cap lg = {}
        /\ p.pc = "visit" => p.ids \cap fs \subseteq p.todo
        /\ p.pc = "unlink" => p.ids \cap fs \subseteq p.todo \cup p.seen
        /\ p.pc \in {"rows", "rewrite", "answer"} => p.ids \cap fs = {}
        /\ p.pc = "answer" => p.ids \cap sv = {}

SeenType == (SUBSET Ids) \cup ConvType \cup {Nil}
PurgerType ==
    [pc : {"idle", "edit", "add", "log", "relog", "list", "visit", "unlink", "rows", "rewrite",
           "answer"},
     kind : {"none", "turn", "archive", "save", "item"} \cup Bulk,
     user : Users \cup {Nil}, ids : SUBSET Ids, before : 0..Never, seen : SeenType,
     todo : SUBSET Ids]
\* Which records a call has read.
Reads(p) ==
    /\ p.pc = "edit"    => p.ids \subseteq Convs /\ p.seen \in ConvType
    /\ p.pc = "add"     => p.ids \subseteq Rows /\ p.seen \subseteq Rows
    /\ p.pc = "relog"   => p.seen \subseteq Lines
    /\ p.pc = "rewrite" => p.seen \subseteq Rows

TypesInv ==
    /\ clock \in 0..MaxClock
    /\ hold \in BOOLEAN /\ cut \in BOOLEAN /\ dataLost \in BOOLEAN
    /\ log \subseteq Lines /\ saved \subseteq Rows
    /\ stamp \in [Lines -> 0..MaxClock]
    /\ convs \in [Convs -> ConvType \cup {Nil}]
    /\ owner \in [Ids -> Users \cup {Nil}]
    /\ erased \subseteq Ids /\ owed \subseteq Ids /\ held \subseteq Ids
    /\ purger \in [Purgers -> PurgerType]
    /\ \A c \in Purgers : Reads(purger[c])
OwnInv ==
    /\ Kept \subseteq OwnedIn(owner) /\ erased \subseteq OwnedIn(owner)
    /\ \A c \in Purgers : Mine(purger[c], owner)
OwedInv == ~dataLost => owed \subseteq Kept
\* A saved query that is being added is not on file, and nobody erases it yet.
FreshInv ==
    ~dataLost =>
        \A c \in Purgers : PAt(c, "add") =>
            /\ purger[c].ids \cap (Kept \cup erased) = {}
            /\ \A d \in Purgers \ {c} :
                  purger[d].kind \in {"erase", "save"} => purger[c].ids \cap purger[d].ids = {}
ErasedInv ==
    ~dataLost /\ ~cut =>
        /\ erased \cap Kept = {}
        /\ \A c \in Purgers : Erasing(purger[c], log, Files, saved)
EInv == TypesInv /\ OwnInv /\ OwedInv /\ FreshInv /\ ErasedInv

LEMMA ErasureConstants ==
    /\ MaxClock \in Nat /\ Never \in Nat /\ Nil \notin Users /\ Nil \notin Ids /\ Nil \notin ConvType
    /\ RetentionAge \in Nat /\ 0 \in 0..Never
    /\ Lines \subseteq Ids /\ Convs \subseteq Ids /\ Rows \subseteq Ids
  BY ClockAssumption, AccessAssumption, ErasureAssumption DEF Never, Ids

LEMMA PurgerIs ==
    ASSUME NEW pc, NEW kind, NEW user, NEW ids, NEW before, NEW seen, NEW todo
    PROVE  LET p == Purger(pc, kind, user, ids, before, seen, todo) IN
           /\ p.pc = pc /\ p.kind = kind /\ p.user = user /\ p.ids = ids /\ p.seen = seen
           /\ p.before = before /\ p.todo = todo
  BY DEF Purger

LEMMA PurgerTyped ==
    ASSUME NEW p \in PurgerType, NEW pc, NEW seen \in SeenType, NEW todo \in SUBSET Ids,
           pc \in {"idle", "edit", "add", "log", "relog", "list", "visit", "unlink", "rows", "rewrite",
                   "answer"}
    PROVE  Purger(pc, p.kind, p.user, p.ids, p.before, seen, todo) \in PurgerType
  BY DEF Purger, PurgerType

LEMMA NoPurgerIs ==
    /\ NoPurger.pc = "idle" /\ NoPurger.kind = "none" /\ NoPurger.ids = {} /\ NoPurger.todo = {}
    /\ NoPurger \in PurgerType /\ Reads(NoPurger)
    /\ \A own : Mine(NoPurger, own)
    /\ \A lg, fs, sv : Erasing(NoPurger, lg, fs, sv)
  <1>1. /\ NoPurger.pc = "idle" /\ NoPurger.kind = "none" /\ NoPurger.ids = {} /\ NoPurger.todo = {}
    BY DEF NoPurger, Purger
  <1>2. NoPurger \in PurgerType
    <2>1. {} \in SUBSET Ids /\ Nil \in SeenType /\ Nil \in Users \cup {Nil}
      BY DEF SeenType
    <2>2. 0 \in 0..Never
      BY ErasureConstants
    <2> QED
      BY <2>1, <2>2 DEF NoPurger, Purger, PurgerType
  <1>3. Reads(NoPurger) /\ (\A own : Mine(NoPurger, own)) /\ (\A lg, fs, sv : Erasing(NoPurger, lg, fs, sv))
    BY <1>1 DEF Reads, Mine, Erasing
  <1> QED
    BY <1>1, <1>2, <1>3

\* Records get an owner and keep it.
OwnsMore(own, next) == \A id \in Ids : own[id] # Nil => next[id] = own[id]

LEMMA MineStays ==
    ASSUME NEW own, NEW next, OwnsMore(own, next), NEW p, Mine(p, own)
    PROVE  Mine(p, next)
  <1>1. Nil \notin Users
    BY ErasureConstants
  <1>2. p.user \in Users => Its(own, p.user) \subseteq Its(next, p.user)
    BY <1>1 DEF Its, OwnsMore
  <1>3. OwnedIn(own) \subseteq OwnedIn(next)
    BY DEF OwnedIn, OwnsMore
  <1> QED
    BY <1>2, <1>3 DEF Mine

LEMMA ErasingStays ==
    ASSUME NEW p, NEW lg, NEW fs, NEW sv, Erasing(p, lg, fs, sv), NEW lg2, NEW fs2, NEW sv2,
           p.kind = "erase" => /\ p.ids \cap lg2 \subseteq lg
                               /\ p.ids \cap fs2 \subseteq fs
                               /\ p.ids \cap sv2 \subseteq sv
    PROVE  Erasing(p, lg2, fs2, sv2)
  BY DEF Erasing

LEMMA KeptIs == Kept = log \cup FilesIn(convs) \cup saved /\ Files = FilesIn(convs)
  BY DEF Kept, Files, FilesIn

\* Where the calls stand after one of them has moved.
LEMMA OneMoves ==
    ASSUME TypesInv, NEW c \in Purgers, NEW s, PMove(c, s)
    PROVE  /\ purger'[c] = s
           /\ \A d \in Purgers \ {c} : purger'[d] = purger[d]
           /\ s \in PurgerType => purger' \in [Purgers -> PurgerType]
           /\ Reads(s) => \A d \in Purgers : Reads(purger'[d])
  BY DEF PMove, TypesInv

\* A step of a call that is under way.
Adding(c) == IF PAt(c, "add") THEN purger[c].ids ELSE {}
Confirming(c) == IF PAt(c, "answer") THEN purger[c].ids ELSE {}
GoesOn(c, s) ==
    /\ PMove(c, s) /\ owner' = owner
    /\ Mine(s, owner) /\ s.pc # "add"
    /\ s.kind \in {"erase", "save"} => s.kind = purger[c].kind /\ s.ids = purger[c].ids
    /\ dataLost => dataLost'
    /\ cut => cut'
    /\ Kept' \subseteq OwnedIn(owner)
    /\ ~dataLost' => /\ log' \subseteq log /\ FilesIn(convs') \subseteq FilesIn(convs)
                     /\ saved' \subseteq saved \cup Adding(c)
                     /\ owed' \subseteq Kept'
    /\ erased' \subseteq erased \cup Confirming(c)
    /\ ~dataLost' /\ ~cut' => Erasing(s, log', FilesIn(convs'), saved')

LEMMA GoesOnHolds ==
    ASSUME EInv, NEW c \in Purgers, NEW s, GoesOn(c, s), TypesInv'
    PROVE  EInv'
  <1>1. /\ purger'[c] = s
        /\ \A d \in Purgers \ {c} : purger'[d] = purger[d]
    BY OneMoves DEF EInv, GoesOn
  <1>2. OwnInv'
    <2>1. Confirming(c) \subseteq OwnedIn(owner)
      BY ErasureConstants DEF Confirming, EInv, OwnInv, Mine, Its, OwnedIn, PAt
    <2>2. Mine(purger'[c], owner') /\ \A d \in Purgers \ {c} : Mine(purger'[d], owner')
      BY <1>1 DEF GoesOn, EInv, OwnInv
    <2>3. erased' \subseteq OwnedIn(owner') /\ Kept' \subseteq OwnedIn(owner')
      BY <2>1 DEF GoesOn, EInv, OwnInv
    <2> QED
      BY <2>2, <2>3 DEF OwnInv
  <1>3. OwedInv'
    BY DEF OwedInv, GoesOn
  <1>4. ~dataLost' => /\ ~dataLost /\ Kept' \subseteq Kept \cup Adding(c)
                      /\ log' \subseteq log /\ FilesIn(convs') \subseteq FilesIn(convs)
                      /\ saved' \subseteq saved \cup Adding(c)
    BY KeptIs DEF GoesOn, Kept, Files, FilesIn
  <1>5. FreshInv'
    <2> SUFFICES ASSUME ~dataLost', NEW d \in Purgers, PAt(d, "add")'
                 PROVE  /\ purger'[d].ids \cap (Kept \cup erased)' = {}
                        /\ \A e \in Purgers \ {d} :
                              purger'[e].kind \in {"erase", "save"} => purger'[d].ids \cap purger'[e].ids = {}
      BY DEF FreshInv
    <2>1. d # c
      BY <1>1 DEF GoesOn, PAt
    <2>2. PAt(d, "add") /\ purger'[d].ids = purger[d].ids
      BY <1>1, <2>1 DEF PAt
    <2>3. /\ purger[d].ids \cap (Kept \cup erased) = {}
          /\ \A e \in Purgers \ {d} :
                purger[e].kind \in {"erase", "save"} => purger[d].ids \cap purger[e].ids = {}
      BY <1>4, <2>2 DEF EInv, FreshInv
    <2>4. Adding(c) # {} => purger[c].kind = "save"
      BY DEF Adding, EInv, OwnInv, Mine, PAt
    <2>5. Confirming(c) # {} => purger[c].kind = "erase"
      BY DEF Confirming, EInv, OwnInv, Mine, PAt
    <2>6. purger[d].ids \cap Adding(c) = {} /\ purger[d].ids \cap Confirming(c) = {}
      BY <2>1, <2>3, <2>4, <2>5 DEF Adding, Confirming
    <2>7. purger'[d].ids \cap (Kept' \cup erased') = {}
      BY <1>4, <2>2, <2>3, <2>6 DEF GoesOn
    <2>8. ASSUME NEW e \in Purgers \ {d}, purger'[e].kind \in {"erase", "save"}
          PROVE  purger'[d].ids \cap purger'[e].ids = {}
      <3>1. purger[e].kind = purger'[e].kind /\ purger[e].ids = purger'[e].ids
        BY <1>1, <2>8 DEF GoesOn
      <3> QED
        BY <2>2, <2>3, <2>8, <3>1
    <2> QED
      BY <2>7, <2>8
  <1>6. ErasedInv'
    <2> SUFFICES ASSUME ~dataLost', ~cut'
                 PROVE  /\ erased' \cap Kept' = {}
                        /\ \A d \in Purgers : Erasing(purger'[d], log', Files', saved')
      BY DEF ErasedInv
    <2>0. ~dataLost /\ ~cut
      BY <1>4 DEF GoesOn
    <2>1. /\ erased \cap Kept = {}
          /\ \A d \in Purgers : Erasing(purger[d], log, FilesIn(convs), saved)
      BY <2>0, KeptIs DEF EInv, ErasedInv
    <2>2. erased \cap Adding(c) = {}
      BY <2>0 DEF EInv, FreshInv, Adding
    <2>3. Confirming(c) \cap (Kept \cup Adding(c)) = {}
      BY <2>1, KeptIs DEF Confirming, Adding, Erasing, EInv, OwnInv, Mine, PAt
    <2>4. erased' \cap Kept' = {}
      BY <1>4, <2>1, <2>2, <2>3 DEF GoesOn
    <2>5. ASSUME NEW d \in Purgers \ {c} PROVE Erasing(purger'[d], log', FilesIn(convs'), saved')
      <3>1. purger[d].kind = "erase" => purger[d].ids \cap Adding(c) = {}
        BY <2>0 DEF EInv, FreshInv, Adding
      <3>2. Erasing(purger[d], log', FilesIn(convs'), saved')
        BY <1>4, <2>1, <3>1, ErasingStays
      <3> QED
        BY <1>1, <3>2
    <2>6. Erasing(purger'[c], log', FilesIn(convs'), saved')
      BY <1>1 DEF GoesOn
    <2>7. Files' = FilesIn(convs')
      BY DEF Files, FilesIn
    <2> QED
      BY <2>4, <2>5, <2>6, <2>7
  <1> QED
    BY <1>2, <1>3, <1>5, <1>6 DEF EInv

\* A call that begins, about records that are on file; it writes nothing.
Begins(c, s) ==
    /\ PMove(c, s) /\ UNCHANGED <<clock, hold, stores, erasureHistory>>
    /\ s \in PurgerType /\ Reads(s) /\ Mine(s, owner)
    /\ s.pc # "add" /\ s.kind # "save"
    /\ s.kind = "erase" => s.pc = "log" /\ s.ids \subseteq Kept

LEMMA BeginsHolds ==
    ASSUME EInv, NEW c \in Purgers, NEW s, Begins(c, s)
    PROVE  EInv'
  <1>1. /\ purger'[c] = s
        /\ \A d \in Purgers \ {c} : purger'[d] = purger[d]
        /\ purger' \in [Purgers -> PurgerType]
        /\ \A d \in Purgers : Reads(purger'[d])
    BY OneMoves DEF EInv, Begins
  <1>2. UNCHANGED <<clock, hold, log, stamp, convs, saved, owner, erased, owed, held, cut, dataLost>>
    BY DEF Begins, stores, erasureHistory
  <1>3. TypesInv'
    BY <1>1, <1>2 DEF EInv, TypesInv
  <1>4. Kept' = Kept /\ Files' = Files
    BY <1>2 DEF Kept, Files
  <1>5. OwnInv'
    BY <1>1, <1>2, <1>4 DEF EInv, OwnInv, Begins
  <1>6. OwedInv'
    BY <1>2, <1>4 DEF EInv, OwedInv
  <1>7. FreshInv'
    <2> SUFFICES ASSUME ~dataLost', NEW d \in Purgers, PAt(d, "add")'
                 PROVE  /\ purger'[d].ids \cap (Kept \cup erased)' = {}
                        /\ \A e \in Purgers \ {d} :
                              purger'[e].kind \in {"erase", "save"} => purger'[d].ids \cap purger'[e].ids = {}
      BY DEF FreshInv
    <2>1. d # c /\ PAt(d, "add") /\ purger'[d] = purger[d] /\ ~dataLost
      BY <1>1, <1>2 DEF Begins, PAt
    <2>2. purger[d].ids \cap (Kept \cup erased) = {}
      BY <2>1 DEF EInv, FreshInv
    <2>3. ASSUME NEW e \in Purgers \ {d}, purger'[e].kind \in {"erase", "save"}
          PROVE  purger'[d].ids \cap purger'[e].ids = {}
      <3>1. CASE e = c
        BY <1>1, <2>1, <2>2, <2>3, <3>1 DEF Begins
      <3>2. CASE e # c
        BY <1>1, <2>1, <2>3, <3>2 DEF EInv, FreshInv
      <3> QED
        BY <3>1, <3>2
    <2> QED
      BY <1>2, <1>4, <2>1, <2>2, <2>3
  <1>8. ErasedInv'
    <2>1. Erasing(s, log, Files, saved)
      BY DEF Begins, Erasing
    <2> QED
      BY <1>1, <1>2, <1>4, <2>1 DEF EInv, ErasedInv
  <1> QED
    BY <1>3, <1>5, <1>6, <1>7, <1>8 DEF EInv

-----------------------------------------------------------------------------
(* Use of the records                                                      *)

\* A record is made, by nobody's call: its id had no owner.
LEMMA NewRecord ==
    ASSUME EInv, NEW u \in Users, NEW id \in Ids, owner[id] = Nil,
           owner' = [owner EXCEPT ![id] = u], purger' = purger,
           UNCHANGED <<erased, cut, dataLost>>, owed' = owed \cup {id}, TypesInv',
           log' \subseteq log \cup {id}, FilesIn(convs') \subseteq FilesIn(convs) \cup {id},
           saved' \subseteq saved \cup {id}, Kept' = Kept \cup {id}
    PROVE  EInv'
  <1>1. owner'[id] = u /\ u # Nil /\ OwnsMore(owner, owner')
    BY ErasureConstants DEF OwnsMore, EInv, TypesInv
  <1>2. OwnedIn(owner) \subseteq OwnedIn(owner') /\ id \in OwnedIn(owner') /\ id \notin OwnedIn(owner)
    BY <1>1 DEF OwnedIn, OwnsMore
  <1>3. OwnInv'
    <2>1. \A c \in Purgers : Mine(purger'[c], owner')
      BY <1>1, MineStays DEF EInv, OwnInv
    <2> QED
      BY <1>2, <2>1 DEF EInv, OwnInv
  <1>4. OwedInv'
    BY DEF EInv, OwedInv
  <1>5. \A c \in Purgers : purger[c].kind # "none" => id \notin purger[c].ids
    BY ErasureConstants DEF EInv, OwnInv, Mine, Its
  <1>6. id \notin erased
    BY <1>2 DEF EInv, OwnInv
  <1>7. FreshInv'
    BY <1>5 DEF EInv, OwnInv, Mine, FreshInv, PAt
  <1>8. ErasedInv'
    <2>1. ASSUME ~dataLost, ~cut, NEW c \in Purgers
          PROVE  Erasing(purger[c], log', FilesIn(convs'), saved')
      <3>1. Erasing(purger[c], log, FilesIn(convs), saved)
        BY <2>1, KeptIs DEF EInv, ErasedInv
      <3>2. purger[c].kind = "erase" => id \notin purger[c].ids
        BY <1>5
      <3> QED
        BY <3>1, <3>2, ErasingStays
    <2>2. Files' = FilesIn(convs')
      BY DEF Files, FilesIn
    <2> QED
      BY <1>6, <2>1, <2>2 DEF EInv, ErasedInv
  <1> QED
    BY <1>3, <1>4, <1>7, <1>8 DEF EInv

LEMMA RecordHistoryHolds ==
    ASSUME EInv, NEW u \in Users, NEW l \in Lines, RecordHistory(u, l)
    PROVE  EInv'
  <1>1. /\ owner[l] = Nil /\ owner' = [owner EXCEPT ![l] = u]
        /\ log' = log \cup {l} /\ stamp' = [stamp EXCEPT ![l] = clock]
        /\ owed' = owed \cup {l}
        /\ UNCHANGED <<clock, hold, convs, saved, purger, erased, held, cut, dataLost>>
    BY DEF RecordHistory
  <1>2. l \in Ids
    BY ErasureConstants
  <1>3. TypesInv'
    BY <1>1, <1>2 DEF EInv, TypesInv
  <1>4. Kept' = Kept \cup {l}
    BY <1>1 DEF Kept, Files
  <1>5. /\ log' \subseteq log \cup {l} /\ FilesIn(convs') \subseteq FilesIn(convs) \cup {l}
        /\ saved' \subseteq saved \cup {l}
    BY <1>1
  <1> QED
    BY <1>1, <1>2, <1>3, <1>4, <1>5, NewRecord

LEMMA CreateConversationHolds ==
    ASSUME EInv, NEW u \in Users, NEW k \in Convs, CreateConversation(u, k)
    PROVE  EInv'
  <1> DEFINE new == [updated |-> clock, archived |-> FALSE]
  <1>1. /\ owner[k] = Nil /\ owner' = [owner EXCEPT ![k] = u]
        /\ convs' = [convs EXCEPT ![k] = new]
        /\ owed' = owed \cup {k}
        /\ UNCHANGED <<clock, hold, log, stamp, saved, purger, erased, held, cut, dataLost>>
    BY DEF CreateConversation
  <1>2. k \in Ids
    BY ErasureConstants
  <1>3. new \in ConvType
    BY DEF EInv, TypesInv, ConvType
  <1> HIDE DEF new
  <1>4. new # Nil
    BY <1>3, ErasureConstants
  <1>5. TypesInv'
    BY <1>1, <1>2, <1>3 DEF EInv, TypesInv
  <1>6. FilesIn(convs') = FilesIn(convs) \cup {k}
    BY <1>1, <1>4 DEF EInv, TypesInv, FilesIn
  <1>7. Kept' = Kept \cup {k}
    BY <1>1, <1>6 DEF Kept, Files, FilesIn
  <1>8. log' \subseteq log \cup {k} /\ saved' \subseteq saved \cup {k}
    BY <1>1
  <1> QED
    BY <1>1, <1>2, <1>5, <1>6, <1>7, <1>8, NewRecord

LEMMA LoadConversationHolds ==
    ASSUME EInv, NEW c \in Purgers, NEW k \in Convs, NEW kind \in {"turn", "archive"},
           LoadConversation(c, k, kind)
    PROVE  EInv'
  <1> DEFINE s == Purger("edit", kind, owner[k], {k}, 0, convs[k], {})
  <1>1. /\ PMove(c, s) /\ UNCHANGED <<clock, hold, stores, erasureHistory>> /\ convs[k] # Nil
    BY DEF LoadConversation
  <1>2. k \in Ids /\ k \in Kept
    BY <1>1, ErasureConstants DEF Kept, Files
  <1>3. owner[k] \in Users /\ convs[k] \in ConvType
    BY <1>1, <1>2 DEF EInv, TypesInv, OwnInv, OwnedIn
  <1>4. /\ s.pc = "edit" /\ s.kind = kind /\ s.user = owner[k] /\ s.ids = {k} /\ s.seen = convs[k] /\ s.todo = {}
    BY PurgerIs
  <1>5. s \in PurgerType
    <2>1. {k} \in SUBSET Ids /\ {} \in SUBSET Ids /\ convs[k] \in SeenType /\ owner[k] \in Users \cup {Nil}
      BY <1>2, <1>3 DEF SeenType
    <2>2. 0 \in 0..Never
      BY ErasureConstants
    <2> QED
      BY <2>1, <2>2 DEF Purger, PurgerType
  <1> HIDE DEF s
  <1>6. Reads(s) /\ Mine(s, owner)
    BY <1>2, <1>3, <1>4 DEF Reads, Mine, Its
  <1> QED
    BY <1>1, <1>4, <1>5, <1>6, BeginsHolds DEF Begins

\* The file is as it was loaded, or a change is lost.
LEMMA WriteConversationHolds ==
    ASSUME EInv, NEW c \in Purgers, WriteConversation(c)
    PROVE  EInv'
  <1> DEFINE new == IF purger[c].kind = "turn"
                    THEN [updated |-> clock, archived |-> purger[c].seen.archived]
                    ELSE [updated |-> purger[c].seen.updated, archived |-> ~purger[c].seen.archived]
  <1>1. PICK k \in purger[c].ids :
           /\ convs' = [convs EXCEPT ![k] = new]
           /\ dataLost' = (dataLost \/ convs[k] # purger[c].seen)
    BY DEF WriteConversation
  <1>2. /\ PAt(c, "edit") /\ PMove(c, NoPurger)
        /\ UNCHANGED <<clock, hold, log, stamp, saved, owner, erased, owed, held, cut>>
    BY DEF WriteConversation
  <1>3. k \in Convs /\ purger[c].seen \in ConvType /\ k \in OwnedIn(owner)
    BY <1>2, ErasureConstants DEF EInv, TypesInv, Reads, OwnInv, Mine, Its, OwnedIn, PAt
  <1>4. new \in ConvType
    BY <1>3 DEF EInv, TypesInv, ConvType
  <1> HIDE DEF new
  <1>5. new # Nil /\ purger[c].seen # Nil
    BY <1>3, <1>4, ErasureConstants
  <1>6. FilesIn(convs') = FilesIn(convs) \cup {k}
    BY <1>1, <1>3, <1>5 DEF EInv, TypesInv, FilesIn
  <1>7. ~dataLost' => k \in FilesIn(convs)
    BY <1>1, <1>3, <1>5 DEF FilesIn
  <1>8. Kept' = Kept \cup {k}
    BY <1>2, <1>6 DEF Kept, Files, FilesIn
  <1>9. TypesInv'
    <2>1. convs' \in [Convs -> ConvType \cup {Nil}] /\ dataLost' \in BOOLEAN
      BY <1>1, <1>4 DEF EInv, TypesInv
    <2>2. purger' \in [Purgers -> PurgerType] /\ \A d \in Purgers : Reads(purger'[d])
      BY <1>2, NoPurgerIs, OneMoves DEF EInv
    <2> QED
      BY <1>2, <2>1, <2>2 DEF EInv, TypesInv
  <1>10. GoesOn(c, NoPurger)
    <2>1. ~dataLost' => owed' \subseteq Kept'
      BY <1>1, <1>2, <1>8 DEF EInv, OwedInv
    <2>2. Kept' \subseteq OwnedIn(owner)
      BY <1>3, <1>8 DEF EInv, OwnInv
    <2>3. ~dataLost' => FilesIn(convs') \subseteq FilesIn(convs)
      BY <1>6, <1>7
    <2> QED
      BY <1>1, <1>2, <2>1, <2>2, <2>3, NoPurgerIs DEF GoesOn
  <1> QED
    BY <1>9, <1>10, GoesOnHolds

LEMMA AddSavedHolds ==
    ASSUME EInv, NEW c \in Purgers, NEW u \in Users, NEW q \in Rows, AddSaved(c, u, q)
    PROVE  EInv'
  <1> DEFINE s == Purger("add", "save", u, {q}, 0, saved, {})
  <1>1. /\ PMove(c, s) /\ owner[q] = Nil /\ owner' = [owner EXCEPT ![q] = u]
        /\ UNCHANGED <<clock, hold, log, stamp, convs, saved, erased, owed, held, cut, dataLost>>
    BY DEF AddSaved, erasureHistory
  <1>2. q \in Ids
    BY ErasureConstants
  <1>3. owner'[q] = u /\ u # Nil /\ OwnsMore(owner, owner')
    BY <1>1, <1>2, ErasureConstants DEF OwnsMore, EInv, TypesInv
  <1>4. OwnedIn(owner) \subseteq OwnedIn(owner') /\ q \notin OwnedIn(owner)
    BY <1>1, <1>3 DEF OwnedIn, OwnsMore
  <1>5. /\ s.pc = "add" /\ s.kind = "save" /\ s.user = u /\ s.ids = {q} /\ s.seen = saved /\ s.todo = {}
    BY PurgerIs
  <1>6. s \in PurgerType
    <2>1. saved \in SeenType
      BY ErasureConstants DEF EInv, TypesInv, SeenType
    <2> QED
      BY <1>2, <2>1, ErasureConstants DEF Purger, PurgerType
  <1> HIDE DEF s
  <1>7. Reads(s)
    BY <1>5 DEF Reads, EInv, TypesInv
  <1>8. Mine(s, owner')
    <2>1. saved \subseteq OwnedIn(owner')
      BY <1>4 DEF EInv, OwnInv, Kept
    <2>2. q \in Its(owner', u)
      BY <1>2, <1>3 DEF Its
    <2> QED
      BY <1>5, <2>1, <2>2 DEF Mine
  <1>9. /\ purger'[c] = s
        /\ \A d \in Purgers \ {c} : purger'[d] = purger[d]
        /\ purger' \in [Purgers -> PurgerType] /\ \A d \in Purgers : Reads(purger'[d])
    BY <1>1, <1>6, <1>7, OneMoves DEF EInv
  <1>10. TypesInv'
    BY <1>1, <1>9 DEF EInv, TypesInv
  <1>11. Kept' = Kept /\ Files' = Files
    BY <1>1 DEF Kept, Files
  <1>12. OwnInv'
    <2>1. \A d \in Purgers \ {c} : Mine(purger'[d], owner')
      BY <1>3, <1>9, MineStays DEF EInv, OwnInv
    <2>2. \A d \in Purgers : Mine(purger'[d], owner')
      BY <1>8, <1>9, <2>1
    <2> QED
      BY <1>1, <1>4, <1>11, <2>2 DEF EInv, OwnInv
  <1>13. OwedInv'
    BY <1>1, <1>11 DEF EInv, OwedInv
  <1>14. \A d \in Purgers : purger[d].kind \in {"erase", "save"} => q \notin purger[d].ids
    BY <1>4, ErasureConstants DEF EInv, OwnInv, Mine, Its, OwnedIn
  <1>15. FreshInv'
    <2> SUFFICES ASSUME ~dataLost', NEW d \in Purgers, PAt(d, "add")'
                 PROVE  /\ purger'[d].ids \cap (Kept \cup erased)' = {}
                        /\ \A e \in Purgers \ {d} :
                              purger'[e].kind \in {"erase", "save"} => purger'[d].ids \cap purger'[e].ids = {}
      BY DEF FreshInv
    <2>1. CASE d = c
      <3>1. q \notin Kept /\ q \notin erased
        BY <1>4 DEF EInv, OwnInv
      <3> QED
        BY <1>1, <1>5, <1>9, <1>11, <1>14, <2>1, <3>1
    <2>2. CASE d # c
      <3>1. PAt(d, "add") /\ purger'[d] = purger[d] /\ ~dataLost
        BY <1>1, <1>9, <2>2 DEF PAt
      <3>2. purger[d].kind = "save"
        BY <3>1 DEF EInv, OwnInv, Mine, PAt
      <3>3. q \notin purger[d].ids
        BY <1>14, <3>2
      <3> QED
        BY <1>1, <1>5, <1>9, <1>11, <3>1, <3>3 DEF EInv, FreshInv
    <2> QED
      BY <2>1, <2>2
  <1>16. ErasedInv'
    <2>1. Erasing(s, log, Files, saved)
      BY <1>5 DEF Erasing
    <2> QED
      BY <1>1, <1>9, <1>11, <2>1 DEF EInv, ErasedInv
  <1> QED
    BY <1>10, <1>12, <1>13, <1>15, <1>16 DEF EInv

LEMMA WriteSavedHolds ==
    ASSUME EInv, NEW c \in Purgers, WriteSaved(c)
    PROVE  EInv'
  <1>1. /\ PAt(c, "add") /\ PMove(c, NoPurger)
        /\ saved' = purger[c].seen \cup purger[c].ids
        /\ owed' = owed \cup purger[c].ids
        /\ dataLost' = (dataLost \/ saved # purger[c].seen)
        /\ UNCHANGED <<clock, hold, log, stamp, convs, owner, erased, held, cut>>
    BY DEF WriteSaved
  <1>2. /\ purger[c].ids \subseteq Rows /\ purger[c].seen \subseteq Rows
        /\ purger[c].ids \subseteq OwnedIn(owner) /\ purger[c].seen \subseteq OwnedIn(owner)
    BY <1>1, ErasureConstants DEF EInv, TypesInv, Reads, OwnInv, Mine, Its, OwnedIn, PAt
  <1>3. TypesInv'
    <2>1. saved' \subseteq Rows /\ owed' \subseteq Ids /\ dataLost' \in BOOLEAN
      BY <1>1, <1>2, ErasureConstants DEF EInv, TypesInv
    <2>2. purger' \in [Purgers -> PurgerType] /\ \A d \in Purgers : Reads(purger'[d])
      BY <1>1, NoPurgerIs, OneMoves DEF EInv
    <2> QED
      BY <1>1, <2>1, <2>2 DEF EInv, TypesInv
  <1>4. Kept' = log \cup FilesIn(convs) \cup saved' /\ Kept = log \cup FilesIn(convs) \cup saved
    BY <1>1 DEF Kept, Files, FilesIn
  <1>5. Kept' \subseteq OwnedIn(owner)
    BY <1>1, <1>2, <1>4 DEF EInv, OwnInv
  <1>6. ~dataLost' => owed' \subseteq Kept' /\ saved' \subseteq saved \cup Adding(c)
    BY <1>1, <1>4 DEF EInv, OwedInv, Adding
  <1>7. GoesOn(c, NoPurger)
    BY <1>1, <1>5, <1>6, NoPurgerIs DEF GoesOn
  <1> QED
    BY <1>3, <1>7, GoesOnHolds

-----------------------------------------------------------------------------
(* Deletions                                                               *)

LEMMA StartHolds ==
    ASSUME EInv, NEW c \in Purgers, NEW u \in Users, NEW kind \in {"erase", "sweep", "prune", "item"},
           NEW ids, ids \subseteq Its(owner, u), NEW before \in 0..Never,
           kind = "erase" => ids \subseteq Kept,
           Start(c, "log", kind, u, ids, before), UNCHANGED <<clock, hold, stores, erasureHistory>>
    PROVE  EInv'
  <1> DEFINE s == Purger("log", kind, u, ids, before, Nil, {})
  <1>1. PMove(c, s)
    BY DEF Start
  <1>2. s.pc = "log" /\ s.kind = kind /\ s.user = u /\ s.ids = ids /\ s.todo = {}
    BY PurgerIs
  <1>3. s \in PurgerType
    <2>1. ids \in SUBSET Ids /\ {} \in SUBSET Ids /\ Nil \in SeenType /\ u \in Users \cup {Nil}
      BY DEF Its, SeenType
    <2>2. kind \in {"none", "turn", "archive", "save", "item"} \cup Bulk
      BY DEF Bulk
    <2> QED
      BY <2>1, <2>2 DEF Purger, PurgerType
  <1> HIDE DEF s
  <1>4. Reads(s) /\ Mine(s, owner)
    BY <1>2 DEF Reads, Mine
  <1> QED
    BY <1>1, <1>2, <1>3, <1>4, BeginsHolds DEF Begins

LEMMA StartsHold ==
    ASSUME EInv, NEW c \in Purgers, NEW u \in Users,
           StartErase(c, u) \/ StartSweep(c, u) \/ \E before \in 0..Never : StartPrune(c, u, before)
    PROVE  EInv'
  <1>0. {} \subseteq Its(owner, u)
    OBVIOUS
  <1>1. CASE StartErase(c, u)
    <2>1. Kept \cap Of(u) \subseteq Its(owner, u) /\ Kept \cap Of(u) \subseteq Kept
      BY DEF Of, Its
    <2> QED
      BY <1>1, <2>1, ErasureConstants, StartHolds DEF StartErase
  <1>2. CASE StartSweep(c, u)
    <2>1. clock - RetentionAge \in 0..Never
      BY <1>2, ErasureConstants DEF StartSweep, EInv, TypesInv, Never
    <2> QED
      BY <1>0, <1>2, <2>1, StartHolds DEF StartSweep
  <1>3. ASSUME NEW before \in 0..Never, StartPrune(c, u, before) PROVE EInv'
    BY <1>0, <1>3, StartHolds DEF StartPrune
  <1> QED
    BY <1>1, <1>2, <1>3

\* A call about one record, that is on file.
LEMMA ItemsHold ==
    ASSUME EInv, NEW c \in Purgers,
           \/ \E l \in Lines : DeleteHistoryItem(c, l)
           \/ \E k \in Convs : DeleteConversation(c, k)
           \/ \E q \in Rows : RemoveSaved(c, q)
    PROVE  EInv'
  <1>0. ASSUME NEW id \in Kept
        PROVE  id \in Ids /\ owner[id] \in Users /\ {id} \subseteq Its(owner, owner[id])
    BY <1>0 DEF EInv, TypesInv, OwnInv, OwnedIn, Its
  <1>1. ASSUME NEW l \in Lines, DeleteHistoryItem(c, l) PROVE EInv'
    <2>1. l \in Kept
      BY <1>1 DEF DeleteHistoryItem, Kept
    <2>2. owner[l] \in Users /\ {l} \subseteq Its(owner, owner[l])
      BY <1>0, <2>1
    <2> QED
      BY <1>1, <2>2, ErasureConstants, StartHolds DEF DeleteHistoryItem
  <1>2. ASSUME NEW k \in Convs, DeleteConversation(c, k) PROVE EInv'
    <2> DEFINE s == Purger("unlink", "item", owner[k], {k}, 0, Nil, {})
    <2>1. PMove(c, s) /\ UNCHANGED <<clock, hold, stores, erasureHistory>> /\ k \in Kept
      BY <1>2 DEF DeleteConversation, Kept, Files
    <2>2. k \in Ids /\ owner[k] \in Users /\ {k} \subseteq Its(owner, owner[k])
      BY <1>0, <2>1
    <2>3. s.pc = "unlink" /\ s.kind = "item" /\ s.user = owner[k] /\ s.ids = {k} /\ s.todo = {}
      BY PurgerIs
    <2>4. s \in PurgerType
      <3>1. {k} \in SUBSET Ids /\ {} \in SUBSET Ids /\ Nil \in SeenType /\ owner[k] \in Users \cup {Nil}
        BY <2>2 DEF SeenType
      <3>2. 0 \in 0..Never
        BY ErasureConstants
      <3> QED
        BY <3>1, <3>2 DEF Purger, PurgerType
    <2> HIDE DEF s
    <2>5. Reads(s) /\ Mine(s, owner)
      BY <2>2, <2>3 DEF Reads, Mine
    <2> QED
      BY <2>1, <2>3, <2>4, <2>5, BeginsHolds DEF Begins
  <1>3. ASSUME NEW q \in Rows, RemoveSaved(c, q) PROVE EInv'
    <2> DEFINE s == Purger("rewrite", "item", owner[q], {q}, 0, saved, {})
    <2>1. PMove(c, s) /\ UNCHANGED <<clock, hold, stores, erasureHistory>> /\ q \in Kept
      BY <1>3 DEF RemoveSaved, Kept
    <2>2. q \in Ids /\ owner[q] \in Users /\ {q} \subseteq Its(owner, owner[q])
      BY <1>0, <2>1
    <2>3. s.pc = "rewrite" /\ s.kind = "item" /\ s.user = owner[q] /\ s.ids = {q} /\ s.seen = saved /\ s.todo = {}
      BY PurgerIs
    <2>4. s \in PurgerType
      <3>1. {q} \in SUBSET Ids /\ {} \in SUBSET Ids /\ owner[q] \in Users \cup {Nil}
        BY <2>2
      <3>2. saved \in SeenType
        BY ErasureConstants DEF EInv, TypesInv, SeenType
      <3>3. 0 \in 0..Never
        BY ErasureConstants
      <3> QED
        BY <3>1, <3>2, <3>3 DEF Purger, PurgerType
    <2> HIDE DEF s
    <2>5. saved \subseteq Rows /\ saved \subseteq OwnedIn(owner)
      BY DEF EInv, TypesInv, OwnInv, Kept
    <2>6. Reads(s) /\ Mine(s, owner)
      BY <2>2, <2>3, <2>5 DEF Reads, Mine
    <2> QED
      BY <2>1, <2>3, <2>4, <2>6, BeginsHolds DEF Begins
  <1> QED
    BY <1>1, <1>2, <1>3

\* The call at hand.
LEMMA ItsCall ==
    ASSUME EInv, NEW c \in Purgers
    PROVE  /\ purger[c] \in PurgerType /\ Mine(purger[c], owner) /\ Reads(purger[c])
           /\ ~dataLost /\ ~cut => Erasing(purger[c], log, FilesIn(convs), saved)
           /\ Of(purger[c].user) = Its(owner, purger[c].user)
  BY KeptIs DEF EInv, TypesInv, OwnInv, ErasedInv, Of, Its

\* A call moves on, and only looks.
LEMMA LooksOn ==
    ASSUME EInv, NEW c \in Purgers, NEW s, PMove(c, s), s \in PurgerType, Reads(s), Mine(s, owner),
           UNCHANGED <<clock, hold, stores, erasureHistory>>, s.pc # "add",
           s.kind \in {"erase", "save"} => s.kind = purger[c].kind /\ s.ids = purger[c].ids,
           ~dataLost /\ ~cut => Erasing(s, log, FilesIn(convs), saved)
    PROVE  EInv'
  <1>1. UNCHANGED <<clock, hold, log, stamp, convs, saved, owner, erased, owed, held, cut, dataLost>>
    BY DEF stores, erasureHistory
  <1>2. TypesInv'
    BY <1>1, OneMoves DEF EInv, TypesInv
  <1>3. Kept' = Kept
    BY <1>1 DEF Kept, Files
  <1>4. GoesOn(c, s)
    BY <1>1, <1>3 DEF GoesOn, EInv, OwnInv, OwedInv
  <1> QED
    BY <1>2, <1>4, GoesOnHolds

\* What To makes of a call.
LEMMA ToIs ==
    ASSUME EInv, NEW c \in Purgers, NEW pc, NEW seen \in SeenType, NEW todo \in SUBSET Ids,
           pc \in {"relog", "list", "visit", "unlink", "rows", "rewrite", "answer"}, To(c, pc, seen, todo)
    PROVE  \E s \in PurgerType :
             /\ PMove(c, s)
             /\ s.pc = pc /\ s.kind = purger[c].kind /\ s.user = purger[c].user /\ s.ids = purger[c].ids
             /\ s.seen = seen /\ s.todo = todo
  <1> DEFINE p == purger[c]
             s == Purger(pc, p.kind, p.user, p.ids, p.before, seen, todo)
  <1>1. PMove(c, s)
    BY DEF To
  <1>2. s \in PurgerType
    BY ItsCall, PurgerTyped
  <1>3. s.pc = pc /\ s.kind = p.kind /\ s.user = p.user /\ s.ids = p.ids /\ s.seen = seen /\ s.todo = todo
    BY PurgerIs
  <1> QED
    BY <1>1, <1>2, <1>3

\* Stopping leaves nothing to know.
LEMMA StopsHere ==
    ASSUME EInv, NEW c \in Purgers, PMove(c, NoPurger), UNCHANGED <<clock, hold, stores, erasureHistory>>
    PROVE  EInv'
  BY NoPurgerIs, LooksOn

\* What a deletion takes from the history is of the user whose call it is.
LEMMA DoomedIs ==
    ASSUME NEW kind, NEW u, NEW ids, NEW before
    PROVE  /\ Doomed(kind, u, ids, before) \subseteq log \cap Of(u)
           /\ kind = "erase" => Doomed(kind, u, ids, before) = log \cap Of(u)
  BY DEF Doomed

LEMMA ReadLogHolds ==
    ASSUME EInv, NEW c \in Purgers, ReadLog(c)
    PROVE  EInv'
  <1> DEFINE p == purger[c]
             gone == Doomed(p.kind, p.user, p.ids, p.before)
  <1>1. PAt(c, "log") /\ UNCHANGED <<clock, hold, stores, erasureHistory>>
    BY DEF ReadLog
  <1>2. /\ p.kind \in {"erase", "sweep", "prune", "item"} /\ p.user \in Users
        /\ p.ids \subseteq Of(p.user)
        /\ p.todo \subseteq Of(p.user)
    BY <1>1, ItsCall DEF Mine, PAt
  <1>3. gone \subseteq log \cap Of(p.user) /\ (p.kind = "erase" => gone = log \cap Of(p.user))
    BY DoomedIs
  <1>4. log \subseteq Ids /\ log \subseteq OwnedIn(owner) /\ log \subseteq Lines
    BY ErasureConstants DEF EInv, TypesInv, OwnInv, Kept
  <1>5. CASE gone = {}
    <2>1. GoOn(c, AfterLog(c))
      BY <1>5 DEF ReadLog
    <2>2. CASE AfterLog(c) = "idle"
      BY <1>1, <2>1, <2>2, StopsHere DEF GoOn
    <2>3. CASE AfterLog(c) = "list" /\ p.kind \in {"erase", "sweep"}
      <3>1. To(c, "list", Nil, {})
        BY <2>1, <2>3 DEF GoOn
      <3>2. Nil \in SeenType /\ {} \in SUBSET Ids
        BY DEF SeenType
      <3>3. PICK s \in PurgerType :
               /\ PMove(c, s)
               /\ s.pc = "list" /\ s.kind = p.kind /\ s.user = p.user /\ s.ids = p.ids
               /\ s.seen = Nil /\ s.todo = {}
        BY <3>1, <3>2, ToIs
      <3>4. Reads(s) /\ Mine(s, owner)
        BY <1>2, <2>3, <3>3, ItsCall DEF Reads, Mine
      <3>5. Erasing(s, log, FilesIn(convs), saved)
        BY <1>2, <1>3, <1>5, <3>3 DEF Erasing
      <3> QED
        BY <1>1, <3>3, <3>4, <3>5, LooksOn
    <2> QED
      BY <2>2, <2>3 DEF AfterLog
  <1>6. CASE gone # {}
    <2>1. To(c, "relog", log, gone)
      BY <1>6 DEF ReadLog
    <2>2. log \in SeenType /\ gone \in SUBSET Ids
      BY <1>3, <1>4 DEF SeenType
    <2> HIDE DEF gone
    <2>3. PICK s \in PurgerType :
             /\ PMove(c, s)
             /\ s.pc = "relog" /\ s.kind = p.kind /\ s.user = p.user /\ s.ids = p.ids
             /\ s.seen = log /\ s.todo = gone
      BY <2>1, <2>2, ToIs
    <2>4. Reads(s) /\ Mine(s, owner)
      BY <1>2, <1>3, <1>4, <2>3, ItsCall DEF Reads, Mine
    <2>5. Erasing(s, log, FilesIn(convs), saved)
      BY <1>2, <1>3, <2>3 DEF Erasing
    <2> QED
      BY <1>1, <2>3, <2>4, <2>5, LooksOn
  <1> QED
    BY <1>5, <1>6

\* The records a call takes are its user's: nobody else's are missed.
LEMMA TakesHolds ==
    ASSUME EInv, NEW c \in Purgers, NEW gone, gone \subseteq Ids, Takes(c, gone)
    PROVE  /\ owed' \subseteq Ids /\ held' \subseteq Ids
           /\ ~dataLost /\ gone \subseteq Of(purger[c].user) => owed' \subseteq Kept \ gone
  BY DEF Takes, EInv, TypesInv, OwedInv

LEMMA WriteLogHolds ==
    ASSUME EInv, NEW c \in Purgers, WriteLog(c)
    PROVE  EInv'
  <1> DEFINE p == purger[c]
  <1>1. /\ PAt(c, "relog") /\ log' = p.seen \ p.todo
        /\ dataLost' = (dataLost \/ log # p.seen)
        /\ Takes(c, log \ log') /\ GoOn(c, AfterLog(c))
        /\ UNCHANGED <<clock, hold, stamp, convs, saved, owner, erased, cut>>
    BY DEF WriteLog
  <1>2. /\ p.user \in Users /\ p.ids \subseteq Of(p.user) /\ p.todo \subseteq Of(p.user)
        /\ p.seen \subseteq Lines /\ p.seen \subseteq OwnedIn(owner)
    BY <1>1, ItsCall DEF Mine, Reads, PAt
  <1>3. log' \subseteq Lines /\ log' \subseteq OwnedIn(owner) /\ log \ log' \subseteq Ids
    BY <1>1, <1>2, ErasureConstants DEF EInv, TypesInv
  <1>4. owed' \subseteq Ids /\ held' \subseteq Ids
    BY <1>1, <1>3, TakesHolds
  <1>5. Kept' = log' \cup FilesIn(convs) \cup saved /\ Kept = log \cup FilesIn(convs) \cup saved
    BY <1>1 DEF Kept, Files, FilesIn
  <1>6. Kept' \subseteq OwnedIn(owner)
    BY <1>3, <1>5 DEF EInv, OwnInv
  <1>7. ~dataLost' => ~dataLost /\ log = p.seen /\ log' \subseteq log /\ log \ log' \subseteq Of(p.user)
    BY <1>1, <1>2
  <1>8. ~dataLost' => owed' \subseteq Kept'
    BY <1>1, <1>3, <1>5, <1>7, TakesHolds
  <1>9. \E s \in PurgerType :
           /\ PMove(c, s) /\ Mine(s, owner) /\ Reads(s) /\ s.pc # "add"
           /\ s.kind \in {"erase", "save"} => s.kind = purger[c].kind /\ s.ids = purger[c].ids
           /\ ~dataLost' /\ ~cut' => Erasing(s, log', FilesIn(convs'), saved')
    <2>1. CASE AfterLog(c) = "idle"
      <3>1. PMove(c, NoPurger)
        BY <1>1, <2>1 DEF GoOn
      <3> QED
        BY <3>1, NoPurgerIs
    <2>2. CASE AfterLog(c) = "list" /\ p.kind \in {"erase", "sweep"}
      <3>1. To(c, "list", Nil, {})
        BY <1>1, <2>2 DEF GoOn
      <3>2. Nil \in SeenType /\ {} \in SUBSET Ids
        BY DEF SeenType
      <3>3. PICK s \in PurgerType :
               /\ PMove(c, s)
               /\ s.pc = "list" /\ s.kind = p.kind /\ s.user = p.user /\ s.ids = p.ids
               /\ s.seen = Nil /\ s.todo = {}
        BY <3>1, <3>2, ToIs
      <3>4. Reads(s) /\ Mine(s, owner)
        BY <1>2, <2>2, <3>3, ItsCall DEF Reads, Mine
      <3>5. ASSUME ~dataLost', ~cut' PROVE Erasing(s, log', FilesIn(convs'), saved')
        <4>1. Erasing(p, log, FilesIn(convs), saved)
          BY <1>1, <1>7, <3>5, ItsCall
        <4>2. p.kind = "erase" => p.ids \cap log' = {}
          BY <1>1, <1>7, <3>5, <4>1 DEF Erasing, PAt
        <4> QED
          BY <3>3, <4>2 DEF Erasing
      <3> QED
        BY <3>3, <3>4, <3>5
    <2> QED
      BY <2>1, <2>2 DEF AfterLog
  <1>10. PICK s \in PurgerType :
           /\ PMove(c, s) /\ Mine(s, owner) /\ Reads(s) /\ s.pc # "add"
           /\ s.kind \in {"erase", "save"} => s.kind = purger[c].kind /\ s.ids = purger[c].ids
           /\ ~dataLost' /\ ~cut' => Erasing(s, log', FilesIn(convs'), saved')
    BY <1>9
  <1>11. TypesInv'
    <2>1. purger' \in [Purgers -> PurgerType] /\ \A d \in Purgers : Reads(purger'[d])
      BY <1>10, OneMoves DEF EInv
    <2>2. dataLost' \in BOOLEAN
      BY <1>1 DEF EInv, TypesInv
    <2> QED
      BY <1>1, <1>3, <1>4, <2>1, <2>2 DEF EInv, TypesInv
  <1>12. GoesOn(c, s)
    BY <1>1, <1>6, <1>7, <1>8, <1>10 DEF GoesOn
  <1> QED
    BY <1>11, <1>12, GoesOnHolds

LEMMA ListHolds ==
    ASSUME EInv, NEW c \in Purgers, List(c)
    PROVE  EInv'
  <1> DEFINE p == purger[c]
  <1>1. /\ PAt(c, "list") /\ To(c, "visit", Nil, ToVisit(c))
        /\ UNCHANGED <<clock, hold, stores, erasureHistory>>
    BY DEF List
  <1>2. p.user \in Users /\ p.ids \subseteq Of(p.user) /\ p.kind \in {"erase", "sweep"}
    BY <1>1, ItsCall DEF Mine, PAt
  <1>3. ToVisit(c) \subseteq Of(p.user)
    <2>1. Newest(Unarchived(p.user)) \subseteq Unarchived(p.user)
      BY DEF Newest
    <2>2. Unarchived(p.user) \subseteq Of(p.user)
      BY ErasureConstants DEF Unarchived, Of, Files
    <2> QED
      BY <2>1, <2>2 DEF ToVisit
  <1>4. p.kind = "erase" => p.ids \cap FilesIn(convs) \subseteq ToVisit(c)
    BY <1>2 DEF ToVisit, Files, FilesIn
  <1>5. Nil \in SeenType /\ ToVisit(c) \in SUBSET Ids
    BY <1>3 DEF SeenType, Of
  <1>6. PICK s \in PurgerType :
           /\ PMove(c, s)
           /\ s.pc = "visit" /\ s.kind = p.kind /\ s.user = p.user /\ s.ids = p.ids
           /\ s.seen = Nil /\ s.todo = ToVisit(c)
    BY <1>1, <1>5, ToIs
  <1>7. Reads(s) /\ Mine(s, owner)
    BY <1>2, <1>3, <1>6, ItsCall DEF Reads, Mine
  <1>8. ~dataLost /\ ~cut => Erasing(s, log, FilesIn(convs), saved)
    <2>1. ~dataLost /\ ~cut => Erasing(p, log, FilesIn(convs), saved)
      BY ItsCall
    <2> QED
      BY <1>1, <1>4, <1>6, <2>1 DEF Erasing, PAt
  <1> QED
    BY <1>1, <1>6, <1>7, <1>8, LooksOn

LEMMA VisitHolds ==
    ASSUME EInv, NEW c \in Purgers, Visit(c)
    PROVE  EInv'
  <1> DEFINE p == purger[c]
  <1>1. PAt(c, "visit") /\ UNCHANGED <<clock, hold, stores, erasureHistory>>
    BY DEF Visit
  <1>2. /\ p.user \in Users /\ p.ids \subseteq Of(p.user) /\ p.todo \subseteq Of(p.user)
        /\ p.kind \in {"erase", "sweep"}
    BY <1>1, ItsCall DEF Mine, PAt
  <1>3. ~dataLost /\ ~cut => Erasing(p, log, FilesIn(convs), saved)
    BY ItsCall
  <1>4. Nil \in SeenType /\ {} \in SUBSET Ids
    BY DEF SeenType
  <1>5. CASE p.todo = {} /\ GoOn(c, AfterVisits(c))
    <2>1. CASE p.kind = "sweep"
      BY <1>1, <1>5, <2>1, StopsHere DEF GoOn, AfterVisits
    <2>2. CASE p.kind = "erase"
      <3>1. To(c, "rows", Nil, {})
        BY <1>5, <2>2 DEF GoOn, AfterVisits
      <3>2. PICK s \in PurgerType :
               /\ PMove(c, s)
               /\ s.pc = "rows" /\ s.kind = p.kind /\ s.user = p.user /\ s.ids = p.ids
               /\ s.seen = Nil /\ s.todo = {}
        BY <1>4, <3>1, ToIs
      <3>3. Reads(s) /\ Mine(s, owner)
        BY <1>2, <2>2, <3>2, ItsCall DEF Reads, Mine
      <3>4. ~dataLost /\ ~cut => Erasing(s, log, FilesIn(convs), saved)
        BY <1>1, <1>3, <1>5, <3>2 DEF Erasing, PAt
      <3> QED
        BY <1>1, <3>2, <3>3, <3>4, LooksOn
    <2> QED
      BY <1>2, <2>1, <2>2
  <1>6. ASSUME NEW k \in p.todo, convs[k] = Nil, To(c, "visit", Nil, p.todo \ {k})
        PROVE  EInv'
    <2>1. p.todo \ {k} \in SUBSET Ids
      BY <1>2 DEF Of
    <2>2. PICK s \in PurgerType :
             /\ PMove(c, s)
             /\ s.pc = "visit" /\ s.kind = p.kind /\ s.user = p.user /\ s.ids = p.ids
             /\ s.seen = Nil /\ s.todo = p.todo \ {k}
      BY <1>4, <1>6, <2>1, ToIs
    <2>3. Reads(s) /\ Mine(s, owner)
      BY <1>2, <2>2, ItsCall DEF Reads, Mine
    <2>4. ~dataLost /\ ~cut => Erasing(s, log, FilesIn(convs), saved)
      BY <1>1, <1>3, <1>6, <2>2 DEF Erasing, PAt, FilesIn
    <2> QED
      BY <1>1, <2>2, <2>3, <2>4, LooksOn
  <1>7. ASSUME NEW k \in p.todo, To(c, "unlink", {k}, p.todo \ {k})
        PROVE  EInv'
    <2>1. p.todo \ {k} \in SUBSET Ids /\ {k} \in SeenType
      BY <1>2 DEF Of, SeenType
    <2>2. PICK s \in PurgerType :
             /\ PMove(c, s)
             /\ s.pc = "unlink" /\ s.kind = p.kind /\ s.user = p.user /\ s.ids = p.ids
             /\ s.seen = {k} /\ s.todo = p.todo \ {k}
      BY <1>7, <2>1, ToIs
    <2>3. Reads(s) /\ Mine(s, owner)
      BY <1>2, <2>2, ItsCall DEF Reads, Mine
    <2>4. ~dataLost /\ ~cut => Erasing(s, log, FilesIn(convs), saved)
      BY <1>1, <1>3, <2>2 DEF Erasing, PAt
    <2> QED
      BY <1>1, <2>2, <2>3, <2>4, LooksOn
  <1> QED
    BY <1>5, <1>6, <1>7 DEF Visit

LEMMA UnlinkHolds ==
    ASSUME EInv, NEW c \in Purgers, Unlink(c)
    PROVE  EInv'
  <1> DEFINE p == purger[c]
             target == IF p.kind = "item" THEN p.ids ELSE p.seen
  <1>1. PAt(c, "unlink") /\ UNCHANGED <<clock, hold, log, stamp, saved, owner, erased, dataLost>>
    BY DEF Unlink
  <1>2. /\ p.user \in Users /\ p.ids \subseteq Of(p.user) /\ p.todo \subseteq Of(p.user)
        /\ p.kind \in {"erase", "sweep", "item"} /\ target \subseteq Of(p.user)
    BY <1>1, ItsCall DEF Mine, PAt
  <1>3. p.kind # "item" => target = p.seen
    OBVIOUS
  <1>4. Nil \in SeenType /\ {} \in SUBSET Ids /\ p.todo \in SUBSET Ids /\ target \subseteq Ids
    BY <1>2 DEF SeenType, Of
  <1>5. ~dataLost /\ ~cut => Erasing(p, log, FilesIn(convs), saved)
    BY ItsCall
  <1>6. CASE target \subseteq Files
    <2>1. /\ convs' = [k \in Convs |-> IF k \in target THEN Nil ELSE convs[k]]
          /\ Takes(c, target) /\ cut' = cut
          /\ IF p.kind = "item" THEN PMove(c, NoPurger) ELSE To(c, "visit", Nil, p.todo)
      BY <1>6 DEF Unlink
    <2> HIDE DEF target
    <2>2. convs' \in [Convs -> ConvType \cup {Nil}] /\ FilesIn(convs') = FilesIn(convs) \ target
      BY <2>1 DEF EInv, TypesInv, FilesIn
    <2>3. /\ owed' \subseteq Ids /\ held' \subseteq Ids
          /\ ~dataLost => owed' \subseteq Kept \ target
      BY <1>2, <1>4, <2>1, TakesHolds
    <2>4. Kept' = log \cup (FilesIn(convs) \ target) \cup saved /\ Kept = log \cup FilesIn(convs) \cup saved
      BY <1>1, <2>2, KeptIs DEF Kept, Files, FilesIn
    <2>5. Kept \ target \subseteq Kept' /\ Kept' \subseteq Kept
      BY <2>4
    <2>6. \E s \in PurgerType :
             /\ PMove(c, s) /\ Mine(s, owner) /\ Reads(s) /\ s.pc # "add"
             /\ s.kind \in {"erase", "save"} => s.kind = purger[c].kind /\ s.ids = purger[c].ids
             /\ ~dataLost' /\ ~cut' => Erasing(s, log', FilesIn(convs'), saved')
      <3>1. CASE p.kind = "item"
        BY <2>1, <3>1, NoPurgerIs
      <3>2. CASE p.kind # "item"
        <4>1. PICK s \in PurgerType :
                 /\ PMove(c, s)
                 /\ s.pc = "visit" /\ s.kind = p.kind /\ s.user = p.user /\ s.ids = p.ids
                 /\ s.seen = Nil /\ s.todo = p.todo
          BY <1>4, <2>1, <3>2, ToIs
        <4>2. Reads(s) /\ Mine(s, owner)
          BY <1>2, <3>2, <4>1, ItsCall DEF Reads, Mine
        <4>3. ~dataLost' /\ ~cut' => Erasing(s, log', FilesIn(convs'), saved')
          BY <1>1, <1>3, <1>5, <2>1, <2>2, <3>2, <4>1 DEF Erasing, PAt
        <4> QED
          BY <4>1, <4>2, <4>3
      <3> QED
        BY <3>1, <3>2
    <2>7. PICK s \in PurgerType :
             /\ PMove(c, s) /\ Mine(s, owner) /\ Reads(s) /\ s.pc # "add"
             /\ s.kind \in {"erase", "save"} => s.kind = purger[c].kind /\ s.ids = purger[c].ids
             /\ ~dataLost' /\ ~cut' => Erasing(s, log', FilesIn(convs'), saved')
      BY <2>6
    <2>8. TypesInv'
      <3>1. purger' \in [Purgers -> PurgerType] /\ \A d \in Purgers : Reads(purger'[d])
        BY <2>7, OneMoves DEF EInv
      <3> QED
        BY <1>1, <2>1, <2>2, <2>3, <3>1 DEF EInv, TypesInv
    <2>9. GoesOn(c, s)
      <3>1. Kept' \subseteq OwnedIn(owner)
        BY <2>5 DEF EInv, OwnInv
      <3>2. ~dataLost' => owed' \subseteq Kept'
        BY <1>1, <2>3, <2>5
      <3>3. FilesIn(convs') \subseteq FilesIn(convs)
        BY <2>2
      <3> QED
        BY <1>1, <2>1, <2>7, <3>1, <3>2, <3>3 DEF GoesOn
    <2> QED
      BY <2>8, <2>9, GoesOnHolds
  <1>7. CASE ~(target \subseteq Files)
    <2>1. /\ UNCHANGED <<convs, owed, held>>
          /\ IF p.kind = "erase" THEN cut' = TRUE /\ To(c, "rows", Nil, {})
             ELSE UNCHANGED cut /\ PMove(c, NoPurger)
      BY <1>7 DEF Unlink
    <2> HIDE DEF target
    <2>2. Kept' = Kept
      BY <1>1, <2>1 DEF Kept, Files
    <2>3. \E s \in PurgerType :
             /\ PMove(c, s) /\ Mine(s, owner) /\ Reads(s) /\ s.pc # "add"
             /\ s.kind \in {"erase", "save"} => s.kind = purger[c].kind /\ s.ids = purger[c].ids
             /\ ~dataLost' /\ ~cut' => Erasing(s, log', FilesIn(convs'), saved')
      <3>1. CASE p.kind # "erase"
        BY <2>1, <3>1, NoPurgerIs
      <3>2. CASE p.kind = "erase"
        <4>1. PICK s \in PurgerType :
                 /\ PMove(c, s)
                 /\ s.pc = "rows" /\ s.kind = p.kind /\ s.user = p.user /\ s.ids = p.ids
                 /\ s.seen = Nil /\ s.todo = {}
          BY <1>4, <2>1, <3>2, ToIs
        <4>2. Reads(s) /\ Mine(s, owner)
          BY <1>2, <3>2, <4>1, ItsCall DEF Reads, Mine
        <4>3. cut'
          BY <2>1, <3>2
        <4> QED
          BY <4>1, <4>2, <4>3
      <3> QED
        BY <3>1, <3>2
    <2>4. PICK s \in PurgerType :
             /\ PMove(c, s) /\ Mine(s, owner) /\ Reads(s) /\ s.pc # "add"
             /\ s.kind \in {"erase", "save"} => s.kind = purger[c].kind /\ s.ids = purger[c].ids
             /\ ~dataLost' /\ ~cut' => Erasing(s, log', FilesIn(convs'), saved')
      BY <2>3
    <2>5. cut' \in BOOLEAN /\ (cut => cut')
      BY <2>1 DEF EInv, TypesInv
    <2>6. TypesInv'
      <3>1. purger' \in [Purgers -> PurgerType] /\ \A d \in Purgers : Reads(purger'[d])
        BY <2>4, OneMoves DEF EInv
      <3> QED
        BY <1>1, <2>1, <2>5, <3>1 DEF EInv, TypesInv
    <2>7. GoesOn(c, s)
      <3>1. Kept' \subseteq OwnedIn(owner) /\ (~dataLost' => owed' \subseteq Kept')
        BY <1>1, <2>1, <2>2 DEF EInv, OwnInv, OwedInv
      <3> QED
        BY <1>1, <2>1, <2>4, <2>5, <3>1 DEF GoesOn
    <2> QED
      BY <2>6, <2>7, GoesOnHolds
  <1> QED
    BY <1>6, <1>7

LEMMA ReadSavedHolds ==
    ASSUME EInv, NEW c \in Purgers, ReadSaved(c)
    PROVE  EInv'
  <1> DEFINE p == purger[c]
  <1>1. PAt(c, "rows") /\ UNCHANGED <<clock, hold, stores, erasureHistory>>
    BY DEF ReadSaved
  <1>2. p.user \in Users /\ p.ids \subseteq Of(p.user) /\ p.kind = "erase"
    BY <1>1, ItsCall DEF Mine, PAt
  <1>3. ~dataLost /\ ~cut => Erasing(p, log, FilesIn(convs), saved)
    BY ItsCall
  <1>4. saved \subseteq Rows /\ saved \subseteq OwnedIn(owner) /\ saved \subseteq Ids
    BY ErasureConstants DEF EInv, TypesInv, OwnInv, Kept
  <1>5. Nil \in SeenType /\ {} \in SUBSET Ids /\ saved \in SeenType
    BY <1>4 DEF SeenType
  <1>6. CASE saved \cap Of(p.user) = {} /\ To(c, "answer", Nil, {})
    <2>1. PICK s \in PurgerType :
             /\ PMove(c, s)
             /\ s.pc = "answer" /\ s.kind = p.kind /\ s.user = p.user /\ s.ids = p.ids
             /\ s.seen = Nil /\ s.todo = {}
      BY <1>5, <1>6, ToIs
    <2>2. Reads(s) /\ Mine(s, owner)
      BY <1>2, <2>1, ItsCall DEF Reads, Mine
    <2>3. ~dataLost /\ ~cut => Erasing(s, log, FilesIn(convs), saved)
      BY <1>1, <1>2, <1>3, <1>6, <2>1 DEF Erasing, PAt
    <2> QED
      BY <1>1, <2>1, <2>2, <2>3, LooksOn
  <1>7. CASE To(c, "rewrite", saved, {})
    <2>1. PICK s \in PurgerType :
             /\ PMove(c, s)
             /\ s.pc = "rewrite" /\ s.kind = p.kind /\ s.user = p.user /\ s.ids = p.ids
             /\ s.seen = saved /\ s.todo = {}
      BY <1>5, <1>7, ToIs
    <2>2. Reads(s) /\ Mine(s, owner)
      BY <1>2, <1>4, <2>1, ItsCall DEF Reads, Mine
    <2>3. ~dataLost /\ ~cut => Erasing(s, log, FilesIn(convs), saved)
      BY <1>1, <1>3, <2>1 DEF Erasing, PAt
    <2> QED
      BY <1>1, <2>1, <2>2, <2>3, LooksOn
  <1> QED
    BY <1>6, <1>7 DEF ReadSaved

LEMMA RewriteSavedHolds ==
    ASSUME EInv, NEW c \in Purgers, RewriteSaved(c)
    PROVE  EInv'
  <1> DEFINE p == purger[c]
             gone == IF p.kind = "erase" THEN Of(p.user) ELSE p.ids
  <1>1. /\ PAt(c, "rewrite") /\ saved' = p.seen \ gone
        /\ dataLost' = (dataLost \/ saved # p.seen)
        /\ Takes(c, saved \ saved')
        /\ IF p.kind = "erase" THEN To(c, "answer", Nil, {}) ELSE PMove(c, NoPurger)
        /\ UNCHANGED <<clock, hold, log, stamp, convs, owner, erased, cut>>
    BY DEF RewriteSaved
  <1>2. /\ p.user \in Users /\ p.ids \subseteq Of(p.user) /\ p.todo \subseteq Of(p.user)
        /\ p.seen \subseteq Rows /\ p.seen \subseteq OwnedIn(owner) /\ gone \subseteq Of(p.user)
    BY <1>1, ItsCall DEF Mine, Reads, PAt
  <1>3. p.kind = "erase" => p.ids \subseteq gone
    BY <1>2
  <1> HIDE DEF gone
  <1>4. saved' \subseteq Rows /\ saved' \subseteq OwnedIn(owner) /\ saved \ saved' \subseteq Ids
    BY <1>1, <1>2, ErasureConstants DEF EInv, TypesInv
  <1>5. owed' \subseteq Ids /\ held' \subseteq Ids
    BY <1>1, <1>4, TakesHolds
  <1>6. Kept' = log \cup FilesIn(convs) \cup saved' /\ Kept = log \cup FilesIn(convs) \cup saved
    BY <1>1 DEF Kept, Files, FilesIn
  <1>7. Kept' \subseteq OwnedIn(owner)
    BY <1>4, <1>6 DEF EInv, OwnInv
  <1>8. ~dataLost' => ~dataLost /\ saved = p.seen /\ saved' \subseteq saved /\ saved \ saved' \subseteq Of(p.user)
    BY <1>1, <1>2
  <1>9. ~dataLost' => owed' \subseteq Kept'
    BY <1>1, <1>4, <1>6, <1>8, TakesHolds
  <1>10. \E s \in PurgerType :
           /\ PMove(c, s) /\ Mine(s, owner) /\ Reads(s) /\ s.pc # "add"
           /\ s.kind \in {"erase", "save"} => s.kind = purger[c].kind /\ s.ids = purger[c].ids
           /\ ~dataLost' /\ ~cut' => Erasing(s, log', FilesIn(convs'), saved')
    <2>1. CASE p.kind # "erase"
      BY <1>1, <2>1, NoPurgerIs
    <2>2. CASE p.kind = "erase"
      <3>1. Nil \in SeenType /\ {} \in SUBSET Ids
        BY DEF SeenType
      <3>2. PICK s \in PurgerType :
               /\ PMove(c, s)
               /\ s.pc = "answer" /\ s.kind = p.kind /\ s.user = p.user /\ s.ids = p.ids
               /\ s.seen = Nil /\ s.todo = {}
        BY <1>1, <2>2, <3>1, ToIs
      <3>3. Reads(s) /\ Mine(s, owner)
        BY <1>2, <2>2, <3>2, ItsCall DEF Reads, Mine
      <3>4. ASSUME ~dataLost', ~cut' PROVE Erasing(s, log', FilesIn(convs'), saved')
        <4>1. Erasing(p, log, FilesIn(convs), saved)
          BY <1>1, <1>8, <3>4, ItsCall
        <4>2. p.ids \cap log = {} /\ p.ids \cap FilesIn(convs) = {} /\ p.ids \cap saved' = {}
          BY <1>1, <1>3, <2>2, <4>1 DEF Erasing, PAt
        <4> QED
          BY <1>1, <3>2, <4>2 DEF Erasing
      <3> QED
        BY <3>2, <3>3, <3>4
    <2> QED
      BY <2>1, <2>2
  <1>11. PICK s \in PurgerType :
           /\ PMove(c, s) /\ Mine(s, owner) /\ Reads(s) /\ s.pc # "add"
           /\ s.kind \in {"erase", "save"} => s.kind = purger[c].kind /\ s.ids = purger[c].ids
           /\ ~dataLost' /\ ~cut' => Erasing(s, log', FilesIn(convs'), saved')
    BY <1>10
  <1>12. TypesInv'
    <2>1. purger' \in [Purgers -> PurgerType] /\ \A d \in Purgers : Reads(purger'[d])
      BY <1>11, OneMoves DEF EInv
    <2>2. dataLost' \in BOOLEAN
      BY <1>1 DEF EInv, TypesInv
    <2> QED
      BY <1>1, <1>4, <1>5, <2>1, <2>2 DEF EInv, TypesInv
  <1>13. GoesOn(c, s)
    BY <1>1, <1>7, <1>8, <1>9, <1>11 DEF GoesOn
  <1> QED
    BY <1>12, <1>13, GoesOnHolds

LEMMA ConfirmHolds ==
    ASSUME EInv, NEW c \in Purgers, Confirm(c)
    PROVE  EInv'
  <1>1. /\ PAt(c, "answer") /\ erased' = erased \cup purger[c].ids
        /\ PMove(c, NoPurger) /\ UNCHANGED <<clock, hold, log, stamp, convs, saved, owner, owed, held, cut, dataLost>>
    BY DEF Confirm, stores
  <1>2. purger[c].ids \subseteq Ids
    BY <1>1, ItsCall DEF Mine, Its, PAt
  <1>3. TypesInv'
    <2>1. purger' \in [Purgers -> PurgerType] /\ \A d \in Purgers : Reads(purger'[d])
      BY <1>1, NoPurgerIs, OneMoves DEF EInv
    <2> QED
      BY <1>1, <1>2, <2>1 DEF EInv, TypesInv
  <1>4. Kept' = Kept
    BY <1>1 DEF Kept, Files
  <1>5. GoesOn(c, NoPurger)
    BY <1>1, <1>4, NoPurgerIs DEF GoesOn, Confirming, EInv, OwnInv, OwedInv
  <1> QED
    BY <1>3, <1>5, GoesOnHolds

-----------------------------------------------------------------------------
(* All steps                                                               *)

LEMMA NoCallHolds ==
    ASSUME EInv, \/ Impose \/ Release \/ DataCrash
                 \/ Tick /\ UNCHANGED erasureVars
                 \/ UNCHANGED <<clock, erasureVars>>
    PROVE  EInv'
  <1>1. UNCHANGED <<log, stamp, convs, saved, owner, erased, owed, held, cut, dataLost>>
    BY DEF Impose, Release, DataCrash, erasureVars, stores, erasureHistory
  <1>2. clock' \in 0..MaxClock /\ hold' \in BOOLEAN
    <2>1. clock \in 0..MaxClock /\ hold \in BOOLEAN
      BY DEF EInv, TypesInv
    <2>2. hold' \in BOOLEAN
      BY <2>1, Zenon DEF Impose, Release, DataCrash, erasureVars
    <2>3. clock' = clock \/ (clock < MaxClock /\ clock' = clock + 1)
      BY DEF Impose, Release, DataCrash, Tick
    <2>4. clock' \in 0..MaxClock
      BY <2>1, <2>3, ErasureConstants
    <2> QED
      BY <2>2, <2>4
  <1>3. purger' = purger \/ purger' = [d \in Purgers |-> NoPurger]
    BY DEF Impose, Release, DataCrash, erasureVars
  <1>4. \A d \in Purgers : purger'[d] = purger[d] \/ purger'[d] = NoPurger
    BY <1>3
  <1>5. TypesInv'
    <2>1. purger' \in [Purgers -> PurgerType]
      BY <1>3, NoPurgerIs DEF EInv, TypesInv
    <2>2. \A d \in Purgers : Reads(purger'[d])
      BY <1>4, NoPurgerIs DEF EInv, TypesInv
    <2> QED
      BY <1>1, <1>2, <2>1, <2>2 DEF EInv, TypesInv
  <1>6. Kept' = Kept /\ Files' = Files
    BY <1>1 DEF Kept, Files
  <1>7. OwnInv'
    BY <1>1, <1>4, <1>6, NoPurgerIs DEF EInv, OwnInv
  <1>8. OwedInv'
    BY <1>1, <1>6 DEF EInv, OwedInv
  <1>9. FreshInv'
    <2> SUFFICES ASSUME ~dataLost', NEW d \in Purgers, PAt(d, "add")'
                 PROVE  /\ purger'[d].ids \cap (Kept \cup erased)' = {}
                        /\ \A e \in Purgers \ {d} :
                              purger'[e].kind \in {"erase", "save"} => purger'[d].ids \cap purger'[e].ids = {}
      BY DEF FreshInv
    <2>1. PAt(d, "add") /\ purger'[d] = purger[d] /\ ~dataLost
      BY <1>1, <1>4, NoPurgerIs DEF PAt
    <2>2. \A e \in Purgers : purger'[e].kind \in {"erase", "save"} => purger'[e] = purger[e]
      BY <1>4, NoPurgerIs
    <2> QED
      BY <1>1, <1>6, <2>1, <2>2 DEF EInv, FreshInv
  <1>10. ErasedInv'
    BY <1>1, <1>4, <1>6, NoPurgerIs DEF EInv, ErasedInv
  <1> QED
    BY <1>5, <1>7, <1>8, <1>9, <1>10 DEF EInv

LEMMA ErasureSteps == EInv /\ [ErasureNext]_<<clock, erasureVars>> => EInv'
  <1> SUFFICES ASSUME EInv, [ErasureNext]_<<clock, erasureVars>> PROVE EInv'
    OBVIOUS
  <1>1. ASSUME NEW c \in Purgers, Deletion(c) PROVE EInv'
    BY <1>1, ReadLogHolds, WriteLogHolds, ListHolds, VisitHolds, UnlinkHolds, ReadSavedHolds,
       RewriteSavedHolds, ConfirmHolds DEF Deletion
  <1>2. ASSUME NEW c \in Purgers, WriteConversation(c) \/ WriteSaved(c) PROVE EInv'
    BY <1>2, WriteConversationHolds, WriteSavedHolds
  <1>3. ASSUME NEW c \in Purgers, NEW u \in Users,
               \/ StartErase(c, u) \/ StartSweep(c, u)
               \/ \E before \in 0..Never : StartPrune(c, u, before)
               \/ \E q \in Rows : AddSaved(c, u, q)
        PROVE  EInv'
    BY <1>3, StartsHold, AddSavedHolds
  <1>4. ASSUME NEW c \in Purgers,
               \/ \E l \in Lines : DeleteHistoryItem(c, l)
               \/ \E k \in Convs :
                     \/ DeleteConversation(c, k)
                     \/ \E kind \in {"turn", "archive"} : LoadConversation(c, k, kind)
               \/ \E q \in Rows : RemoveSaved(c, q)
        PROVE  EInv'
    BY <1>4, ItemsHold, LoadConversationHolds
  <1>5. ASSUME NEW u \in Users,
               \/ \E l \in Lines : RecordHistory(u, l)
               \/ \E k \in Convs : CreateConversation(u, k)
        PROVE  EInv'
    BY <1>5, RecordHistoryHolds, CreateConversationHolds
  <1>6. CASE \/ Impose \/ Release \/ DataCrash
             \/ Tick /\ UNCHANGED erasureVars
             \/ UNCHANGED <<clock, erasureVars>>
    BY <1>6, NoCallHolds
  <1> QED
    BY <1>1, <1>2, <1>3, <1>4, <1>5, <1>6 DEF ErasureNext

LEMMA ErasureStarts == clock = 0 /\ ErasureInit => EInv
  <1> SUFFICES ASSUME clock = 0, ErasureInit PROVE EInv
    OBVIOUS
  <1>1. /\ hold = FALSE /\ log = {} /\ saved = {} /\ stamp = [l \in Lines |-> 0]
        /\ convs = [k \in Convs |-> Nil] /\ owner = [id \in Ids |-> Nil]
        /\ purger = [c \in Purgers |-> NoPurger]
        /\ erased = {} /\ owed = {} /\ held = {} /\ cut = FALSE /\ dataLost = FALSE
    BY DEF ErasureInit
  <1>2. \A c \in Purgers : purger[c] = NoPurger
    BY <1>1
  <1>3. Kept = {} /\ Files = {}
    BY <1>1 DEF Kept, Files
  <1>4. TypesInv
    <2>1. 0 \in 0..MaxClock
      BY ErasureConstants
    <2>2. purger \in [Purgers -> PurgerType] /\ \A c \in Purgers : Reads(purger[c])
      BY <1>1, <1>2, NoPurgerIs
    <2>3. stamp \in [Lines -> 0..MaxClock]
      BY <1>1, <2>1
    <2>4. convs \in [Convs -> ConvType \cup {Nil}] /\ owner \in [Ids -> Users \cup {Nil}]
      BY <1>1
    <2> QED
      BY <1>1, <2>1, <2>2, <2>3, <2>4 DEF TypesInv
  <1>5. OwnInv /\ OwedInv
    BY <1>1, <1>2, <1>3, NoPurgerIs DEF OwnInv, OwedInv
  <1>6. FreshInv
    BY <1>2, NoPurgerIs DEF FreshInv, PAt
  <1>7. ErasedInv
    BY <1>1, <1>2, NoPurgerIs DEF ErasedInv
  <1> QED
    BY <1>4, <1>5, <1>6, <1>7 DEF EInv

LEMMA ErasureHolds == ErasureSpec => []EInv
  BY ErasureStarts, ErasureSteps, PTL DEF ErasureSpec

\* Every variable of the histories, conversations, saved queries and deletions
\* keeps its type, and every record on file has its user.
THEOREM ErasureTypesHold == ErasureSpec => []ErasureTypeOK
  <1>1. ASSUME EInv PROVE ErasureTypeOK
    <2>1. \A id \in Kept : owner[id] # Nil
      BY <1>1 DEF EInv, OwnInv, OwnedIn
    <2>2. \A c \in Purgers : purger[c] \in PurgerType
      BY <1>1 DEF EInv, TypesInv
    <2> QED
      BY <1>1, <2>1, <2>2 DEF EInv, TypesInv, ErasureTypeOK, PurgerType
  <1> QED
    BY <1>1, ErasureHolds, PTL

\* OthersKeepTheirs: whatever is pruned, swept, deleted and erased at the same
\* time, a record stays until a call of its own user removes it, unless a write has
\* replaced a change (history.ts, conversations.ts, saved.ts, lifecycle.ts).
THEOREM RecordsOfOthersStay == ErasureSpec => []OthersKeepTheirs
  <1>1. EInv => OthersKeepTheirs
    BY DEF EInv, OwedInv, OthersKeepTheirs
  <1> QED
    BY <1>1, ErasureHolds, PTL

\* ErasedUnlessCut: nothing that the user had when an erasure began is left once it
\* is answered, unless a write brought it back or a conversation was deleted under
\* the erasure's hands (deleteUserData in lifecycle.ts).
THEOREM ErasureIsComplete == ErasureSpec => []ErasedUnlessCut
  <1>1. EInv => ErasedUnlessCut
    BY DEF EInv, ErasedInv, ErasedUnlessCut
  <1> QED
    BY <1>1, ErasureHolds, PTL
=============================================================================
