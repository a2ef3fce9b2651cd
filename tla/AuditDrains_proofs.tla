--------------------------- MODULE AuditDrains_proofs -----------------------
(***************************************************************************)
(* Theorems about AuditDrains, for any number of drains, passes, owner's   *)
(* calls and deaths of the process.                                        *)
(*                                                                         *)
(* A pass works on a copy of drains.json for as long as its POSTs take and *)
(* publishes it last, over whatever was written meanwhile.  So what must   *)
(* hold of the file must hold of every copy alive: a cursor and the dead   *)
(* letters stored with it account for every event behind it (Honest), and  *)
(* a batch in flight closes the gap between the cursor and its last event  *)
(* (Fills).  While no pass or call overlaps, the one at work knows what    *)
(* the file says (SoloInv) and what was delivered (OnceInv).               *)
(***************************************************************************)
EXTENDS AuditDrains, FiniteSetTheorems, WellFoundedInduction, TLAPS

Storages == {s \in [drains : [Drains -> DrainState], dead : Seq(DeadLetters)] :
                Len(s.dead) <= MaxDead}
ProcState == [pc : {"idle", "scan", "post", "write", "rename"},
              copy : Storages \cup {Absent},
              todo : SUBSET Drains,
              drain : Drains \cup {Absent},
              batch : SUBSET Nat]

ProcOK(q, places) ==
    /\ q.batch \subseteq places
    /\ q.pc \in {"scan", "post", "write"} => q.copy \in Storages
    /\ q.pc \in {"idle", "rename"} => q.copy = Absent
    /\ q.pc = "post" => q.drain \in Drains /\ q.batch # {}

TypeInv ==
    /\ log \in Seq(Events)
    /\ disk \in Storages
    /\ tmp \in Storages \cup {Absent}
    /\ proc \in [Procs -> ProcState]
    /\ \A p \in Procs : ProcOK(proc[p], DOMAIN log)
    /\ unused \subseteq Drains
    /\ received \in [Drains -> [Events -> 0..2]]
    /\ abandoned \in [Drains -> SUBSET Events]
    /\ overflow \in BOOLEAN
    /\ meddled \subseteq {"overlap", "crash", "unanswered"}
    /\ crashes \in 0..MaxCrashes

-----------------------------------------------------------------------------
(* Places in the log and in the dead-letter list                           *)

\* A set of places that is not empty has a last one.
LEMMA LastPlaceIsLast ==
    ASSUME NEW n \in Nat, NEW b \in SUBSET (1..n), b # {}
    PROVE  LastPlace(b) \in b /\ \A j \in b : j <= LastPlace(b)
  <1> DEFINE S == {n - i : i \in b}
  <1>1. S \subseteq Nat /\ S # {}
    <2>1. \A i \in b : i \in 1..n
      OBVIOUS
    <2>2. \A i \in b : n - i \in Nat
      BY <2>1
    <2> QED BY <2>2
  <1>2. PICK m \in S : \A k \in S : ~(<<k, m>> \in OpToRel(<, Nat))
    BY <1>1, NatLessThanWellFounded, WFMin
  <1>3. PICK i \in b : m = n - i
    OBVIOUS
  <1>4. \A j \in b : j <= i
    <2>1. TAKE j \in b
    <2>2. n - j \in S /\ n - j \in Nat /\ m \in Nat
      BY <1>1
    <2>3. ~(n - j < m)
      BY <1>2, <2>2 DEF OpToRel
    <2> QED BY <1>3, <2>2, <2>3
  <1> QED BY <1>4 DEF LastPlace

LEMMA UpToIsFinite ==
    ASSUME NEW n \in Nat, NEW b \in SUBSET (1..n), NEW i
    PROVE  /\ IsFiniteSet(b) /\ Cardinality(b) \in Nat /\ Cardinality(b) <= n
           /\ UpTo(b, i) \subseteq b /\ IsFiniteSet(UpTo(b, i))
           /\ Cardinality(UpTo(b, i)) \in Nat /\ Cardinality(UpTo(b, i)) <= Cardinality(b)
  <1>1. IsFiniteSet(1..n) /\ Cardinality(1..n) = n
    BY FS_Interval
  <1>2. UpTo(b, i) \subseteq b
    BY DEF UpTo
  <1>3. IsFiniteSet(b) /\ Cardinality(b) <= n
    BY <1>1, FS_Subset
  <1>4. IsFiniteSet(UpTo(b, i)) /\ Cardinality(UpTo(b, i)) <= Cardinality(b)
    BY <1>2, <1>3, FS_Subset
  <1> QED BY <1>2, <1>3, <1>4, FS_CardinalityType

\* A later place of a set has more places of the set up to it.
LEMMA UpToGrows ==
    ASSUME NEW n \in Nat, NEW b \in SUBSET (1..n), NEW i \in b, NEW j \in b
    PROVE  /\ i <= j => Cardinality(UpTo(b, i)) <= Cardinality(UpTo(b, j))
           /\ Cardinality(UpTo(b, i)) = Cardinality(UpTo(b, j)) => i = j
  <1>1. ASSUME NEW k \in b, NEW l \in b, k <= l
        PROVE  /\ UpTo(b, k) \subseteq UpTo(b, l)
               /\ Cardinality(UpTo(b, k)) <= Cardinality(UpTo(b, l))
               /\ Cardinality(UpTo(b, k)) = Cardinality(UpTo(b, l)) => k = l
    <2>1. UpTo(b, k) \subseteq UpTo(b, l)
      <3>1. \A x \in b : x \in 1..n
        OBVIOUS
      <3>2. \A x \in b : x <= k => x <= l
        BY <3>1, <1>1
      <3> QED BY <3>2 DEF UpTo
    <2>2. l \in UpTo(b, l) /\ (l \in UpTo(b, k) => l <= k)
      BY DEF UpTo
    <2>3. /\ IsFiniteSet(UpTo(b, l))
          /\ Cardinality(UpTo(b, k)) <= Cardinality(UpTo(b, l))
          /\ Cardinality(UpTo(b, k)) = Cardinality(UpTo(b, l)) => UpTo(b, l) = UpTo(b, k)
      BY <2>1, UpToIsFinite, FS_Subset
    <2> QED BY <1>1, <2>1, <2>2, <2>3
  <1>2. i <= j \/ j <= i
    OBVIOUS
  <1>3. Cardinality(UpTo(b, i)) = Cardinality(UpTo(b, j)) => i = j
    BY <1>1, <1>2
  <1> QED BY <1>1, <1>3

\* Counted this way, the places of a set are numbered from 1 to their number.
LEMMA UpToNumbers ==
    ASSUME NEW n \in Nat, NEW b \in SUBSET (1..n), NEW k \in 1..Cardinality(b)
    PROVE  \E i \in b : Cardinality(UpTo(b, i)) = k
  <1> DEFINE T == 1..Cardinality(b)
             f == [i \in b |-> Cardinality(UpTo(b, i))]
  <1>1. IsFiniteSet(b) /\ Cardinality(b) \in Nat
    BY UpToIsFinite
  <1>2. IsFiniteSet(T) /\ Cardinality(T) = Cardinality(b)
    BY <1>1, FS_Interval
  <1>3. ASSUME NEW i \in b PROVE Cardinality(UpTo(b, i)) \in T
    <2>1. i \in UpTo(b, i)
      BY DEF UpTo
    <2>2. /\ IsFiniteSet(UpTo(b, i)) /\ Cardinality(UpTo(b, i)) \in Nat
          /\ Cardinality(UpTo(b, i)) <= Cardinality(b)
      BY UpToIsFinite
    <2>3. Cardinality(UpTo(b, i)) # 0
      BY <2>1, <2>2, FS_EmptySet
    <2> QED BY <1>1, <2>2, <2>3
  <1>4. f \in [b -> T]
    BY <1>3
  <1>5. \A i, j \in b : f[i] = f[j] => i = j
    BY UpToGrows
  <1> HIDE DEF T, f
  <1>6. f \in Injection(b, T)
    BY <1>4, <1>5 DEF Injection, IsInjective
  <1>7. f \in Surjection(b, T)
    BY <1>2, <1>6, FS_Injection
  <1>8. k \in T
    BY DEF T
  <1>9. \E i \in b : f[i] = k
    BY <1>7, <1>8 DEF Surjection
  <1> QED BY <1>9 DEF f

LEMMA FunctionIsSeq ==
    ASSUME NEW n \in Nat, NEW S, NEW f \in [1..n -> S]
    PROVE  f \in Seq(S) /\ Len(f) = n /\ DOMAIN f = 1..n
  OBVIOUS

\* Taking out one drain's letters leaves those of the others, and no more.
LEMMA LettersButKeeps ==
    ASSUME NEW dead \in Seq(DeadLetters), NEW d
    PROVE  /\ LettersBut(dead, d) \in Seq(DeadLetters)
           /\ Len(LettersBut(dead, d)) <= Len(dead)
           /\ \A k \in DOMAIN LettersBut(dead, d) :
                 \E i \in DOMAIN dead : LettersBut(dead, d)[k] = dead[i]
           /\ \A i \in DOMAIN dead : dead[i].drain # d =>
                 \E k \in DOMAIN LettersBut(dead, d) : LettersBut(dead, d)[k] = dead[i]
  <1> DEFINE b == Others(dead, d)
             at(k) == CHOOSE i \in b : Cardinality(UpTo(b, i)) = k
             new == [k \in 1..Cardinality(b) |-> dead[at(k)]]
  <1>1. Len(dead) \in Nat /\ DOMAIN dead = 1..Len(dead)
    OBVIOUS
  <1>2. b \in SUBSET (1..Len(dead))
    BY <1>1 DEF Others
  <1>3. LettersBut(dead, d) = new
    BY DEF LettersBut
  <1>4. Cardinality(b) \in Nat /\ Cardinality(b) <= Len(dead)
    <2> DEFINE n == Len(dead)
    <2>1. n \in Nat /\ b \in SUBSET (1..n)
      BY <1>1, <1>2
    <2> HIDE DEF b, n
    <2>2. Cardinality(b) \in Nat /\ Cardinality(b) <= n
      BY <2>1, UpToIsFinite
    <2> QED
      BY <2>2 DEF n
  <1>5. ASSUME NEW k \in 1..Cardinality(b)
        PROVE  at(k) \in DOMAIN dead
    <2>1. \E i \in b : Cardinality(UpTo(b, i)) = k
      BY <1>1, <1>2, UpToNumbers
    <2> QED BY <1>1, <1>2, <2>1
  <1>6. new \in [1..Cardinality(b) -> DeadLetters]
    BY <1>5
  <1>7. new \in Seq(DeadLetters) /\ Len(new) = Cardinality(b) /\ DOMAIN new = 1..Cardinality(b)
    <2> HIDE DEF new
    <2> QED BY <1>4, <1>6, FunctionIsSeq
  <1>8. ASSUME NEW i \in DOMAIN dead, dead[i].drain # d
        PROVE  \E k \in DOMAIN new : new[k] = dead[i]
    <2> DEFINE k == Cardinality(UpTo(b, i))
    <2>1. i \in b
      BY <1>8 DEF Others
    <2>2. i \in UpTo(b, i)
      BY <1>1, <2>1 DEF UpTo
    <2>3. k \in 1..Cardinality(b)
      <3>1. /\ IsFiniteSet(UpTo(b, i)) /\ k \in Nat /\ k <= Cardinality(b)
        BY <1>1, <1>2, UpToIsFinite
      <3>2. k # 0
        BY <2>2, <3>1, FS_EmptySet
      <3> QED BY <1>4, <3>1, <3>2
    <2>4. \A j \in b : Cardinality(UpTo(b, j)) = k => j = i
      BY <1>1, <1>2, <2>1, UpToGrows
    <2>5. at(k) = i
      BY <2>1, <2>4
    <2> QED BY <1>7, <2>3, <2>5
  <1>9. \A k \in DOMAIN new : \E i \in DOMAIN dead : new[k] = dead[i]
    BY <1>5, <1>7
  <1> HIDE DEF new
  <1> QED BY <1>3, <1>4, <1>7, <1>8, <1>9

-----------------------------------------------------------------------------
(* Copies of drains.json                                                   *)

LEMMA StorageFields ==
    ASSUME NEW drains, NEW dead
    PROVE  Storage(drains, dead).drains = drains /\ Storage(drains, dead).dead = dead
  BY DEF Storage

LEMMA IsInStorages ==
    ASSUME NEW drains \in [Drains -> DrainState], NEW dead \in Seq(DeadLetters), Len(dead) <= MaxDead
    PROVE  Storage(drains, dead) \in Storages
  BY DEF Storage, Storages

LEMMA StoragesAreStorages ==
    ASSUME NEW s \in Storages
    PROVE  /\ IsStorage(s) /\ s.drains \in [Drains -> DrainState] /\ s.dead \in Seq(DeadLetters)
           /\ Len(s.dead) \in Nat /\ Len(s.dead) <= MaxDead /\ DOMAIN s.dead = 1..Len(s.dead)
  BY DEF Storages, IsStorage

LEMMA DrainFields ==
    ASSUME NEW r \in DrainState
    PROVE  /\ r.on \in BOOLEAN /\ r.secret \in 0..MaxSecrets
           /\ r.cursor \in 0..MaxEvents /\ r.fails \in 0..(DeadAfter - 1)
  BY DEF DrainState

LEMMA WithDrainIs ==
    ASSUME NEW s \in Storages, NEW d \in Drains, NEW r \in DrainState
    PROVE  /\ WithDrain(s, d, r) \in Storages
           /\ WithDrain(s, d, r).dead = s.dead
           /\ WithDrain(s, d, r).drains[d] = r
           /\ \A e \in Drains \ {d} : WithDrain(s, d, r).drains[e] = s.drains[e]
  <1> DEFINE drains == [s.drains EXCEPT ![d] = r]
  <1>1. drains \in [Drains -> DrainState] /\ drains[d] = r
        /\ \A e \in Drains \ {d} : drains[e] = s.drains[e]
    BY StoragesAreStorages
  <1>2. WithDrain(s, d, r) = Storage(drains, s.dead)
    BY DEF WithDrain
  <1> HIDE DEF drains
  <1>3. Storage(drains, s.dead) \in Storages
    BY <1>1, IsInStorages, StoragesAreStorages
  <1> QED BY <1>1, <1>2, <1>3, StorageFields

\* A change of one drain's fields that keeps its cursor, and its secret or not.
Kept(s, t, d) ==
    /\ t \in Storages
    /\ t.dead = s.dead
    /\ t.drains[d].cursor = s.drains[d].cursor
    /\ \A e \in Drains \ {d} : t.drains[e] = s.drains[e]

LEMMA FieldEdits ==
    ASSUME NEW r \in DrainState
    PROVE  /\ [r EXCEPT !.on = TRUE, !.fails = 0] \in DrainState
           /\ [r EXCEPT !.on = TRUE, !.fails = 0].cursor = r.cursor
           /\ [r EXCEPT !.on = TRUE, !.fails = 0].secret = r.secret
           /\ [r EXCEPT !.on = FALSE] \in DrainState
           /\ [r EXCEPT !.on = FALSE].cursor = r.cursor
           /\ [r EXCEPT !.on = FALSE].secret = r.secret
           /\ r.secret < MaxSecrets => [r EXCEPT !.secret = @ + 1] \in DrainState
           /\ [r EXCEPT !.secret = @ + 1].cursor = r.cursor
           /\ [r EXCEPT !.secret = @ + 1].secret # 0
           /\ r.fails + 1 < DeadAfter => [r EXCEPT !.fails = @ + 1] \in DrainState
           /\ [r EXCEPT !.fails = @ + 1].cursor = r.cursor
           /\ [r EXCEPT !.fails = @ + 1].on = r.on
           /\ [r EXCEPT !.fails = @ + 1].secret = r.secret
  <1>1. 0 \in 0..(DeadAfter - 1)
    BY DrainBoundsAssumption
  <1>2. r.secret \in Nat /\ r.secret + 1 # 0
        /\ (r.secret < MaxSecrets => r.secret + 1 \in 0..MaxSecrets)
    BY DrainBoundsAssumption DEF DrainState
  <1>3. r.fails + 1 < DeadAfter => r.fails + 1 \in 0..(DeadAfter - 1)
    BY DrainBoundsAssumption DEF DrainState
  <1>4. /\ [r EXCEPT !.on = TRUE, !.fails = 0] \in DrainState
        /\ [r EXCEPT !.on = TRUE, !.fails = 0].cursor = r.cursor
        /\ [r EXCEPT !.on = TRUE, !.fails = 0].secret = r.secret
    BY <1>1 DEF DrainState
  <1>5. /\ [r EXCEPT !.on = FALSE] \in DrainState
        /\ [r EXCEPT !.on = FALSE].cursor = r.cursor
        /\ [r EXCEPT !.on = FALSE].secret = r.secret
    BY DEF DrainState
  <1>6. /\ r.secret < MaxSecrets => [r EXCEPT !.secret = @ + 1] \in DrainState
        /\ [r EXCEPT !.secret = @ + 1].cursor = r.cursor
        /\ [r EXCEPT !.secret = @ + 1].secret = r.secret + 1
    BY <1>2 DEF DrainState
  <1>7. /\ r.fails + 1 < DeadAfter => [r EXCEPT !.fails = @ + 1] \in DrainState
        /\ [r EXCEPT !.fails = @ + 1].cursor = r.cursor
        /\ [r EXCEPT !.fails = @ + 1].on = r.on
        /\ [r EXCEPT !.fails = @ + 1].secret = r.secret
    BY <1>3 DEF DrainState
  <1> QED BY <1>2, <1>4, <1>5, <1>6, <1>7

LEMMA OwnersEdits ==
    ASSUME NEW s \in Storages, NEW d \in Drains
    PROVE  /\ Kept(s, Enabled(s, d), d)
           /\ Kept(s, Disabled(s, d), d)
           /\ s.drains[d].secret < MaxSecrets => Kept(s, Rekeyed(s, d), d)
           /\ s.drains[d].fails + 1 < DeadAfter => Kept(s, FailedAgain(s, d), d)
           /\ Config(FailedAgain(s, d), d) = Config(s, d)
           /\ Known(Enabled(s, d), d) <=> Known(s, d)
           /\ Known(Disabled(s, d), d) <=> Known(s, d)
           /\ Known(Rekeyed(s, d), d)
  <1> DEFINE r == s.drains[d]
  <1>1. r \in DrainState /\ s.drains \in [Drains -> DrainState]
    BY StoragesAreStorages
  <1>6. ASSUME NEW q
        PROVE WithDrain(s, d, q).drains[d] = q
    BY <1>1 DEF WithDrain, Storage
  <1>7. ASSUME NEW q \in DrainState, q.cursor = r.cursor
        PROVE  Kept(s, WithDrain(s, d, q), d)
    BY <1>7, WithDrainIs DEF Kept
  <1>8. Kept(s, Enabled(s, d), d) /\ (Known(Enabled(s, d), d) <=> Known(s, d))
    <2> DEFINE q == [r EXCEPT !.on = TRUE, !.fails = 0]
    <2>1. Enabled(s, d) = WithDrain(s, d, q)
      BY DEF Enabled
    <2>2. q \in DrainState /\ q.cursor = r.cursor /\ q.secret = r.secret
      BY <1>1, FieldEdits
    <2> HIDE DEF q, r
    <2>3. WithDrain(s, d, q).drains[d] = q
      BY <1>6
    <2> QED
      BY <1>7, <2>1, <2>2, <2>3 DEF Known, r
  <1>9. Kept(s, Disabled(s, d), d) /\ (Known(Disabled(s, d), d) <=> Known(s, d))
    <2> DEFINE q == [r EXCEPT !.on = FALSE]
    <2>1. Disabled(s, d) = WithDrain(s, d, q)
      BY DEF Disabled
    <2>2. q \in DrainState /\ q.cursor = r.cursor /\ q.secret = r.secret
      BY <1>1, FieldEdits
    <2> HIDE DEF q, r
    <2>3. WithDrain(s, d, q).drains[d] = q
      BY <1>6
    <2> QED
      BY <1>7, <2>1, <2>2, <2>3 DEF Known, r
  <1>10. s.drains[d].secret < MaxSecrets => Kept(s, Rekeyed(s, d), d)
    BY <1>1, <1>7, FieldEdits DEF Rekeyed
  <1>11. Known(Rekeyed(s, d), d)
    <2>1. Rekeyed(s, d).drains[d] = [r EXCEPT !.secret = @ + 1]
      BY <1>6 DEF Rekeyed
    <2>2. [r EXCEPT !.secret = @ + 1].secret # 0
      BY <1>1, FieldEdits
    <2> QED BY <2>1, <2>2 DEF Known
  <1>12. s.drains[d].fails + 1 < DeadAfter => Kept(s, FailedAgain(s, d), d)
    BY <1>1, <1>7, FieldEdits DEF FailedAgain
  <1>13. Config(FailedAgain(s, d), d) = Config(s, d)
    BY <1>1, <1>6, FieldEdits DEF FailedAgain, Config
  <1> QED BY <1>8, <1>9, <1>10, <1>11, <1>12, <1>13

LEMMA CreatedIs ==
    ASSUME NEW s \in Storages, NEW d \in Drains
    PROVE  /\ Created(s, d) \in Storages
           /\ Created(s, d).dead = s.dead
           /\ Created(s, d).drains[d].cursor = 0
           /\ \A e \in Drains \ {d} : Created(s, d).drains[e] = s.drains[e]
  <1>1. Drain(TRUE, 1, 0, 0) \in DrainState /\ Drain(TRUE, 1, 0, 0).cursor = 0
    BY DrainBoundsAssumption DEF Drain, DrainState
  <1> QED BY <1>1, WithDrainIs DEF Created

LEMMA NoDrainType == NoDrain \in DrainState /\ NoDrain.cursor = 0 /\ NoDrain.secret = 0
  BY DrainBoundsAssumption DEF NoDrain, Drain, DrainState

LEMMA DeletedIs ==
    ASSUME NEW s \in Storages, NEW d \in Drains
    PROVE  /\ Deleted(s, d) \in Storages
           /\ Deleted(s, d).dead = LettersBut(s.dead, d)
           /\ Deleted(s, d).drains[d] = NoDrain
           /\ \A e \in Drains \ {d} : Deleted(s, d).drains[e] = s.drains[e]
  <1> DEFINE drains == [s.drains EXCEPT ![d] = NoDrain]
             dead == LettersBut(s.dead, d)
  <1>1. drains \in [Drains -> DrainState] /\ drains[d] = NoDrain
        /\ \A e \in Drains \ {d} : drains[e] = s.drains[e]
    BY StoragesAreStorages, NoDrainType
  <1>2. dead \in Seq(DeadLetters) /\ Len(dead) \in Nat /\ Len(dead) <= Len(s.dead)
    BY StoragesAreStorages, LettersButKeeps
  <1>3. Len(dead) <= MaxDead
    BY <1>2, StoragesAreStorages, DrainBoundsAssumption
  <1>4. Deleted(s, d) = Storage(drains, dead)
    BY DEF Deleted
  <1> HIDE DEF drains, dead
  <1>5. Storage(drains, dead) \in Storages
    BY <1>1, <1>2, <1>3, IsInStorages
  <1> QED BY <1>1, <1>4, <1>5, StorageFields DEF dead

-----------------------------------------------------------------------------
(* Batches                                                                 *)

LEMMA LoggedEvents ==
    ASSUME NEW lg \in Seq(Events)
    PROVE  /\ DOMAIN lg = 1..Len(lg) /\ Len(lg) \in Nat
           /\ \A i \in DOMAIN lg : lg[i] \in Events /\ lg[i] \in Nat /\ lg[i] > 0
  <1>1. \A i \in DOMAIN lg : lg[i] \in Events
    OBVIOUS
  <1>2. \A e \in Events : e \in Nat /\ e > 0
    BY DrainBoundsAssumption DEF Events
  <1>3. DOMAIN lg = 1..Len(lg) /\ Len(lg) \in Nat
    OBVIOUS
  <1> QED BY <1>1, <1>2, <1>3

\* In a log of type Seq(Events), a batch that is not empty ends in an event.
LEMMA BatchType ==
    ASSUME log \in Seq(Events), NEW b \in SUBSET (DOMAIN log)
    PROVE  /\ DOMAIN log = 1..Len(log) /\ Len(log) \in Nat /\ b \subseteq Nat
           /\ EventsIn(b) \subseteq Events
           /\ b # {} => /\ LastPlace(b) \in b /\ \A j \in b : j <= LastPlace(b)
                        /\ CursorAfter(b) \in Events /\ CursorAfter(b) \in Logged
  <1>1. DOMAIN log = 1..Len(log) /\ Len(log) \in Nat
    OBVIOUS
  <1>2. \A i \in DOMAIN log : log[i] \in Events
    OBVIOUS
  <1>3. EventsIn(b) \subseteq Events
    BY <1>2 DEF EventsIn
  <1>4. b # {} => LastPlace(b) \in b /\ \A j \in b : j <= LastPlace(b)
    BY <1>1, LastPlaceIsLast
  <1>5. b # {} => CursorAfter(b) \in Events /\ CursorAfter(b) \in Logged
    BY <1>2, <1>4 DEF CursorAfter, Logged, EventsIn
  <1>6. b \subseteq Nat
    BY <1>1
  <1> QED BY <1>1, <1>3, <1>4, <1>5, <1>6

LEMMA BatchIsPending ==
    ASSUME log \in Seq(Events), NEW s, NEW d
    PROVE  Batch(s, d) \subseteq Pending(s, d) /\ Pending(s, d) \subseteq DOMAIN log
  BY DEF Batch, Pending

\* The cursor an attempt leaves behind it, and nothing else of the drain.
LEMMA MovesOn ==
    ASSUME NEW s \in Storages, NEW d \in Drains, log \in Seq(Events),
           NEW b \in SUBSET (DOMAIN log), b # {}
    PROVE  /\ Delivered(s, d, b) \in Storages
           /\ Delivered(s, d, b).dead = s.dead
           /\ Delivered(s, d, b).drains[d].cursor = CursorAfter(b)
           /\ Config(Delivered(s, d, b), d) = Config(s, d)
           /\ \A e \in Drains \ {d} : Delivered(s, d, b).drains[e] = s.drains[e]
  <1> DEFINE r == s.drains[d]
             q == [r EXCEPT !.cursor = CursorAfter(b), !.fails = 0]
  <1>1. r \in DrainState
    BY StoragesAreStorages
  <1>2. CursorAfter(b) \in 0..MaxEvents
    BY BatchType, DrainBoundsAssumption DEF Events
  <1>3. 0 \in 0..(DeadAfter - 1)
    BY DrainBoundsAssumption
  <1>4. q \in DrainState /\ q.cursor = CursorAfter(b) /\ q.on = r.on /\ q.secret = r.secret
    BY <1>1, <1>2, <1>3 DEF DrainState
  <1>5. Delivered(s, d, b) = WithDrain(s, d, q)
    BY DEF Delivered
  <1> HIDE DEF q
  <1>6. WithDrain(s, d, q).drains[d] = q
    BY <1>4, WithDrainIs
  <1> QED BY <1>4, <1>5, <1>6, WithDrainIs DEF Config

LEMMA LettersFit ==
    ASSUME NEW dead \in Seq(DeadLetters), Len(dead) <= MaxDead, NEW l \in DeadLetters
    PROVE  LET all  == <<l>> \o dead
               kept == SubSeq(all, 1, IF Len(all) > MaxDead THEN MaxDead ELSE Len(all))
           IN  /\ kept \in Seq(DeadLetters) /\ Len(kept) <= MaxDead /\ 1 \in DOMAIN kept
               /\ kept[1] = l
               /\ \A i \in DOMAIN kept : i = 1 \/ (i - 1 \in DOMAIN dead /\ kept[i] = dead[i - 1])
               /\ Len(dead) < MaxDead =>
                     \A i \in DOMAIN dead : i + 1 \in DOMAIN kept /\ kept[i + 1] = dead[i]
  <1> DEFINE all == <<l>> \o dead
             n == IF Len(all) > MaxDead THEN MaxDead ELSE Len(all)
             kept == SubSeq(all, 1, n)
  <1>1. all \in Seq(DeadLetters) /\ Len(all) = Len(dead) + 1 /\ Len(dead) \in Nat
    OBVIOUS
  <1>2. all[1] = l /\ \A i \in 1..Len(dead) : all[i + 1] = dead[i]
    OBVIOUS
  <1>3. n \in 1..Len(all) /\ n <= MaxDead /\ (Len(dead) < MaxDead => n = Len(dead) + 1)
    BY <1>1, DrainBoundsAssumption
  <1> HIDE DEF all, n
  <1>4. kept \in Seq(DeadLetters) /\ Len(kept) = n /\ DOMAIN kept = 1..n
        /\ \A i \in 1..n : kept[i] = all[i]
    BY <1>1, <1>3
  <1>5. \A i \in 1..n : i = 1 \/ (i - 1 \in 1..Len(dead) /\ all[i] = dead[i - 1])
    <2>1. TAKE i \in 1..n
    <2>2. CASE i # 1
      <3>1. i - 1 \in 1..Len(dead) /\ (i - 1) + 1 = i
        BY <1>1, <1>3, <2>2
      <3> QED BY <1>2, <3>1
    <2> QED BY <2>2
  <1>6. Len(dead) < MaxDead => \A i \in 1..Len(dead) : i + 1 \in 1..n
    BY <1>1, <1>3
  <1>7. DOMAIN dead = 1..Len(dead)
    OBVIOUS
  <1>8. 1 \in 1..n
    BY <1>1, <1>3
  <1> HIDE DEF kept
  <1>9. /\ kept \in Seq(DeadLetters) /\ Len(kept) <= MaxDead /\ 1 \in DOMAIN kept
        /\ kept[1] = l
        /\ \A i \in DOMAIN kept : i = 1 \/ (i - 1 \in DOMAIN dead /\ kept[i] = dead[i - 1])
        /\ Len(dead) < MaxDead =>
              \A i \in DOMAIN dead : i + 1 \in DOMAIN kept /\ kept[i + 1] = dead[i]
    BY <1>2, <1>3, <1>4, <1>5, <1>6, <1>7, <1>8
  <1> QED BY <1>9 DEF kept, n, all

LEMMA GivesItUp ==
    ASSUME NEW s \in Storages, NEW d \in Drains, log \in Seq(Events),
           NEW b \in SUBSET (DOMAIN log), b # {}
    PROVE  LET t == WithLetter(s, d, b, MaxDead) IN
           /\ t \in Storages
           /\ t.drains[d].cursor = CursorAfter(b)
           /\ Config(t, d) = Config(s, d)
           /\ \A e \in Drains \ {d} : t.drains[e] = s.drains[e]
           /\ 1 \in DOMAIN t.dead /\ t.dead[1] = Letter(d, EventsIn(b))
           /\ \A i \in DOMAIN t.dead :
                 i = 1 \/ (i - 1 \in DOMAIN s.dead /\ t.dead[i] = s.dead[i - 1])
           /\ Len(s.dead) < MaxDead =>
                 \A i \in DOMAIN s.dead : i + 1 \in DOMAIN t.dead /\ t.dead[i + 1] = s.dead[i]
  <1> DEFINE r == s.drains[d]
             q == [r EXCEPT !.cursor = CursorAfter(b), !.fails = 0]
             drains == [s.drains EXCEPT ![d] = q]
             l == Letter(d, EventsIn(b))
             all == <<l>> \o s.dead
             kept == SubSeq(all, 1, IF Len(all) > MaxDead THEN MaxDead ELSE Len(all))
  <1>1. r \in DrainState /\ s.drains \in [Drains -> DrainState]
        /\ s.dead \in Seq(DeadLetters) /\ Len(s.dead) <= MaxDead
    BY StoragesAreStorages
  <1>2. CursorAfter(b) \in 0..MaxEvents /\ EventsIn(b) \in SUBSET Events
    BY BatchType, DrainBoundsAssumption DEF Events
  <1>3. 0 \in 0..(DeadAfter - 1)
    BY DrainBoundsAssumption
  <1>4. q \in DrainState /\ q.cursor = CursorAfter(b) /\ q.on = r.on /\ q.secret = r.secret
    BY <1>1, <1>2, <1>3 DEF DrainState
  <1>5. l \in DeadLetters
    BY <1>2 DEF Letter, DeadLetters
  <1>6. WithLetter(s, d, b, MaxDead) = Storage(drains, kept)
    BY DEF WithLetter
  <1>7. /\ kept \in Seq(DeadLetters) /\ Len(kept) <= MaxDead /\ 1 \in DOMAIN kept
        /\ kept[1] = l
        /\ \A i \in DOMAIN kept : i = 1 \/ (i - 1 \in DOMAIN s.dead /\ kept[i] = s.dead[i - 1])
        /\ Len(s.dead) < MaxDead =>
              \A i \in DOMAIN s.dead : i + 1 \in DOMAIN kept /\ kept[i + 1] = s.dead[i]
    <2> HIDE DEF l
    <2> QED BY <1>1, <1>5, LettersFit
  <1> HIDE DEF q, l, kept
  <1>8. drains \in [Drains -> DrainState] /\ drains[d] = q
        /\ \A e \in Drains \ {d} : drains[e] = s.drains[e]
    BY <1>1, <1>4
  <1> HIDE DEF drains
  <1>9. Storage(drains, kept) \in Storages
    BY <1>7, <1>8, IsInStorages
  <1>10. /\ Storage(drains, kept).drains[d].cursor = CursorAfter(b)
         /\ Config(Storage(drains, kept), d) = Config(s, d)
         /\ \A e \in Drains \ {d} : Storage(drains, kept).drains[e] = s.drains[e]
         /\ Storage(drains, kept).dead = kept
    BY <1>4, <1>8, StorageFields DEF Config
  <1> QED BY <1>6, <1>7, <1>9, <1>10 DEF l

-----------------------------------------------------------------------------
(* Types                                                                   *)

LEMMA ProcIs ==
    ASSUME NEW pc \in {"idle", "scan", "post", "write", "rename"},
           NEW copy \in Storages \cup {Absent}, NEW todo \in SUBSET Drains,
           NEW drain \in Drains \cup {Absent}, NEW batch \in SUBSET Nat
    PROVE  /\ Proc(pc, copy, todo, drain, batch) \in ProcState
           /\ Proc(pc, copy, todo, drain, batch).pc = pc
           /\ Proc(pc, copy, todo, drain, batch).copy = copy
           /\ Proc(pc, copy, todo, drain, batch).todo = todo
           /\ Proc(pc, copy, todo, drain, batch).drain = drain
           /\ Proc(pc, copy, todo, drain, batch).batch = batch
  BY DEF Proc, ProcState

LEMMA IdleIs ==
    /\ IdleProc \in ProcState /\ IdleProc.pc = "idle" /\ ProcOK(IdleProc, DOMAIN log)
    /\ IdleProc.copy = Absent
  BY ProcIs DEF IdleProc, ProcOK

LEMMA ProcFields ==
    ASSUME TypeInv, NEW p \in Procs
    PROVE  /\ proc[p] \in ProcState
           /\ proc[p].pc \in {"idle", "scan", "post", "write", "rename"}
           /\ proc[p].copy \in Storages \cup {Absent}
           /\ proc[p].todo \in SUBSET Drains
           /\ proc[p].drain \in Drains \cup {Absent}
           /\ proc[p].batch \in SUBSET Nat
           /\ ProcOK(proc[p], DOMAIN log)
  BY DEF TypeInv, ProcState

LEMMA TurnIs ==
    ASSUME TypeInv, NEW p \in Procs, NEW q \in ProcState, Turns(p, q)
    PROVE  /\ proc' \in [Procs -> ProcState] /\ proc'[p] = q
           /\ \A r \in Procs : r # p => proc'[r] = proc[r]
  BY DEF TypeInv, Turns

LEMMA TypeTurn ==
    ASSUME TypeInv, NEW p \in Procs, NEW q \in ProcState, ProcOK(q, DOMAIN log),
           Turns(p, q), log' = log, disk' \in Storages, tmp' \in Storages \cup {Absent},
           unused' \subseteq Drains,
           received' \in [Drains -> [Events -> 0..2]],
           abandoned' \in [Drains -> SUBSET Events], overflow' \in BOOLEAN,
           meddled' \subseteq {"overlap", "crash", "unanswered"}, crashes' = crashes
    PROVE  TypeInv'
  <1>1. \A r \in Procs : ProcOK(proc'[r], DOMAIN log)
    BY TurnIs DEF TypeInv
  <1> QED BY <1>1, TurnIs DEF TypeInv

LEMMA TypeInit == DrainInit => TypeInv
  <1> SUFFICES ASSUME DrainInit PROVE TypeInv
    OBVIOUS
  <1>1. [d \in Drains |-> NoDrain] \in [Drains -> DrainState]
    BY NoDrainType
  <1>2. <<>> \in Seq(DeadLetters) /\ Len(<<>>) <= MaxDead
    BY DrainBoundsAssumption
  <1>3. disk \in Storages
    BY <1>1, <1>2, IsInStorages DEF DrainInit, NoDrains
  <1>4. proc \in [Procs -> ProcState] /\ \A p \in Procs : ProcOK(proc[p], DOMAIN log)
    BY IdleIs DEF DrainInit
  <1>5. /\ log \in Seq(Events) /\ tmp \in Storages \cup {Absent} /\ unused \subseteq Drains
        /\ overflow \in BOOLEAN
    <2>1. log = <<>>
      BY DEF DrainInit
    <2>2. tmp = Absent
      BY DEF DrainInit
    <2>3. unused = Drains
      BY DEF DrainInit
    <2>4. overflow = FALSE
      BY DEF DrainInit
    <2>5. <<>> \in Seq(Events)
      OBVIOUS
    <2> QED BY <2>1, <2>2, <2>3, <2>4, <2>5
  <1>8. abandoned \in [Drains -> SUBSET Events]
    BY DEF DrainInit
  <1>9. meddled \subseteq {"overlap", "crash", "unanswered"}
    <2>1. meddled = {}
      BY DEF DrainInit
    <2> QED BY <2>1
  <1>7. received \in [Drains -> [Events -> 0..2]]
    <2>1. [e \in Events |-> 0] \in [Events -> 0..2]
      OBVIOUS
    <2> HIDE DEF Events
    <2> QED BY <2>1 DEF DrainInit
  <1>6. crashes \in 0..MaxCrashes
    BY DrainBoundsAssumption DEF DrainInit
  <1> QED BY <1>3, <1>4, <1>5, <1>6, <1>7, <1>8, <1>9 DEF TypeInv

LEMMA TakeType ==
    ASSUME TypeInv, NEW d \in Drains, NEW b, Take(d, b)
    PROVE  /\ received' \in [Drains -> [Events -> 0..2]]
           /\ \A f \in Drains, e \in Events : received[f][e] > 0 => received'[f][e] > 0
           /\ \A e \in EventsIn(b) : e \in Events => received'[d][e] > 0
           /\ \A e \in Events : e \notin EventsIn(b) => received'[d][e] = received[d][e]
           /\ \A e \in Events : received[d][e] = 0 => received'[d][e] <= 1
           /\ \A f \in Drains \ {d} : received'[f] = received[f]
  <1> DEFINE row == [e \in Events |-> IF e \in EventsIn(b) /\ received[d][e] < 2
                                      THEN received[d][e] + 1 ELSE received[d][e]]
  <1>1. received' = [received EXCEPT ![d] = row]
    BY DEF Take
  <1>2. received \in [Drains -> [Events -> 0..2]]
    BY DEF TypeInv
  <1>3. ASSUME NEW e \in Events
        PROVE  /\ row[e] \in 0..2 /\ (received[d][e] > 0 => row[e] > 0)
               /\ (e \in EventsIn(b) => row[e] > 0)
               /\ (e \notin EventsIn(b) => row[e] = received[d][e])
               /\ (received[d][e] = 0 => row[e] <= 1)
    <2>1. received[d][e] \in 0..2
      BY <1>2
    <2>2. row[e] = IF e \in EventsIn(b) /\ received[d][e] < 2
                   THEN received[d][e] + 1 ELSE received[d][e]
      OBVIOUS
    <2> HIDE DEF row
    <2>3. CASE e \in EventsIn(b) /\ received[d][e] < 2
      BY <2>1, <2>2, <2>3
    <2>4. CASE ~(e \in EventsIn(b) /\ received[d][e] < 2)
      BY <2>1, <2>2, <2>4
    <2> QED BY <2>3, <2>4
  <1>4. row \in [Events -> 0..2]
    <2>1. \A e \in Events : row[e] \in 0..2
      BY <1>3
    <2>2. DOMAIN row = Events /\ row = [e \in Events |-> row[e]]
      OBVIOUS
    <2> HIDE DEF row
    <2> QED BY <2>1, <2>2
  <1> HIDE DEF row
  <1>5. received'[d] = row /\ \A f \in Drains \ {d} : received'[f] = received[f]
    BY <1>1, <1>2
  <1>6. received' \in [Drains -> [Events -> 0..2]]
    BY <1>1, <1>2, <1>4
  <1>7. \A f \in Drains, e \in Events : received[f][e] > 0 => received'[f][e] > 0
    BY <1>3, <1>5
  <1> QED BY <1>3, <1>5, <1>6, <1>7

\* What the end of a POST leaves in the copy.
LEMMA PostIs ==
    ASSUME TypeInv, NEW t \in Procs, Stands(t, "post")
    PROVE  /\ log \in Seq(Events) /\ Copy(t) \in Storages /\ proc[t].drain \in Drains
           /\ proc[t].batch \in SUBSET (DOMAIN log) /\ proc[t].batch # {}
           /\ Delivered(Copy(t), proc[t].drain, proc[t].batch) \in Storages
           /\ Failed(Copy(t), proc[t].drain, proc[t].batch) \in Storages
  <1>1. /\ log \in Seq(Events) /\ Copy(t) \in Storages /\ proc[t].drain \in Drains
        /\ proc[t].batch \in SUBSET (DOMAIN log) /\ proc[t].batch # {}
    BY ProcFields DEF TypeInv, ProcOK, Stands, Copy
  <1>2. Delivered(Copy(t), proc[t].drain, proc[t].batch) \in Storages
    BY <1>1, MovesOn
  <1>3. WithLetter(Copy(t), proc[t].drain, proc[t].batch, MaxDead) \in Storages
    BY <1>1, GivesItUp
  <1>4. Copy(t).drains[proc[t].drain].fails + 1 < DeadAfter
          => FailedAgain(Copy(t), proc[t].drain) \in Storages
    BY <1>1, OwnersEdits DEF Kept
  <1>5. Failed(Copy(t), proc[t].drain, proc[t].batch) \in Storages
    BY <1>3, <1>4 DEF Failed
  <1> QED BY <1>1, <1>2, <1>5

LEMMA StartsType ==
    ASSUME TypeInv, Starts PROVE meddled' \subseteq {"overlap", "crash", "unanswered"}
  BY DEF TypeInv, Starts

LEMMA TypeEmit ==
    ASSUME TypeInv, NEW e \in Events, Emit(e)
    PROVE  TypeInv'
  <1>1. log' \in Seq(Events) /\ DOMAIN log \subseteq DOMAIN log'
    BY DEF TypeInv, Emit
  <1>2. \A p \in Procs : ProcOK(proc[p], DOMAIN log')
    BY <1>1 DEF TypeInv, ProcOK
  <1> QED BY <1>1, <1>2 DEF TypeInv, Emit, history

LEMMA TypeTick ==
    ASSUME TypeInv, NEW t \in Procs,
           StartTick(t) \/ SkipDrain(t) \/ PostBatch(t) \/ Accepted(t) \/ Refused(t)
    PROVE  TypeInv'
  <1> USE DEF history
  <1>0. {} \in SUBSET Nat /\ proc[t].todo \in SUBSET Drains
    BY ProcFields
  <1>1. CASE StartTick(t)
    <2> DEFINE q == Proc("scan", disk, {d \in Drains : Known(disk, d)}, Absent, {})
    <2>1. q \in ProcState /\ ProcOK(q, DOMAIN log)
      BY ProcIs DEF TypeInv, ProcOK
    <2>2. Turns(t, q)
      BY <1>1 DEF StartTick
    <2> HIDE DEF q
    <2> QED BY <1>1, <2>1, <2>2, TypeTurn, StartsType DEF StartTick, TypeInv
  <1>2. CASE SkipDrain(t)
    <2>1. PICK d \in proc[t].todo :
             Turns(t, Proc("scan", Copy(t), proc[t].todo \ {d}, Absent, {}))
      BY <1>2 DEF SkipDrain
    <2> DEFINE q == Proc("scan", Copy(t), proc[t].todo \ {d}, Absent, {})
    <2>2. Copy(t) \in Storages
      BY <1>2, ProcFields DEF SkipDrain, Stands, ProcOK, Copy
    <2>3. q \in ProcState /\ ProcOK(q, DOMAIN log)
      BY <1>0, <2>2, ProcIs DEF ProcOK
    <2>4. Turns(t, q)
      BY <2>1
    <2> HIDE DEF q
    <2> QED BY <1>2, <2>3, <2>4, TypeTurn DEF SkipDrain, TypeInv
  <1>3. CASE PostBatch(t)
    <2>1. PICK d \in proc[t].todo :
             /\ Batch(Copy(t), d) # {}
             /\ Turns(t, Proc("post", Copy(t), proc[t].todo \ {d}, d, Batch(Copy(t), d)))
      BY <1>3 DEF PostBatch
    <2> DEFINE q == Proc("post", Copy(t), proc[t].todo \ {d}, d, Batch(Copy(t), d))
    <2>2. Copy(t) \in Storages
      BY <1>3, ProcFields DEF PostBatch, Stands, ProcOK, Copy
    <2>3. Batch(Copy(t), d) \subseteq DOMAIN log /\ DOMAIN log \subseteq Nat
      BY BatchIsPending DEF TypeInv
    <2>4. d \in Drains
      BY <1>0
    <2>5. q \in ProcState /\ ProcOK(q, DOMAIN log)
      BY <1>0, <2>1, <2>2, <2>3, <2>4, ProcIs DEF ProcOK
    <2>6. Turns(t, q)
      BY <2>1
    <2> HIDE DEF q
    <2> QED BY <1>3, <2>5, <2>6, TypeTurn DEF PostBatch, TypeInv
  <1>4. CASE Accepted(t)
    <2> DEFINE s == Delivered(Copy(t), proc[t].drain, proc[t].batch)
               q == Proc("scan", s, proc[t].todo, Absent, {})
    <2>1. s \in Storages /\ proc[t].drain \in Drains
      BY <1>4, PostIs DEF Accepted
    <2>2. Turns(t, q) /\ Take(proc[t].drain, proc[t].batch)
      BY <1>4 DEF Accepted
    <2> HIDE DEF s
    <2>3. q \in ProcState /\ ProcOK(q, DOMAIN log)
      BY <1>0, <2>1, ProcIs DEF ProcOK
    <2>4. received' \in [Drains -> [Events -> 0..2]]
      BY <2>1, <2>2, TakeType
    <2> HIDE DEF q
    <2> QED BY <1>4, <2>2, <2>3, <2>4, TypeTurn DEF Accepted, TypeInv
  <1>5. CASE Refused(t)
    <2> DEFINE d == proc[t].drain
               s == Failed(Copy(t), d, proc[t].batch)
               q == Proc("scan", s, proc[t].todo, Absent, {})
    <2>1. s \in Storages /\ d \in Drains
      BY <1>5, PostIs DEF Refused
    <2>2. /\ Turns(t, q)
          /\ \/ received' = received /\ meddled' = meddled
             \/ Take(d, proc[t].batch) /\ meddled' = meddled \cup {"unanswered"}
      <3> HIDE DEF Turns
      <3> QED BY <1>5 DEF Refused
    <2>3. received' \in [Drains -> [Events -> 0..2]]
      BY <2>1, <2>2, TakeType DEF TypeInv
    <2>4. meddled' \subseteq {"overlap", "crash", "unanswered"}
      BY <2>2 DEF TypeInv
    <2>5. EventsIn(proc[t].batch) \subseteq Events
      BY <1>5, PostIs, BatchType DEF Refused
    <2>6. abandoned' \in [Drains -> SUBSET Events]
      <3>1. abandoned' = IF GivesUp(Copy(t), d)
                         THEN [abandoned EXCEPT ![d] = @ \cup EventsIn(proc[t].batch)]
                         ELSE abandoned
        BY <1>5 DEF Refused
      <3>2. abandoned \in [Drains -> SUBSET Events]
        BY DEF TypeInv
      <3> QED BY <2>1, <2>5, <3>1, <3>2
    <2>7. overflow' \in BOOLEAN
      <3>1. overflow' = TRUE \/ overflow' = overflow
        BY <1>5 DEF Refused
      <3> QED BY <3>1 DEF TypeInv
    <2> HIDE DEF s
    <2>8. q \in ProcState /\ ProcOK(q, DOMAIN log)
      BY <1>0, <2>1, ProcIs DEF ProcOK
    <2> HIDE DEF q, d
    <2> QED BY <1>5, <2>2, <2>3, <2>4, <2>6, <2>7, <2>8, TypeTurn DEF Refused, TypeInv
  <1> QED BY <1>1, <1>2, <1>3, <1>4, <1>5

LEMMA TypeWrite ==
    ASSUME TypeInv, NEW p \in Procs, WriteTmp(p) \/ Rename(p) \/ RenameFails(p)
    PROVE  TypeInv'
  <1> USE DEF history
  <1>1. CASE WriteTmp(p)
    <2> DEFINE q == Proc("rename", Absent, {}, proc[p].drain, {})
    <2>1. Copy(p) \in Storages
      BY <1>1, ProcFields DEF WriteTmp, Ready, Stands, ProcOK, Copy
    <2>2. q \in ProcState /\ q.pc = "rename" /\ q.copy = Absent /\ q.batch = {}
      BY ProcFields, ProcIs
    <2>3. Turns(p, q)
      BY <1>1 DEF WriteTmp
    <2> HIDE DEF q
    <2>4. ProcOK(q, DOMAIN log)
      BY <2>2 DEF ProcOK
    <2> QED BY <1>1, <2>1, <2>2, <2>3, <2>4, TypeTurn DEF WriteTmp, TypeInv
  <1>2. CASE Rename(p) \/ RenameFails(p)
    <2>1. Turns(p, IdleProc) /\ disk' \in Storages /\ tmp' \in Storages \cup {Absent}
      BY <1>2 DEF Rename, RenameFails, TypeInv
    <2> QED BY <1>2, <2>1, IdleIs, TypeTurn DEF Rename, RenameFails, TypeInv
  <1> QED BY <1>1, <1>2

\* What an owner's call is about to write.
LEMMA OwnersCopies ==
    ASSUME TypeInv, NEW d \in Drains
    PROVE  /\ Created(disk, d) \in Storages /\ Deleted(disk, d) \in Storages
           /\ Enabled(disk, d) \in Storages /\ Disabled(disk, d) \in Storages
           /\ disk.drains[d].secret < MaxSecrets => Rekeyed(disk, d) \in Storages
  BY CreatedIs, DeletedIs, OwnersEdits DEF TypeInv, Kept

LEMMA TypeChange ==
    ASSUME TypeInv, NEW a \in Procs, NEW d \in Drains, NEW copy \in Storages,
           Change(a, d, copy), unused' \subseteq Drains
    PROVE  TypeInv'
  <1> DEFINE q == Proc("write", copy, {}, d, {})
  <1>1. q \in ProcState /\ ProcOK(q, DOMAIN log)
    BY ProcIs DEF ProcOK
  <1>2. Turns(a, q)
    BY DEF Change
  <1> HIDE DEF q
  <1> QED BY <1>1, <1>2, TypeTurn, StartsType DEF Change, TypeInv, history

LEMMA TypeOwner ==
    ASSUME TypeInv, NEW a \in Procs, NEW d \in Drains, CreateDrain(a, d) \/ ChangeDrain(a, d)
    PROVE  TypeInv'
  <1>1. CASE CreateDrain(a, d)
    BY <1>1, OwnersCopies, TypeChange DEF CreateDrain, TypeInv
  <1>2. CASE ChangeDrain(a, d)
    <2>1. unused' \subseteq Drains
      BY <1>2 DEF ChangeDrain, TypeInv
    <2> QED BY <1>2, <2>1, OwnersCopies, TypeChange DEF ChangeDrain
  <1> QED BY <1>1, <1>2

LEMMA TypeCrash == ASSUME TypeInv, ServerDies PROVE TypeInv'
  <1>1. proc' \in [Procs -> ProcState] /\ \A p \in Procs : ProcOK(proc'[p], DOMAIN log)
    BY IdleIs DEF ServerDies
  <1>2. crashes' \in 0..MaxCrashes
    BY DrainBoundsAssumption DEF ServerDies, TypeInv
  <1> QED BY <1>1, <1>2 DEF ServerDies, TypeInv, history

\* The actions of DrainNext, one by one.
LEMMA Steps ==
    ASSUME DrainNext
    PROVE  \/ \E e \in Events : Emit(e)
           \/ \E t \in Procs :
                 StartTick(t) \/ SkipDrain(t) \/ PostBatch(t) \/ Accepted(t) \/ Refused(t)
           \/ \E p \in Procs : WriteTmp(p) \/ Rename(p) \/ RenameFails(p)
           \/ \E a \in Admins, d \in Drains : CreateDrain(a, d) \/ ChangeDrain(a, d)
           \/ ServerDies
  BY DEF DrainNext, Tick, Owner, Procs

LEMMA TypeStep == TypeInv /\ [DrainNext]_drainVars => TypeInv'
  <1> SUFFICES ASSUME TypeInv, [DrainNext]_drainVars PROVE TypeInv'
    OBVIOUS
  <1>1. CASE DrainNext
    BY <1>1, Steps, TypeEmit, TypeTick, TypeWrite, TypeOwner, TypeCrash DEF Procs
  <1>2. CASE UNCHANGED drainVars
    BY <1>2 DEF drainVars, history, TypeInv
  <1> QED BY <1>1, <1>2

\* Every variable stays in its type and every copy of drains.json, on file or in
\* the hands of a pass or a call, within its limits.
THEOREM DrainTypesHold == DrainSpec => []DrainTypeOK
  <1>1. TypeInv => DrainTypeOK
    <2> SUFFICES ASSUME TypeInv PROVE DrainTypeOK
      OBVIOUS
    <2>1. \A s \in Copies : IsStorage(s)
      BY StoragesAreStorages, ProcFields DEF Copies, Copy, TypeInv
    <2>2. \A p \in Procs :
             /\ proc[p].pc \in {"idle", "scan", "post", "write", "rename"}
             /\ proc[p].todo \subseteq Drains
             /\ proc[p].batch \subseteq DOMAIN log
      BY ProcFields DEF ProcOK
    <2> QED BY <2>1, <2>2 DEF TypeInv, DrainTypeOK
  <1> QED BY <1>1, TypeInit, TypeStep, PTL DEF DrainSpec

-----------------------------------------------------------------------------
(* No event is skipped                                                     *)

\* The log in the order of its keys, which (ts, id) gives it as long as no two
\* events share a millisecond.
InOrder == \A i, j \in DOMAIN log : i < j => log[i] < log[j]

\* An event behind a cursor was taken in, or is dead-lettered beside it.
Covered(s, d, e, rc, ab, ov) ==
    \/ rc[d][e] > 0
    \/ \E i \in DOMAIN s.dead : s.dead[i].drain = d /\ e \in s.dead[i].batch
    \/ ov /\ e \in ab[d]

Honest(s, lg, rc, ab, ov) ==
    /\ \A i \in DOMAIN s.dead : s.dead[i].batch \subseteq ab[s.dead[i].drain]
    /\ \A d \in Drains : s.drains[d].cursor = 0 \/ \E i \in DOMAIN lg : lg[i] = s.drains[d].cursor
    /\ \A d \in Drains : \A i \in DOMAIN lg :
          lg[i] <= s.drains[d].cursor => Covered(s, d, lg[i], rc, ab, ov)

\* A batch in flight starts behind the cursor and leaves no gap.
Fills(b, cursor, lg) ==
    /\ \A i \in b : lg[i] > cursor
    /\ \A i \in DOMAIN lg : cursor < lg[i] /\ lg[i] <= lg[LastPlace(b)] => i \in b

HonestProc(q, lg, rc, ab, ov) ==
    /\ q.pc \in {"scan", "post", "write"} => Honest(q.copy, lg, rc, ab, ov)
    /\ q.pc = "post" => Fills(q.batch, q.copy.drains[q.drain].cursor, lg)

SkipInv ==
    InOrder =>
        /\ Honest(disk, log, received, abandoned, overflow)
        /\ tmp # Absent => Honest(tmp, log, received, abandoned, overflow)
        /\ \A p \in Procs : HonestProc(proc[p], log, received, abandoned, overflow)

-----------------------------------------------------------------------------
\* Copies of a drain that keep their cursors, or lose one, stay honest.
LEMMA StaysHonest ==
    ASSUME NEW s \in Storages, NEW t \in Storages, NEW d \in Drains,
           log \in Seq(Events), t.dead = s.dead,
           t.drains[d].cursor = s.drains[d].cursor \/ t.drains[d].cursor = 0,
           \A e \in Drains \ {d} : t.drains[e] = s.drains[e],
           Honest(s, log, received, abandoned, overflow)
    PROVE  Honest(t, log, received, abandoned, overflow)
  <1>1. \A i \in DOMAIN log : log[i] \in Nat /\ log[i] > 0
    BY LoggedEvents
  <1>2. \A e \in Drains : t.drains[e].cursor = s.drains[e].cursor \/ t.drains[e].cursor = 0
    OBVIOUS
  <1>3. ASSUME NEW e \in Drains, NEW i \in DOMAIN log, log[i] <= t.drains[e].cursor
        PROVE  Covered(t, e, log[i], received, abandoned, overflow)
    <2>1. t.drains[e].cursor = s.drains[e].cursor
      BY <1>1, <1>2, <1>3
    <2>2. Covered(s, e, log[i], received, abandoned, overflow)
      BY <1>3, <2>1 DEF Honest
    <2> QED BY <2>2 DEF Covered
  <1>4. \A e \in Drains : t.drains[e].cursor = 0 \/ \E i \in DOMAIN log : log[i] = t.drains[e].cursor
    BY <1>2 DEF Honest
  <1>5. \A i \in DOMAIN t.dead : t.dead[i].batch \subseteq abandoned[t.dead[i].drain]
    BY DEF Honest
  <1> QED BY <1>3, <1>4, <1>5 DEF Honest

LEMMA DeletedStaysHonest ==
    ASSUME NEW s \in Storages, NEW d \in Drains, log \in Seq(Events),
           Honest(s, log, received, abandoned, overflow)
    PROVE  Honest(Deleted(s, d), log, received, abandoned, overflow)
  <1> DEFINE t == Deleted(s, d)
  <1>1. /\ t.dead = LettersBut(s.dead, d) /\ t.drains[d].cursor = 0
        /\ \A e \in Drains \ {d} : t.drains[e] = s.drains[e]
    BY DeletedIs, NoDrainType
  <1>2. s.dead \in Seq(DeadLetters)
    BY StoragesAreStorages
  <1>3. /\ \A k \in DOMAIN t.dead : \E i \in DOMAIN s.dead : t.dead[k] = s.dead[i]
        /\ \A i \in DOMAIN s.dead : s.dead[i].drain # d =>
              \E k \in DOMAIN t.dead : t.dead[k] = s.dead[i]
    BY <1>1, <1>2, LettersButKeeps
  <1> HIDE DEF t
  <1>4. \A i \in DOMAIN log : log[i] \in Nat /\ log[i] > 0
    BY LoggedEvents
  <1>5. ASSUME NEW e \in Drains, NEW i \in DOMAIN log, log[i] <= t.drains[e].cursor
        PROVE  Covered(t, e, log[i], received, abandoned, overflow)
    <2>1. e # d
      BY <1>1, <1>4, <1>5
    <2>2. Covered(s, e, log[i], received, abandoned, overflow)
      BY <1>1, <1>5, <2>1 DEF Honest
    <2>3. ASSUME NEW k \in DOMAIN s.dead, s.dead[k].drain = e, log[i] \in s.dead[k].batch
          PROVE  \E l \in DOMAIN t.dead : t.dead[l].drain = e /\ log[i] \in t.dead[l].batch
      BY <1>3, <2>1, <2>3
    <2> QED BY <2>2, <2>3 DEF Covered
  <1>6. \A e \in Drains : t.drains[e].cursor = 0 \/ \E i \in DOMAIN log : log[i] = t.drains[e].cursor
    BY <1>1 DEF Honest
  <1>7. \A i \in DOMAIN t.dead : t.dead[i].batch \subseteq abandoned[t.dead[i].drain]
    BY <1>3 DEF Honest
  <1> QED BY <1>5, <1>6, <1>7 DEF Honest, t

\* What was taken in and given up stays so.
LEMMA HistoryGrows ==
    ASSUME NEW s \in Storages, log \in Seq(Events), NEW rc, NEW ab, NEW ov,
           \A d \in Drains, e \in Events : received[d][e] > 0 => rc[d][e] > 0,
           \A d \in Drains : abandoned[d] \subseteq ab[d],
           overflow => ov,
           Honest(s, log, received, abandoned, overflow)
    PROVE  Honest(s, log, rc, ab, ov)
  <1>1. \A i \in DOMAIN log : log[i] \in Events
    OBVIOUS
  <1>2. \A i \in DOMAIN s.dead : s.dead[i].drain \in Drains
    <2>1. \A i \in DOMAIN s.dead : s.dead[i] \in DeadLetters
      BY StoragesAreStorages
    <2> QED BY <2>1 DEF DeadLetters
  <1>3. \A i \in DOMAIN s.dead : s.dead[i].batch \subseteq ab[s.dead[i].drain]
    BY <1>2 DEF Honest
  <1>4. ASSUME NEW d \in Drains, NEW i \in DOMAIN log, log[i] <= s.drains[d].cursor
        PROVE  Covered(s, d, log[i], rc, ab, ov)
    <2>1. Covered(s, d, log[i], received, abandoned, overflow)
      BY <1>4 DEF Honest
    <2> QED BY <1>1, <2>1 DEF Covered
  <1> QED BY <1>3, <1>4 DEF Honest

\* A new event lies past every cursor and past every batch in flight.
LEMMA LogGrows ==
    ASSUME log \in Seq(Events), NEW e \in Events, log' = Append(log, e), InOrder'
    PROVE  /\ InOrder
           /\ \A i \in DOMAIN log : i \in DOMAIN log' /\ log'[i] = log[i] /\ log'[i] < e
           /\ \A i \in DOMAIN log' : i \in DOMAIN log \/ log'[i] = e
  <1>1. /\ Len(log) \in Nat /\ DOMAIN log = 1..Len(log)
        /\ DOMAIN log' = 1..(Len(log) + 1) /\ log'[Len(log) + 1] = e
        /\ \A i \in 1..Len(log) : log'[i] = log[i]
    OBVIOUS
  <1>2. \A i, j \in 1..(Len(log) + 1) : i < j => log'[i] < log'[j]
    BY <1>1 DEF InOrder
  <1>3. \A i \in 1..Len(log) : i \in 1..(Len(log) + 1) /\ i < Len(log) + 1
    BY <1>1
  <1>4. InOrder
    BY <1>1, <1>2, <1>3 DEF InOrder
  <1>5. Len(log) + 1 \in 1..(Len(log) + 1)
    BY <1>1
  <1>6. \A i \in 1..Len(log) : log'[i] < e
    BY <1>1, <1>2, <1>3, <1>5
  <1>7. \A i \in 1..(Len(log) + 1) : i \in 1..Len(log) \/ i = Len(log) + 1
    BY <1>1
  <1> QED BY <1>1, <1>3, <1>4, <1>6, <1>7

LEMMA HonestAsLogGrows ==
    ASSUME log \in Seq(Events), NEW e \in Events, log' = Append(log, e), InOrder',
           NEW s \in Storages, Honest(s, log, received, abandoned, overflow)
    PROVE  Honest(s, log', received, abandoned, overflow)
  <1>1. \A i \in DOMAIN log : log[i] \in Nat
    BY LoggedEvents
  <1>2. e \in Nat \ {0}
    BY DrainBoundsAssumption DEF Events
  <1>3. ASSUME NEW d \in Drains, NEW i \in DOMAIN log', log'[i] <= s.drains[d].cursor
        PROVE  Covered(s, d, log'[i], received, abandoned, overflow)
    <2>1. s.drains[d].cursor = 0 \/ \E j \in DOMAIN log : log[j] = s.drains[d].cursor
      BY DEF Honest
    <2>2. s.drains[d].cursor < e
      BY <1>1, <1>2, <2>1, LogGrows
    <2>3. s.drains[d].cursor \in Nat
      BY <1>1, <2>1
    <2>4. log'[i] # e
      BY <1>2, <1>3, <2>2, <2>3
    <2>5. i \in DOMAIN log /\ log'[i] = log[i]
      BY <2>4, LogGrows
    <2> QED BY <1>3, <2>5 DEF Honest
  <1>4. \A d \in Drains : s.drains[d].cursor = 0 \/ \E i \in DOMAIN log' : log'[i] = s.drains[d].cursor
    BY LogGrows DEF Honest
  <1> QED BY <1>3, <1>4 DEF Honest

LEMMA FillsAsLogGrows ==
    ASSUME log \in Seq(Events), NEW e \in Events, log' = Append(log, e), InOrder',
           NEW b \in SUBSET (DOMAIN log), b # {}, NEW cursor, Fills(b, cursor, log)
    PROVE  Fills(b, cursor, log')
  <1>1. LastPlace(b) \in DOMAIN log
    BY BatchType
  <1>2. \A i \in DOMAIN log : log[i] \in Nat
    BY LoggedEvents
  <1>3. e \in Nat
    BY DrainBoundsAssumption DEF Events
  <1>4. \A i \in b : log'[i] > cursor
    BY LogGrows DEF Fills
  <1>5. ASSUME NEW i \in DOMAIN log', cursor < log'[i], log'[i] <= log'[LastPlace(b)]
        PROVE  i \in b
    <2>1. log'[LastPlace(b)] = log[LastPlace(b)] /\ log[LastPlace(b)] < e
      BY <1>1, LogGrows
    <2>2. log'[i] # e
      BY <1>1, <1>2, <1>3, <1>5, <2>1
    <2>3. i \in DOMAIN log /\ log'[i] = log[i]
      BY <2>2, LogGrows
    <2> QED BY <1>5, <2>1, <2>3 DEF Fills
  <1> QED BY <1>4, <1>5 DEF Fills

\* The first MaxBatch events past the cursor leave no gap.
LEMMA BatchFills ==
    ASSUME log \in Seq(Events), InOrder, NEW s \in Storages, NEW d \in Drains,
           Batch(s, d) # {}
    PROVE  Fills(Batch(s, d), s.drains[d].cursor, log)
  <1> DEFINE b == Batch(s, d)
             P == Pending(s, d)
             m == LastPlace(b)
  <1>1. b \subseteq P /\ P \subseteq DOMAIN log
    BY BatchIsPending
  <1>2. DOMAIN log = 1..Len(log) /\ Len(log) \in Nat /\ \A i \in DOMAIN log : log[i] \in Nat
    BY LoggedEvents
  <1>3. m \in b
    BY <1>1, BatchType
  <1>4. \A i \in b : log[i] > s.drains[d].cursor
    BY <1>1 DEF Pending
  <1>5. ASSUME NEW i \in DOMAIN log, s.drains[d].cursor < log[i], log[i] <= log[m]
        PROVE  i \in b
    <2>0. s.drains[d].cursor \in Nat
      BY StoragesAreStorages, DrainFields
    <2>1. i \in P
      BY <1>2, <1>5, <2>0 DEF Pending
    <2>2. i <= m
      <3>1. m \in DOMAIN log
        BY <1>1, <1>3
      <3>2. ~(m < i)
        BY <1>2, <1>5, <3>1 DEF InOrder
      <3> QED BY <1>2, <3>1, <3>2
    <2>3. Cardinality(UpTo(P, i)) <= Cardinality(UpTo(P, m))
      BY <1>1, <1>2, <1>3, <2>1, <2>2, UpToGrows
    <2>4. Cardinality(UpTo(P, m)) <= MaxBatch
      BY <1>3 DEF Batch
    <2>5. Cardinality(UpTo(P, i)) \in Nat /\ Cardinality(UpTo(P, m)) \in Nat
      BY <1>1, <1>2, UpToIsFinite
    <2>6. Cardinality(UpTo(P, i)) <= MaxBatch
      BY <2>3, <2>4, <2>5, DrainBoundsAssumption
    <2> QED BY <2>1, <2>6 DEF Batch
  <1> QED BY <1>4, <1>5 DEF Fills

\* A batch taken in covers what the cursor moves past.
LEMMA DeliveredIsHonest ==
    ASSUME NEW s \in Storages, NEW d \in Drains, log \in Seq(Events),
           NEW b \in SUBSET (DOMAIN log), b # {}, Fills(b, s.drains[d].cursor, log),
           NEW rc, NEW ab, NEW ov, Honest(s, log, rc, ab, ov),
           \A e \in EventsIn(b) : rc[d][e] > 0
    PROVE  Honest(Delivered(s, d, b), log, rc, ab, ov)
  <1> DEFINE t == Delivered(s, d, b)
  <1>1. /\ t.dead = s.dead /\ t.drains[d].cursor = CursorAfter(b)
        /\ \A e \in Drains \ {d} : t.drains[e] = s.drains[e]
    BY MovesOn
  <1> HIDE DEF t
  <1>2. ASSUME NEW e \in Drains, NEW i \in DOMAIN log, log[i] <= t.drains[e].cursor
        PROVE  Covered(t, e, log[i], rc, ab, ov)
    <2>1. CASE log[i] <= s.drains[e].cursor
      <3>1. Covered(s, e, log[i], rc, ab, ov)
        BY <2>1 DEF Honest
      <3> QED BY <1>1, <3>1 DEF Covered
    <2>2. CASE ~(log[i] <= s.drains[e].cursor)
      <3>1. e = d
        BY <1>1, <1>2, <2>2
      <3>2. s.drains[d].cursor \in Nat /\ log[i] \in Nat
        BY StoragesAreStorages, DrainFields, LoggedEvents
      <3>3. s.drains[d].cursor < log[i]
        BY <2>2, <3>1, <3>2
      <3>4. log[i] <= log[LastPlace(b)]
        BY <1>1, <1>2, <3>1 DEF CursorAfter
      <3>5. log[i] \in EventsIn(b)
        BY <3>3, <3>4 DEF Fills, EventsIn
      <3> QED BY <3>1, <3>5 DEF Covered
    <2> QED BY <2>1, <2>2
  <1>3. \A e \in Drains : t.drains[e].cursor = 0 \/ \E i \in DOMAIN log : log[i] = t.drains[e].cursor
    <2>1. TAKE e \in Drains
    <2>2. CASE e = d
      <3>1. LastPlace(b) \in DOMAIN log
        BY BatchType
      <3> QED BY <1>1, <2>2, <3>1 DEF CursorAfter
    <2>3. CASE e # d
      BY <1>1, <2>3 DEF Honest
    <2> QED BY <2>2, <2>3
  <1>4. \A i \in DOMAIN t.dead : t.dead[i].batch \subseteq ab[t.dead[i].drain]
    BY <1>1 DEF Honest
  <1> QED BY <1>2, <1>3, <1>4 DEF Honest, t

\* So does its letter, and a letter that a full list drops is on record as lost.
LEMMA GivenUpIsHonest ==
    ASSUME NEW s \in Storages, NEW d \in Drains, log \in Seq(Events),
           NEW b \in SUBSET (DOMAIN log), b # {}, Fills(b, s.drains[d].cursor, log),
           NEW rc, NEW ab, NEW ov, Honest(s, log, rc, ab, ov),
           EventsIn(b) \subseteq ab[d], Len(s.dead) >= MaxDead => ov
    PROVE  Honest(WithLetter(s, d, b, MaxDead), log, rc, ab, ov)
  <1> DEFINE t == WithLetter(s, d, b, MaxDead)
  <1>1. /\ t \in Storages /\ t.drains[d].cursor = CursorAfter(b)
        /\ \A e \in Drains \ {d} : t.drains[e] = s.drains[e]
        /\ 1 \in DOMAIN t.dead /\ t.dead[1] = Letter(d, EventsIn(b))
        /\ \A i \in DOMAIN t.dead :
              i = 1 \/ (i - 1 \in DOMAIN s.dead /\ t.dead[i] = s.dead[i - 1])
        /\ Len(s.dead) < MaxDead =>
              \A i \in DOMAIN s.dead : i + 1 \in DOMAIN t.dead /\ t.dead[i + 1] = s.dead[i]
    BY GivesItUp
  <1> HIDE DEF t
  <1>2. t.dead[1].drain = d /\ t.dead[1].batch = EventsIn(b)
    BY <1>1 DEF Letter
  <1>3. Len(s.dead) < MaxDead \/ ov
    BY StoragesAreStorages, DrainBoundsAssumption
  <1>4. ASSUME NEW e \in Drains, NEW i \in DOMAIN log, log[i] <= t.drains[e].cursor
        PROVE  Covered(t, e, log[i], rc, ab, ov)
    <2>1. CASE log[i] <= s.drains[e].cursor
      <3>1. Covered(s, e, log[i], rc, ab, ov)
        BY <2>1 DEF Honest
      <3>2. ASSUME NEW k \in DOMAIN s.dead, s.dead[k].drain = e, log[i] \in s.dead[k].batch
            PROVE  Covered(t, e, log[i], rc, ab, ov)
        <4>1. CASE ov
          <5>1. log[i] \in ab[e]
            BY <3>2 DEF Honest
          <5> QED BY <4>1, <5>1 DEF Covered
        <4>2. CASE Len(s.dead) < MaxDead
          <5>1. k + 1 \in DOMAIN t.dead /\ t.dead[k + 1] = s.dead[k]
            BY <1>1, <4>2
          <5> QED BY <3>2, <5>1 DEF Covered
        <4> QED BY <1>3, <4>1, <4>2
      <3> QED BY <3>1, <3>2 DEF Covered
    <2>2. CASE ~(log[i] <= s.drains[e].cursor)
      <3>1. e = d
        BY <1>1, <1>4, <2>2
      <3>2. s.drains[d].cursor \in Nat /\ log[i] \in Nat
        BY StoragesAreStorages, DrainFields, LoggedEvents
      <3>3. s.drains[d].cursor < log[i]
        BY <2>2, <3>1, <3>2
      <3>4. log[i] <= log[LastPlace(b)]
        BY <1>1, <1>4, <3>1 DEF CursorAfter
      <3>5. log[i] \in EventsIn(b)
        BY <3>3, <3>4 DEF Fills, EventsIn
      <3> QED BY <1>1, <1>2, <3>1, <3>5 DEF Covered
    <2> QED BY <2>1, <2>2
  <1>5. \A e \in Drains : t.drains[e].cursor = 0 \/ \E i \in DOMAIN log : log[i] = t.drains[e].cursor
    <2>1. TAKE e \in Drains
    <2>2. CASE e = d
      <3>1. LastPlace(b) \in DOMAIN log
        BY BatchType
      <3> QED BY <1>1, <2>2, <3>1 DEF CursorAfter
    <2>3. CASE e # d
      BY <1>1, <2>3 DEF Honest
    <2> QED BY <2>2, <2>3
  <1>6. \A i \in DOMAIN t.dead : t.dead[i].batch \subseteq ab[t.dead[i].drain]
    <2>1. TAKE i \in DOMAIN t.dead
    <2>2. CASE i = 1
      BY <1>2, <2>2
    <2>3. CASE i # 1
      <3>1. i - 1 \in DOMAIN s.dead /\ t.dead[i] = s.dead[i - 1]
        BY <1>1, <2>3
      <3> QED BY <3>1 DEF Honest
    <2> QED BY <2>2, <2>3
  <1> QED BY <1>4, <1>5, <1>6 DEF Honest, t

-----------------------------------------------------------------------------
(* Each action keeps the copies honest                                     *)

LEMMA SkipInit == DrainInit => SkipInv
  <1> SUFFICES ASSUME DrainInit PROVE SkipInv
    OBVIOUS
  <1>1. log = <<>> /\ disk = NoDrains /\ tmp = Absent
    BY DEF DrainInit
  <1>2. disk.dead = <<>> /\ \A d \in Drains : disk.drains[d].cursor = 0
    BY <1>1, StorageFields, NoDrainType DEF NoDrains
  <1>3. Honest(disk, log, received, abandoned, overflow)
    BY <1>1, <1>2 DEF Honest
  <1>4. \A p \in Procs : proc[p].pc = "idle"
    BY IdleIs DEF DrainInit
  <1>5. \A p \in Procs : HonestProc(proc[p], log, received, abandoned, overflow)
    BY <1>4 DEF HonestProc
  <1> QED BY <1>1, <1>3, <1>5 DEF SkipInv

\* A turn that stores copies process p holds, or publishes the one in the
\* temporary file, while what was received, given up and cut only grows.
Stores(p) ==
    /\ \/ disk' = disk
       \/ disk' = tmp /\ tmp # Absent
    /\ \/ tmp' = tmp
       \/ tmp' = Absent
       \/ tmp' = Copy(p) /\ proc[p].pc \in {"scan", "write"}
Grows ==
    /\ \A d \in Drains, e \in Events : received[d][e] > 0 => received'[d][e] > 0
    /\ \A d \in Drains : abandoned[d] \subseteq abandoned'[d]
    /\ overflow => overflow'

LEMMA SkipTurn ==
    ASSUME TypeInv, SkipInv, NEW p \in Procs, NEW q \in ProcState, Turns(p, q), log' = log,
           Grows, Stores(p),
           InOrder => HonestProc(q, log, received', abandoned', overflow')
    PROVE  SkipInv'
  <1> SUFFICES ASSUME InOrder'
               PROVE  /\ Honest(disk', log, received', abandoned', overflow')
                      /\ tmp' # Absent => Honest(tmp', log, received', abandoned', overflow')
                      /\ \A r \in Procs : HonestProc(proc'[r], log, received', abandoned', overflow')
    BY DEF SkipInv
  <1>1. InOrder /\ log \in Seq(Events)
    BY DEF InOrder, TypeInv
  <1>2. ASSUME NEW s \in Storages, Honest(s, log, received, abandoned, overflow)
        PROVE  Honest(s, log, received', abandoned', overflow')
    BY <1>1, <1>2, HistoryGrows DEF Grows
  <1>3. Honest(disk, log, received', abandoned', overflow')
    BY <1>1, <1>2 DEF SkipInv, TypeInv
  <1>4. tmp # Absent => Honest(tmp, log, received', abandoned', overflow')
    BY <1>1, <1>2 DEF SkipInv, TypeInv
  <1>5. ASSUME NEW r \in Procs, proc[r].pc \in {"scan", "post", "write"}
        PROVE  Honest(Copy(r), log, received', abandoned', overflow')
    <2>1. Copy(r) \in Storages
      BY <1>5, ProcFields DEF ProcOK, Copy
    <2>2. Honest(Copy(r), log, received, abandoned, overflow)
      BY <1>1, <1>5 DEF SkipInv, HonestProc, Copy
    <2> QED BY <1>2, <2>1, <2>2
  <1>6. ASSUME NEW r \in Procs
        PROVE  HonestProc(proc'[r], log, received', abandoned', overflow')
    <2>1. CASE r = p
      BY <1>1, <2>1, TurnIs
    <2>2. CASE r # p
      <3>1. proc'[r] = proc[r]
        BY <2>2, TurnIs
      <3>2. HonestProc(proc[r], log, received, abandoned, overflow)
        BY <1>1 DEF SkipInv
      <3> QED BY <1>5, <3>1, <3>2 DEF HonestProc, Copy
    <2> QED BY <2>1, <2>2
  <1>7. Honest(disk', log, received', abandoned', overflow')
    BY <1>3, <1>4 DEF Stores
  <1>8. tmp' # Absent => Honest(tmp', log, received', abandoned', overflow')
    BY <1>4, <1>5 DEF Stores
  <1> QED BY <1>6, <1>7, <1>8

\* A turn beside which the history does not move.
LEMMA QuietTurn ==
    ASSUME TypeInv, SkipInv, NEW p \in Procs, NEW q \in ProcState, Turns(p, q),
           UNCHANGED <<log, history>>, Stores(p),
           InOrder => HonestProc(q, log, received, abandoned, overflow)
    PROVE  SkipInv'
  <1>1. log' = log /\ received' = received /\ abandoned' = abandoned /\ overflow' = overflow
    BY DEF history
  <1>2. InOrder => HonestProc(q, log, received', abandoned', overflow')
    BY <1>1
  <1>3. Grows
    BY <1>1 DEF Grows
  <1> QED BY <1>1, <1>2, <1>3, SkipTurn

LEMMA SkipEmit == ASSUME TypeInv, SkipInv, NEW e \in Events, Emit(e) PROVE SkipInv'
  <1>1. /\ log \in Seq(Events) /\ log' = Append(log, e) /\ disk' = disk /\ tmp' = tmp
        /\ proc' = proc /\ received' = received /\ abandoned' = abandoned /\ overflow' = overflow
    BY DEF Emit, TypeInv, history
  <1> SUFFICES ASSUME InOrder'
               PROVE  /\ Honest(disk, log', received, abandoned, overflow)
                      /\ tmp # Absent => Honest(tmp, log', received, abandoned, overflow)
                      /\ \A p \in Procs : HonestProc(proc[p], log', received, abandoned, overflow)
    BY <1>1 DEF SkipInv
  <1>2. InOrder
    BY <1>1, LogGrows
  <1>3. ASSUME NEW s \in Storages, Honest(s, log, received, abandoned, overflow)
        PROVE  Honest(s, log', received, abandoned, overflow)
    BY <1>1, <1>3, HonestAsLogGrows
  <1>4. ASSUME NEW p \in Procs
        PROVE  HonestProc(proc[p], log', received, abandoned, overflow)
    <2>1. HonestProc(proc[p], log, received, abandoned, overflow)
      BY <1>2 DEF SkipInv
    <2>2. proc[p].pc \in {"scan", "post", "write"} => Honest(proc[p].copy, log', received, abandoned, overflow)
      BY <1>3, <2>1, ProcFields DEF HonestProc, ProcOK
    <2>3. ASSUME proc[p].pc = "post"
          PROVE  Fills(proc[p].batch, proc[p].copy.drains[proc[p].drain].cursor, log')
      <3>1. proc[p].batch \in SUBSET (DOMAIN log) /\ proc[p].batch # {}
        BY <2>3, ProcFields DEF ProcOK
      <3>2. Fills(proc[p].batch, proc[p].copy.drains[proc[p].drain].cursor, log)
        BY <2>1, <2>3 DEF HonestProc
      <3> QED BY <1>1, <3>1, <3>2, FillsAsLogGrows
    <2> QED BY <2>2, <2>3 DEF HonestProc
  <1> QED BY <1>2, <1>3, <1>4 DEF SkipInv, TypeInv

\* The end of a POST, whatever its outcome.
LEMMA SkipPosted ==
    ASSUME TypeInv, SkipInv, InOrder, NEW t \in Procs, Stands(t, "post"),
           NEW rc, NEW ab, NEW ov,
           \A d \in Drains, e \in Events : received[d][e] > 0 => rc[d][e] > 0,
           \A d \in Drains : abandoned[d] \subseteq ab[d], overflow => ov
    PROVE  /\ (\A e \in EventsIn(proc[t].batch) : rc[proc[t].drain][e] > 0)
                 => Honest(Delivered(Copy(t), proc[t].drain, proc[t].batch), log, rc, ab, ov)
           /\ (/\ GivesUp(Copy(t), proc[t].drain) => EventsIn(proc[t].batch) \subseteq ab[proc[t].drain]
               /\ GivesUp(Copy(t), proc[t].drain) /\ Len(Copy(t).dead) >= MaxDead => ov)
                 => Honest(Failed(Copy(t), proc[t].drain, proc[t].batch), log, rc, ab, ov)
  <1> DEFINE d == proc[t].drain
             b == proc[t].batch
             s == Copy(t)
  <1>1. s \in Storages /\ d \in Drains /\ b \in SUBSET (DOMAIN log) /\ b # {} /\ log \in Seq(Events)
    BY PostIs
  <1>2. Honest(s, log, received, abandoned, overflow) /\ Fills(b, s.drains[d].cursor, log)
    BY DEF SkipInv, HonestProc, Stands, Copy
  <1> HIDE DEF d, b, s
  <1>3. Honest(s, log, rc, ab, ov)
    BY <1>1, <1>2, HistoryGrows
  <1>4. (\A e \in EventsIn(b) : rc[d][e] > 0) => Honest(Delivered(s, d, b), log, rc, ab, ov)
    BY <1>1, <1>2, <1>3, DeliveredIsHonest
  <1>5. ASSUME GivesUp(s, d) => EventsIn(b) \subseteq ab[d],
               GivesUp(s, d) /\ Len(s.dead) >= MaxDead => ov
        PROVE  Honest(Failed(s, d, b), log, rc, ab, ov)
    <2>1. s.drains[d].fails \in Nat
      BY <1>1, StoragesAreStorages, DrainFields
    <2>2. CASE GivesUp(s, d)
      <3>1. Failed(s, d, b) = WithLetter(s, d, b, MaxDead)
        BY <2>1, <2>2, DrainBoundsAssumption DEF GivesUp, Failed
      <3> QED BY <1>1, <1>2, <1>3, <1>5, <2>2, <3>1, GivenUpIsHonest
    <2>3. CASE ~GivesUp(s, d)
      <3>1. s.drains[d].fails + 1 < DeadAfter
        BY <2>1, <2>3, DrainBoundsAssumption DEF GivesUp
      <3>2. Failed(s, d, b) = FailedAgain(s, d)
        BY <3>1 DEF Failed
      <3>3. Kept(s, FailedAgain(s, d), d)
        BY <1>1, <3>1, OwnersEdits
      <3>4. Honest(FailedAgain(s, d), log, received, abandoned, overflow)
        BY <1>1, <1>2, <3>3, StaysHonest DEF Kept
      <3>5. Honest(FailedAgain(s, d), log, rc, ab, ov)
        BY <1>1, <3>3, <3>4, HistoryGrows DEF Kept
      <3> QED BY <3>2, <3>5
    <2> QED BY <2>2, <2>3
  <1> QED BY <1>4, <1>5 DEF d, b, s

LEMMA SkipTick ==
    ASSUME TypeInv, SkipInv, NEW t \in Procs,
           StartTick(t) \/ SkipDrain(t) \/ PostBatch(t) \/ Accepted(t) \/ Refused(t)
    PROVE  SkipInv'
  <1>0. {} \in SUBSET Nat /\ proc[t].todo \in SUBSET Drains
    BY ProcFields
  <1>1. CASE StartTick(t)
    <2> DEFINE q == Proc("scan", disk, {d \in Drains : Known(disk, d)}, Absent, {})
    <2>1. q \in ProcState /\ q.pc = "scan" /\ q.copy = disk
      BY ProcIs DEF TypeInv
    <2>2. Turns(t, q)
      BY <1>1 DEF StartTick
    <2> HIDE DEF q
    <2>3. InOrder => HonestProc(q, log, received, abandoned, overflow)
      BY <2>1 DEF SkipInv, HonestProc
    <2>4. UNCHANGED <<log, history>> /\ Stores(t)
      BY <1>1 DEF StartTick, Stores
    <2> QED BY <2>1, <2>2, <2>3, <2>4, QuietTurn
  <1>2. CASE SkipDrain(t)
    <2>1. PICK d \in proc[t].todo :
             Turns(t, Proc("scan", Copy(t), proc[t].todo \ {d}, Absent, {}))
      BY <1>2 DEF SkipDrain
    <2> DEFINE q == Proc("scan", Copy(t), proc[t].todo \ {d}, Absent, {})
    <2>2. Copy(t) \in Storages
      BY <1>2, ProcFields DEF SkipDrain, Stands, ProcOK, Copy
    <2>3. q \in ProcState /\ q.pc = "scan" /\ q.copy = Copy(t)
      BY <1>0, <2>2, ProcIs
    <2>4. Turns(t, q)
      BY <2>1
    <2> HIDE DEF q
    <2>5. InOrder => HonestProc(q, log, received, abandoned, overflow)
      BY <1>2, <2>3 DEF SkipInv, HonestProc, SkipDrain, Stands, Copy
    <2>6. UNCHANGED <<log, history>> /\ Stores(t)
      BY <1>2 DEF SkipDrain, Stores
    <2> QED BY <2>3, <2>4, <2>5, <2>6, QuietTurn
  <1>3. CASE PostBatch(t)
    <2>1. PICK d \in proc[t].todo :
             /\ Batch(Copy(t), d) # {}
             /\ Turns(t, Proc("post", Copy(t), proc[t].todo \ {d}, d, Batch(Copy(t), d)))
      BY <1>3 DEF PostBatch
    <2> DEFINE q == Proc("post", Copy(t), proc[t].todo \ {d}, d, Batch(Copy(t), d))
    <2>2. Copy(t) \in Storages
      BY <1>3, ProcFields DEF PostBatch, Stands, ProcOK, Copy
    <2>3. Batch(Copy(t), d) \subseteq DOMAIN log /\ DOMAIN log \subseteq Nat
      BY BatchIsPending DEF TypeInv
    <2>4. d \in Drains
      BY <1>0
    <2>5. /\ q \in ProcState /\ q.pc = "post" /\ q.copy = Copy(t) /\ q.drain = d
          /\ q.batch = Batch(Copy(t), d)
      BY <1>0, <2>2, <2>3, <2>4, ProcIs
    <2>6. Turns(t, q)
      BY <2>1
    <2> HIDE DEF q
    <2>7. ASSUME InOrder
          PROVE  HonestProc(q, log, received, abandoned, overflow)
      <3>1. Honest(Copy(t), log, received, abandoned, overflow)
        BY <1>3, <2>7 DEF SkipInv, HonestProc, PostBatch, Stands, Copy
      <3>2. Fills(Batch(Copy(t), d), Copy(t).drains[d].cursor, log)
        BY <2>1, <2>2, <2>4, <2>7, BatchFills DEF TypeInv
      <3> QED BY <2>5, <3>1, <3>2 DEF HonestProc
    <2>8. UNCHANGED <<log, history>> /\ Stores(t)
      BY <1>3 DEF PostBatch, Stores
    <2> QED BY <2>5, <2>6, <2>7, <2>8, QuietTurn
  <1>4. CASE Accepted(t)
    <2> DEFINE d == proc[t].drain
               s == Delivered(Copy(t), d, proc[t].batch)
               q == Proc("scan", s, proc[t].todo, Absent, {})
    <2>1. s \in Storages /\ d \in Drains
      BY <1>4, PostIs DEF Accepted
    <2>2. Turns(t, q) /\ Take(d, proc[t].batch)
      BY <1>4 DEF Accepted
    <2>3. /\ \A f \in Drains, e \in Events : received[f][e] > 0 => received'[f][e] > 0
          /\ \A e \in EventsIn(proc[t].batch) : received'[d][e] > 0
      <3>1. EventsIn(proc[t].batch) \subseteq Events
        BY <1>4, PostIs, BatchType DEF Accepted
      <3> QED BY <2>1, <2>2, <3>1, TakeType
    <2>4. /\ Stands(t, "post") /\ abandoned' = abandoned /\ overflow' = overflow
          /\ disk' = disk /\ tmp' = tmp /\ log' = log
      BY <1>4 DEF Accepted
    <2>5. InOrder => Honest(s, log, received', abandoned', overflow')
      BY <2>3, <2>4, SkipPosted
    <2> HIDE DEF s
    <2>6. q \in ProcState /\ q.pc = "scan" /\ q.copy = s
      BY <1>0, <2>1, ProcIs
    <2> HIDE DEF q, d
    <2>7. InOrder => HonestProc(q, log, received', abandoned', overflow')
      BY <2>5, <2>6 DEF HonestProc
    <2>8. Grows /\ Stores(t)
      BY <2>3, <2>4 DEF Grows, Stores
    <2> QED BY <2>2, <2>4, <2>6, <2>7, <2>8, SkipTurn
  <1>5. CASE Refused(t)
    <2> DEFINE d == proc[t].drain
               s == Failed(Copy(t), d, proc[t].batch)
               q == Proc("scan", s, proc[t].todo, Absent, {})
    <2>1. s \in Storages /\ d \in Drains
      BY <1>5, PostIs DEF Refused
    <2>2. /\ Turns(t, q)
          /\ received' = received \/ Take(d, proc[t].batch)
      <3> HIDE DEF Turns
      <3> QED BY <1>5 DEF Refused
    <2>3. \A f \in Drains, e \in Events : received[f][e] > 0 => received'[f][e] > 0
      BY <2>1, <2>2, TakeType
    <2>4. Stands(t, "post") /\ disk' = disk /\ tmp' = tmp /\ log' = log
      BY <1>5 DEF Refused
    <2>5. /\ \A f \in Drains : abandoned[f] \subseteq abandoned'[f]
          /\ GivesUp(Copy(t), d) => EventsIn(proc[t].batch) \subseteq abandoned'[d]
      <3>1. abandoned' = IF GivesUp(Copy(t), d)
                         THEN [abandoned EXCEPT ![d] = @ \cup EventsIn(proc[t].batch)]
                         ELSE abandoned
        BY <1>5 DEF Refused
      <3>2. abandoned \in [Drains -> SUBSET Events]
        BY DEF TypeInv
      <3> HIDE DEF d
      <3> QED BY <2>1, <3>1, <3>2
    <2>6. /\ overflow => overflow'
          /\ GivesUp(Copy(t), d) /\ Len(Copy(t).dead) >= MaxDead => overflow'
      BY <1>5 DEF Refused
    <2>7. InOrder => Honest(s, log, received', abandoned', overflow')
      BY <2>3, <2>4, <2>5, <2>6, SkipPosted
    <2> HIDE DEF s
    <2>8. q \in ProcState /\ q.pc = "scan" /\ q.copy = s
      BY <1>0, <2>1, ProcIs
    <2> HIDE DEF q, d
    <2>9. InOrder => HonestProc(q, log, received', abandoned', overflow')
      BY <2>7, <2>8 DEF HonestProc
    <2>10. Grows /\ Stores(t)
      BY <2>3, <2>4, <2>5, <2>6 DEF Grows, Stores
    <2> QED BY <2>2, <2>4, <2>8, <2>9, <2>10, SkipTurn
  <1> QED BY <1>1, <1>2, <1>3, <1>4, <1>5

LEMMA SkipWrite ==
    ASSUME TypeInv, SkipInv, NEW p \in Procs, WriteTmp(p) \/ Rename(p) \/ RenameFails(p)
    PROVE  SkipInv'
  <1>1. CASE WriteTmp(p)
    <2> DEFINE q == Proc("rename", Absent, {}, proc[p].drain, {})
    <2>1. q \in ProcState /\ q.pc = "rename"
      BY ProcFields, ProcIs
    <2>2. Turns(p, q) /\ proc[p].pc \in {"scan", "write"}
      BY <1>1 DEF WriteTmp, Ready, Stands
    <2> HIDE DEF q
    <2>3. HonestProc(q, log, received, abandoned, overflow)
      BY <2>1 DEF HonestProc
    <2>4. UNCHANGED <<log, history>> /\ Stores(p)
      BY <1>1, <2>2 DEF WriteTmp, Stores
    <2> QED BY <2>1, <2>2, <2>3, <2>4, QuietTurn
  <1>2. CASE Rename(p) \/ RenameFails(p)
    <2>1. HonestProc(IdleProc, log, received, abandoned, overflow)
      BY IdleIs DEF HonestProc
    <2>2. Turns(p, IdleProc) /\ UNCHANGED <<log, history>> /\ Stores(p)
      BY <1>2 DEF Rename, RenameFails, Stores
    <2> QED BY <2>1, <2>2, IdleIs, QuietTurn
  <1> QED BY <1>1, <1>2

LEMMA SkipChange ==
    ASSUME TypeInv, SkipInv, NEW a \in Procs, NEW d \in Drains, NEW copy \in Storages,
           Change(a, d, copy),
           InOrder => Honest(copy, log, received, abandoned, overflow)
    PROVE  SkipInv'
  <1> DEFINE q == Proc("write", copy, {}, d, {})
  <1>1. q \in ProcState /\ q.pc = "write" /\ q.copy = copy
    BY ProcIs
  <1>2. Turns(a, q)
    BY DEF Change
  <1> HIDE DEF q
  <1>3. InOrder => HonestProc(q, log, received, abandoned, overflow)
    BY <1>1 DEF HonestProc
  <1>4. UNCHANGED <<log, history>> /\ Stores(a)
    BY DEF Change, Stores
  <1> QED BY <1>1, <1>2, <1>3, <1>4, QuietTurn

LEMMA SkipOwner ==
    ASSUME TypeInv, SkipInv, NEW a \in Procs, NEW d \in Drains,
           CreateDrain(a, d) \/ ChangeDrain(a, d)
    PROVE  SkipInv'
  <1>1. disk \in Storages /\ log \in Seq(Events)
    BY DEF TypeInv
  <1>2. InOrder => Honest(disk, log, received, abandoned, overflow)
    BY DEF SkipInv
  <1>3. InOrder => Honest(Created(disk, d), log, received, abandoned, overflow)
    BY <1>1, <1>2, CreatedIs, StaysHonest
  <1>4. InOrder => Honest(Deleted(disk, d), log, received, abandoned, overflow)
    BY <1>1, <1>2, DeletedStaysHonest
  <1>5. ASSUME NEW t, Kept(disk, t, d), InOrder
        PROVE  Honest(t, log, received, abandoned, overflow)
    BY <1>1, <1>2, <1>5, StaysHonest DEF Kept
  <1>6. CASE CreateDrain(a, d)
    BY <1>3, <1>6, OwnersCopies, SkipChange DEF CreateDrain
  <1>7. CASE ChangeDrain(a, d)
    <2>1. /\ InOrder => Honest(Enabled(disk, d), log, received, abandoned, overflow)
          /\ InOrder => Honest(Disabled(disk, d), log, received, abandoned, overflow)
          /\ disk.drains[d].secret < MaxSecrets =>
                (InOrder => Honest(Rekeyed(disk, d), log, received, abandoned, overflow))
      BY <1>1, <1>5, OwnersEdits
    <2> QED BY <1>4, <1>7, <2>1, OwnersCopies, SkipChange DEF ChangeDrain
  <1> QED BY <1>6, <1>7

LEMMA SkipCrash == ASSUME TypeInv, SkipInv, ServerDies PROVE SkipInv'
  <1>1. \A p \in Procs : proc'[p].pc = "idle"
    BY IdleIs DEF ServerDies
  <1>2. \A p \in Procs : HonestProc(proc'[p], log, received, abandoned, overflow)
    BY <1>1 DEF HonestProc
  <1>3. /\ log' = log /\ disk' = disk /\ tmp' = tmp
        /\ received' = received /\ abandoned' = abandoned /\ overflow' = overflow
    BY DEF ServerDies, history
  <1>4. InOrder' => InOrder
    BY <1>3 DEF InOrder
  <1> QED BY <1>2, <1>3, <1>4 DEF SkipInv

LEMMA SkipStep == TypeInv /\ SkipInv /\ [DrainNext]_drainVars => SkipInv'
  <1> SUFFICES ASSUME TypeInv, SkipInv, [DrainNext]_drainVars PROVE SkipInv'
    OBVIOUS
  <1>1. CASE DrainNext
    BY <1>1, Steps, SkipEmit, SkipTick, SkipWrite, SkipOwner, SkipCrash DEF Procs
  <1>2. CASE UNCHANGED drainVars
    BY <1>2 DEF drainVars, history, SkipInv, InOrder
  <1> QED BY <1>1, <1>2

LEMMA SkipInvSuffices == TypeInv /\ SkipInv /\ InOrder => SkippedIsAccountedFor
  <1> SUFFICES ASSUME TypeInv, SkipInv, InOrder,
                      NEW s \in Copies, NEW d \in Drains, NEW e \in Logged, e <= s.drains[d].cursor
               PROVE  Covered(s, d, e, received, abandoned, overflow)
    BY DEF SkippedIsAccountedFor, Covered
  <1>1. PICK i \in DOMAIN log : log[i] = e
    BY DEF Logged, EventsIn
  <1>2. Honest(s, log, received, abandoned, overflow)
    <2>1. s # Absent /\ (s = disk \/ s = tmp \/ \E p \in Procs : s = Copy(p))
      BY DEF Copies
    <2>2. CASE s = disk \/ s = tmp
      BY <2>1, <2>2 DEF SkipInv
    <2>3. ASSUME NEW p \in Procs, s = Copy(p)
          PROVE  Honest(s, log, received, abandoned, overflow)
      <3>1. proc[p].pc \in {"scan", "post", "write"}
        BY <2>1, <2>3, ProcFields DEF Copy, ProcOK
      <3> QED BY <2>3, <3>1 DEF SkipInv, HonestProc, Copy
    <2> QED BY <2>1, <2>2, <2>3
  <1> QED BY <1>1, <1>2 DEF Honest

\* Whatever passes overlap, whatever the owner changes and wherever the process
\* dies, an event behind a drain's cursor was taken in by its receiver or stands
\* in the dead-letter list, unless the list was full: as long as the keys of the
\* log ascend.
THEOREM NothingIsSkippedInOrder == DrainSpec => [](InOrder => SkippedIsAccountedFor)
  BY TypeInit, TypeStep, SkipInit, SkipStep, SkipInvSuffices, PTL DEF DrainSpec

\* They do while no two events share a millisecond.
THEOREM NothingIsSkipped ==
    ASSUME \A e, f \in Events : e < f => Ts[e] < Ts[f]
    PROVE  DrainSpec => []SkippedIsAccountedFor
  <1>1. DrainInit => InOrder
    BY DEF DrainInit, InOrder
  <1>2. TypeInv /\ InOrder /\ [DrainNext]_drainVars => InOrder'
    <2> SUFFICES ASSUME TypeInv, InOrder, [DrainNext]_drainVars PROVE InOrder'
      OBVIOUS
    <2>1. CASE UNCHANGED log
      BY <2>1 DEF InOrder
    <2>2. ASSUME NEW e \in Events, Emit(e)
          PROVE  InOrder'
      <3>1. /\ Len(log) \in Nat /\ DOMAIN log = 1..Len(log)
            /\ DOMAIN log' = 1..(Len(log) + 1) /\ log'[Len(log) + 1] = e
            /\ \A i \in 1..Len(log) : log'[i] = log[i]
        BY <2>2 DEF TypeInv, Emit
      <3>2. \A i \in DOMAIN log : log[i] \in Events /\ Ts[log[i]] <= Ts[e] /\ log[i] # e
        BY <2>2, LoggedEvents DEF Emit, Logged, EventsIn, TypeInv
      <3>3. \A i \in DOMAIN log : log[i] < e
        <4>1. TAKE i \in DOMAIN log
        <4>2. Ts[e] \in Nat /\ Ts[log[i]] \in Nat
          BY <3>2, TsAssumption
        <4>3. ~(e < log[i])
          BY <3>2, <4>2
        <4> QED BY <3>2, <4>3, DrainBoundsAssumption DEF Events
      <3> QED BY <3>1, <3>3 DEF InOrder
    <2>3. CASE DrainNext
      <3>1. (\E e \in Events : Emit(e)) \/ UNCHANGED log
        BY <2>3, Steps DEF StartTick, SkipDrain, PostBatch, Accepted, Refused, WriteTmp,
             Rename, RenameFails, CreateDrain, ChangeDrain, Change, ServerDies
      <3> QED BY <2>1, <2>2, <3>1
    <2> QED BY <2>1, <2>3 DEF drainVars
  <1> QED BY <1>1, <1>2, TypeInit, TypeStep, NothingIsSkippedInOrder, PTL DEF DrainSpec

-----------------------------------------------------------------------------
(* While nothing overlaps, the process at work is alone with the files     *)

SoloInv ==
    "overlap" \notin meddled =>
        \A p \in Procs :
            /\ ~Stands(p, "idle") => \A r \in Procs \ {p} : Stands(r, "idle")
            /\ Stands(p, "rename") => tmp # Absent

\* p was at work already, or starts while nobody is.
Works(p) == ~Stands(p, "idle") \/ Starts

LEMMA NoCopyIsAbsent == \A s \in Storages : s # Absent
  BY AbsentAssumption DEF Storages

LEMMA WorksAlone ==
    ASSUME TypeInv, SoloInv, NEW p \in Procs, Works(p), meddled \subseteq meddled',
           "overlap" \notin meddled', NEW q \in ProcState, Turns(p, q)
    PROVE  /\ "overlap" \notin meddled
           /\ Stands(p, "idle") => \A r \in Procs : Stands(r, "idle")
           /\ proc'[p] = q
           /\ \A r \in Procs : r # p => Stands(r, "idle") /\ proc'[r].pc = "idle"
  <1>1. "overlap" \notin meddled
    OBVIOUS
  <1>2. \A r \in Procs : r # p => Stands(r, "idle")
    <2>1. CASE ~Stands(p, "idle")
      BY <1>1, <2>1 DEF SoloInv
    <2>2. CASE Starts
      BY <2>2 DEF Starts
    <2> QED BY <2>1, <2>2 DEF Works
  <1>3. Stands(p, "idle") => \A r \in Procs : Stands(r, "idle")
    BY <1>2
  <1>4. \A r \in Procs : r # p => proc'[r] = proc[r]
    BY TurnIs
  <1>5. proc'[p] = q
    BY TurnIs
  <1>6. \A r \in Procs : r # p => proc'[r].pc = "idle"
    BY <1>2, <1>4 DEF Stands
  <1> QED BY <1>1, <1>2, <1>3, <1>5, <1>6

LEMMA SoloTurn ==
    ASSUME TypeInv, SoloInv, NEW p \in Procs, Works(p), meddled \subseteq meddled',
           NEW q \in ProcState, Turns(p, q), q.pc = "rename" => tmp' # Absent
    PROVE  SoloInv'
  <1> SUFFICES ASSUME "overlap" \notin meddled', NEW r \in Procs
               PROVE  /\ proc'[r].pc # "idle" => \A o \in Procs \ {r} : proc'[o].pc = "idle"
                      /\ proc'[r].pc = "rename" => tmp' # Absent
    BY DEF SoloInv, Stands
  <1>1. /\ proc'[p] = q
        /\ \A o \in Procs : o # p => proc'[o].pc = "idle"
    BY WorksAlone
  <1> QED BY <1>1

\* The actions in which one process takes a turn.
LEMMA Turners ==
    ASSUME TypeInv, NEW p \in Procs, NEW d \in Drains,
           \/ StartTick(p) \/ SkipDrain(p) \/ PostBatch(p) \/ Accepted(p) \/ Refused(p)
           \/ WriteTmp(p) \/ Rename(p) \/ RenameFails(p) \/ CreateDrain(p, d) \/ ChangeDrain(p, d)
    PROVE  Works(p) /\ meddled \subseteq meddled'
  <1>1. CASE StartTick(p)
    BY <1>1 DEF StartTick, Works, Starts
  <1>2. CASE SkipDrain(p) \/ PostBatch(p) \/ Accepted(p)
    BY <1>2 DEF SkipDrain, PostBatch, Accepted, Works, Stands
  <1>3. CASE Refused(p)
    BY <1>3 DEF Refused, Works, Stands
  <1>4. CASE WriteTmp(p) \/ Rename(p) \/ RenameFails(p)
    BY <1>4 DEF WriteTmp, Ready, Rename, RenameFails, Works, Stands
  <1>5. CASE CreateDrain(p, d) \/ ChangeDrain(p, d)
    BY <1>5 DEF CreateDrain, ChangeDrain, Change, Works, Starts
  <1> QED BY <1>1, <1>2, <1>3, <1>4, <1>5

\* The state each turn leads to.
LEMMA Targets ==
    ASSUME TypeInv, NEW p \in Procs
    PROVE  /\ StartTick(p) =>
                 \E q \in ProcState : /\ Turns(p, q) /\ q.pc = "scan" /\ q.copy = disk
                                     /\ q.todo = {d \in Drains : Known(disk, d)}
           /\ SkipDrain(p) =>
                 \E q \in ProcState : /\ Turns(p, q) /\ q.pc = "scan" /\ q.copy = Copy(p)
                                     /\ q.todo \subseteq proc[p].todo /\ Stands(p, "scan")
           /\ PostBatch(p) =>
                 \E q \in ProcState : /\ Turns(p, q) /\ q.pc = "post" /\ q.copy = Copy(p)
                                     /\ q.todo \subseteq proc[p].todo /\ Stands(p, "scan")
                                     /\ q.drain \in proc[p].todo
           /\ Accepted(p) =>
                 \E q \in ProcState : /\ Turns(p, q) /\ q.pc = "scan" /\ q.todo = proc[p].todo
                                     /\ q.copy = Delivered(Copy(p), proc[p].drain, proc[p].batch)
                                     /\ Stands(p, "post")
           /\ Refused(p) =>
                 \E q \in ProcState : /\ Turns(p, q) /\ q.pc = "scan" /\ q.todo = proc[p].todo
                                     /\ q.copy = Failed(Copy(p), proc[p].drain, proc[p].batch)
                                     /\ Stands(p, "post")
           /\ WriteTmp(p) =>
                 \E q \in ProcState : Turns(p, q) /\ q.pc = "rename" /\ q.drain = proc[p].drain
  <1>0. {} \in SUBSET Nat /\ proc[p].todo \in SUBSET Drains
    BY ProcFields
  <1>1. ASSUME StartTick(p)
        PROVE  \E q \in ProcState : /\ Turns(p, q) /\ q.pc = "scan" /\ q.copy = disk
                                    /\ q.todo = {d \in Drains : Known(disk, d)}
    <2> DEFINE q == Proc("scan", disk, {d \in Drains : Known(disk, d)}, Absent, {})
    <2>1. /\ q \in ProcState /\ q.pc = "scan" /\ q.copy = disk
          /\ q.todo = {d \in Drains : Known(disk, d)}
      <3>1. disk \in Storages \cup {Absent} /\ {d \in Drains : Known(disk, d)} \in SUBSET Drains
        BY DEF TypeInv
      <3> QED
        BY <3>1, ProcIs
    <2>2. Turns(p, q)
      BY <1>1 DEF StartTick
    <2> HIDE DEF q
    <2> QED BY <2>1, <2>2
  <1>2. ASSUME SkipDrain(p)
        PROVE  \E q \in ProcState : /\ Turns(p, q) /\ q.pc = "scan" /\ q.copy = Copy(p)
                                    /\ q.todo \subseteq proc[p].todo /\ Stands(p, "scan")
    <2>1. PICK d \in proc[p].todo :
             Turns(p, Proc("scan", Copy(p), proc[p].todo \ {d}, Absent, {}))
      BY <1>2 DEF SkipDrain
    <2> DEFINE q == Proc("scan", Copy(p), proc[p].todo \ {d}, Absent, {})
    <2>2. Stands(p, "scan") /\ Copy(p) \in Storages
      BY <1>2, ProcFields DEF SkipDrain, Stands, ProcOK, Copy
    <2>3. /\ q \in ProcState /\ q.pc = "scan" /\ q.copy = Copy(p) /\ q.todo \subseteq proc[p].todo
      BY <1>0, <2>2, ProcIs
    <2>4. Turns(p, q)
      BY <2>1
    <2> HIDE DEF q
    <2> QED BY <2>2, <2>3, <2>4
  <1>3. ASSUME PostBatch(p)
        PROVE  \E q \in ProcState : /\ Turns(p, q) /\ q.pc = "post" /\ q.copy = Copy(p)
                                    /\ q.todo \subseteq proc[p].todo /\ Stands(p, "scan")
                                    /\ q.drain \in proc[p].todo
    <2>1. PICK d \in proc[p].todo :
             Turns(p, Proc("post", Copy(p), proc[p].todo \ {d}, d, Batch(Copy(p), d)))
      BY <1>3 DEF PostBatch
    <2> DEFINE q == Proc("post", Copy(p), proc[p].todo \ {d}, d, Batch(Copy(p), d))
    <2>2. Stands(p, "scan") /\ Copy(p) \in Storages
      BY <1>3, ProcFields DEF PostBatch, Stands, ProcOK, Copy
    <2>3. Batch(Copy(p), d) \in SUBSET Nat
      BY BatchIsPending DEF TypeInv
    <2>4. /\ q \in ProcState /\ q.pc = "post" /\ q.copy = Copy(p) /\ q.todo \subseteq proc[p].todo
          /\ q.drain = d
      BY <1>0, <2>2, <2>3, ProcIs
    <2>5. Turns(p, q)
      BY <2>1
    <2> HIDE DEF q
    <2> QED BY <2>2, <2>4, <2>5
  <1>4. ASSUME Accepted(p)
        PROVE  \E q \in ProcState : /\ Turns(p, q) /\ q.pc = "scan" /\ q.todo = proc[p].todo
                                    /\ q.copy = Delivered(Copy(p), proc[p].drain, proc[p].batch)
                                    /\ Stands(p, "post")
    <2> DEFINE s == Delivered(Copy(p), proc[p].drain, proc[p].batch)
               q == Proc("scan", s, proc[p].todo, Absent, {})
    <2>1. s \in Storages /\ Turns(p, q) /\ Stands(p, "post")
      BY <1>4, PostIs DEF Accepted
    <2> HIDE DEF s
    <2>2. q \in ProcState /\ q.pc = "scan" /\ q.todo = proc[p].todo /\ q.copy = s
      BY <1>0, <2>1, ProcIs
    <2> HIDE DEF q
    <2> QED BY <2>1, <2>2 DEF s
  <1>5. ASSUME Refused(p)
        PROVE  \E q \in ProcState : /\ Turns(p, q) /\ q.pc = "scan" /\ q.todo = proc[p].todo
                                    /\ q.copy = Failed(Copy(p), proc[p].drain, proc[p].batch)
                                    /\ Stands(p, "post")
    <2> DEFINE s == Failed(Copy(p), proc[p].drain, proc[p].batch)
               q == Proc("scan", s, proc[p].todo, Absent, {})
    <2>1. s \in Storages /\ Turns(p, q) /\ Stands(p, "post")
      BY <1>5, PostIs DEF Refused
    <2> HIDE DEF s
    <2>2. q \in ProcState /\ q.pc = "scan" /\ q.todo = proc[p].todo /\ q.copy = s
      BY <1>0, <2>1, ProcIs
    <2> HIDE DEF q
    <2> QED BY <2>1, <2>2 DEF s
  <1>6. ASSUME WriteTmp(p)
        PROVE  \E q \in ProcState : Turns(p, q) /\ q.pc = "rename" /\ q.drain = proc[p].drain
    <2> DEFINE q == Proc("rename", Absent, {}, proc[p].drain, {})
    <2>1. q \in ProcState /\ q.pc = "rename" /\ q.drain = proc[p].drain
      BY ProcFields, ProcIs
    <2>2. Turns(p, q)
      BY <1>6 DEF WriteTmp
    <2> HIDE DEF q
    <2> QED BY <2>1, <2>2
  <1> QED BY <1>1, <1>2, <1>3, <1>4, <1>5, <1>6

LEMMA ChangeTarget ==
    ASSUME TypeInv, NEW a \in Procs, NEW d \in Drains, NEW copy \in Storages, Change(a, d, copy)
    PROVE  \E q \in ProcState :
              Turns(a, q) /\ q.pc = "write" /\ q.copy = copy /\ q.drain = d /\ q.todo = {}
  <1> DEFINE q == Proc("write", copy, {}, d, {})
  <1>1. q \in ProcState /\ q.pc = "write" /\ q.copy = copy /\ q.drain = d /\ q.todo = {}
    BY ProcIs
  <1>2. Turns(a, q)
    BY DEF Change
  <1> HIDE DEF q
  <1> QED BY <1>1, <1>2

LEMMA SoloStep == TypeInv /\ SoloInv /\ [DrainNext]_drainVars => SoloInv'
  <1> SUFFICES ASSUME TypeInv, SoloInv, [DrainNext]_drainVars PROVE SoloInv'
    OBVIOUS
  <1>1. CASE UNCHANGED <<tmp, proc, meddled>>
    BY <1>1 DEF SoloInv, Stands
  <1>2. CASE ServerDies
    <2>1. \A p \in Procs : proc'[p].pc = "idle"
      BY <1>2, IdleIs DEF ServerDies
    <2> QED BY <2>1 DEF SoloInv, Stands
  <1>3. ASSUME NEW p \in Procs,
               StartTick(p) \/ SkipDrain(p) \/ PostBatch(p) \/ Accepted(p) \/ Refused(p)
        PROVE  SoloInv'
    <2>1. \E q \in ProcState : Turns(p, q) /\ q.pc # "rename"
      <3>1. "scan" # "rename" /\ "post" # "rename"
        OBVIOUS
      <3> QED BY <1>3, <3>1, Targets
    <2>2. Works(p) /\ meddled \subseteq meddled'
      BY <1>3, Turners DEF StartTick, SkipDrain, PostBatch, Accepted, Refused, Works, Stands, Starts
    <2> QED BY <2>1, <2>2, SoloTurn
  <1>4. ASSUME NEW p \in Procs, WriteTmp(p)
        PROVE  SoloInv'
    <2>1. \E q \in ProcState : Turns(p, q)
      BY <1>4, Targets
    <2>2. tmp' # Absent
      BY <1>4, NoCopyIsAbsent, ProcFields DEF WriteTmp, Ready, Stands, Copy, ProcOK
    <2>3. Works(p) /\ meddled \subseteq meddled'
      BY <1>4 DEF WriteTmp, Ready, Works, Stands
    <2> QED BY <2>1, <2>2, <2>3, SoloTurn
  <1>5. ASSUME NEW p \in Procs, Rename(p) \/ RenameFails(p)
        PROVE  SoloInv'
    <2>1. Turns(p, IdleProc)
      BY <1>5 DEF Rename, RenameFails
    <2>2. Works(p) /\ meddled \subseteq meddled'
      BY <1>5 DEF Rename, RenameFails, Works, Stands
    <2> QED BY <2>1, <2>2, IdleIs, SoloTurn
  <1>6. ASSUME NEW a \in Procs, NEW d \in Drains, CreateDrain(a, d) \/ ChangeDrain(a, d)
        PROVE  SoloInv'
    <2>1. \E copy \in Storages : Change(a, d, copy)
      BY <1>6, OwnersCopies DEF CreateDrain, ChangeDrain
    <2>2. \E q \in ProcState : Turns(a, q) /\ q.pc = "write"
      BY <2>1, ChangeTarget
    <2>3. Works(a) /\ meddled \subseteq meddled'
      BY <1>6, Turners
    <2> QED BY <2>2, <2>3, SoloTurn
  <1>7. CASE DrainNext
    <2>1. ASSUME NEW e \in Events, Emit(e) PROVE SoloInv'
      BY <1>1, <2>1 DEF Emit
    <2> QED BY <1>2, <1>3, <1>4, <1>5, <1>6, <1>7, <2>1, Steps DEF Procs
  <1> QED BY <1>1, <1>7 DEF drainVars

LEMMA SoloInit == DrainInit => SoloInv
  <1> SUFFICES ASSUME DrainInit PROVE SoloInv
    OBVIOUS
  <1>1. \A p \in Procs : proc[p].pc = "idle"
    BY IdleIs DEF DrainInit
  <1> QED BY <1>1 DEF SoloInv, Stands

-----------------------------------------------------------------------------
(* What the owner configured                                               *)

\* Beside what its own call changes, whoever works on a copy keeps the file's
\* configuration.
Faithful(q, isOwner, file, temp) ==
    /\ q.pc \in {"scan", "post"} => \A d \in Drains : Config(q.copy, d) = Config(file, d)
    /\ q.pc = "write" =>
          isOwner /\ \A d \in Drains : d # q.drain => Config(q.copy, d) = Config(file, d)
    /\ q.pc = "rename" =>
          \A d \in Drains : Config(temp, d) = Config(file, d) \/ (isOwner /\ d = q.drain)

OwnerInv ==
    "overlap" \notin meddled => \A p \in Procs : Faithful(proc[p], p \in Admins, disk, tmp)

LEMMA OwnerTurn ==
    ASSUME TypeInv, SoloInv, NEW p \in Procs, Works(p), meddled \subseteq meddled',
           NEW q \in ProcState, Turns(p, q),
           "overlap" \notin meddled' => Faithful(q, p \in Admins, disk', tmp')
    PROVE  OwnerInv'
  <1> SUFFICES ASSUME "overlap" \notin meddled', NEW r \in Procs
               PROVE  Faithful(proc'[r], r \in Admins, disk', tmp')
    BY DEF OwnerInv
  <1>1. proc'[p] = q /\ \A o \in Procs : o # p => proc'[o].pc = "idle"
    BY WorksAlone
  <1>2. CASE r = p
    BY <1>1, <1>2
  <1>3. CASE r # p
    BY <1>1, <1>3 DEF Faithful
  <1> QED BY <1>2, <1>3

LEMMA SameConfig ==
    ASSUME NEW s, NEW t, NEW d, t.drains[d] = s.drains[d]
    PROVE  Config(t, d) = Config(s, d)
  BY DEF Config

\* An attempt at a delivery leaves every drain configured as it was.
LEMMA PostKeepsConfig ==
    ASSUME TypeInv, NEW t \in Procs, Stands(t, "post"), NEW d \in Drains
    PROVE  /\ Config(Delivered(Copy(t), proc[t].drain, proc[t].batch), d) = Config(Copy(t), d)
           /\ Config(Failed(Copy(t), proc[t].drain, proc[t].batch), d) = Config(Copy(t), d)
  <1> DEFINE x == proc[t].drain
             b == proc[t].batch
             s == Copy(t)
  <1>1. s \in Storages /\ x \in Drains /\ b \in SUBSET (DOMAIN log) /\ b # {} /\ log \in Seq(Events)
    BY PostIs
  <1> HIDE DEF x, b, s
  <1>2. Config(Delivered(s, x, b), d) = Config(s, d)
    <2>1. CASE d = x
      BY <1>1, <2>1, MovesOn
    <2>2. CASE d # x
      <3>1. Delivered(s, x, b).drains[d] = s.drains[d]
        BY <1>1, <2>2, MovesOn
      <3> QED BY <3>1, SameConfig
    <2> QED BY <2>1, <2>2
  <1>3. Config(WithLetter(s, x, b, MaxDead), d) = Config(s, d)
    <2>1. CASE d = x
      BY <1>1, <2>1, GivesItUp
    <2>2. CASE d # x
      <3>1. WithLetter(s, x, b, MaxDead).drains[d] = s.drains[d]
        BY <1>1, <2>2, GivesItUp
      <3> QED BY <3>1, SameConfig
    <2> QED BY <2>1, <2>2
  <1>4. s.drains[x].fails + 1 < DeadAfter => Config(FailedAgain(s, x), d) = Config(s, d)
    <2>1. CASE d = x
      BY <1>1, <2>1, OwnersEdits
    <2>2. CASE d # x
      <3>1. s.drains[x].fails + 1 < DeadAfter => FailedAgain(s, x).drains[d] = s.drains[d]
        <4>1. s.drains[x].fails + 1 < DeadAfter => Kept(s, FailedAgain(s, x), x)
          BY <1>1, OwnersEdits
        <4> QED BY <2>2, <4>1 DEF Kept
      <3> QED BY <3>1, SameConfig
    <2> QED BY <2>1, <2>2
  <1>5. Config(Failed(s, x, b), d) = Config(s, d)
    BY <1>3, <1>4 DEF Failed
  <1> QED BY <1>2, <1>5 DEF x, b, s

LEMMA OwnersCopiesKeepOthers ==
    ASSUME TypeInv, NEW d \in Drains, NEW e \in Drains, e # d
    PROVE  /\ Config(Created(disk, d), e) = Config(disk, e)
           /\ Config(Deleted(disk, d), e) = Config(disk, e)
           /\ Config(Enabled(disk, d), e) = Config(disk, e)
           /\ Config(Disabled(disk, d), e) = Config(disk, e)
           /\ disk.drains[d].secret < MaxSecrets => Config(Rekeyed(disk, d), e) = Config(disk, e)
  <1>1. disk \in Storages /\ e \in Drains \ {d}
    BY DEF TypeInv
  <1>2. /\ Created(disk, d).drains[e] = disk.drains[e]
        /\ Deleted(disk, d).drains[e] = disk.drains[e]
    BY <1>1, CreatedIs, DeletedIs
  <1>3. /\ Enabled(disk, d).drains[e] = disk.drains[e]
        /\ Disabled(disk, d).drains[e] = disk.drains[e]
        /\ disk.drains[d].secret < MaxSecrets => Rekeyed(disk, d).drains[e] = disk.drains[e]
    BY <1>1, OwnersEdits DEF Kept
  <1> QED BY <1>2, <1>3, SameConfig

LEMMA OwnerStep == TypeInv /\ SoloInv /\ OwnerInv /\ [DrainNext]_drainVars => OwnerInv'
  <1> SUFFICES ASSUME TypeInv, SoloInv, OwnerInv, [DrainNext]_drainVars PROVE OwnerInv'
    OBVIOUS
  <1>1. CASE UNCHANGED <<disk, tmp, proc, meddled>>
    BY <1>1 DEF OwnerInv
  <1>2. CASE ServerDies
    <2>1. \A p \in Procs : proc'[p].pc = "idle"
      BY <1>2, IdleIs DEF ServerDies
    <2>2. \A p \in Procs : Faithful(proc'[p], p \in Admins, disk', tmp')
      BY <2>1 DEF Faithful
    <2> QED BY <2>2 DEF OwnerInv
  <1>3. ASSUME NEW p \in Procs,
               StartTick(p) \/ SkipDrain(p) \/ PostBatch(p) \/ Accepted(p) \/ Refused(p)
        PROVE  OwnerInv'
    <2>1. disk' = disk
      BY <1>3 DEF StartTick, SkipDrain, PostBatch, Accepted, Refused
    <2>2. Works(p) /\ meddled \subseteq meddled'
      BY <1>3 DEF StartTick, SkipDrain, PostBatch, Accepted, Refused, Works, Stands, Starts
    <2>3. PICK q \in ProcState :
             /\ Turns(p, q) /\ q.pc \in {"scan", "post"}
             /\ \/ q.copy = disk
                \/ q.copy = Copy(p) /\ Stands(p, "scan")
                \/ /\ q.copy \in {Delivered(Copy(p), proc[p].drain, proc[p].batch),
                                  Failed(Copy(p), proc[p].drain, proc[p].batch)}
                   /\ Stands(p, "post")
      BY <1>3, Targets
    <2>4. ASSUME "overlap" \notin meddled', NEW d \in Drains
          PROVE  Config(q.copy, d) = Config(disk, d)
      <3>1. "overlap" \notin meddled
        BY <2>2, <2>4
      <3>2. Stands(p, "scan") \/ Stands(p, "post") => Config(Copy(p), d) = Config(disk, d)
        BY <3>1 DEF OwnerInv, Faithful, Stands, Copy
      <3>3. Stands(p, "post") =>
              /\ Config(Delivered(Copy(p), proc[p].drain, proc[p].batch), d) = Config(Copy(p), d)
              /\ Config(Failed(Copy(p), proc[p].drain, proc[p].batch), d) = Config(Copy(p), d)
        BY PostKeepsConfig
      <3> QED BY <2>3, <3>2, <3>3
    <2>5. "overlap" \notin meddled' => Faithful(q, p \in Admins, disk', tmp')
      BY <2>1, <2>3, <2>4 DEF Faithful
    <2> QED BY <2>2, <2>3, <2>5, OwnerTurn
  <1>4. ASSUME NEW p \in Procs, WriteTmp(p)
        PROVE  OwnerInv'
    <2>1. PICK q \in ProcState : Turns(p, q) /\ q.pc = "rename" /\ q.drain = proc[p].drain
      BY <1>4, Targets
    <2>2. /\ Works(p) /\ meddled \subseteq meddled' /\ disk' = disk /\ tmp' = Copy(p)
          /\ proc[p].pc \in {"scan", "write"}
      BY <1>4 DEF WriteTmp, Ready, Works, Stands
    <2>3. "overlap" \notin meddled' => Faithful(proc[p], p \in Admins, disk, tmp)
      BY <2>2 DEF OwnerInv
    <2>4. "overlap" \notin meddled' => Faithful(q, p \in Admins, disk', tmp')
      BY <2>1, <2>2, <2>3 DEF Faithful, Copy
    <2> QED BY <2>1, <2>2, <2>4, OwnerTurn
  <1>5. ASSUME NEW p \in Procs, Rename(p) \/ RenameFails(p)
        PROVE  OwnerInv'
    <2>1. Turns(p, IdleProc)
      BY <1>5 DEF Rename, RenameFails
    <2>2. Works(p) /\ meddled \subseteq meddled'
      BY <1>5 DEF Rename, RenameFails, Works, Stands
    <2>3. Faithful(IdleProc, p \in Admins, disk', tmp')
      BY IdleIs DEF Faithful
    <2> QED BY <2>1, <2>2, <2>3, IdleIs, OwnerTurn
  <1>6. ASSUME NEW a \in Admins, NEW d \in Drains, CreateDrain(a, d) \/ ChangeDrain(a, d)
        PROVE  OwnerInv'
    <2>1. a \in Procs
      BY DEF Procs
    <2>2. PICK copy \in Storages :
             Change(a, d, copy) /\ \A e \in Drains : e # d => Config(copy, e) = Config(disk, e)
      BY <1>6, OwnersCopies, OwnersCopiesKeepOthers DEF CreateDrain, ChangeDrain
    <2>3. PICK q \in ProcState : Turns(a, q) /\ q.pc = "write" /\ q.copy = copy /\ q.drain = d
      BY <2>1, <2>2, ChangeTarget
    <2>4. Works(a) /\ meddled \subseteq meddled' /\ disk' = disk
      BY <1>6, <2>1, <2>2, Turners DEF Change
    <2>5. Faithful(q, a \in Admins, disk', tmp')
      BY <2>2, <2>3, <2>4 DEF Faithful
    <2> QED BY <2>1, <2>3, <2>4, <2>5, OwnerTurn
  <1>7. CASE DrainNext
    <2>1. ASSUME NEW e \in Events, Emit(e) PROVE OwnerInv'
      BY <1>1, <2>1 DEF Emit
    <2> QED BY <1>2, <1>3, <1>4, <1>5, <1>6, <1>7, <2>1, Steps
  <1> QED BY <1>1, <1>7 DEF drainVars

LEMMA OwnerInit == DrainInit => OwnerInv
  <1> SUFFICES ASSUME DrainInit PROVE OwnerInv
    OBVIOUS
  <1>1. \A p \in Procs : proc[p].pc = "idle"
    BY IdleIs DEF DrainInit
  <1>2. \A p \in Procs : Faithful(proc[p], p \in Admins, disk, tmp)
    BY <1>1 DEF Faithful
  <1> QED BY <1>2 DEF OwnerInv

\* Whatever the owner rotates, switches or deletes stays so until he changes it,
\* unless a pass was at work when his call started: no crash, no failure and no
\* dead letter brings an old configuration back.
THEOREM WhatTheOwnerSetsStays == DrainSpec => OwnerChangesStick
  <1>1. TypeInv /\ SoloInv /\ OwnerInv /\ [DrainNext]_drainVars =>
          [\A d \in Drains : Config(disk', d) # Config(disk, d) =>
              \/ \E a \in Admins : Rename(a) /\ proc[a].drain = d
              \/ "overlap" \in meddled]_drainVars
    <2> SUFFICES ASSUME TypeInv, SoloInv, OwnerInv, DrainNext, "overlap" \notin meddled,
                        NEW d \in Drains, Config(disk', d) # Config(disk, d)
                 PROVE  \E a \in Admins : Rename(a) /\ proc[a].drain = d
      OBVIOUS
    <2>1. PICK p \in Procs : Rename(p)
      <3>1. disk' # disk
        OBVIOUS
      <3> QED BY <3>1, Steps DEF Emit, StartTick, SkipDrain, PostBatch, Accepted, Refused, WriteTmp,
             RenameFails, CreateDrain, ChangeDrain, Change, ServerDies
    <2>2. disk' = tmp /\ proc[p].pc = "rename"
      BY <2>1 DEF Rename, Stands
    <2>3. Config(tmp, d) = Config(disk, d) \/ (p \in Admins /\ d = proc[p].drain)
      BY <2>2 DEF OwnerInv, Faithful
    <2> QED BY <2>1, <2>2, <2>3
  <1> QED BY <1>1, TypeInit, TypeStep, SoloInit, SoloStep, OwnerInit, OwnerStep, PTL
        DEF DrainSpec, OwnerChangesStick

-----------------------------------------------------------------------------
(* No event is delivered twice                                             *)

\* A drain id that was not given out stands in no copy and was sent nothing.
Given(s) == \A d \in Drains : Known(s, d) => d \notin unused
IdsInv ==
    /\ Given(disk)
    /\ tmp # Absent => Given(tmp)
    /\ \A p \in Procs :
          /\ proc[p].pc \in {"scan", "post", "write"} => Given(Copy(p))
          /\ proc[p].pc \in {"scan", "post"} => \A d \in proc[p].todo : Known(Copy(p), d)
          /\ proc[p].pc = "post" => Known(Copy(p), proc[p].drain)
    /\ \A d \in unused, e \in Events : received[d][e] = 0

\* Every event a drain of the copy has delivered lies behind its cursor.
Ahead(s, rc) ==
    \A d \in Drains, e \in Events : Known(s, d) /\ rc[d][e] > 0 => e <= s.drains[d].cursor
AheadProc(q, temp, rc) ==
    /\ q.pc \in {"scan", "post", "write"} => Ahead(q.copy, rc)
    /\ q.pc = "rename" => Ahead(temp, rc)

OnceInv ==
    InOrder /\ meddled = {} =>
        /\ (\A p \in Procs : Stands(p, "idle")) => Ahead(disk, received)
        /\ \A p \in Procs : AheadProc(proc[p], tmp, received)
        /\ \A d \in Drains, e \in Events : received[d][e] <= 1

LEMMA IdsInit == DrainInit => IdsInv
  <1> SUFFICES ASSUME DrainInit PROVE IdsInv
    OBVIOUS
  <1>1. disk = NoDrains /\ tmp = Absent /\ unused = Drains
    BY DEF DrainInit
  <1>2. \A d \in Drains : ~Known(disk, d)
    BY <1>1, StorageFields, NoDrainType DEF NoDrains, Known
  <1>3. \A p \in Procs : proc[p].pc = "idle"
    BY IdleIs DEF DrainInit
  <1>4. \A d \in Drains, e \in Events : received[d][e] = 0
    BY DEF DrainInit
  <1> QED BY <1>1, <1>2, <1>3, <1>4 DEF IdsInv, Given

LEMMA IdsTurn ==
    ASSUME TypeInv, IdsInv, NEW p \in Procs, NEW q \in ProcState, Turns(p, q), Stores(p),
           unused' \subseteq unused,
           \A d \in unused', e \in Events : received'[d][e] = 0,
           q.pc \in {"scan", "post", "write"} =>
               \A d \in Drains : Known(q.copy, d) => d \notin unused',
           q.pc \in {"scan", "post"} => \A d \in q.todo : Known(q.copy, d),
           q.pc = "post" => Known(q.copy, q.drain)
    PROVE  IdsInv'
  <1>1. ASSUME NEW s, Given(s)
        PROVE  \A d \in Drains : Known(s, d) => d \notin unused'
    BY <1>1 DEF Given
  <1>2. ASSUME NEW r \in Procs
        PROVE  /\ proc'[r].pc \in {"scan", "post", "write"} =>
                     \A d \in Drains : Known(proc'[r].copy, d) => d \notin unused'
               /\ proc'[r].pc \in {"scan", "post"} => \A d \in proc'[r].todo : Known(proc'[r].copy, d)
               /\ proc'[r].pc = "post" => Known(proc'[r].copy, proc'[r].drain)
    <2>1. CASE r = p
      BY <2>1, TurnIs
    <2>2. CASE r # p
      <3>1. proc'[r] = proc[r]
        BY <2>2, TurnIs
      <3> QED BY <1>1, <3>1 DEF IdsInv, Copy
    <2> QED BY <2>1, <2>2
  <1>3. \A d \in Drains : Known(disk', d) => d \notin unused'
    BY <1>1 DEF IdsInv, Stores
  <1>4. tmp' # Absent => \A d \in Drains : Known(tmp', d) => d \notin unused'
    BY <1>1 DEF IdsInv, Stores
  <1> QED BY <1>2, <1>3, <1>4 DEF IdsInv, Given, Known, Copy

\* An attempt at a delivery neither makes nor forgets a drain.
LEMMA PostKeepsKnown ==
    ASSUME TypeInv, NEW t \in Procs, Stands(t, "post"), NEW d \in Drains
    PROVE  /\ Known(Delivered(Copy(t), proc[t].drain, proc[t].batch), d) <=> Known(Copy(t), d)
           /\ Known(Failed(Copy(t), proc[t].drain, proc[t].batch), d) <=> Known(Copy(t), d)
  <1>1. ASSUME NEW s, Config(s, d) = Config(Copy(t), d)
        PROVE  Known(s, d) <=> Known(Copy(t), d)
    BY <1>1 DEF Config, Known
  <1> QED BY <1>1, PostKeepsConfig

LEMMA IdsStep == TypeInv /\ IdsInv /\ [DrainNext]_drainVars => IdsInv'
  <1> SUFFICES ASSUME TypeInv, IdsInv, [DrainNext]_drainVars PROVE IdsInv'
    OBVIOUS
  <1>1. CASE UNCHANGED <<disk, tmp, proc, unused, received>>
    BY <1>1 DEF IdsInv, Given, Known, Copy
  <1>2. CASE ServerDies
    <2>1. \A p \in Procs : proc'[p].pc = "idle"
      BY <1>2, IdleIs DEF ServerDies
    <2>2. UNCHANGED <<disk, tmp, unused, received>>
      BY <1>2 DEF ServerDies, history
    <2> QED BY <2>1, <2>2 DEF IdsInv, Given, Known
  <1>3. ASSUME NEW p \in Procs, StartTick(p) \/ SkipDrain(p) \/ PostBatch(p)
        PROVE  IdsInv'
    <2>1. UNCHANGED <<disk, tmp, unused, received>>
      BY <1>3 DEF StartTick, SkipDrain, PostBatch, history
    <2>2. PICK q \in ProcState :
             /\ Turns(p, q) /\ q.pc \in {"scan", "post"}
             /\ \/ q.copy = disk /\ q.pc = "scan" /\ q.todo = {d \in Drains : Known(disk, d)}
                \/ /\ q.copy = Copy(p) /\ Stands(p, "scan") /\ q.todo \subseteq proc[p].todo
                   /\ q.pc = "post" => q.drain \in proc[p].todo
      BY <1>3, Targets
    <2>3. Given(q.copy)
      BY <2>2 DEF IdsInv, Stands
    <2>4. \A d \in q.todo : Known(q.copy, d)
      BY <2>2 DEF IdsInv, Stands
    <2>5. q.pc = "post" => Known(q.copy, q.drain)
      BY <2>2 DEF IdsInv, Stands
    <2>6. Stores(p)
      BY <2>1 DEF Stores
    <2>7. \A d \in unused', e \in Events : received'[d][e] = 0
      BY <2>1 DEF IdsInv
    <2> QED BY <2>1, <2>2, <2>3, <2>4, <2>5, <2>6, <2>7, IdsTurn DEF Given
  <1>4. ASSUME NEW p \in Procs, Accepted(p) \/ Refused(p)
        PROVE  IdsInv'
    <2>1. UNCHANGED <<disk, tmp, unused>> /\ Stands(p, "post")
          /\ (received' = received \/ Take(proc[p].drain, proc[p].batch))
      BY <1>4 DEF Accepted, Refused
    <2>2. PICK q \in ProcState :
             /\ Turns(p, q) /\ q.pc = "scan" /\ q.todo = proc[p].todo
             /\ q.copy \in {Delivered(Copy(p), proc[p].drain, proc[p].batch),
                           Failed(Copy(p), proc[p].drain, proc[p].batch)}
      BY <1>4, Targets
    <2>3. \A d \in Drains : Known(q.copy, d) <=> Known(Copy(p), d)
      BY <2>1, <2>2, PostKeepsKnown
    <2>4. Given(Copy(p)) /\ (\A d \in proc[p].todo : Known(Copy(p), d)) /\ Known(Copy(p), proc[p].drain)
      BY <2>1 DEF IdsInv, Stands
    <2>5. proc[p].drain \in Drains /\ proc[p].todo \subseteq Drains
      BY <2>1, PostIs, ProcFields
    <2>6. ASSUME NEW d \in unused', NEW e \in Events
          PROVE  received'[d][e] = 0
      <3>1. d \in Drains \ {proc[p].drain} /\ received[d][e] = 0
        BY <2>1, <2>4, <2>5 DEF Given, IdsInv, TypeInv
      <3> QED BY <2>1, <2>5, <3>1, TakeType
    <2>7. Stores(p)
      BY <2>1 DEF Stores
    <2> QED BY <2>1, <2>2, <2>3, <2>4, <2>5, <2>6, <2>7, IdsTurn DEF Given
  <1>5. ASSUME NEW p \in Procs, WriteTmp(p) \/ Rename(p) \/ RenameFails(p)
        PROVE  IdsInv'
    <2>1. UNCHANGED <<unused, received>>
      BY <1>5 DEF WriteTmp, Rename, RenameFails, history
    <2>2. \E q \in ProcState : Turns(p, q) /\ q.pc \in {"idle", "rename"}
      BY <1>5, Targets, IdleIs DEF Rename, RenameFails
    <2>3. Stores(p)
      BY <1>5 DEF WriteTmp, Ready, Rename, RenameFails, Stores, Stands
    <2>4. \A d \in unused', e \in Events : received'[d][e] = 0
      BY <2>1 DEF IdsInv
    <2> QED BY <2>1, <2>2, <2>3, <2>4, IdsTurn
  <1>6. ASSUME NEW a \in Procs, NEW d \in Drains, CreateDrain(a, d) \/ ChangeDrain(a, d)
        PROVE  IdsInv'
    <2>1. PICK copy \in Storages :
             /\ Change(a, d, copy)
             /\ \A e \in Drains : e # d => Config(copy, e) = Config(disk, e)
      BY <1>6, OwnersCopies, OwnersCopiesKeepOthers DEF CreateDrain, ChangeDrain
    <2>2. PICK q \in ProcState : Turns(a, q) /\ q.pc = "write" /\ q.copy = copy
      BY <2>1, ChangeTarget
    <2>3. unused' \subseteq unused /\ d \notin unused'
      BY <1>6 DEF CreateDrain, ChangeDrain, IdsInv, Given
    <2>4. UNCHANGED <<disk, tmp, received>>
      BY <2>1 DEF Change, history
    <2>5. ASSUME NEW e \in Drains, Known(copy, e)
          PROVE  e \notin unused'
      <3>1. CASE e = d
        BY <2>3, <3>1
      <3>2. CASE e # d
        <4>1. Known(disk, e)
          BY <2>1, <2>5, <3>2 DEF Config, Known
        <4> QED BY <2>3, <4>1 DEF IdsInv, Given
      <3> QED BY <3>1, <3>2
    <2>6. Stores(a)
      BY <2>4 DEF Stores
    <2>7. \A e \in unused', f \in Events : received'[e][f] = 0
      BY <2>3, <2>4 DEF IdsInv
    <2> QED BY <2>2, <2>3, <2>5, <2>6, <2>7, IdsTurn
  <1>7. CASE DrainNext
    <2>1. ASSUME NEW e \in Events, Emit(e) PROVE IdsInv'
      BY <1>1, <2>1 DEF Emit, history
    <2> QED BY <1>2, <1>3, <1>4, <1>5, <1>6, <1>7, <2>1, Steps DEF Procs
  <1> QED BY <1>1, <1>7 DEF drainVars, history

LEMMA OnceTurn ==
    ASSUME TypeInv, SoloInv, OnceInv, NEW p \in Procs, Works(p), meddled \subseteq meddled',
           NEW q \in ProcState, Turns(p, q), log' = log,
           InOrder /\ meddled' = {} =>
               /\ AheadProc(q, tmp', received')
               /\ q.pc = "idle" => Ahead(disk', received')
               /\ \A d \in Drains, e \in Events : received'[d][e] <= 1
    PROVE  OnceInv'
  <1> SUFFICES ASSUME InOrder', meddled' = {}
               PROVE  /\ (\A r \in Procs : proc'[r].pc = "idle") => Ahead(disk', received')
                      /\ \A r \in Procs : AheadProc(proc'[r], tmp', received')
                      /\ \A d \in Drains, e \in Events : received'[d][e] <= 1
    BY DEF OnceInv, Stands
  <1>1. InOrder
    BY DEF InOrder
  <1>2. proc'[p] = q /\ \A o \in Procs : o # p => proc'[o].pc = "idle"
    BY WorksAlone
  <1>3. \A r \in Procs : AheadProc(proc'[r], tmp', received')
    BY <1>1, <1>2 DEF AheadProc
  <1> QED BY <1>1, <1>2, <1>3

\* A delivered batch lies behind the new cursor, and none of it was sent before.
LEMMA DeliveredIsAhead ==
    ASSUME TypeInv, SkipInv, IdsInv, InOrder, NEW t \in Procs, Stands(t, "post"),
           Ahead(Copy(t), received), \A d \in Drains, e \in Events : received[d][e] <= 1,
           Take(proc[t].drain, proc[t].batch)
    PROVE  /\ Ahead(Delivered(Copy(t), proc[t].drain, proc[t].batch), received')
           /\ \A d \in Drains, e \in Events : received'[d][e] <= 1
  <1> DEFINE x == proc[t].drain
             b == proc[t].batch
             s == Copy(t)
             u == Delivered(s, x, b)
  <1>1. s \in Storages /\ x \in Drains /\ b \in SUBSET (DOMAIN log) /\ b # {} /\ log \in Seq(Events)
    BY PostIs
  <1>2. Fills(b, s.drains[x].cursor, log) /\ Known(s, x)
    BY DEF SkipInv, HonestProc, IdsInv, Stands, Copy
  <1>3. \A d \in Drains : Known(u, d) <=> Known(s, d)
    BY PostKeepsKnown
  <1>4. Take(x, b)
    OBVIOUS
  <1> HIDE DEF x, b, s
  <1>5. /\ u.drains[x].cursor = CursorAfter(b)
        /\ \A d \in Drains \ {x} : u.drains[d] = s.drains[d]
    BY <1>1, MovesOn
  <1> HIDE DEF u
  <1>6. /\ \A e \in Events : e \notin EventsIn(b) => received'[x][e] = received[x][e]
        /\ \A e \in Events : received[x][e] = 0 => received'[x][e] <= 1
        /\ \A f \in Drains \ {x} : received'[f] = received[f]
    BY <1>1, <1>4, TakeType
  <1>7. LastPlace(b) \in b /\ \A i \in b : i <= LastPlace(b)
    BY <1>1, BatchType
  <1>8. \A i \in DOMAIN log : log[i] \in Nat
    BY <1>1, LoggedEvents
  <1>9. s.drains[x].cursor \in Nat
    BY <1>1, StoragesAreStorages, DrainFields
  <1>10. ASSUME NEW e \in EventsIn(b)
         PROVE  e <= CursorAfter(b) /\ e > s.drains[x].cursor
    <2>1. PICK i \in b : e = log[i]
      BY DEF EventsIn
    <2>2. i <= LastPlace(b) /\ i \in DOMAIN log /\ LastPlace(b) \in DOMAIN log /\ DOMAIN log \subseteq Nat
      BY <1>1, <1>7
    <2>3. i = LastPlace(b) \/ i < LastPlace(b)
      BY <2>2
    <2>4. log[i] <= log[LastPlace(b)]
      BY <1>8, <2>2, <2>3 DEF InOrder
    <2> QED BY <1>2, <2>1, <2>4 DEF CursorAfter, Fills
  <1>11. CursorAfter(b) \in Nat /\ s.drains[x].cursor < CursorAfter(b)
    BY <1>1, <1>2, <1>7, <1>8 DEF CursorAfter, Fills
  <1>12. ASSUME NEW d \in Drains, NEW e \in Events
         PROVE  /\ Known(u, d) /\ received'[d][e] > 0 => e <= u.drains[d].cursor
                /\ received'[d][e] <= 1
    <2>1. CASE d # x
      <3>1. received'[d] = received[d] /\ u.drains[d] = s.drains[d]
        BY <1>5, <1>6, <2>1
      <3>2. Known(s, d) /\ received[d][e] > 0 => e <= s.drains[d].cursor
        BY DEF Ahead, s
      <3> QED BY <1>3, <3>1, <3>2
    <2>2. CASE d = x /\ e \notin EventsIn(b)
      <3>1. received'[d][e] = received[d][e]
        BY <1>6, <2>2
      <3>2. received[x][e] > 0 => e <= s.drains[x].cursor
        BY <1>1, <1>2 DEF Ahead, s
      <3>3. e \in Nat
        BY DrainBoundsAssumption DEF Events
      <3> QED BY <1>5, <1>9, <1>11, <2>2, <3>1, <3>2, <3>3
    <2>3. CASE d = x /\ e \in EventsIn(b)
      <3>1. e <= CursorAfter(b) /\ e > s.drains[x].cursor /\ e \in Nat
        BY <1>10, <2>3, DrainBoundsAssumption DEF Events
      <3>2. received[x][e] > 0 => e <= s.drains[x].cursor
        BY <1>1, <1>2 DEF Ahead, s
      <3>3. received[x][e] \in 0..2
        BY <1>1 DEF TypeInv
      <3>4. received[x][e] = 0
        BY <1>9, <3>1, <3>2, <3>3
      <3> QED BY <1>5, <1>6, <2>3, <3>1, <3>4
    <2> QED BY <2>1, <2>2, <2>3
  <1> QED BY <1>12 DEF Ahead, u, s, x, b

\* A failed attempt only moves a cursor on.
LEMMA FailedIsAhead ==
    ASSUME TypeInv, SkipInv, InOrder, NEW t \in Procs, Stands(t, "post"),
           Ahead(Copy(t), received)
    PROVE  Ahead(Failed(Copy(t), proc[t].drain, proc[t].batch), received)
  <1> DEFINE x == proc[t].drain
             b == proc[t].batch
             s == Copy(t)
             u == Failed(s, x, b)
  <1>1. s \in Storages /\ x \in Drains /\ b \in SUBSET (DOMAIN log) /\ b # {} /\ log \in Seq(Events)
    BY PostIs
  <1>2. Fills(b, s.drains[x].cursor, log)
    BY DEF SkipInv, HonestProc, Stands, Copy
  <1>3. \A d \in Drains : Known(u, d) <=> Known(s, d)
    BY PostKeepsKnown
  <1>4. Ahead(s, received)
    OBVIOUS
  <1> HIDE DEF x, b, s
  <1>5. CursorAfter(b) \in Nat /\ s.drains[x].cursor < CursorAfter(b)
    <2>1. LastPlace(b) \in b /\ log[LastPlace(b)] \in Nat
      BY <1>1, BatchType, LoggedEvents
    <2> QED BY <1>2, <2>1 DEF CursorAfter, Fills
  <1>6. s.drains[x].cursor \in Nat
    BY <1>1, StoragesAreStorages, DrainFields
  <1>7. /\ \A d \in Drains \ {x} : WithLetter(s, x, b, MaxDead).drains[d] = s.drains[d]
        /\ WithLetter(s, x, b, MaxDead).drains[x].cursor = CursorAfter(b)
    BY <1>1, GivesItUp
  <1>8. s.drains[x].fails + 1 < DeadAfter => Kept(s, FailedAgain(s, x), x)
    BY <1>1, OwnersEdits
  <1>9. \A d \in Drains \ {x} : u.drains[d] = s.drains[d]
    BY <1>7, <1>8 DEF u, Failed, Kept
  <1>10. u.drains[x].cursor = s.drains[x].cursor \/ u.drains[x].cursor = CursorAfter(b)
    BY <1>7, <1>8 DEF u, Failed, Kept
  <1> HIDE DEF u
  <1>11. ASSUME NEW d \in Drains, NEW e \in Events, Known(u, d), received[d][e] > 0
         PROVE  e <= u.drains[d].cursor
    <2>1. e <= s.drains[d].cursor
      BY <1>3, <1>4, <1>11 DEF Ahead
    <2>2. CASE d # x
      BY <1>9, <2>1, <2>2
    <2>3. CASE d = x
      <3>1. e \in Nat
        BY DrainBoundsAssumption DEF Events
      <3> QED BY <1>5, <1>6, <1>10, <2>1, <2>3, <3>1
    <2> QED BY <2>2, <2>3
  <1> QED BY <1>11 DEF Ahead, u, s, x, b

\* What an owner's call is about to write is no further back than the file.
LEMMA OwnersCopiesAreAhead ==
    ASSUME TypeInv, IdsInv, Ahead(disk, received), NEW d \in Drains
    PROVE  /\ d \in unused => Ahead(Created(disk, d), received)
           /\ Ahead(Deleted(disk, d), received)
           /\ Ahead(Enabled(disk, d), received)
           /\ Ahead(Disabled(disk, d), received)
           /\ Known(disk, d) /\ disk.drains[d].secret < MaxSecrets => Ahead(Rekeyed(disk, d), received)
  <1>1. disk \in Storages
    BY DEF TypeInv
  <1>2. ASSUME NEW u, \A e \in Drains \ {d} : u.drains[e] = disk.drains[e],
               \A f \in Events : Known(u, d) /\ received[d][f] > 0 => f <= u.drains[d].cursor
        PROVE  Ahead(u, received)
    <2>1. ASSUME NEW e \in Drains, e # d
          PROVE  Known(u, e) <=> Known(disk, e)
      BY <1>2, <2>1 DEF Known
    <2> QED BY <1>2, <2>1 DEF Ahead
  <1>3. ASSUME NEW u, Kept(disk, u, d), Known(u, d) => Known(disk, d)
        PROVE  Ahead(u, received)
    <2>1. /\ \A e \in Drains \ {d} : u.drains[e] = disk.drains[e]
          /\ u.drains[d].cursor = disk.drains[d].cursor
      BY <1>3 DEF Kept
    <2> QED BY <1>2, <1>3, <2>1 DEF Ahead
  <1>4. d \in unused => Ahead(Created(disk, d), received)
    <2>1. \A e \in Drains \ {d} : Created(disk, d).drains[e] = disk.drains[e]
      BY <1>1, CreatedIs
    <2>2. d \in unused => \A f \in Events : received[d][f] = 0
      BY DEF IdsInv
    <2> QED BY <1>2, <2>1, <2>2
  <1>5. Ahead(Deleted(disk, d), received)
    <2>1. /\ \A e \in Drains \ {d} : Deleted(disk, d).drains[e] = disk.drains[e]
          /\ ~Known(Deleted(disk, d), d)
      BY <1>1, DeletedIs, NoDrainType DEF Known
    <2> QED BY <1>2, <2>1
  <1>6. Ahead(Enabled(disk, d), received) /\ Ahead(Disabled(disk, d), received)
    BY <1>1, <1>3, OwnersEdits
  <1>7. Known(disk, d) /\ disk.drains[d].secret < MaxSecrets => Ahead(Rekeyed(disk, d), received)
    BY <1>1, <1>3, OwnersEdits
  <1> QED BY <1>4, <1>5, <1>6, <1>7

LEMMA OnceInit == DrainInit => OnceInv
  <1> SUFFICES ASSUME DrainInit PROVE OnceInv
    OBVIOUS
  <1>1. \A p \in Procs : proc[p].pc = "idle"
    BY IdleIs DEF DrainInit
  <1>2. \A d \in Drains, e \in Events : received[d][e] = 0
    BY DEF DrainInit
  <1>3. Ahead(disk, received)
    BY <1>2 DEF Ahead
  <1>4. \A p \in Procs : AheadProc(proc[p], tmp, received)
    BY <1>1 DEF AheadProc
  <1> QED BY <1>2, <1>3, <1>4 DEF OnceInv

LEMMA OnceTick ==
    ASSUME TypeInv, SoloInv, SkipInv, IdsInv, OnceInv, NEW p \in Procs,
           StartTick(p) \/ SkipDrain(p) \/ PostBatch(p) \/ Accepted(p) \/ Refused(p)
    PROVE  OnceInv'
  <1>1. log' = log /\ disk' = disk /\ tmp' = tmp /\ Works(p) /\ meddled \subseteq meddled'
    BY DEF StartTick, SkipDrain, PostBatch, Accepted, Refused, Works, Stands, Starts
  <1>2. CASE StartTick(p)
    <2>1. PICK q \in ProcState : Turns(p, q) /\ q.pc = "scan" /\ q.copy = disk
      BY <1>2, Targets
    <2>2. received' = received /\ Stands(p, "idle")
      BY <1>2 DEF StartTick, history
    <2>3. ASSUME InOrder, meddled' = {}
          PROVE  Ahead(disk, received) /\ \A d \in Drains, e \in Events : received[d][e] <= 1
      <3>1. meddled = {} /\ \A r \in Procs : Stands(r, "idle")
        BY <1>1, <2>1, <2>2, <2>3, WorksAlone
      <3> QED BY <2>3, <3>1 DEF OnceInv
    <2>4. ASSUME InOrder, meddled' = {}
          PROVE  /\ AheadProc(q, tmp', received') /\ (q.pc = "idle" => Ahead(disk', received'))
                 /\ \A d \in Drains, e \in Events : received'[d][e] <= 1
      BY <2>1, <2>2, <2>3, <2>4 DEF AheadProc
    <2> QED BY <1>1, <2>1, <2>4, OnceTurn
  <1>3. CASE SkipDrain(p) \/ PostBatch(p)
    <2>1. PICK q \in ProcState :
             Turns(p, q) /\ q.pc \in {"scan", "post"} /\ q.copy = Copy(p) /\ Stands(p, "scan")
      BY <1>3, Targets
    <2>2. received' = received
      BY <1>3 DEF SkipDrain, PostBatch, history
    <2>3. ASSUME InOrder, meddled' = {}
          PROVE  /\ AheadProc(q, tmp', received') /\ (q.pc = "idle" => Ahead(disk', received'))
                 /\ \A d \in Drains, e \in Events : received'[d][e] <= 1
      <3>1. meddled = {}
        BY <1>1, <2>3
      <3> QED BY <2>1, <2>2, <2>3, <3>1 DEF OnceInv, AheadProc, Stands, Copy
    <2> QED BY <1>1, <2>1, <2>3, OnceTurn
  <1>4. CASE Accepted(p)
    <2>1. PICK q \in ProcState :
             /\ Turns(p, q) /\ q.pc = "scan" /\ Stands(p, "post")
             /\ q.copy = Delivered(Copy(p), proc[p].drain, proc[p].batch)
      BY <1>4, Targets
    <2>2. Take(proc[p].drain, proc[p].batch)
      BY <1>4 DEF Accepted
    <2>3. ASSUME InOrder, meddled' = {}
          PROVE  /\ AheadProc(q, tmp', received') /\ (q.pc = "idle" => Ahead(disk', received'))
                 /\ \A d \in Drains, e \in Events : received'[d][e] <= 1
      <3>1. meddled = {}
        BY <1>1, <2>3
      <3>2. Ahead(Copy(p), received) /\ \A d \in Drains, e \in Events : received[d][e] <= 1
        BY <2>1, <2>3, <3>1 DEF OnceInv, AheadProc, Stands, Copy
      <3>3. /\ Ahead(Delivered(Copy(p), proc[p].drain, proc[p].batch), received')
            /\ \A d \in Drains, e \in Events : received'[d][e] <= 1
        BY <2>1, <2>2, <2>3, <3>2, DeliveredIsAhead
      <3> QED BY <2>1, <3>3 DEF AheadProc
    <2> QED BY <1>1, <2>1, <2>3, OnceTurn
  <1>5. CASE Refused(p)
    <2>1. PICK q \in ProcState :
             /\ Turns(p, q) /\ q.pc = "scan" /\ Stands(p, "post")
             /\ q.copy = Failed(Copy(p), proc[p].drain, proc[p].batch)
      BY <1>5, Targets
    <2>2. meddled' = {} => received' = received
      BY <1>5 DEF Refused
    <2>3. ASSUME InOrder, meddled' = {}
          PROVE  /\ AheadProc(q, tmp', received') /\ (q.pc = "idle" => Ahead(disk', received'))
                 /\ \A d \in Drains, e \in Events : received'[d][e] <= 1
      <3>1. meddled = {} /\ received' = received
        BY <1>1, <2>2, <2>3
      <3>2. Ahead(Copy(p), received) /\ \A d \in Drains, e \in Events : received[d][e] <= 1
        BY <2>1, <2>3, <3>1 DEF OnceInv, AheadProc, Stands, Copy
      <3>3. Ahead(q.copy, received)
        BY <2>1, <2>3, <3>2, FailedIsAhead
      <3> QED BY <2>1, <3>1, <3>2, <3>3 DEF AheadProc
    <2> QED BY <1>1, <2>1, <2>3, OnceTurn
  <1> QED BY <1>2, <1>3, <1>4, <1>5

LEMMA OnceWrite ==
    ASSUME TypeInv, SoloInv, OnceInv, NEW p \in Procs, WriteTmp(p) \/ Rename(p) \/ RenameFails(p)
    PROVE  OnceInv'
  <1>1. log' = log /\ received' = received /\ Works(p) /\ meddled' = meddled
    BY DEF WriteTmp, Ready, Rename, RenameFails, Works, Stands, history
  <1>2. CASE WriteTmp(p)
    <2>1. PICK q \in ProcState : Turns(p, q) /\ q.pc = "rename"
      BY <1>2, Targets
    <2>2. tmp' = Copy(p) /\ proc[p].pc \in {"scan", "write"}
      BY <1>2 DEF WriteTmp, Ready, Stands
    <2>3. ASSUME InOrder, meddled' = {}
          PROVE  /\ AheadProc(q, tmp', received') /\ (q.pc = "idle" => Ahead(disk', received'))
                 /\ \A d \in Drains, e \in Events : received'[d][e] <= 1
      BY <1>1, <2>1, <2>2, <2>3 DEF OnceInv, AheadProc, Copy
    <2> QED BY <1>1, <2>1, <2>3, OnceTurn
  <1>3. CASE Rename(p) \/ RenameFails(p)
    <2>1. Turns(p, IdleProc) /\ proc[p].pc = "rename" /\ (tmp # Absent => disk' = tmp)
      BY <1>3 DEF Rename, RenameFails, Stands
    <2>2. ASSUME InOrder, meddled' = {}
          PROVE  /\ AheadProc(IdleProc, tmp', received') /\ Ahead(disk', received')
                 /\ \A d \in Drains, e \in Events : received'[d][e] <= 1
      <3>1. meddled = {} /\ AheadProc(proc[p], tmp, received)
        BY <1>1, <2>2 DEF OnceInv
      <3>2. tmp # Absent
        BY <2>1, <3>1 DEF SoloInv, Stands
      <3>3. Ahead(disk', received')
        BY <1>1, <2>1, <3>1, <3>2 DEF AheadProc
      <3>4. \A d \in Drains, e \in Events : received'[d][e] <= 1
        BY <1>1, <2>2, <3>1 DEF OnceInv
      <3> QED BY <3>3, <3>4, IdleIs DEF AheadProc
    <2> QED BY <1>1, <2>1, <2>2, IdleIs, OnceTurn
  <1> QED BY <1>2, <1>3

LEMMA OnceOwner ==
    ASSUME TypeInv, SoloInv, IdsInv, OnceInv, NEW a \in Procs, NEW d \in Drains,
           CreateDrain(a, d) \/ ChangeDrain(a, d)
    PROVE  OnceInv'
  <1>1. PICK copy \in Storages :
           Change(a, d, copy) /\ (Ahead(disk, received) => Ahead(copy, received))
    <2>1. CASE CreateDrain(a, d)
      BY <2>1, OwnersCopies, OwnersCopiesAreAhead DEF CreateDrain
    <2>2. CASE ChangeDrain(a, d)
      BY <2>2, OwnersCopies, OwnersCopiesAreAhead DEF ChangeDrain
    <2> QED BY <2>1, <2>2
  <1>2. PICK q \in ProcState : Turns(a, q) /\ q.pc = "write" /\ q.copy = copy
    BY <1>1, ChangeTarget
  <1>3. /\ log' = log /\ received' = received /\ disk' = disk /\ tmp' = tmp /\ Stands(a, "idle")
        /\ Works(a) /\ meddled \subseteq meddled'
    BY <1>1 DEF Change, history, Works, Starts
  <1>4. ASSUME InOrder, meddled' = {}
        PROVE  /\ AheadProc(q, tmp', received') /\ (q.pc = "idle" => Ahead(disk', received'))
               /\ \A f \in Drains, e \in Events : received'[f][e] <= 1
    <2>1. meddled = {} /\ \A r \in Procs : Stands(r, "idle")
      BY <1>2, <1>3, <1>4, WorksAlone
    <2>2. Ahead(disk, received) /\ \A f \in Drains, e \in Events : received[f][e] <= 1
      BY <1>4, <2>1 DEF OnceInv
    <2>3. Ahead(copy, received)
      BY <1>1, <2>2
    <2> QED BY <1>2, <1>3, <2>2, <2>3 DEF AheadProc
  <1> QED BY <1>2, <1>3, <1>4, OnceTurn

LEMMA OnceStep ==
    TypeInv /\ SoloInv /\ SkipInv /\ IdsInv /\ OnceInv /\ [DrainNext]_drainVars => OnceInv'
  <1> SUFFICES ASSUME TypeInv, SoloInv, SkipInv, IdsInv, OnceInv, [DrainNext]_drainVars PROVE OnceInv'
    OBVIOUS
  <1>1. CASE UNCHANGED drainVars
    BY <1>1 DEF drainVars, history, OnceInv, InOrder, Stands
  <1>2. ASSUME NEW e \in Events, Emit(e)
        PROVE  OnceInv'
    <2>1. /\ log \in Seq(Events) /\ log' = Append(log, e)
          /\ UNCHANGED <<disk, tmp, proc, received, meddled>>
      BY <1>2 DEF Emit, TypeInv, history
    <2>2. InOrder' => InOrder
      BY <2>1, LogGrows
    <2> QED BY <2>1, <2>2 DEF OnceInv, Stands
  <1>3. CASE ServerDies
    <2>1. meddled' # {}
      BY <1>3 DEF ServerDies
    <2> QED BY <2>1 DEF OnceInv
  <1>4. CASE DrainNext
    <2>1. Admins \subseteq Procs
      BY DEF Procs
    <2> QED BY <1>2, <1>3, <1>4, <2>1, Steps, OnceTick, OnceWrite, OnceOwner
  <1> QED BY <1>1, <1>4

\* With one pass at a time, no crash and no lost answer, a receiver gets no event
\* twice: as long as the keys of the log ascend.
THEOREM NothingIsSentTwice == DrainSpec => [](InOrder => DeliveredAtMostOnce)
  <1>1. OnceInv => (InOrder => DeliveredAtMostOnce)
    BY DEF OnceInv, DeliveredAtMostOnce
  <1> QED BY <1>1, TypeInit, TypeStep, SoloInit, SoloStep, SkipInit, SkipStep, IdsInit, IdsStep,
        OnceInit, OnceStep, PTL DEF DrainSpec
=============================================================================
