--------------------------- MODULE AuditLog_proofs ---------------------------
(***************************************************************************)
(* Proofs about AuditLog, for any number of concurrent writes and rotated  *)
(* files, any size limit, and with torn lines and restarts: the types and  *)
(* the bound on the active file; that no record is in the trail twice;     *)
(* that the retained records stay one chain while writes do not overlap    *)
(* and no line is torn; and that a rotation deletes records only when all  *)
(* the slots are taken.  Then about the trail as one sequence: that the    *)
(* log implements AuditChain, and that what AuditTrail's readers answer,   *)
(* anchor and certify is so.                                               *)
(*                                                                         *)
(* The bound is not inductive.  What is: the lines of the active file and  *)
(* the writes that are past the size check, or done with a rotation they   *)
(* found the file full for, make less than the limit and one line more for *)
(* each write alive.  A write joins the latter only when the file is below *)
(* the limit, and leaves them with the line it appends.                    *)
(***************************************************************************)
EXTENDS AuditTrail, FiniteSetTheorems, SequenceTheorems, WellFoundedInduction, TLAPS

TypeInv ==
    /\ files \in [Slots -> Seq(Line)]
    /\ lastHash \in 0..MaxRecords
    /\ loaded \in BOOLEAN
    /\ writer \in [Writers -> WriterState]
    /\ nextId \in 1..(MaxRecords + 1)
    /\ disturbed \subseteq {"race", "torn", "restart"}

\* A write that will append without another look at the size.
Pending(w) ==
    \/ writer[w].pc \in {"resume", "list", "scan", "loaded", "append"}
    \/ writer[w].pc = "shift" /\ writer[w].slot = 0
PendingWriters == {w \in Writers : Pending(w)}

BoundInv ==
    RotateAt # 0 =>
        Len(files[0]) + Cardinality(PendingWriters) <= RotateAt - 1 + Cardinality(Writers)

-----------------------------------------------------------------------------
(* Lines and files                                                         *)

LEMMA Constants ==
    /\ KeepFiles \in Nat /\ RotateAt \in Nat /\ MaxRecords \in Nat
    /\ 0 \in Slots /\ KeepFiles \in Slots /\ 0 \in 0..MaxRecords
    /\ Open \in Line /\ Bad \in Line /\ Record \subseteq Line
    /\ Cardinality(Writers) \in Nat
  <1>1. /\ KeepFiles \in Nat /\ RotateAt \in Nat /\ MaxRecords \in Nat
        /\ 0 \in Slots /\ KeepFiles \in Slots /\ 0 \in 0..MaxRecords
    BY SizesAssumption DEF Slots
  <1>2. Open \in Line /\ Bad \in Line /\ Record \subseteq Line
    BY DEF Line
  <1>3. Cardinality(Writers) \in Nat
    BY WritersAssumption, FS_CardinalityType
  <1> QED
    BY <1>1, <1>2, <1>3

LEMMA ExtendedType ==
    ASSUME NEW lines \in Seq(Line), NEW l \in Line
    PROVE  /\ Extended(lines, l) \in Seq(Line)
           /\ Len(Extended(lines, l)) <= Len(lines) + 1
  <1>1. Glued(l) \in Line
    BY Constants DEF Glued
  <1>2. CASE lines # <<>> /\ lines[Len(lines)] = Open
    <2>1. Extended(lines, l) = [lines EXCEPT ![Len(lines)] = Glued(l)]
      BY <1>2 DEF Extended
    <2> HIDE DEF Line
    <2>2. Len(lines) \in 1..Len(lines) /\ Len(lines) \in Nat
      BY <1>2
    <2>3. /\ [lines EXCEPT ![Len(lines)] = Glued(l)] \in Seq(Line)
          /\ Len([lines EXCEPT ![Len(lines)] = Glued(l)]) = Len(lines)
      BY <1>1, <2>2
    <2> QED
      BY <2>1, <2>2, <2>3
  <1>3. CASE ~(lines # <<>> /\ lines[Len(lines)] = Open)
    <2>1. Extended(lines, l) = Append(lines, l)
      BY <1>3 DEF Extended
    <2>2. Append(lines, l) \in Seq(Line) /\ Len(Append(lines, l)) = Len(lines) + 1 /\ Len(lines) \in Nat
      OBVIOUS
    <2> QED
      BY <2>1, <2>2
  <1> QED
    BY <1>2, <1>3

LEMMA RenamedType ==
    ASSUME TypeInv, NEW i \in Slots, NEW j \in Slots
    PROVE  Renamed(i, j) \in [Slots -> Seq(Line)]
  <1>1. \A k \in Slots : files[k] \in Seq(Line)
    BY DEF TypeInv
  <1>2. <<>> \in Seq(Line)
    OBVIOUS
  <1> QED
    BY <1>1, <1>2 DEF Renamed, TypeInv

\* A file that holds records has a last one.
LEMMA TailType ==
    ASSUME NEW lines \in Seq(Line), HashesIn(lines) # {}
    PROVE  TailHash(lines) \in 0..MaxRecords
  <1> DEFINE H == HashesIn(lines)
             S == {Len(lines) - a : a \in H}
  <1>1. H \subseteq 1..Len(lines) /\ Len(lines) \in Nat
    BY DEF HashesIn
  <1>2. S \subseteq Nat /\ S # {}
    BY <1>1
  <1>3. \E n \in S : \A m \in S : ~(<<m, n>> \in OpToRel(<, Nat))
    BY <1>2, NatLessThanWellFounded, WFMin
  <1>4. PICK n \in S : \A m \in S : ~(<<m, n>> \in OpToRel(<, Nat))
    BY <1>3
  <1>5. \A m \in S : n <= m
    <2>1. TAKE m \in S
    <2>2. ~(m < n) /\ m \in Nat /\ n \in Nat
      BY <1>2, <1>4 DEF OpToRel
    <2> QED
      BY <2>2
  <1>6. PICK a \in H : n = Len(lines) - a
    OBVIOUS
  <1>7. \A b \in H : b <= a
    <2>1. TAKE b \in H
    <2>2. Len(lines) - b \in S
      OBVIOUS
    <2>3. Len(lines) - a <= Len(lines) - b
      BY <1>5, <1>6, <2>2
    <2> QED
      BY <1>1, <2>3
  <1> DEFINE last == CHOOSE c \in H : \A b \in H : b <= c
  <1>8. last \in H
    BY <1>7
  <1>9. lines[last] \in Record /\ TailHash(lines) = lines[last].id
    BY <1>8 DEF HashesIn, TailHash
  <1> QED
    BY <1>9 DEF Record

-----------------------------------------------------------------------------
(* Writers                                                                 *)

LEMMA States ==
    /\ NoRec \in Record /\ Idle \in WriterState
    /\ \A id, prev \in 0..MaxRecords : Rec(id, prev) \in Record
    /\ \A pc, slot, todo, rec :
         LET s == Writer(pc, slot, todo, rec) IN
         /\ s.pc = pc /\ s.slot = slot /\ s.todo = todo /\ s.rec = rec
         /\ pc \in {"idle", "rotate", "unlink", "shift", "resume", "list", "scan",
                    "loaded", "append", "appended"}
              /\ slot \in Slots /\ todo \in SUBSET Slots /\ rec \in Record
            => s \in WriterState
  <1>1. \A pc, slot, todo, rec :
          LET s == Writer(pc, slot, todo, rec) IN
          s.pc = pc /\ s.slot = slot /\ s.todo = todo /\ s.rec = rec
    BY DEF Writer
  <1>2. \A id, prev \in 0..MaxRecords : Rec(id, prev) \in Record
    BY DEF Rec, Record
  <1>3. NoRec \in Record
    BY <1>2, Constants DEF NoRec
  <1>4. Idle \in WriterState
    BY <1>3, Constants DEF Idle, Writer, WriterState
  <1>5. \A pc, slot, todo, rec :
          pc \in {"idle", "rotate", "unlink", "shift", "resume", "list", "scan",
                  "loaded", "append", "appended"}
            /\ slot \in Slots /\ todo \in SUBSET Slots /\ rec \in Record
          => Writer(pc, slot, todo, rec) \in WriterState
    BY DEF Writer, WriterState
  <1> QED
    BY <1>1, <1>2, <1>3, <1>4, <1>5

LEMMA Become ==
    ASSUME TypeInv, NEW w \in Writers, NEW s \in WriterState, Becomes(w, s)
    PROVE  /\ writer' \in [Writers -> WriterState]
           /\ writer'[w] = s
           /\ \A v \in Writers \ {w} : writer'[v] = writer[v]
  BY DEF TypeInv, Becomes

\* Whom a step of w can leave among those that will append.
LEMMA PendingAfter ==
    ASSUME TypeInv, NEW w \in Writers, NEW s \in WriterState, Becomes(w, s)
    PROVE  /\ Pending(w) => PendingWriters' \subseteq PendingWriters
           /\ s.pc \in {"idle", "rotate", "unlink", "appended"}
                \/ (s.pc = "shift" /\ s.slot # 0)
              => PendingWriters' \subseteq PendingWriters \ {w}
  BY Become DEF PendingWriters, Pending

LEMMA PendingFinite ==
    /\ IsFiniteSet(PendingWriters) /\ Cardinality(PendingWriters) \in Nat
    /\ Cardinality(PendingWriters) <= Cardinality(Writers)
  <1>1. PendingWriters \in SUBSET Writers
    BY DEF PendingWriters
  <1>2. IsFiniteSet(PendingWriters) /\ Cardinality(PendingWriters) <= Cardinality(Writers)
    BY <1>1, WritersAssumption, FS_Subset
  <1> QED
    BY <1>2, FS_CardinalityType

LEMMA PendingFiniteNext ==
    /\ IsFiniteSet(PendingWriters') /\ Cardinality(PendingWriters') \in Nat
    /\ Cardinality(PendingWriters') <= Cardinality(Writers)
  <1>1. PendingWriters' \in SUBSET Writers
    BY DEF PendingWriters
  <1>2. IsFiniteSet(PendingWriters') /\ Cardinality(PendingWriters') <= Cardinality(Writers)
    BY <1>1, WritersAssumption, FS_Subset
  <1> QED
    BY <1>2, FS_CardinalityType

\* Below the limit the writes that will append have their line each.
LEMMA BoundBelow ==
    ASSUME TypeInv', Len(files'[0]) < RotateAt
    PROVE  BoundInv'
  <1>1. Len(files'[0]) \in Nat
    BY Constants DEF TypeInv
  <1> QED
    BY <1>1, Constants, PendingFiniteNext DEF BoundInv

LEMMA BoundKept ==
    ASSUME TypeInv, TypeInv', BoundInv, Len(files'[0]) <= Len(files[0]),
           PendingWriters' \subseteq PendingWriters
    PROVE  BoundInv'
  <1>1. Len(files'[0]) \in Nat /\ Len(files[0]) \in Nat
    BY Constants DEF TypeInv
  <1>2. PendingWriters' \in SUBSET PendingWriters
    OBVIOUS
  <1>3. Cardinality(PendingWriters') <= Cardinality(PendingWriters)
    BY <1>2, PendingFinite, FS_Subset
  <1> QED
    BY <1>1, <1>3, Constants, PendingFinite, PendingFiniteNext DEF BoundInv

\* A line more, and a write less that will append.
LEMMA BoundAppended ==
    ASSUME TypeInv, TypeInv', BoundInv, Len(files'[0]) <= Len(files[0]) + 1,
           NEW w \in PendingWriters, PendingWriters' \subseteq PendingWriters \ {w}
    PROVE  BoundInv'
  <1>1. Len(files'[0]) \in Nat /\ Len(files[0]) \in Nat
    BY Constants DEF TypeInv
  <1>2. /\ IsFiniteSet(PendingWriters \ {w})
        /\ Cardinality(PendingWriters \ {w}) = Cardinality(PendingWriters) - 1
    BY PendingFinite, FS_RemoveElement
  <1>3. PendingWriters' \in SUBSET (PendingWriters \ {w})
    OBVIOUS
  <1>4. Cardinality(PendingWriters') <= Cardinality(PendingWriters) - 1
    BY <1>2, <1>3, FS_Subset
  <1> QED
    BY <1>1, <1>4, Constants, PendingFinite, PendingFiniteNext DEF BoundInv

-----------------------------------------------------------------------------
(* The steps                                                               *)

LEMMA RotationSteps ==
    ASSUME TypeInv, BoundInv, NEW w \in Writers, Rotation(w)
    PROVE  TypeInv' /\ BoundInv'
  <1>1. CASE StatExists(w)
    <2> DEFINE s == Writer(IF files[0] = <<>> THEN "resume" ELSE "unlink", 0, {}, NoRec)
    <2>1. Becomes(w, s) /\ UNCHANGED <<files, lastHash, loaded, nextId, disturbed>>
      BY <1>1 DEF StatExists
    <2>2. /\ s \in WriterState
          /\ files[0] # <<>> => s.pc = "unlink"
      BY States, Constants
    <2> HIDE DEF s
    <2>3. TypeInv'
      BY <2>1, <2>2, Become DEF TypeInv
    <2>4. CASE files[0] = <<>>
      <3>1. CASE RotateAt = 0
        BY <2>3, <3>1 DEF BoundInv
      <3>2. CASE RotateAt # 0
        <4>1. Len(files'[0]) < RotateAt
          BY <2>1, <2>4, <3>2, Constants
        <4> QED
          BY <2>3, <4>1, BoundBelow
      <3> QED
        BY <3>1, <3>2
    <2>5. CASE files[0] # <<>>
      <3>1. PendingWriters' \subseteq PendingWriters
        BY <2>1, <2>2, <2>5, PendingAfter
      <3>2. Len(files'[0]) <= Len(files[0])
        BY <2>1, Constants DEF TypeInv
      <3> QED
        BY <2>3, <3>1, <3>2, BoundKept
    <2> QED
      BY <2>3, <2>4, <2>5
  <1>2. CASE Unlink(w)
    <2> DEFINE s == Writer("shift", KeepFiles, {}, NoRec)
    <2>1. /\ Becomes(w, s) /\ files' = [files EXCEPT ![KeepFiles] = <<>>]
          /\ UNCHANGED <<lastHash, loaded, nextId, disturbed>>
      BY <1>2 DEF Unlink
    <2>2. s \in WriterState /\ s.pc = "shift" /\ s.slot = KeepFiles
      BY States, Constants
    <2> HIDE DEF s
    <2>3. TypeInv'
      <3>1. <<>> \in Seq(Line)
        OBVIOUS
      <3>2. files' \in [Slots -> Seq(Line)]
        BY <2>1, <3>1, Constants DEF TypeInv
      <3> QED
        BY <2>1, <2>2, <3>2, Become DEF TypeInv
    <2>4. CASE KeepFiles = 0
      <3>1. CASE RotateAt = 0
        BY <2>3, <3>1 DEF BoundInv
      <3>2. CASE RotateAt # 0
        <4>1. files'[0] = <<>>
          BY <2>1, <2>4, Constants DEF TypeInv
        <4>2. Len(files'[0]) < RotateAt
          BY <3>2, <4>1, Constants
        <4> QED
          BY <2>3, <4>2, BoundBelow
      <3> QED
        BY <3>1, <3>2
    <2>5. CASE KeepFiles # 0
      <3>1. PendingWriters' \subseteq PendingWriters
        BY <2>1, <2>2, <2>5, PendingAfter
      <3>2. files'[0] = files[0] /\ Len(files[0]) \in Nat
        BY <2>1, <2>5, Constants DEF TypeInv
      <3>3. Len(files'[0]) <= Len(files[0])
        BY <3>2
      <3> QED
        BY <2>3, <3>1, <3>3, BoundKept
    <2> QED
      BY <2>3, <2>4, <2>5
  <1>3. CASE Shift(w)
    <2> DEFINE i == writer[w].slot
               s == Writer("shift", i - 1, {}, NoRec)
    <2>1. /\ Becomes(w, s) /\ files' = Renamed(i - 1, i) /\ At(w, "shift") /\ i > 0
          /\ UNCHANGED <<lastHash, loaded, nextId, disturbed>>
      BY <1>3 DEF Shift
    <2>2. i \in Slots /\ i - 1 \in Slots
      BY <2>1, Constants DEF TypeInv, WriterState, Slots
    <2>3. s \in WriterState /\ s.pc = "shift" /\ s.slot = i - 1
      BY <2>2, States, Constants
    <2> HIDE DEF s, i
    <2>4. TypeInv'
      BY <2>1, <2>2, <2>3, Become, RenamedType DEF TypeInv
    <2>5. CASE i - 1 = 0
      <3>1. CASE RotateAt = 0
        BY <2>4, <3>1 DEF BoundInv
      <3>2. CASE RotateAt # 0
        <4>1. files'[0] = <<>>
          BY <2>1, <2>2, <2>5, Constants DEF Renamed, TypeInv
        <4>2. Len(files'[0]) < RotateAt
          BY <3>2, <4>1, Constants
        <4> QED
          BY <2>4, <4>2, BoundBelow
      <3> QED
        BY <3>1, <3>2
    <2>6. CASE i - 1 # 0
      <3>1. PendingWriters' \subseteq PendingWriters
        BY <2>1, <2>3, <2>6, PendingAfter
      <3>2. files'[0] = files[0] /\ Len(files[0]) \in Nat
        BY <2>1, <2>2, <2>6, Constants DEF Renamed, TypeInv
      <3>3. Len(files'[0]) <= Len(files[0])
        BY <3>2
      <3> QED
        BY <2>4, <3>1, <3>3, BoundKept
    <2> QED
      BY <2>4, <2>5, <2>6
  <1>4. CASE Rotated(w)
    <2> DEFINE s == Writer("list", 0, {}, NoRec)
    <2>1. /\ Becomes(w, s) /\ At(w, "shift") /\ writer[w].slot = 0
          /\ lastHash' = Genesis /\ loaded' = FALSE
          /\ UNCHANGED <<files, nextId, disturbed>>
      BY <1>4 DEF Rotated
    <2>2. s \in WriterState
      BY States, Constants
    <2> HIDE DEF s
    <2>3. TypeInv'
      BY <2>1, <2>2, Become, Constants DEF TypeInv, Genesis
    <2>4. PendingWriters' \subseteq PendingWriters
      BY <2>1, <2>2, PendingAfter DEF Pending, At
    <2>5. Len(files'[0]) <= Len(files[0])
      BY <2>1, Constants DEF TypeInv
    <2> QED
      BY <2>3, <2>4, <2>5, BoundKept
  <1> QED
    BY <1>1, <1>2, <1>3, <1>4 DEF Rotation

\* A write that is past the size check goes on to its append.
LEMMA PendingStep ==
    ASSUME TypeInv, BoundInv, NEW w \in Writers, Pending(w), NEW s \in WriterState, Becomes(w, s),
           UNCHANGED <<files, disturbed>>,
           lastHash' \in 0..MaxRecords, loaded' \in BOOLEAN, nextId' \in 1..(MaxRecords + 1)
    PROVE  TypeInv' /\ BoundInv'
  <1>1. TypeInv'
    BY Become DEF TypeInv
  <1>2. PendingWriters' \subseteq PendingWriters
    BY PendingAfter
  <1>3. Len(files'[0]) <= Len(files[0])
    BY Constants DEF TypeInv
  <1> QED
    BY <1>1, <1>2, <1>3, BoundKept

LEMMA BuildStep ==
    ASSUME TypeInv, NEW w \in Writers, NEW prev \in 0..MaxRecords, Build(w, prev)
    PROVE  /\ nextId' \in 1..(MaxRecords + 1)
           /\ \E s \in WriterState : Becomes(w, s)
  <1>1. nextId \in 0..MaxRecords /\ nextId' = nextId + 1 /\ nextId' \in 1..(MaxRecords + 1)
    BY Constants DEF Build, TypeInv
  <1>2. Writer("append", 0, {}, Rec(nextId, prev)) \in WriterState
    BY <1>1, States, Constants
  <1> QED
    BY <1>1, <1>2 DEF Build

LEMMA RecoverySteps ==
    ASSUME TypeInv, BoundInv, NEW w \in Writers, Recovery(w)
    PROVE  TypeInv' /\ BoundInv'
  <1>0. Pending(w)
    BY DEF Recovery, List, Scan, ScanEnds, Loaded, At, Pending
  <1>1. lastHash \in 0..MaxRecords /\ loaded \in BOOLEAN /\ nextId \in 1..(MaxRecords + 1)
    BY DEF TypeInv
  <1>2. CASE List(w)
    <2>1. Writer("scan", 0, Present, NoRec) \in WriterState
      BY States, Constants DEF Present
    <2> QED
      BY <1>0, <1>1, <1>2, <2>1, PendingStep DEF List
  <1>3. CASE Scan(w)
    <2>1. PICK i \in writer[w].todo :
              Becomes(w, IF HashesIn(files[i]) # {}
                         THEN Writer("loaded", 0, {}, Rec(0, TailHash(files[i])))
                         ELSE Writer("scan", 0, writer[w].todo \ {i}, NoRec))
      BY <1>3 DEF Scan
    <2>2. writer[w].todo \in SUBSET Slots /\ files[i] \in Seq(Line)
      BY <2>1 DEF TypeInv, WriterState
    <2>3. CASE HashesIn(files[i]) # {}
      <3>1. TailHash(files[i]) \in 0..MaxRecords
        BY <2>2, <2>3, TailType
      <3>2. Writer("loaded", 0, {}, Rec(0, TailHash(files[i]))) \in WriterState
        BY <3>1, States, Constants
      <3>3. Becomes(w, Writer("loaded", 0, {}, Rec(0, TailHash(files[i]))))
        BY <2>1, <2>3
      <3> QED
        BY <1>0, <1>1, <1>3, <3>2, <3>3, PendingStep DEF Scan
    <2>4. CASE HashesIn(files[i]) = {}
      <3>1. Writer("scan", 0, writer[w].todo \ {i}, NoRec) \in WriterState
        BY <2>2, States, Constants
      <3>2. Becomes(w, Writer("scan", 0, writer[w].todo \ {i}, NoRec))
        BY <2>1, <2>4
      <3> QED
        BY <1>0, <1>1, <1>3, <3>1, <3>2, PendingStep DEF Scan
    <2> QED
      BY <2>3, <2>4
  <1>4. CASE ScanEnds(w)
    <2>1. Writer("loaded", 0, {}, NoRec) \in WriterState
      BY States, Constants
    <2> QED
      BY <1>0, <1>1, <1>4, <2>1, PendingStep DEF ScanEnds
  <1>5. CASE Loaded(w)
    <2>1. writer[w].rec.prev \in 0..MaxRecords
      BY DEF TypeInv, WriterState, Record
    <2>2. /\ lastHash' \in 0..MaxRecords /\ loaded' \in BOOLEAN /\ UNCHANGED <<files, disturbed>>
          /\ Build(w, writer[w].rec.prev)
      BY <1>5, <2>1 DEF Loaded
    <2>3. PICK s \in WriterState : Becomes(w, s)
      BY <2>1, <2>2, BuildStep
    <2>4. nextId' \in 1..(MaxRecords + 1)
      BY <2>1, <2>2, BuildStep
    <2> QED
      BY <1>0, <2>2, <2>3, <2>4, PendingStep
  <1> QED
    BY <1>2, <1>3, <1>4, <1>5 DEF Recovery

LEMMA AppendingSteps ==
    ASSUME TypeInv, BoundInv, NEW w \in Writers, Appending(w)
    PROVE  TypeInv' /\ BoundInv'
  <1>0. /\ lastHash \in 0..MaxRecords /\ loaded \in BOOLEAN /\ nextId \in 1..(MaxRecords + 1)
        /\ files[0] \in Seq(Line) /\ Len(files[0]) \in Nat
        /\ writer[w] \in WriterState /\ writer[w].rec \in Record
    BY Constants DEF TypeInv, WriterState
  <1>1. CASE StatSize(w)
    <2> DEFINE s == Writer(IF Full THEN "rotate" ELSE "resume", 0, {}, NoRec)
    <2>1. Becomes(w, s) /\ UNCHANGED <<files, lastHash, loaded, nextId>>
      BY <1>1 DEF StatSize
    <2>2. s \in WriterState /\ (Full => s.pc = "rotate")
      BY States, Constants
    <2>3. disturbed' \subseteq {"race", "torn", "restart"}
      BY <1>1 DEF StatSize, TypeInv
    <2> HIDE DEF s
    <2>4. TypeInv'
      BY <2>1, <2>2, <2>3, Become DEF TypeInv
    <2>5. CASE Full
      <3>1. PendingWriters' \subseteq PendingWriters
        BY <2>1, <2>2, <2>5, PendingAfter
      <3>2. Len(files'[0]) <= Len(files[0])
        BY <1>0, <2>1
      <3> QED
        BY <2>4, <3>1, <3>2, BoundKept
    <2>6. CASE ~Full
      <3>1. CASE RotateAt = 0
        BY <2>4, <3>1 DEF BoundInv
      <3>2. CASE RotateAt # 0
        <4>1. Len(files'[0]) < RotateAt
          BY <1>0, <2>1, <2>6, <3>2, Constants DEF Full
        <4> QED
          BY <2>4, <4>1, BoundBelow
      <3> QED
        BY <3>1, <3>2
    <2> QED
      BY <2>4, <2>5, <2>6
  <1>2. CASE Resume(w)
    <2>1. Pending(w) /\ UNCHANGED <<files, lastHash, loaded, disturbed>>
      BY <1>2 DEF Resume, At, Pending
    <2>2. CASE Build(w, lastHash)
      <3>1. PICK s \in WriterState : Becomes(w, s)
        BY <1>0, <2>2, BuildStep
      <3>2. nextId' \in 1..(MaxRecords + 1)
        BY <1>0, <2>2, BuildStep
      <3> QED
        BY <1>0, <2>1, <3>1, <3>2, PendingStep
    <2>3. CASE Becomes(w, Writer("list", 0, {}, NoRec)) /\ UNCHANGED nextId
      <3>1. Writer("list", 0, {}, NoRec) \in WriterState
        BY States, Constants
      <3> QED
        BY <1>0, <2>1, <2>3, <3>1, PendingStep
    <2> QED
      BY <1>2, <2>2, <2>3 DEF Resume
  <1>3. CASE AppendLine(w) \/ TearLine(w)
    <2>1. PICK l \in Line : files' = [files EXCEPT ![0] = Extended(files[0], l)]
      BY <1>0, <1>3, Constants DEF AppendLine, TearLine
    <2>2. PICK s \in WriterState : Becomes(w, s) /\ s.pc \in {"idle", "appended"}
      <3>1. /\ Idle \in WriterState /\ Idle.pc = "idle"
            /\ Writer("appended", 0, {}, writer[w].rec) \in WriterState
            /\ Writer("appended", 0, {}, writer[w].rec).pc = "appended"
        BY <1>0, States, Constants DEF Idle
      <3> QED
        BY <1>3, <3>1 DEF AppendLine, TearLine
    <2>3. /\ At(w, "append") /\ UNCHANGED <<lastHash, loaded, nextId>>
          /\ disturbed' \subseteq {"race", "torn", "restart"}
      BY <1>3 DEF AppendLine, TearLine, TypeInv
    <2>4. /\ Extended(files[0], l) \in Seq(Line)
          /\ Len(Extended(files[0], l)) <= Len(files[0]) + 1
      BY <1>0, ExtendedType
    <2>5. files' \in [Slots -> Seq(Line)] /\ files'[0] = Extended(files[0], l)
      BY <2>1, <2>4, Constants DEF TypeInv
    <2>6. TypeInv'
      BY <2>2, <2>3, <2>5, Become DEF TypeInv
    <2>7. w \in PendingWriters /\ PendingWriters' \subseteq PendingWriters \ {w}
      BY <2>2, <2>3, PendingAfter DEF At, Pending, PendingWriters
    <2> QED
      BY <2>4, <2>5, <2>6, <2>7, BoundAppended
  <1>4. CASE Finish(w)
    <2>1. /\ Becomes(w, Idle) /\ UNCHANGED <<files, loaded, nextId, disturbed>>
          /\ lastHash' = writer[w].rec.id
      BY <1>4 DEF Finish
    <2>2. Idle \in WriterState /\ Idle.pc = "idle"
      BY States DEF Idle
    <2>3. lastHash' \in 0..MaxRecords
      BY <1>0, <2>1 DEF Record
    <2>4. TypeInv'
      BY <2>1, <2>2, <2>3, Become DEF TypeInv
    <2>5. PendingWriters' \subseteq PendingWriters
      BY <2>1, <2>2, PendingAfter
    <2>6. Len(files'[0]) <= Len(files[0])
      BY <1>0, <2>1
    <2> QED
      BY <2>4, <2>5, <2>6, BoundKept
  <1> QED
    BY <1>1, <1>2, <1>3, <1>4 DEF Appending

LEMMA RestartStep ==
    ASSUME TypeInv, BoundInv, Restart
    PROVE  TypeInv' /\ BoundInv'
  <1>1. /\ writer' = [w \in Writers |-> Idle] /\ UNCHANGED <<files, nextId>>
        /\ lastHash' = 0 /\ loaded' = FALSE
        /\ disturbed' = disturbed \cup {"restart"}
    BY DEF Restart, Genesis
  <1>2. Idle \in WriterState /\ Idle.pc = "idle"
    BY States DEF Idle
  <1>3. TypeInv'
    <2>1. files' \in [Slots -> Seq(Line)] /\ nextId' \in 1..(MaxRecords + 1)
      BY <1>1 DEF TypeInv
    <2>2. lastHash' \in 0..MaxRecords /\ loaded' \in BOOLEAN
      BY <1>1, Constants
    <2>3. writer' \in [Writers -> WriterState]
      BY <1>1, <1>2
    <2>4. disturbed' \subseteq {"race", "torn", "restart"}
      BY <1>1 DEF TypeInv
    <2> QED
      BY <2>1, <2>2, <2>3, <2>4 DEF TypeInv
  <1>4. PendingWriters' \subseteq PendingWriters
    BY <1>1, <1>2 DEF PendingWriters, Pending
  <1>5. files'[0] = files[0] /\ files[0] \in Seq(Line)
    BY <1>1, Constants DEF TypeInv
  <1>6. Len(files'[0]) <= Len(files[0])
    BY <1>5
  <1> QED
    BY <1>3, <1>4, <1>6, BoundKept

LEMMA Starts == Init => TypeInv /\ BoundInv
  <1>1. ASSUME Init PROVE TypeInv /\ BoundInv
    <2>1. <<>> \in Seq(Line) /\ Len(<<>>) = 0
      OBVIOUS
    <2>2. Idle \in WriterState /\ Idle.pc = "idle"
      BY States DEF Idle
    <2>3. TypeInv
      <3>1. files \in [Slots -> Seq(Line)]
        BY <1>1, <2>1 DEF Init
      <3>2. lastHash \in 0..MaxRecords /\ loaded \in BOOLEAN /\ nextId \in 1..(MaxRecords + 1)
        <4>1. lastHash = 0 /\ nextId = 1
          BY <1>1 DEF Init, Genesis
        <4>2. loaded \in BOOLEAN
          BY <1>1 DEF Init
        <4>3. lastHash \in 0..MaxRecords /\ nextId \in 1..(MaxRecords + 1)
          BY <4>1, SizesAssumption
        <4> QED
          BY <4>2, <4>3
      <3>3. writer \in [Writers -> WriterState]
        BY <1>1, <2>2 DEF Init
      <3>4. disturbed \subseteq {"race", "torn", "restart"}
        BY <1>1 DEF Init
      <3> QED
        BY <3>1, <3>2, <3>3, <3>4 DEF TypeInv
    <2>4. files[0] = <<>>
      BY <1>1, Constants DEF Init
    <2>5. Len(files[0]) = 0
      BY <2>1, <2>4
    <2> QED
      BY <2>3, <2>5, Constants, PendingFinite DEF BoundInv
  <1> QED
    BY <1>1

LEMMA Steps == TypeInv /\ BoundInv /\ [Next]_vars => TypeInv' /\ BoundInv'
  <1>1. SUFFICES ASSUME TypeInv, BoundInv, [Next]_vars PROVE TypeInv' /\ BoundInv'
    OBVIOUS
  <1>2. CASE UNCHANGED vars
    <2>1. TypeInv'
      BY <1>1, <1>2 DEF vars, TypeInv
    <2>2. BoundInv'
      BY <1>1, <1>2 DEF vars, BoundInv, PendingWriters, Pending
    <2> QED
      BY <2>1, <2>2
  <1> QED
    BY <1>1, <1>2, RestartStep, RotationSteps, RecoverySteps, AppendingSteps DEF Next

LEMMA Invariant == Spec => [](TypeInv /\ BoundInv)
  BY Starts, Steps, PTL DEF Spec

\* Every variable keeps its type, and however many writes race past the size
\* check and whichever of them rotates, the active file never has more than a
\* line per concurrent write above the limit (audit-log.ts:129).
THEOREM LogTypes == Spec => []TypeOK
  <1>1. TypeInv /\ BoundInv => TypeOK
    <2>1. SUFFICES ASSUME TypeInv, BoundInv PROVE TypeOK
      OBVIOUS
    <2>2. Len(files[0]) \in Nat
      BY <2>1, Constants DEF TypeInv
    <2>3. RotateAt # 0 => Len(files[0]) < RotateAt + Cardinality(Writers)
      BY <2>1, <2>2, Constants, PendingFinite DEF BoundInv
    <2> QED
      BY <2>1, <2>3 DEF TypeInv, TypeOK
  <1> QED
    BY Invariant, <1>1, PTL

-----------------------------------------------------------------------------
(* Each record once.                                                       *)

\* Ids on file and in hand were given out already.
Given ==
    /\ \A i \in Slots : \A a \in HashesIn(files[i]) : files[i][a].id < nextId
    /\ \A w \in Writers : At(w, "append") => writer[w].rec.id < nextId

\* What a write is about to append is not on file, and in no other write's hand.
InHand ==
    /\ \A w \in Writers : At(w, "append") =>
         \A i \in Slots : \A a \in HashesIn(files[i]) : files[i][a].id # writer[w].rec.id
    /\ \A v, w \in Writers :
         At(v, "append") /\ At(w, "append") /\ writer[v].rec.id = writer[w].rec.id => v = w

UniqueInv == Given /\ RecordsAreUnique /\ InHand

LEMMA HashesType ==
    ASSUME TypeInv, NEW i \in Slots, NEW a \in HashesIn(files[i])
    PROVE  files[i][a] \in Record /\ files[i][a].id \in Nat /\ a \in DOMAIN files[i]
  BY Constants DEF HashesIn, Record

\* Files that hold only what one file held before, each from another one.
Moved(m) ==
    /\ m \in [Slots -> Slots]
    /\ \A i \in Slots : \A a \in HashesIn(files'[i]) :
         a \in HashesIn(files[m[i]]) /\ files'[i][a] = files[m[i]][a]
    /\ \A i, j \in Slots : HashesIn(files'[i]) # {} /\ HashesIn(files'[j]) # {} /\ m[i] = m[j] => i = j

\* No write comes to hold a record that it did not hold.
Released ==
    \A w \in Writers : At(w, "append")' => At(w, "append") /\ writer'[w].rec = writer[w].rec

LEMMA MovedFiles ==
    ASSUME TypeInv, UniqueInv, NEW m, Moved(m), nextId' = nextId, Released
    PROVE  UniqueInv'
  <1>1. Given'
    BY DEF UniqueInv, Given, Moved, Released
  <1>2. RecordsAreUnique'
    <2>1. SUFFICES ASSUME NEW i \in Slots, NEW j \in Slots,
                          NEW a \in HashesIn(files'[i]), NEW b \in HashesIn(files'[j]),
                          files'[i][a].id = files'[j][b].id
                   PROVE  i = j /\ a = b
      BY DEF RecordsAreUnique, HashesIn
    <2>2. /\ m[i] \in Slots /\ a \in HashesIn(files[m[i]]) /\ files'[i][a] = files[m[i]][a]
          /\ m[j] \in Slots /\ b \in HashesIn(files[m[j]]) /\ files'[j][b] = files[m[j]][b]
      BY DEF Moved
    <2>3. m[i] = m[j] /\ a = b
      BY <2>1, <2>2 DEF UniqueInv, RecordsAreUnique
    <2> QED
      BY <2>3 DEF Moved
  <1>3. InHand'
    BY DEF UniqueInv, InHand, Moved, Released
  <1> QED
    BY <1>1, <1>2, <1>3 DEF UniqueInv

\* Nothing on file changes.
LEMMA SameFiles ==
    ASSUME TypeInv, UniqueInv, UNCHANGED files, nextId' = nextId, Released
    PROVE  UniqueInv'
  <1> DEFINE m == [i \in Slots |-> i]
  <1>1. Moved(m)
    BY DEF Moved
  <1> HIDE DEF m
  <1> QED
    BY <1>1, MovedFiles

LEMMA Releases ==
    ASSUME TypeInv, NEW w \in Writers, NEW s \in WriterState, Becomes(w, s), s.pc # "append"
    PROVE  Released
  BY Become DEF Released, At

\* The record a write builds is new.
LEMMA BuildIsFresh ==
    ASSUME TypeInv, TypeInv', UniqueInv, NEW w \in Writers, NEW prev \in 0..MaxRecords, Build(w, prev),
           UNCHANGED files
    PROVE  UniqueInv'
  <1> DEFINE s == Writer("append", 0, {}, Rec(nextId, prev))
  <1>1. nextId \in 0..MaxRecords /\ nextId \in Nat /\ nextId' = nextId + 1
    BY Constants DEF Build, TypeInv
  <1>2. Becomes(w, s) /\ s \in WriterState
    BY <1>1, States, Constants DEF Build
  <1>3. s.pc = "append" /\ s.rec.id = nextId
    BY DEF Writer, Rec
  <1> HIDE DEF s
  <1>4. /\ writer'[w].pc = "append" /\ writer'[w].rec.id = nextId
        /\ \A v \in Writers \ {w} : writer'[v] = writer[v]
    BY <1>2, <1>3, Become
  <1>5. \A i \in Slots : \A a \in HashesIn(files[i]) :
          files[i][a].id < nextId /\ files[i][a].id \in Nat
    BY HashesType DEF UniqueInv, Given
  <1>6. \A v \in Writers : At(v, "append") => writer[v].rec.id < nextId /\ writer[v].rec.id \in Nat
    BY DEF UniqueInv, Given, TypeInv, WriterState, Record
  <1>7. Given'
    <2>1. \A i \in Slots : \A a \in HashesIn(files'[i]) : files'[i][a].id < nextId'
      BY <1>1, <1>5
    <2>2. ASSUME NEW v \in Writers, At(v, "append")' PROVE writer'[v].rec.id < nextId'
      <3>1. CASE v = w
        BY <1>1, <1>4, <3>1
      <3>2. CASE v # w
        BY <1>1, <1>4, <1>6, <2>2, <3>2 DEF At
      <3> QED
        BY <3>1, <3>2
    <2> QED
      BY <2>1, <2>2 DEF Given
  <1>8. RecordsAreUnique'
    BY DEF UniqueInv, RecordsAreUnique
  <1>9. InHand'
    <2>1. ASSUME NEW v \in Writers, At(v, "append")', NEW i \in Slots, NEW a \in HashesIn(files'[i])
          PROVE  files'[i][a].id # writer'[v].rec.id
      <3>1. CASE v = w
        BY <1>1, <1>4, <1>5, <2>1, <3>1
      <3>2. CASE v # w
        BY <1>4, <2>1, <3>2 DEF UniqueInv, InHand, At
      <3> QED
        BY <3>1, <3>2
    <2>2. ASSUME NEW u \in Writers, NEW v \in Writers, At(u, "append")', At(v, "append")',
                 writer'[u].rec.id = writer'[v].rec.id
          PROVE  u = v
      <3>1. CASE u = w /\ v # w
        BY <1>1, <1>4, <1>6, <2>2, <3>1 DEF At
      <3>2. CASE u # w /\ v = w
        BY <1>1, <1>4, <1>6, <2>2, <3>2 DEF At
      <3>3. CASE u # w /\ v # w
        BY <1>4, <2>2, <3>3 DEF UniqueInv, InHand, At
      <3> QED
        BY <3>1, <3>2, <3>3
    <2> QED
      BY <2>1, <2>2 DEF InHand
  <1> QED
    BY <1>7, <1>8, <1>9 DEF UniqueInv

LEMMA RotationKeepsUnique ==
    ASSUME TypeInv, UniqueInv, NEW w \in Writers, Rotation(w)
    PROVE  UniqueInv'
  <1>1. CASE StatExists(w)
    <2> DEFINE s == Writer(IF files[0] = <<>> THEN "resume" ELSE "unlink", 0, {}, NoRec)
    <2>1. Becomes(w, s) /\ UNCHANGED <<files, nextId>>
      BY <1>1 DEF StatExists
    <2>2. s \in WriterState /\ s.pc # "append"
      BY States, Constants
    <2> HIDE DEF s
    <2> QED
      BY <2>1, <2>2, Releases, SameFiles
  <1>2. CASE Unlink(w)
    <2> DEFINE s == Writer("shift", KeepFiles, {}, NoRec)
               m == [i \in Slots |-> i]
    <2>1. Becomes(w, s) /\ files' = [files EXCEPT ![KeepFiles] = <<>>] /\ UNCHANGED nextId
      BY <1>2 DEF Unlink
    <2>2. s \in WriterState /\ s.pc # "append"
      BY States, Constants
    <2> HIDE DEF s
    <2>3. HashesIn(<<>>) = {}
      BY DEF HashesIn
    <2>4. \A i \in Slots : files'[i] = files[i] \/ files'[i] = <<>>
      BY <2>1, Constants DEF TypeInv
    <2>5. Moved(m)
      BY <2>3, <2>4 DEF Moved
    <2> HIDE DEF m
    <2> QED
      BY <2>1, <2>2, <2>5, Releases, MovedFiles
  <1>3. CASE Shift(w)
    <2> DEFINE j == writer[w].slot
               s == Writer("shift", j - 1, {}, NoRec)
    <2>1. Becomes(w, s) /\ files' = Renamed(j - 1, j) /\ j > 0 /\ UNCHANGED nextId
      BY <1>3 DEF Shift
    <2>2. j \in Slots /\ j - 1 \in Slots /\ j - 1 # j
      BY <2>1, Constants DEF TypeInv, WriterState, Slots
    <2>3. s \in WriterState /\ s.pc # "append"
      BY <2>2, States, Constants
    <2> HIDE DEF s, j
    <2>4. HashesIn(<<>>) = {}
      BY DEF HashesIn
    <2>5. Released
      BY <2>1, <2>3, Releases
    <2>6. CASE files[j - 1] = <<>>
      BY <2>1, <2>5, <2>6, SameFiles DEF Renamed
    <2>7. CASE files[j - 1] # <<>>
      <3> DEFINE m == [i \in Slots |-> IF i = j THEN j - 1 ELSE IF i = j - 1 THEN j ELSE i]
      <3>1. \A i \in Slots : files'[i] = IF i = j THEN files[j - 1] ELSE IF i = j - 1 THEN <<>> ELSE files[i]
        BY <2>1, <2>7 DEF Renamed
      <3>2. m \in [Slots -> Slots]
        BY <2>2
      <3>3. \A i \in Slots : HashesIn(files'[i]) # {} => files'[i] = files[m[i]] /\ i # j - 1
        BY <2>2, <2>4, <3>1
      <3>4. \A i, k \in Slots : i # j - 1 /\ k # j - 1 /\ m[i] = m[k] => i = k
        BY <2>2
      <3> HIDE DEF m
      <3>5. Moved(m)
        BY <3>2, <3>3, <3>4 DEF Moved
      <3> QED
        BY <2>1, <2>5, <3>5, MovedFiles
    <2> QED
      BY <2>6, <2>7
  <1>4. CASE Rotated(w)
    <2> DEFINE s == Writer("list", 0, {}, NoRec)
    <2>1. Becomes(w, s) /\ UNCHANGED <<files, nextId>>
      BY <1>4 DEF Rotated
    <2>2. s \in WriterState /\ s.pc # "append"
      BY States, Constants
    <2> HIDE DEF s
    <2> QED
      BY <2>1, <2>2, Releases, SameFiles
  <1> QED
    BY <1>1, <1>2, <1>3, <1>4 DEF Rotation

LEMMA RecoveryKeepsUnique ==
    ASSUME TypeInv, TypeInv', UniqueInv, NEW w \in Writers, Recovery(w)
    PROVE  UniqueInv'
  <1>1. CASE List(w)
    <2>1. Writer("scan", 0, Present, NoRec) \in WriterState /\ Writer("scan", 0, Present, NoRec).pc # "append"
      BY States, Constants DEF Present
    <2> QED
      BY <1>1, <2>1, Releases, SameFiles DEF List
  <1>2. CASE Scan(w)
    <2>1. PICK i \in writer[w].todo :
              Becomes(w, IF HashesIn(files[i]) # {}
                         THEN Writer("loaded", 0, {}, Rec(0, TailHash(files[i])))
                         ELSE Writer("scan", 0, writer[w].todo \ {i}, NoRec))
      BY <1>2 DEF Scan
    <2>2. writer[w].todo \in SUBSET Slots /\ files[i] \in Seq(Line)
      BY <2>1 DEF TypeInv, WriterState
    <2>3. PICK s \in WriterState : Becomes(w, s) /\ s.pc # "append"
      <3>1. CASE HashesIn(files[i]) # {}
        <4>1. TailHash(files[i]) \in 0..MaxRecords
          BY <2>2, <3>1, TailType
        <4> DEFINE t == Writer("loaded", 0, {}, Rec(0, TailHash(files[i])))
        <4>2. t \in WriterState /\ t.pc # "append"
          BY <4>1, States, Constants
        <4>3. Becomes(w, t)
          BY <2>1, <3>1
        <4> HIDE DEF t
        <4> QED
          BY <4>2, <4>3
      <3>2. CASE HashesIn(files[i]) = {}
        <4> DEFINE t == Writer("scan", 0, writer[w].todo \ {i}, NoRec)
        <4>1. t \in WriterState /\ t.pc # "append"
          BY <2>2, States, Constants
        <4>2. Becomes(w, t)
          BY <2>1, <3>2
        <4> HIDE DEF t
        <4> QED
          BY <4>1, <4>2
      <3> QED
        BY <3>1, <3>2
    <2> QED
      BY <1>2, <2>3, Releases, SameFiles DEF Scan
  <1>3. CASE ScanEnds(w)
    <2>1. Writer("loaded", 0, {}, NoRec) \in WriterState /\ Writer("loaded", 0, {}, NoRec).pc # "append"
      BY States, Constants
    <2> QED
      BY <1>3, <2>1, Releases, SameFiles DEF ScanEnds
  <1>4. CASE Loaded(w)
    <2>1. writer[w].rec.prev \in 0..MaxRecords
      BY DEF TypeInv, WriterState, Record
    <2>2. Build(w, writer[w].rec.prev) /\ UNCHANGED files
      BY <1>4 DEF Loaded
    <2> QED
      BY <2>1, <2>2, BuildIsFresh
  <1> QED
    BY <1>1, <1>2, <1>3, <1>4 DEF Recovery

\* What an append leaves of the lines that were there, and the one it adds.
LEMMA ExtendedHashes ==
    ASSUME NEW lines \in Seq(Line), NEW l \in Line
    PROVE  \A a \in HashesIn(Extended(lines, l)) :
             \/ a \in HashesIn(lines) /\ Extended(lines, l)[a] = lines[a]
             \/ a = Len(lines) + 1 /\ l \in Record /\ Extended(lines, l)[a] = l
  <1>1. Glued(l) \notin Record
    BY LinesAssumption DEF Glued
  <1>2. TAKE a \in HashesIn(Extended(lines, l))
  <1>3. a \in DOMAIN Extended(lines, l) /\ Extended(lines, l)[a] \in Record
    BY <1>2 DEF HashesIn
  <1>4. CASE lines # <<>> /\ lines[Len(lines)] = Open
    <2>1. Extended(lines, l) = [lines EXCEPT ![Len(lines)] = Glued(l)]
      BY <1>4 DEF Extended
    <2> HIDE DEF Line
    <2>2. a \in DOMAIN lines /\ a # Len(lines)
      BY <1>1, <1>3, <2>1
    <2> QED
      BY <1>3, <2>1, <2>2 DEF HashesIn
  <1>5. CASE ~(lines # <<>> /\ lines[Len(lines)] = Open)
    <2>1. Extended(lines, l) = Append(lines, l)
      BY <1>5 DEF Extended
    <2> HIDE DEF Line
    <2>2. /\ DOMAIN Append(lines, l) = 1..(Len(lines) + 1) /\ Len(lines) \in Nat
          /\ DOMAIN lines = 1..Len(lines)
          /\ Append(lines, l)[Len(lines) + 1] = l
          /\ \A k \in 1..Len(lines) : Append(lines, l)[k] = lines[k]
      OBVIOUS
    <2>3. CASE a = Len(lines) + 1
      BY <1>3, <2>1, <2>2, <2>3
    <2>4. CASE a # Len(lines) + 1
      <3>1. a \in 1..Len(lines)
        BY <1>3, <2>1, <2>2, <2>4
      <3> QED
        BY <1>3, <2>1, <2>2, <3>1 DEF HashesIn
    <2> QED
      BY <2>3, <2>4
  <1> QED
    BY <1>4, <1>5

LEMMA AppendKeepsUnique ==
    ASSUME TypeInv, UniqueInv, NEW w \in Writers, AppendLine(w) \/ TearLine(w)
    PROVE  UniqueInv'
  <1> DEFINE r == writer[w].rec
  <1>1. /\ At(w, "append") /\ UNCHANGED nextId /\ r \in Record
        /\ files[0] \in Seq(Line) /\ 0 \in Slots
    BY Constants DEF AppendLine, TearLine, TypeInv, WriterState
  <1>2. PICK s \in WriterState : Becomes(w, s) /\ s.pc \in {"idle", "appended"}
    <2>1. /\ Idle \in WriterState /\ Idle.pc = "idle"
          /\ Writer("appended", 0, {}, r) \in WriterState
          /\ Writer("appended", 0, {}, r).pc = "appended"
      BY <1>1, States, Constants DEF Idle
    <2> QED
      BY <2>1 DEF AppendLine, TearLine
  <1>3. Released /\ ~At(w, "append")'
    BY <1>2, Become, Releases DEF At
  <1>4. PICK l \in Line : files' = [files EXCEPT ![0] = Extended(files[0], l)] /\ l \in {r, Open}
    BY <1>1, Constants DEF AppendLine, TearLine
  <1> HIDE DEF r
  <1>5. files'[0] = Extended(files[0], l) /\ (\A i \in Slots \ {0} : files'[i] = files[i])
    BY <1>1, <1>4 DEF TypeInv
  <1> DEFINE n == Len(files[0]) + 1
             New(i, a) == i = 0 /\ a = n /\ files'[i][a] = r
  <1>6. \A i \in Slots : \A a \in HashesIn(files'[i]) :
          (a \in HashesIn(files[i]) /\ files'[i][a] = files[i][a]) \/ New(i, a)
    <2>1. TAKE i \in Slots
    <2>2. TAKE a \in HashesIn(files'[i])
    <2>3. CASE i = 0
      <3>1. \/ a \in HashesIn(files[0]) /\ files'[0][a] = files[0][a]
            \/ a = n /\ l \in Record /\ files'[0][a] = l
        BY <1>1, <1>5, <2>2, <2>3, ExtendedHashes
      <3>2. l \in Record => l = r
        BY <1>4, LinesAssumption
      <3> QED
        BY <2>3, <3>1, <3>2
    <2>4. CASE i # 0
      BY <1>5, <2>2, <2>4
    <2> QED
      BY <2>3, <2>4
  <1> HIDE DEF n
  <1>7. /\ r.id < nextId
        /\ \A i \in Slots : \A a \in HashesIn(files[i]) : files[i][a].id # r.id
    BY <1>1 DEF UniqueInv, Given, InHand, r
  <1>8. Given'
    <2>1. \A i \in Slots : \A a \in HashesIn(files'[i]) : files'[i][a].id < nextId'
      BY <1>1, <1>6, <1>7 DEF UniqueInv, Given
    <2> QED
      BY <1>1, <1>3, <2>1 DEF UniqueInv, Given, Released
  <1>9. RecordsAreUnique'
    <2>1. SUFFICES ASSUME NEW i \in Slots, NEW j \in Slots,
                          NEW a \in HashesIn(files'[i]), NEW b \in HashesIn(files'[j]),
                          files'[i][a].id = files'[j][b].id
                   PROVE  i = j /\ a = b
      BY DEF RecordsAreUnique, HashesIn
    <2>2. CASE New(i, a) /\ New(j, b)
      BY <2>2
    <2>3. CASE ~New(i, a) /\ New(j, b)
      BY <1>6, <1>7, <2>1, <2>3
    <2>4. CASE New(i, a) /\ ~New(j, b)
      BY <1>6, <1>7, <2>1, <2>4
    <2>5. CASE ~New(i, a) /\ ~New(j, b)
      BY <1>6, <2>1, <2>5 DEF UniqueInv, RecordsAreUnique
    <2> QED
      BY <2>2, <2>3, <2>4, <2>5
  <1>10. InHand'
    <2>1. ASSUME NEW v \in Writers, At(v, "append")', NEW i \in Slots, NEW a \in HashesIn(files'[i])
          PROVE  files'[i][a].id # writer'[v].rec.id
      <3>1. At(v, "append") /\ writer'[v].rec = writer[v].rec /\ v # w
        BY <1>3, <2>1 DEF Released
      <3>2. writer[v].rec.id # r.id
        BY <1>1, <3>1 DEF UniqueInv, InHand, r
      <3>3. CASE New(i, a)
        BY <3>1, <3>2, <3>3
      <3>4. CASE ~New(i, a)
        BY <1>6, <2>1, <3>1, <3>4 DEF UniqueInv, InHand
      <3> QED
        BY <3>3, <3>4
    <2>2. \A u, v \in Writers :
            At(u, "append")' /\ At(v, "append")' /\ writer'[u].rec.id = writer'[v].rec.id => u = v
      BY <1>3 DEF Released, UniqueInv, InHand
    <2> QED
      BY <2>1, <2>2 DEF InHand
  <1> QED
    BY <1>8, <1>9, <1>10 DEF UniqueInv

LEMMA OtherStepsKeepUnique ==
    ASSUME TypeInv, TypeInv', UniqueInv, NEW w \in Writers, StatSize(w) \/ Resume(w) \/ Finish(w)
    PROVE  UniqueInv'
  <1>1. CASE StatSize(w)
    <2> DEFINE s == Writer(IF Full THEN "rotate" ELSE "resume", 0, {}, NoRec)
    <2>1. s \in WriterState /\ s.pc # "append"
      BY States, Constants
    <2>2. Becomes(w, s) /\ UNCHANGED <<files, nextId>>
      BY <1>1 DEF StatSize
    <2> HIDE DEF s
    <2> QED
      BY <2>1, <2>2, Releases, SameFiles
  <1>2. CASE Resume(w)
    <2>1. UNCHANGED files /\ lastHash \in 0..MaxRecords
      BY <1>2 DEF Resume, TypeInv
    <2>2. CASE Build(w, lastHash)
      BY <2>1, <2>2, BuildIsFresh
    <2>3. CASE Becomes(w, Writer("list", 0, {}, NoRec)) /\ UNCHANGED nextId
      <3>1. Writer("list", 0, {}, NoRec) \in WriterState /\ Writer("list", 0, {}, NoRec).pc # "append"
        BY States, Constants
      <3> QED
        BY <2>1, <2>3, <3>1, Releases, SameFiles
    <2> QED
      BY <1>2, <2>2, <2>3 DEF Resume
  <1>3. CASE Finish(w)
    <2>1. Idle \in WriterState /\ Idle.pc # "append"
      BY States DEF Idle
    <2> QED
      BY <1>3, <2>1, Releases, SameFiles DEF Finish
  <1> QED
    BY <1>1, <1>2, <1>3

LEMMA UniqueStarts == Init => UniqueInv
  <1>1. ASSUME Init PROVE UniqueInv
    <2>1. \A i \in Slots : HashesIn(files[i]) = {}
      BY <1>1 DEF Init, HashesIn
    <2>2. \A w \in Writers : ~At(w, "append")
      BY <1>1, States DEF Init, At, Idle
    <2> QED
      BY <2>1, <2>2 DEF UniqueInv, Given, RecordsAreUnique, InHand
  <1> QED
    BY <1>1

LEMMA UniqueSteps == TypeInv /\ TypeInv' /\ UniqueInv /\ [Next]_vars => UniqueInv'
  <1>1. SUFFICES ASSUME TypeInv, TypeInv', UniqueInv, [Next]_vars PROVE UniqueInv'
    OBVIOUS
  <1>2. CASE Restart
    <2>1. writer' = [w \in Writers |-> Idle] /\ UNCHANGED <<files, nextId>> /\ Idle.pc = "idle"
      BY <1>2, States DEF Restart, Idle
    <2>2. Released
      BY <2>1 DEF Released, At
    <2> QED
      BY <1>1, <2>1, <2>2, SameFiles
  <1>3. CASE UNCHANGED vars
    <2>1. UNCHANGED <<files, nextId>> /\ Released
      BY <1>3 DEF vars, Released, At
    <2> QED
      BY <1>1, <2>1, SameFiles
  <1>4. ASSUME NEW w \in Writers, Rotation(w) \/ Recovery(w) \/ Appending(w) PROVE UniqueInv'
    BY <1>1, <1>4, RotationKeepsUnique, RecoveryKeepsUnique, AppendKeepsUnique, OtherStepsKeepUnique
    DEF Appending
  <1> QED
    BY <1>1, <1>2, <1>3, <1>4 DEF Next

\* However rotations, recoveries, appends and torn lines of concurrent writes
\* interleave, and wherever the process dies, no record is in the trail twice.
THEOREM LogRecordsAreUnique == Spec => []RecordsAreUnique
  <1>1. Spec => []TypeInv
    BY Invariant, PTL
  <1>2. UniqueInv => RecordsAreUnique
    BY DEF UniqueInv
  <1> QED
    BY <1>1, <1>2, UniqueStarts, UniqueSteps, PTL DEF Spec

-----------------------------------------------------------------------------
(* One write at a time.  Two writes overlap only where a StatSize has seen *)
(* another one at work.                                                    *)

Alone    == \A v, w \in Writers : ~At(v, "idle") /\ ~At(w, "idle") => v = w
AloneInv == Undisturbed({"race"}) => Alone

\* The history only grows.
LEMMA StillUndisturbed ==
    ASSUME [Next]_vars, NEW by, Undisturbed(by)'
    PROVE  Undisturbed(by)
  <1>1. disturbed \subseteq disturbed'
    <2>1. CASE UNCHANGED vars
      BY <2>1 DEF vars
    <2>2. CASE Restart
      BY <2>2 DEF Restart
    <2>3. ASSUME NEW w \in Writers, Rotation(w) \/ Recovery(w) \/ Appending(w)
          PROVE  disturbed \subseteq disturbed'
      BY <2>3 DEF Rotation, StatExists, Unlink, Shift, Rotated, Recovery, List, Scan, ScanEnds, Loaded,
                  Appending, StatSize, Resume, AppendLine, TearLine, Finish
    <2> QED
      BY <2>1, <2>2, <2>3 DEF Next
  <1> QED
    BY <1>1 DEF Undisturbed

\* Nobody else is at work when a write takes a step that nobody calls a race.
LEMMA StepsAlone ==
    ASSUME AloneInv, NEW w \in Writers, Rotation(w) \/ Recovery(w) \/ Appending(w),
           Undisturbed({"race"})'
    PROVE  \A v \in Writers \ {w} : At(v, "idle")
  <1>1. CASE StatSize(w)
    BY <1>1 DEF StatSize, Undisturbed
  <1>2. CASE ~StatSize(w)
    <2>1. ~At(w, "idle")
      BY <1>2 DEF Rotation, StatExists, Unlink, Shift, Rotated, Recovery, List, Scan, ScanEnds,
                  Loaded, Appending, Resume, AppendLine, TearLine, Finish, At
    <2>2. Next
      BY DEF Next
    <2>3. Alone
      BY <2>2, StillUndisturbed DEF AloneInv
    <2> QED
      BY <2>1, <2>3 DEF Alone, At
  <1> QED
    BY <1>1, <1>2

LEMMA Becoming ==
    ASSUME NEW w \in Writers, Rotation(w) \/ Recovery(w) \/ Appending(w)
    PROVE  \E s : Becomes(w, s)
  BY DEF Rotation, StatExists, Unlink, Shift, Rotated, Recovery, List, Scan, ScanEnds, Loaded,
         Appending, StatSize, Resume, AppendLine, TearLine, Finish, Build

LEMMA AloneSteps == TypeInv /\ AloneInv /\ [Next]_vars => AloneInv'
  <1> SUFFICES ASSUME TypeInv, AloneInv, [Next]_vars, Undisturbed({"race"})' PROVE Alone'
    BY DEF AloneInv
  <1>1. CASE UNCHANGED vars
    BY <1>1 DEF vars, AloneInv, Undisturbed, Alone, At
  <1>2. CASE Restart
    BY <1>2, States DEF Restart, Alone, At, Idle
  <1>3. ASSUME NEW w \in Writers, Rotation(w) \/ Recovery(w) \/ Appending(w) PROVE Alone'
    <2>1. PICK s : Becomes(w, s)
      BY <1>3, Becoming
    <2>2. \A v \in Writers \ {w} : writer'[v] = writer[v]
      BY <2>1 DEF Becomes, TypeInv
    <2>3. \A v \in Writers \ {w} : At(v, "idle")
      BY <1>3, StepsAlone
    <2> QED
      BY <2>2, <2>3 DEF Alone, At
  <1> QED
    BY <1>1, <1>2, <1>3 DEF Next

LEMMA AloneStarts == Init => AloneInv
  BY States DEF Init, AloneInv, Alone, At, Idle

-----------------------------------------------------------------------------
(* A chain over the files.  Every operator here takes the files as its     *)
(* argument: the lemmas say what a rotation and an append make of them.    *)

AllFiles == [Slots -> Seq(Line)]

\* No line is torn.
Whole(f) == \A i \in Slots : \A a \in DOMAIN f[i] : f[i][a] \in Record
Newest(f, i) == f[i] # <<>> /\ \A j \in Slots : j < i => f[j] = <<>>
Last(f, i)   == f[i][Len(f[i])].id
\* h is the hash of the newest record, if there is one.
EndsIn(f, h) == \A i \in Slots : Newest(f, i) => Last(f, i) = h
Follows(f, i, j) ==
    /\ j < i /\ f[i] # <<>> /\ f[j] # <<>>
    /\ \A k \in Slots : j < k /\ k < i => f[k] = <<>>
Chained(f) ==
    /\ \A i \in Slots : Linked(f[i])
    /\ \A i, j \in Slots : Follows(f, i, j) => f[j][1].prev = Last(f, i)

\* Dropping the oldest file.
LEMMA DroppedChain ==
    ASSUME NEW f \in AllFiles, NEW g, g = [f EXCEPT ![KeepFiles] = <<>>]
    PROVE  /\ g \in AllFiles /\ g[KeepFiles] = <<>>
           /\ Whole(f) => Whole(g)
           /\ Chained(f) => Chained(g)
           /\ \A h : EndsIn(f, h) => EndsIn(g, h)
  <1>1. /\ g \in AllFiles /\ g[KeepFiles] = <<>>
        /\ \A i \in Slots \ {KeepFiles} : g[i] = f[i]
    <2>1. <<>> \in Seq(Line)
      OBVIOUS
    <2> QED
      BY <2>1, Constants DEF AllFiles
  <1>2. Whole(f) => Whole(g)
    BY <1>1 DEF Whole
  <1>3. ASSUME NEW i \in Slots, NEW j \in Slots, Follows(g, i, j)
        PROVE  Follows(f, i, j) /\ i # KeepFiles /\ j # KeepFiles
    <2>1. i # KeepFiles /\ j # KeepFiles /\ i \in 0..KeepFiles /\ KeepFiles \in Nat
      BY <1>1, <1>3, Constants DEF Follows, Slots
    <2>2. \A k \in Slots : k < i => k # KeepFiles
      BY <2>1 DEF Slots
    <2> QED
      BY <1>1, <1>3, <2>1, <2>2 DEF Follows
  <1>4. ASSUME Chained(f) PROVE Chained(g)
    <2>1. ASSUME NEW i \in Slots PROVE Linked(g[i])
      <3>1. Linked(<<>>)
        BY DEF Linked
      <3> QED
        BY <1>1, <1>4, <3>1 DEF Chained
    <2>2. ASSUME NEW i \in Slots, NEW j \in Slots, Follows(g, i, j) PROVE g[j][1].prev = Last(g, i)
      <3>1. Follows(f, i, j) /\ g[i] = f[i] /\ g[j] = f[j]
        BY <1>1, <1>3, <2>2
      <3>2. f[j][1].prev = Last(f, i)
        BY <1>4, <3>1 DEF Chained
      <3> QED
        BY <3>1, <3>2 DEF Last
    <2> QED
      BY <2>1, <2>2 DEF Chained
  <1>5. ASSUME NEW i \in Slots, Newest(g, i) PROVE Newest(f, i) /\ i # KeepFiles
    <2>1. i # KeepFiles /\ i \in 0..KeepFiles /\ KeepFiles \in Nat
      BY <1>1, <1>5, Constants DEF Newest, Slots
    <2>2. \A k \in Slots : k < i => k # KeepFiles
      BY <2>1 DEF Slots
    <2> QED
      BY <1>1, <1>5, <2>1, <2>2 DEF Newest
  <1>6. \A h : EndsIn(f, h) => EndsIn(g, h)
    BY <1>1, <1>5 DEF EndsIn, Last
  <1> QED
    BY <1>1, <1>2, <1>4, <1>6

\* Moving a file into the empty slot above it.
LEMMA ShiftedChain ==
    ASSUME NEW f \in AllFiles, NEW n \in Slots, n > 0, f[n] = <<>>, NEW g,
           g = [k \in Slots |-> IF k = n THEN f[n - 1] ELSE IF k = n - 1 THEN <<>> ELSE f[k]]
    PROVE  /\ g \in AllFiles /\ g[n - 1] = <<>>
           /\ Whole(f) => Whole(g)
           /\ Chained(f) => Chained(g)
           /\ \A h : EndsIn(f, h) => EndsIn(g, h)
  <1>1. n \in Nat /\ n - 1 \in Slots /\ n - 1 # n /\ Slots \subseteq Nat
    BY Constants DEF Slots
  <1>2. /\ g \in AllFiles /\ g[n - 1] = <<>> /\ g[n] = f[n - 1]
        /\ \A i \in Slots \ {n, n - 1} : g[i] = f[i]
    <2>1. <<>> \in Seq(Line)
      OBVIOUS
    <2> QED
      BY <1>1, <2>1 DEF AllFiles
  <1> DEFINE From(i) == IF i = n THEN n - 1 ELSE i
  <1>3. ASSUME NEW i \in Slots, g[i] # <<>>
        PROVE  From(i) \in Slots /\ g[i] = f[From(i)] /\ i # n - 1
    BY <1>1, <1>2, <1>3
  <1>4. Whole(f) => Whole(g)
    BY <1>1, <1>2 DEF Whole
  <1>5. ASSUME NEW i \in Slots, NEW j \in Slots, Follows(g, i, j)
        PROVE  Follows(f, From(i), From(j))
    <2>1. g[i] # <<>> /\ g[j] # <<>> /\ j < i /\ \A k \in Slots : j < k /\ k < i => g[k] = <<>>
      BY <1>5 DEF Follows
    <2>2. i # n - 1 /\ j # n - 1 /\ From(j) < From(i)
      BY <1>1, <1>3, <2>1
    <2>3. ASSUME NEW k \in Slots, From(j) < k, k < From(i) PROVE f[k] = <<>>
      <3>1. CASE k = n
        BY <3>1
      <3>2. CASE k = n - 1
        <4>1. j < n /\ n < i
          BY <1>1, <2>2, <2>3, <3>2
        <4> QED
          BY <1>2, <2>1, <3>2, <4>1
      <3>3. CASE k # n /\ k # n - 1
        <4>1. j < k /\ k < i
          BY <1>1, <2>3, <3>3
        <4> QED
          BY <1>2, <2>1, <3>3, <4>1
      <3> QED
        BY <3>1, <3>2, <3>3
    <2>4. f[From(i)] # <<>> /\ f[From(j)] # <<>>
      BY <1>3, <2>1
    <2> HIDE DEF From
    <2> QED
      BY <2>2, <2>3, <2>4 DEF Follows
  <1>6. ASSUME Chained(f) PROVE Chained(g)
    <2>1. ASSUME NEW i \in Slots PROVE Linked(g[i])
      <3>1. Linked(<<>>)
        BY DEF Linked
      <3> QED
        BY <1>1, <1>2, <1>6, <3>1 DEF Chained
    <2>2. ASSUME NEW i \in Slots, NEW j \in Slots, Follows(g, i, j) PROVE g[j][1].prev = Last(g, i)
      <3>1. g[i] # <<>> /\ g[j] # <<>>
        BY <2>2 DEF Follows
      <3>2. From(i) \in Slots /\ From(j) \in Slots /\ g[i] = f[From(i)] /\ g[j] = f[From(j)]
        BY <1>3, <3>1
      <3>3. f[From(j)][1].prev = Last(f, From(i))
        BY <1>5, <1>6, <2>2, <3>2 DEF Chained
      <3> HIDE DEF From
      <3> QED
        BY <3>2, <3>3 DEF Last
    <2> QED
      BY <2>1, <2>2 DEF Chained
  <1>7. ASSUME NEW i \in Slots, Newest(g, i) PROVE From(i) \in Slots /\ Newest(f, From(i)) /\ g[i] = f[From(i)]
    <2>1. g[i] # <<>> /\ \A k \in Slots : k < i => g[k] = <<>>
      BY <1>7 DEF Newest
    <2>2. i # n - 1 /\ From(i) \in Slots /\ g[i] = f[From(i)]
      BY <1>3, <2>1
    <2>3. ASSUME NEW k \in Slots, k < From(i) PROVE f[k] = <<>>
      <3>1. CASE k = n
        BY <3>1
      <3>2. CASE k = n - 1
        <4>1. n < i
          BY <1>1, <2>2, <2>3, <3>2
        <4> QED
          BY <1>2, <2>1, <3>2, <4>1
      <3>3. CASE k # n /\ k # n - 1
        <4>1. k < i
          BY <1>1, <2>3, <3>3
        <4> QED
          BY <1>2, <2>1, <3>3, <4>1
      <3> QED
        BY <3>1, <3>2, <3>3
    <2> HIDE DEF From
    <2> QED
      BY <2>1, <2>2, <2>3 DEF Newest
  <1>8. ASSUME NEW h, EndsIn(f, h) PROVE EndsIn(g, h)
    <2> SUFFICES ASSUME NEW i \in Slots, Newest(g, i) PROVE Last(g, i) = h
      BY DEF EndsIn
    <2>1. From(i) \in Slots /\ Newest(f, From(i)) /\ g[i] = f[From(i)]
      BY <1>7
    <2> HIDE DEF From
    <2> QED
      BY <1>8, <2>1 DEF EndsIn, Last
  <1> QED
    BY <1>2, <1>4, <1>6, <1>8

\* One more record at the end, that commits to the newest one.
LEMMA AppendedChain ==
    ASSUME NEW f \in AllFiles, Whole(f), Chained(f), NEW r \in Record, EndsIn(f, r.prev),
           NEW g, g = [f EXCEPT ![0] = Extended(f[0], r)]
    PROVE  g \in AllFiles /\ Whole(g) /\ Chained(g) /\ EndsIn(g, r.id)
  <1>1. 0 \in Slots /\ f[0] \in Seq(Line) /\ r \in Line /\ Slots \subseteq Nat
    BY Constants DEF AllFiles, Slots
  <1>2. Extended(f[0], r) = Append(f[0], r)
    <2>1. f[0] # <<>> => Len(f[0]) \in DOMAIN f[0]
      BY <1>1
    <2> QED
      BY <1>1, <2>1, LinesAssumption DEF Extended, Whole
  <1> DEFINE n == Len(f[0])
  <1> HIDE DEF Line
  <1>3. /\ g[0] = Append(f[0], r) /\ n \in Nat /\ Len(g[0]) = n + 1 /\ g[0] # <<>> /\ DOMAIN g[0] = 1..(n + 1)
        /\ g[0] \in Seq(Line) /\ g[0][n + 1] = r /\ DOMAIN f[0] = 1..n
        /\ \A a \in 1..n : g[0][a] = f[0][a]
    <2>1. g[0] = Append(f[0], r)
      BY <1>1, <1>2 DEF AllFiles
    <2>2. n \in Nat /\ DOMAIN f[0] = 1..n
      BY <1>1
    <2>3. ASSUME NEW a \in 1..n PROVE g[0][a] = f[0][a]
      BY <1>1, <2>1, <2>2
    <2> QED
      BY <1>1, <2>1, <2>2, <2>3
  <1>4. g \in AllFiles /\ \A i \in Slots \ {0} : g[i] = f[i]
    BY <1>1, <1>3 DEF AllFiles
  <1>5. Last(g, 0) = r.id
    BY <1>3 DEF Last
  <1>6. Whole(g)
    <2>1. \A a \in DOMAIN g[0] : a \in DOMAIN f[0] \/ a = n + 1
      BY <1>3
    <2> QED
      BY <1>1, <1>3, <1>4, <2>1 DEF Whole
  <1>7. n > 0 => Last(f, 0) = r.prev
    <2>1. n > 0 => Newest(f, 0)
      BY <1>1, <1>3 DEF Newest
    <2> QED
      BY <1>1, <2>1 DEF EndsIn
  <1>8. Linked(g[0])
    <2> SUFFICES ASSUME NEW a \in 1..n PROVE g[0][a + 1].prev = g[0][a].id
      BY <1>3 DEF Linked
    <2>1. CASE a = n
      BY <1>3, <1>7, <2>1 DEF Last
    <2>2. CASE a # n
      <3>1. a \in 1..(n - 1) /\ a + 1 \in 1..n
        BY <1>3, <2>2
      <3>2. Linked(f[0])
        BY <1>1 DEF Chained
      <3> QED
        BY <1>3, <3>1, <3>2 DEF Linked
    <2> QED
      BY <2>1, <2>2
  <1>9. ASSUME NEW i \in Slots, NEW j \in Slots, Follows(g, i, j) PROVE g[j][1].prev = Last(g, i)
    <2>1. j < i /\ i # 0 /\ g[i] = f[i] /\ f[i] # <<>>
      BY <1>1, <1>4, <1>9 DEF Follows
    <2>2. CASE f[j] # <<>>
      <3>1. Follows(f, i, j)
        BY <1>1, <1>4, <1>9, <2>1, <2>2 DEF Follows
      <3>2. f[j][1].prev = Last(f, i)
        BY <3>1 DEF Chained
      <3>3. g[j][1] = f[j][1]
        <4>1. CASE j = 0
          <5>1. n # 0
            BY <1>1, <2>2, <4>1
          <5>2. 1 \in 1..n
            BY <1>3, <5>1
          <5> QED
            BY <1>3, <4>1, <5>2
        <4>2. CASE j # 0
          BY <1>4, <4>2
        <4> QED
          BY <4>1, <4>2
      <3> QED
        BY <2>1, <3>2, <3>3 DEF Last
    <2>3. CASE f[j] = <<>>
      <3>1. j = 0 /\ n = 0
        BY <1>4, <1>9, <2>3 DEF Follows
      <3>2. Newest(f, i)
        BY <1>1, <1>4, <1>9, <2>1, <2>3, <3>1 DEF Follows, Newest
      <3>3. Last(f, i) = r.prev
        BY <3>2 DEF EndsIn
      <3> QED
        BY <1>3, <2>1, <3>1, <3>3 DEF Last
    <2> QED
      BY <2>2, <2>3
  <1>10. Chained(g)
    BY <1>4, <1>8, <1>9 DEF Chained
  <1>11. EndsIn(g, r.id)
    <2> SUFFICES ASSUME NEW i \in Slots, Newest(g, i) PROVE Last(g, i) = r.id
      BY DEF EndsIn
    <2>1. i = 0
      BY <1>1, <1>3 DEF Newest, Slots
    <2> QED
      BY <1>5, <2>1
  <1> QED
    BY <1>4, <1>6, <1>10, <1>11

\* The scan from the end of a file without torn lines finds its last record.
LEMMA TailIsLast ==
    ASSUME NEW f \in AllFiles, Whole(f), NEW i \in Slots, Newest(f, i)
    PROVE  HashesIn(f[i]) # {} /\ EndsIn(f, TailHash(f[i]))
  <1> DEFINE n == Len(f[i])
  <1>1. f[i] \in Seq(Line) /\ f[i] # <<>>
    BY DEF AllFiles, Newest
  <1> HIDE DEF Line
  <1>2. n \in Nat /\ n > 0 /\ DOMAIN f[i] = 1..n
    BY <1>1
  <1>3. HashesIn(f[i]) = 1..n
    BY <1>2 DEF HashesIn, Whole
  <1> DEFINE last == CHOOSE a \in HashesIn(f[i]) : \A b \in HashesIn(f[i]) : b <= a
  <1>4. n \in HashesIn(f[i]) /\ \A b \in HashesIn(f[i]) : b <= n
    BY <1>2, <1>3
  <1>5. last \in HashesIn(f[i]) /\ \A b \in HashesIn(f[i]) : b <= last
    BY <1>4
  <1>6. last = n
    BY <1>2, <1>3, <1>4, <1>5
  <1>7. TailHash(f[i]) = f[i][n].id
    BY <1>6 DEF TailHash
  <1>8. ASSUME NEW j \in Slots, Newest(f, j) PROVE j = i
    BY <1>8 DEF Newest, Slots
  <1> QED
    BY <1>3, <1>4, <1>7, <1>8 DEF EndsIn, Last

-----------------------------------------------------------------------------
(* The chain stays whole.  What a write knows of the files holds because   *)
(* no other write is under way; what it read or cached is the hash of the  *)
(* newest record that is there, in whatever slot a rotation has put it.    *)

CacheInv ==
    loaded /\ (\A w \in Writers : ~At(w, "appended")) => EndsIn(files, lastHash)
Knows(s, f, ld) ==
    /\ s.pc = "shift"    => f[s.slot] = <<>>
    /\ s.pc = "scan"     => s.todo = {i \in Slots : f[i] # <<>>}
    /\ s.pc = "loaded"   => EndsIn(f, s.rec.prev)
    /\ s.pc = "append"   => ld /\ EndsIn(f, s.rec.prev)
    /\ s.pc = "appended" => ld /\ EndsIn(f, s.rec.id)
ChainParts ==
    /\ Whole(files) /\ Chained(files) /\ CacheInv
    /\ \A w \in Writers : Knows(writer[w], files, loaded)
ChainInv == Undisturbed({"race", "torn"}) => ChainParts

LEMMA IdleKnows ==
    ASSUME NEW s, s.pc = "idle", NEW f, NEW ld
    PROVE  Knows(s, f, ld)
  BY DEF Knows

\* It is enough to look at the write that takes the step.
LEMMA ItKnows ==
    ASSUME TypeInv, NEW w \in Writers, NEW s, Becomes(w, s),
           \A v \in Writers \ {w} : At(v, "idle")
    PROVE  /\ writer'[w] = s
           /\ \A v \in Writers \ {w} : writer'[v] = writer[v] /\ writer'[v].pc = "idle"
           /\ Knows(s, files', loaded') => \A v \in Writers : Knows(writer'[v], files', loaded')
           /\ CacheInv' <=> (loaded' /\ s.pc # "appended" => EndsIn(files', lastHash'))
           /\ CacheInv <=> (loaded /\ ~At(w, "appended") => EndsIn(files, lastHash))
  <1>1. writer'[w] = s
    BY DEF Becomes, TypeInv
  <1>2. \A v \in Writers \ {w} : writer'[v] = writer[v] /\ writer'[v].pc = "idle"
    BY DEF Becomes, TypeInv, At
  <1>3. ASSUME Knows(s, files', loaded'), NEW v \in Writers PROVE Knows(writer'[v], files', loaded')
    <2>1. CASE v = w
      BY <1>1, <1>3, <2>1
    <2>2. CASE v # w
      BY <1>2, <2>2, IdleKnows
    <2> QED
      BY <2>1, <2>2
  <1>4. (\A v \in Writers : ~At(v, "appended"))' <=> s.pc # "appended"
    BY <1>1, <1>2 DEF At
  <1>5. (\A v \in Writers : ~At(v, "appended")) <=> ~At(w, "appended")
    BY DEF At
  <1>6. CacheInv' <=> (loaded' /\ s.pc # "appended" => EndsIn(files', lastHash'))
    BY <1>4 DEF CacheInv
  <1>7. CacheInv <=> (loaded /\ ~At(w, "appended") => EndsIn(files, lastHash))
    BY <1>5 DEF CacheInv
  <1> QED
    BY <1>1, <1>2, <1>3, <1>6, <1>7

\* A step that only looks.
LEMMA LookingKeepsChain ==
    ASSUME TypeInv, ChainParts, NEW w \in Writers, NEW s, Becomes(w, s),
           \A v \in Writers \ {w} : At(v, "idle"),
           UNCHANGED <<files, lastHash, loaded>>, ~At(w, "appended"), s.pc # "appended",
           Knows(s, files, loaded)
    PROVE  ChainParts'
  <1>1. CacheInv' /\ \A v \in Writers : Knows(writer'[v], files', loaded')
    BY ItKnows DEF ChainParts
  <1> QED
    BY <1>1 DEF ChainParts

\* Renaming a file into an empty slot, as the lemma on chains has it.
LEMMA RenamedInto ==
    ASSUME TypeInv, NEW n \in Slots, n > 0, files[n] = <<>>
    PROVE  Renamed(n - 1, n)
           = [k \in Slots |-> IF k = n THEN files[n - 1] ELSE IF k = n - 1 THEN <<>> ELSE files[k]]
  <1> DEFINE g == [k \in Slots |-> IF k = n THEN files[n - 1] ELSE IF k = n - 1 THEN <<>> ELSE files[k]]
  <1>1. CASE files[n - 1] = <<>>
    <2>1. \A k \in Slots : g[k] = files[k]
      BY <1>1
    <2>2. g = files
      BY <2>1 DEF TypeInv
    <2> QED
      BY <1>1, <2>2 DEF Renamed
  <1>2. CASE files[n - 1] # <<>>
    BY <1>2 DEF Renamed
  <1> QED
    BY <1>1, <1>2

LEMMA RotationKeepsChain ==
    ASSUME TypeInv, ChainParts, NEW w \in Writers, Rotation(w),
           \A v \in Writers \ {w} : At(v, "idle")
    PROVE  ChainParts'
  <1>0. files \in AllFiles
    BY DEF TypeInv, AllFiles
  <1>1. CASE StatExists(w)
    <2> DEFINE s == Writer(IF files[0] = <<>> THEN "resume" ELSE "unlink", 0, {}, NoRec)
    <2>1. s.pc \in {"resume", "unlink"}
      BY DEF Writer
    <2>2. Becomes(w, s) /\ At(w, "rotate") /\ UNCHANGED <<files, lastHash, loaded>>
      BY <1>1 DEF StatExists
    <2> HIDE DEF s
    <2>3. Knows(s, files, loaded)
      BY <2>1 DEF Knows
    <2> QED
      BY <2>1, <2>2, <2>3, LookingKeepsChain DEF At
  <1>2. CASE Unlink(w)
    <2> DEFINE s == Writer("shift", KeepFiles, {}, NoRec)
    <2>1. s.pc = "shift" /\ s.slot = KeepFiles
      BY DEF Writer
    <2>2. /\ Becomes(w, s) /\ At(w, "unlink") /\ UNCHANGED <<lastHash, loaded>>
          /\ files' = [files EXCEPT ![KeepFiles] = <<>>]
      BY <1>2 DEF Unlink
    <2> HIDE DEF s
    <2>3. /\ files'[KeepFiles] = <<>> /\ Whole(files') /\ Chained(files')
          /\ \A h : EndsIn(files, h) => EndsIn(files', h)
      BY <1>0, <2>2, DroppedChain DEF ChainParts
    <2>4. Knows(s, files', loaded')
      BY <2>1, <2>3 DEF Knows
    <2>5. CacheInv' /\ \A v \in Writers : Knows(writer'[v], files', loaded')
      BY <2>1, <2>2, <2>3, <2>4, ItKnows DEF ChainParts, At
    <2> QED
      BY <2>3, <2>5 DEF ChainParts
  <1>3. CASE Shift(w)
    <2> DEFINE n == writer[w].slot
               s == Writer("shift", n - 1, {}, NoRec)
    <2>1. s.pc = "shift" /\ s.slot = n - 1
      BY DEF Writer
    <2>2. /\ Becomes(w, s) /\ At(w, "shift") /\ UNCHANGED <<lastHash, loaded>>
          /\ n > 0 /\ files' = Renamed(n - 1, n)
      BY <1>3 DEF Shift
    <2>3. n \in Slots
      BY DEF TypeInv, WriterState
    <2>4. files[n] = <<>>
      BY <2>2 DEF ChainParts, Knows, At
    <2> HIDE DEF s, n
    <2>5. /\ files'[n - 1] = <<>> /\ Whole(files') /\ Chained(files')
          /\ \A h : EndsIn(files, h) => EndsIn(files', h)
      <3>1. files' = [k \in Slots |-> IF k = n THEN files[n - 1] ELSE IF k = n - 1 THEN <<>> ELSE files[k]]
        BY <2>2, <2>3, <2>4, RenamedInto
      <3>2. ChainParts /\ n > 0
        BY <2>2
      <3> QED
        BY <1>0, <2>3, <2>4, <3>1, <3>2, ShiftedChain DEF ChainParts
    <2>6. Knows(s, files', loaded')
      BY <2>1, <2>5 DEF Knows
    <2>7. CacheInv' /\ \A v \in Writers : Knows(writer'[v], files', loaded')
      BY <2>1, <2>2, <2>5, <2>6, ItKnows DEF ChainParts, At
    <2> QED
      BY <2>5, <2>7 DEF ChainParts
  <1>4. CASE Rotated(w)
    <2> DEFINE s == Writer("list", 0, {}, NoRec)
    <2>1. s.pc = "list"
      BY DEF Writer
    <2>2. Becomes(w, s) /\ files' = files /\ loaded' = FALSE
      BY <1>4 DEF Rotated
    <2> HIDE DEF s
    <2>3. Knows(s, files', loaded')
      BY <2>1 DEF Knows
    <2>4. CacheInv' /\ \A v \in Writers : Knows(writer'[v], files', loaded')
      BY <2>2, <2>3, ItKnows
    <2> QED
      BY <2>2, <2>4 DEF ChainParts
  <1> QED
    BY <1>1, <1>2, <1>3, <1>4 DEF Rotation

LEMMA RecoveryKeepsChain ==
    ASSUME TypeInv, ChainParts, NEW w \in Writers, Recovery(w),
           \A v \in Writers \ {w} : At(v, "idle")
    PROVE  ChainParts'
  <1>0. files \in AllFiles
    BY DEF TypeInv, AllFiles
  <1>1. CASE List(w)
    <2> DEFINE s == Writer("scan", 0, Present, NoRec)
    <2>1. s.pc = "scan" /\ s.todo = Present
      BY DEF Writer
    <2>2. Becomes(w, s) /\ At(w, "list") /\ UNCHANGED <<files, lastHash, loaded>>
      BY <1>1 DEF List
    <2> HIDE DEF s
    <2>3. Knows(s, files, loaded)
      BY <2>1 DEF Knows, Present
    <2> QED
      BY <2>1, <2>2, <2>3, LookingKeepsChain DEF At
  <1>2. CASE Scan(w)
    <2>1. writer[w].todo = {i \in Slots : files[i] # <<>>} /\ At(w, "scan")
      BY <1>2 DEF Scan, ChainParts, Knows, At
    <2>2. PICK i \in writer[w].todo :
             /\ \A j \in writer[w].todo : i <= j
             /\ Becomes(w, IF HashesIn(files[i]) # {}
                           THEN Writer("loaded", 0, {}, Rec(0, TailHash(files[i])))
                           ELSE Writer("scan", 0, writer[w].todo \ {i}, NoRec))
      BY <1>2 DEF Scan
    <2>3. i \in Slots /\ Newest(files, i)
      BY <2>1, <2>2, Constants DEF Newest, Slots
    <2>4. HashesIn(files[i]) # {} /\ EndsIn(files, TailHash(files[i]))
      BY <1>0, <2>3, TailIsLast DEF ChainParts
    <2> DEFINE s == Writer("loaded", 0, {}, Rec(0, TailHash(files[i])))
    <2>5. s.pc = "loaded" /\ s.rec.prev = TailHash(files[i])
      BY DEF Writer, Rec
    <2>6. Becomes(w, s) /\ UNCHANGED <<files, lastHash, loaded>>
      BY <1>2, <2>2, <2>4 DEF Scan
    <2> HIDE DEF s
    <2>7. Knows(s, files, loaded)
      BY <2>4, <2>5 DEF Knows
    <2> QED
      BY <2>1, <2>5, <2>6, <2>7, LookingKeepsChain DEF At
  <1>3. CASE ScanEnds(w)
    <2> DEFINE s == Writer("loaded", 0, {}, NoRec)
    <2>1. s.pc = "loaded"
      BY DEF Writer
    <2>2. Becomes(w, s) /\ At(w, "scan") /\ writer[w].todo = {} /\ UNCHANGED <<files, lastHash, loaded>>
      BY <1>3 DEF ScanEnds
    <2> HIDE DEF s
    <2>3. {i \in Slots : files[i] # <<>>} = {}
      BY <2>2 DEF ChainParts, Knows, At
    <2>4. EndsIn(files, s.rec.prev)
      BY <2>3 DEF EndsIn, Newest
    <2>5. Knows(s, files, loaded)
      BY <2>1, <2>4 DEF Knows
    <2> QED
      BY <2>1, <2>2, <2>5, LookingKeepsChain DEF At
  <1>4. CASE Loaded(w)
    <2> DEFINE h == writer[w].rec.prev
               s == Writer("append", 0, {}, Rec(nextId, h))
    <2>1. s.pc = "append" /\ s.rec.prev = h
      BY DEF Writer, Rec
    <2>2. Becomes(w, s) /\ files' = files /\ loaded' = TRUE /\ lastHash' = h
      BY <1>4 DEF Loaded, Build
    <2>3. EndsIn(files, h)
      BY <1>4 DEF Loaded, ChainParts, Knows, At
    <2> HIDE DEF s, h
    <2>4. Knows(s, files', loaded')
      BY <2>1, <2>2, <2>3 DEF Knows
    <2>5. CacheInv' /\ \A v \in Writers : Knows(writer'[v], files', loaded')
      BY <2>2, <2>3, <2>4, ItKnows
    <2> QED
      BY <2>2, <2>5 DEF ChainParts
  <1> QED
    BY <1>1, <1>2, <1>3, <1>4 DEF Recovery

LEMMA AppendingKeepsChain ==
    ASSUME TypeInv, ChainParts, NEW w \in Writers, Appending(w),
           Undisturbed({"race", "torn"})', \A v \in Writers \ {w} : At(v, "idle")
    PROVE  ChainParts'
  <1>0. files \in AllFiles
    BY DEF TypeInv, AllFiles
  <1>1. CASE StatSize(w)
    <2> DEFINE s == Writer(IF Full THEN "rotate" ELSE "resume", 0, {}, NoRec)
    <2>1. s.pc \in {"rotate", "resume"}
      BY DEF Writer
    <2>2. Becomes(w, s) /\ At(w, "idle") /\ UNCHANGED <<files, lastHash, loaded>>
      BY <1>1 DEF StatSize
    <2> HIDE DEF s
    <2>3. Knows(s, files, loaded)
      BY <2>1 DEF Knows
    <2> QED
      BY <2>1, <2>2, <2>3, LookingKeepsChain DEF At
  <1>2. CASE Resume(w)
    <2>1. At(w, "resume") /\ UNCHANGED <<files, lastHash, loaded>>
      BY <1>2 DEF Resume
    <2>2. CASE loaded /\ Build(w, lastHash)
      <3> DEFINE s == Writer("append", 0, {}, Rec(nextId, lastHash))
      <3>1. s.pc = "append" /\ s.rec.prev = lastHash
        BY DEF Writer, Rec
      <3>2. Becomes(w, s)
        BY <2>2 DEF Build
      <3> HIDE DEF s
      <3>3. EndsIn(files, lastHash)
        BY <2>1, <2>2, <3>2, ItKnows DEF ChainParts, At
      <3>4. Knows(s, files, loaded)
        BY <2>2, <3>1, <3>3 DEF Knows
      <3> QED
        BY <2>1, <3>1, <3>2, <3>4, LookingKeepsChain DEF At
    <2>3. CASE ~loaded /\ Becomes(w, Writer("list", 0, {}, NoRec))
      <3> DEFINE s == Writer("list", 0, {}, NoRec)
      <3>1. s.pc = "list"
        BY DEF Writer
      <3>2. Becomes(w, s)
        BY <2>3
      <3> HIDE DEF s
      <3>3. Knows(s, files, loaded)
        BY <3>1 DEF Knows
      <3> QED
        BY <2>1, <3>1, <3>2, <3>3, LookingKeepsChain DEF At
    <2> QED
      BY <1>2, <2>2, <2>3 DEF Resume
  <1>3. CASE AppendLine(w)
    <2> DEFINE r == writer[w].rec
               s == Writer("appended", 0, {}, r)
    <2>1. s.pc = "appended" /\ s.rec = r
      BY DEF Writer
    <2>2. Becomes(w, s) /\ UNCHANGED <<lastHash, loaded>> /\ files' = [files EXCEPT ![0] = Extended(files[0], r)]
      BY <1>3 DEF AppendLine
    <2>3. r \in Record
      BY DEF TypeInv, WriterState
    <2>4. loaded /\ EndsIn(files, r.prev)
      BY <1>3 DEF AppendLine, ChainParts, Knows, At
    <2> HIDE DEF s, r
    <2>5. Whole(files') /\ Chained(files') /\ EndsIn(files', r.id)
      BY <1>0, <2>2, <2>3, <2>4, AppendedChain DEF ChainParts
    <2>6. Knows(s, files', loaded')
      BY <2>1, <2>2, <2>4, <2>5 DEF Knows
    <2>7. CacheInv' /\ \A v \in Writers : Knows(writer'[v], files', loaded')
      BY <2>1, <2>2, <2>6, ItKnows
    <2> QED
      BY <2>5, <2>7 DEF ChainParts
  <1>4. CASE TearLine(w)
    BY <1>4 DEF TearLine, Undisturbed
  <1>5. CASE Finish(w)
    <2>1. Idle.pc = "idle"
      BY DEF Idle, Writer
    <2>2. Becomes(w, Idle) /\ UNCHANGED <<files, loaded>> /\ lastHash' = writer[w].rec.id
      BY <1>5 DEF Finish
    <2>3. EndsIn(files, writer[w].rec.id)
      BY <1>5 DEF Finish, ChainParts, Knows, At
    <2>4. Knows(Idle, files', loaded')
      BY <2>1, IdleKnows
    <2>5. CacheInv' /\ \A v \in Writers : Knows(writer'[v], files', loaded')
      BY <2>2, <2>3, <2>4, ItKnows
    <2> QED
      BY <2>2, <2>5 DEF ChainParts
  <1> QED
    BY <1>1, <1>2, <1>3, <1>4, <1>5 DEF Appending

LEMMA ChainSteps == TypeInv /\ AloneInv /\ ChainInv /\ [Next]_vars => ChainInv'
  <1> SUFFICES ASSUME TypeInv, AloneInv, ChainInv, [Next]_vars, Undisturbed({"race", "torn"})'
               PROVE  ChainParts'
    BY DEF ChainInv
  <1>1. ChainParts
    BY StillUndisturbed DEF ChainInv
  <1>2. CASE UNCHANGED vars
    BY <1>1, <1>2 DEF vars, ChainParts, CacheInv, At
  <1>3. CASE Restart
    <2>1. /\ files' = files /\ loaded' = FALSE
          /\ \A v \in Writers : writer'[v] = Idle
      BY <1>3 DEF Restart
    <2>2. Idle.pc = "idle"
      BY DEF Idle, Writer
    <2>3. \A v \in Writers : Knows(writer'[v], files', loaded')
      BY <2>1, <2>2, IdleKnows
    <2>4. CacheInv'
      BY <2>1 DEF CacheInv
    <2> QED
      BY <1>1, <2>1, <2>3, <2>4 DEF ChainParts
  <1>4. ASSUME NEW w \in Writers, Rotation(w) \/ Recovery(w) \/ Appending(w) PROVE ChainParts'
    <2>1. Undisturbed({"race"})'
      BY DEF Undisturbed
    <2>2. \A v \in Writers \ {w} : At(v, "idle")
      BY <1>4, <2>1, StepsAlone
    <2> QED
      BY <1>1, <1>4, <2>2, RotationKeepsChain, RecoveryKeepsChain, AppendingKeepsChain
  <1> QED
    BY <1>2, <1>3, <1>4 DEF Next

LEMMA ChainStarts == Init => ChainInv
  <1> SUFFICES ASSUME Init PROVE ChainParts
    BY DEF ChainInv
  <1>1. (\A i \in Slots : files[i] = <<>>) /\ ~loaded /\ \A w \in Writers : writer[w] = Idle
    BY DEF Init
  <1>2. Idle.pc = "idle"
    BY DEF Idle, Writer
  <1>3. \A w \in Writers : Knows(writer[w], files, loaded)
    BY <1>1, <1>2, IdleKnows
  <1>4. Whole(files)
    BY <1>1 DEF Whole
  <1>5. Chained(files)
    BY <1>1 DEF Chained, Linked, Follows
  <1> QED
    BY <1>1, <1>3, <1>4, <1>5 DEF ChainParts, CacheInv

\* ChainIsContiguous: as long as writes have not overlapped and no line was torn,
\* the records that are still there link to each other across every rotated file,
\* in the middle of a rotation, after a restart that cut one short and after the
\* reload of the cached hash (rotateNow, readLastHash and write in audit-log.ts).
THEOREM LogChainIsContiguous == Spec => []ChainIsContiguous
  <1>1. ChainInv => ChainIsContiguous
    BY DEF ChainInv, ChainParts, Chained, Follows, Last, ChainIsContiguous, NextOlder
  <1> QED
    BY <1>1, AloneStarts, AloneSteps, ChainStarts, ChainSteps, Invariant, PTL DEF Spec

-----------------------------------------------------------------------------
(* What a rotation deletes.  While one is under way the only gap among the *)
(* rotated files is the slot its next rename fills, and the active file is *)
(* there: so the oldest file is dropped only when every slot is taken.     *)

Turning(s, f) ==
    /\ s.pc = "unlink" \/ (s.pc = "shift" /\ s.slot > 0) => f[0] # <<>>
    /\ s.pc = "shift" => f[s.slot] = <<>>
Gapless ==
    \A a, b \in Slots :
        0 < a /\ a < b /\ files[b] # <<>> /\ files[a] = <<>> =>
            \E w \in Writers : At(w, "shift") /\ writer[w].slot = a
GapParts == Gapless /\ \A w \in Writers : Turning(writer[w], files)
GapInv   == Undisturbed({"race", "restart"}) => GapParts

LEMMA IdleTurns ==
    ASSUME NEW s, s.pc = "idle", NEW f
    PROVE  Turning(s, f)
  BY DEF Turning

\* It is enough to look at the write that takes the step.
LEMMA ItTurns ==
    ASSUME TypeInv, NEW w \in Writers, NEW s, Becomes(w, s),
           \A v \in Writers \ {w} : At(v, "idle"), Turning(s, files'),
           \A a, b \in Slots :
               0 < a /\ a < b /\ files'[b] # <<>> /\ files'[a] = <<>> => s.pc = "shift" /\ s.slot = a
    PROVE  GapParts'
  <1>1. writer'[w] = s
    BY DEF Becomes, TypeInv
  <1>2. \A v \in Writers \ {w} : writer'[v].pc = "idle"
    BY DEF Becomes, TypeInv, At
  <1>3. ASSUME NEW v \in Writers PROVE Turning(writer'[v], files')
    <2>1. CASE v = w
      BY <1>1, <2>1
    <2>2. CASE v # w
      BY <1>2, <2>2, IdleTurns
    <2> QED
      BY <2>1, <2>2
  <1>4. Gapless'
    BY <1>1 DEF Gapless, At
  <1> QED
    BY <1>3, <1>4 DEF GapParts

\* The one gap there may be is the slot of the write that takes the step.
LEMMA OneGap ==
    ASSUME GapParts, NEW w \in Writers, \A v \in Writers \ {w} : At(v, "idle"),
           NEW a \in Slots, NEW b \in Slots, 0 < a, a < b, files[b] # <<>>, files[a] = <<>>
    PROVE  At(w, "shift") /\ writer[w].slot = a
  <1>1. PICK u \in Writers : At(u, "shift") /\ writer[u].slot = a
    BY DEF GapParts, Gapless
  <1>2. u = w
    BY <1>1 DEF At
  <1> QED
    BY <1>1, <1>2

\* A step that moves no file.
LEMMA StandingStill ==
    ASSUME TypeInv, GapParts, NEW w \in Writers, NEW s, Becomes(w, s),
           \A v \in Writers \ {w} : At(v, "idle"), files' = files, ~At(w, "shift"), Turning(s, files)
    PROVE  GapParts'
  <1>1. ASSUME NEW a \in Slots, NEW b \in Slots, 0 < a, a < b, files[b] # <<>>, files[a] = <<>>
        PROVE  FALSE
    BY <1>1, OneGap
  <1> QED
    BY <1>1, ItTurns

LEMMA RotationKeepsGap ==
    ASSUME TypeInv, GapParts, NEW w \in Writers, Rotation(w),
           \A v \in Writers \ {w} : At(v, "idle")
    PROVE  GapParts'
  <1>0. Slots \subseteq Nat /\ 0 \in Slots /\ KeepFiles \in Slots /\ (\A a \in Slots : a <= KeepFiles)
        /\ files \in AllFiles
    BY Constants DEF Slots, TypeInv, AllFiles
  <1>1. CASE StatExists(w)
    <2> DEFINE s == Writer(IF files[0] = <<>> THEN "resume" ELSE "unlink", 0, {}, NoRec)
    <2>1. s.pc = "resume" \/ (s.pc = "unlink" /\ files[0] # <<>>)
      BY DEF Writer
    <2>2. Becomes(w, s) /\ At(w, "rotate") /\ files' = files
      BY <1>1 DEF StatExists
    <2> HIDE DEF s
    <2>3. Turning(s, files)
      BY <2>1 DEF Turning
    <2> QED
      BY <2>2, <2>3, StandingStill DEF At
  <1>2. CASE Unlink(w)
    <2> DEFINE s == Writer("shift", KeepFiles, {}, NoRec)
    <2>1. s.pc = "shift" /\ s.slot = KeepFiles
      BY DEF Writer
    <2>2. Becomes(w, s) /\ At(w, "unlink") /\ files' = [files EXCEPT ![KeepFiles] = <<>>]
      BY <1>2 DEF Unlink
    <2> HIDE DEF s
    <2>3. files'[KeepFiles] = <<>> /\ \A i \in Slots \ {KeepFiles} : files'[i] = files[i]
      BY <1>0, <2>2 DEF AllFiles
    <2>4. files[0] # <<>>
      BY <2>2 DEF GapParts, Turning, At
    <2>5. Turning(s, files')
      BY <1>0, <2>1, <2>3, <2>4 DEF Turning
    <2>6. ASSUME NEW a \in Slots, NEW b \in Slots, 0 < a, a < b, files'[b] # <<>>, files'[a] = <<>>
          PROVE  FALSE
      <3>1. b # KeepFiles /\ a # KeepFiles
        BY <1>0, <2>3, <2>6
      <3>2. files[b] # <<>> /\ files[a] = <<>>
        BY <2>3, <2>6, <3>1
      <3>3. At(w, "shift")
        BY <2>6, <3>2, OneGap
      <3> QED
        BY <2>2, <3>3 DEF At
    <2> QED
      BY <2>2, <2>5, <2>6, ItTurns
  <1>3. CASE Shift(w)
    <2> DEFINE n == writer[w].slot
               s == Writer("shift", n - 1, {}, NoRec)
    <2>1. s.pc = "shift" /\ s.slot = n - 1
      BY DEF Writer
    <2>2. /\ Becomes(w, s) /\ At(w, "shift")
          /\ n > 0 /\ files' = Renamed(n - 1, n)
      BY <1>3 DEF Shift
    <2>3. n \in Slots
      BY DEF TypeInv, WriterState
    <2>4. files[n] = <<>> /\ files[0] # <<>>
      BY <2>2 DEF GapParts, Turning, At
    <2>5. ASSUME NEW a \in Slots, NEW b \in Slots, 0 < a, a < b, files[b] # <<>>, files[a] = <<>>
          PROVE  a = n
      BY <2>5, OneGap
    <2> HIDE DEF s, n
    <2>6. files' = [k \in Slots |-> IF k = n THEN files[n - 1] ELSE IF k = n - 1 THEN <<>> ELSE files[k]]
      BY <2>2, <2>3, <2>4, RenamedInto
    <2>7. /\ n \in Nat /\ n - 1 \in Slots /\ n - 1 # n
          /\ files'[n - 1] = <<>> /\ files'[n] = files[n - 1]
          /\ \A i \in Slots \ {n, n - 1} : files'[i] = files[i]
      BY <2>2, <2>3, <2>6, Constants DEF Slots
    <2>8. Turning(s, files')
      BY <1>0, <2>1, <2>4, <2>7 DEF Turning
    <2>9. ASSUME NEW a \in Slots, NEW b \in Slots, 0 < a, a < b, files'[b] # <<>>, files'[a] = <<>>
          PROVE  a = n - 1
      <3>1. b # n - 1
        BY <2>7, <2>9
      <3>2. CASE a = n
        <4>1. b # n
          BY <1>0, <2>9, <3>2
        <4>2. files[b] # <<>> /\ files[n - 1] = <<>>
          BY <2>7, <2>9, <3>1, <3>2, <4>1
        <4>3. n - 1 # 0 /\ n - 1 \in Nat /\ n < b
          BY <1>0, <2>4, <2>7, <2>9, <3>2, <4>2
        <4>4. 0 < n - 1 /\ n - 1 < b
          BY <1>0, <2>7, <4>3
        <4> QED
          BY <2>5, <2>7, <4>2, <4>4
      <3>3. CASE a # n /\ a # n - 1
        <4>1. files[a] = <<>>
          BY <2>7, <2>9, <3>3
        <4>2. CASE b = n
          <5>1. a < n - 1 /\ files[n - 1] # <<>>
            BY <1>0, <2>7, <2>9, <3>3, <4>2
          <5> QED
            BY <2>5, <2>7, <2>9, <3>3, <4>1, <5>1
        <4>3. CASE b # n
          <5>1. files[b] # <<>>
            BY <2>7, <2>9, <3>1, <4>3
          <5> QED
            BY <2>5, <2>9, <3>3, <4>1, <5>1
        <4> QED
          BY <4>2, <4>3
      <3> QED
        BY <3>2, <3>3
    <2> QED
      BY <2>1, <2>2, <2>8, <2>9, ItTurns
  <1>4. CASE Rotated(w)
    <2> DEFINE s == Writer("list", 0, {}, NoRec)
    <2>1. s.pc = "list"
      BY DEF Writer
    <2>2. Becomes(w, s) /\ files' = files /\ writer[w].slot = 0
      BY <1>4 DEF Rotated
    <2> HIDE DEF s
    <2>3. Turning(s, files)
      BY <2>1 DEF Turning
    <2>4. ASSUME NEW a \in Slots, NEW b \in Slots, 0 < a, a < b, files[b] # <<>>, files[a] = <<>>
          PROVE  FALSE
      <3>1. a = 0
        BY <2>2, <2>4, OneGap
      <3> QED
        BY <2>4, <3>1
    <2> QED
      BY <2>2, <2>3, <2>4, ItTurns
  <1> QED
    BY <1>1, <1>2, <1>3, <1>4 DEF Rotation

LEMMA OtherStepsKeepGap ==
    ASSUME TypeInv, GapParts, NEW w \in Writers, Recovery(w) \/ Appending(w),
           \A v \in Writers \ {w} : At(v, "idle")
    PROVE  GapParts'
  <1>1. PICK s : Becomes(w, s)
    BY Becoming
  <1>2. s = writer'[w]
    BY <1>1 DEF Becomes, TypeInv
  <1>3. writer'[w].pc \in {"idle", "rotate", "resume", "list", "scan", "loaded", "append", "appended"}
    BY States DEF Recovery, List, Scan, ScanEnds, Loaded, Appending, StatSize, Resume, AppendLine, TearLine,
           Finish, Build, Becomes, TypeInv, Writer, Idle
  <1>4. Turning(s, files')
    BY <1>2, <1>3 DEF Turning
  <1>5. ~At(w, "shift")
    BY DEF Recovery, List, Scan, ScanEnds, Loaded, Appending, StatSize, Resume, AppendLine, TearLine, Finish, At
  <1>6. \A i \in Slots : i # 0 => files'[i] = files[i]
    BY DEF Recovery, List, Scan, ScanEnds, Loaded, Appending, StatSize, Resume, AppendLine, TearLine, Finish,
           TypeInv
  <1>7. ASSUME NEW a \in Slots, NEW b \in Slots, 0 < a, a < b, files'[b] # <<>>, files'[a] = <<>>
        PROVE  FALSE
    <2>1. a # 0 /\ b # 0
      BY <1>7, Constants DEF Slots
    <2> QED
      BY <1>5, <1>6, <1>7, <2>1, OneGap
  <1> QED
    BY <1>1, <1>4, <1>7, ItTurns

LEMMA GapSteps == TypeInv /\ AloneInv /\ GapInv /\ [Next]_vars => GapInv'
  <1> SUFFICES ASSUME TypeInv, AloneInv, GapInv, [Next]_vars, Undisturbed({"race", "restart"})'
               PROVE  GapParts'
    BY DEF GapInv
  <1>1. GapParts
    BY StillUndisturbed DEF GapInv
  <1>2. CASE UNCHANGED vars
    BY <1>1, <1>2 DEF vars, GapParts, Gapless, At
  <1>3. CASE Restart
    BY <1>3 DEF Restart, Undisturbed
  <1>4. ASSUME NEW w \in Writers, Rotation(w) \/ Recovery(w) \/ Appending(w) PROVE GapParts'
    <2>1. Undisturbed({"race"})'
      BY DEF Undisturbed
    <2>2. \A v \in Writers \ {w} : At(v, "idle")
      BY <1>4, <2>1, StepsAlone
    <2> QED
      BY <1>1, <1>4, <2>2, RotationKeepsGap, OtherStepsKeepGap
  <1> QED
    BY <1>2, <1>3, <1>4 DEF Next

LEMMA GapStarts == Init => GapInv
  <1> SUFFICES ASSUME Init PROVE GapParts
    BY DEF GapInv
  <1>1. (\A i \in Slots : files[i] = <<>>) /\ \A w \in Writers : writer[w] = Idle
    BY DEF Init
  <1>2. Idle.pc = "idle"
    BY DEF Idle, Writer
  <1> QED
    BY <1>1, <1>2, IdleTurns DEF GapParts, Gapless

\* Which records a step can lose.
Kept == \A i \in Slots : \A a \in HashesIn(files[i]) :
            \E j \in Slots : \E b \in HashesIn(files'[j]) : files'[j][b] = files[i][a]

LEMMA SameFilesKeep == ASSUME files' = files PROVE Kept
  BY DEF Kept

LEMMA ShiftKeeps ==
    ASSUME TypeInv, GapParts, NEW w \in Writers, Shift(w)
    PROVE  Kept
  <1> DEFINE n == writer[w].slot
  <1>1. n \in Slots /\ n > 0 /\ files' = Renamed(n - 1, n) /\ files[n] = <<>>
    BY DEF Shift, GapParts, Turning, At, TypeInv, WriterState
  <1> HIDE DEF n
  <1>2. files' = [k \in Slots |-> IF k = n THEN files[n - 1] ELSE IF k = n - 1 THEN <<>> ELSE files[k]]
    BY <1>1, RenamedInto
  <1>3. /\ n - 1 # n
        /\ files'[n] = files[n - 1]
        /\ \A i \in Slots \ {n, n - 1} : files'[i] = files[i]
    BY <1>1, <1>2, Constants DEF Slots
  <1>4. ASSUME NEW i \in Slots, NEW a \in HashesIn(files[i])
        PROVE  \E j \in Slots : \E b \in HashesIn(files'[j]) : files'[j][b] = files[i][a]
    <2>1. CASE i = n
      BY <1>1, <2>1 DEF HashesIn
    <2>2. CASE i = n - 1
      BY <1>1, <1>3, <2>2
    <2>3. CASE i # n /\ i # n - 1
      BY <1>3, <2>3
    <2> QED
      BY <2>1, <2>2, <2>3
  <1> QED
    BY <1>4 DEF Kept

\* The oldest file is dropped when it is not there, or when every slot is taken.
LEMMA UnlinkDrops ==
    ASSUME TypeInv, GapParts, NEW w \in Writers, Unlink(w),
           \A v \in Writers \ {w} : At(v, "idle")
    PROVE  Kept \/ Present = Slots
  <1>1. files' = [files EXCEPT ![KeepFiles] = <<>>] /\ At(w, "unlink")
    BY DEF Unlink
  <1>2. CASE files[KeepFiles] = <<>>
    <2>1. files' = files
      BY <1>1, <1>2 DEF TypeInv
    <2> QED
      BY <2>1, SameFilesKeep
  <1>3. CASE files[KeepFiles] # <<>>
    <2>1. files[0] # <<>>
      BY <1>1 DEF GapParts, Turning, At
    <2>2. ASSUME NEW a \in Slots, files[a] = <<>> PROVE FALSE
      <3>1. 0 < a /\ a < KeepFiles /\ KeepFiles \in Slots
        BY <1>3, <2>1, <2>2, Constants DEF Slots
      <3>2. At(w, "shift")
        BY <1>3, <2>2, <3>1, OneGap
      <3> QED
        BY <1>1, <3>2 DEF At
    <2> QED
      BY <2>2 DEF Present
  <1> QED
    BY <1>2, <1>3

LEMMA ExtendedKeeps ==
    ASSUME NEW lines \in Seq(Line), NEW l \in Line, NEW a \in HashesIn(lines)
    PROVE  a \in HashesIn(Extended(lines, l)) /\ Extended(lines, l)[a] = lines[a]
  <1>1. a \in DOMAIN lines /\ lines[a] \in Record
    BY DEF HashesIn
  <1>2. CASE lines # <<>> /\ lines[Len(lines)] = Open
    <2>1. Extended(lines, l) = [lines EXCEPT ![Len(lines)] = Glued(l)]
      BY <1>2 DEF Extended
    <2>2. a # Len(lines)
      BY <1>1, <1>2, LinesAssumption
    <2> QED
      BY <1>1, <2>1, <2>2 DEF HashesIn
  <1>3. CASE ~(lines # <<>> /\ lines[Len(lines)] = Open)
    <2>1. Extended(lines, l) = Append(lines, l)
      BY <1>3 DEF Extended
    <2> HIDE DEF Line
    <2>2. /\ DOMAIN Append(lines, l) = 1..(Len(lines) + 1) /\ Len(lines) \in Nat
          /\ DOMAIN lines = 1..Len(lines)
          /\ \A k \in 1..Len(lines) : Append(lines, l)[k] = lines[k]
      OBVIOUS
    <2>3. a \in DOMAIN Append(lines, l) /\ Append(lines, l)[a] = lines[a]
      BY <1>1, <2>2
    <2> QED
      BY <1>1, <2>1, <2>3 DEF HashesIn
  <1> QED
    BY <1>2, <1>3

LEMMA AppendKeeps ==
    ASSUME TypeInv, NEW l \in Line, files' = [files EXCEPT ![0] = Extended(files[0], l)]
    PROVE  Kept
  <1>1. files'[0] = Extended(files[0], l) /\ \A i \in Slots : i # 0 => files'[i] = files[i]
    BY Constants DEF TypeInv
  <1>2. files[0] \in Seq(Line)
    BY Constants DEF TypeInv
  <1>3. ASSUME NEW a \in HashesIn(files[0])
        PROVE  a \in HashesIn(files'[0]) /\ files'[0][a] = files[0][a]
    BY <1>1, <1>2, ExtendedKeeps
  <1> QED
    BY <1>1, <1>3, Constants DEF Kept

LEMMA StepsDrop ==
    ASSUME TypeInv, AloneInv, GapInv, Next, Undisturbed({"race", "restart"})
    PROVE  Kept \/ Present = Slots
  <1>1. GapParts
    BY DEF GapInv
  <1>2. CASE Restart
    BY <1>2, SameFilesKeep DEF Restart
  <1>3. ASSUME NEW w \in Writers, Rotation(w) PROVE Kept \/ Present = Slots
    <2>1. CASE StatExists(w) \/ Rotated(w)
      BY <2>1, SameFilesKeep DEF StatExists, Rotated
    <2>2. CASE Unlink(w)
      <3>1. Undisturbed({"race"})'
        BY <2>2 DEF Unlink, Undisturbed
      <3>2. \A v \in Writers \ {w} : At(v, "idle")
        BY <1>3, <3>1, StepsAlone
      <3> QED
        BY <1>1, <2>2, <3>2, UnlinkDrops
    <2>3. CASE Shift(w)
      BY <1>1, <2>3, ShiftKeeps
    <2> QED
      BY <1>3, <2>1, <2>2, <2>3 DEF Rotation
  <1>4. ASSUME NEW w \in Writers, Recovery(w) PROVE Kept
    BY <1>4, SameFilesKeep DEF Recovery, List, Scan, ScanEnds, Loaded
  <1>5. ASSUME NEW w \in Writers, Appending(w) PROVE Kept
    <2>1. CASE AppendLine(w)
      <3>1. writer[w].rec \in Line
        BY Constants DEF TypeInv, WriterState
      <3> QED
        BY <2>1, <3>1, AppendKeeps DEF AppendLine
    <2>2. CASE TearLine(w)
      BY <2>2, Constants, AppendKeeps DEF TearLine
    <2>3. CASE StatSize(w) \/ Resume(w) \/ Finish(w)
      BY <2>3, SameFilesKeep DEF StatSize, Resume, Finish
    <2> QED
      BY <1>5, <2>1, <2>2, <2>3 DEF Appending
  <1> QED
    BY <1>2, <1>3, <1>4, <1>5 DEF Next

\* DropsOnlyPastKeepFiles: a step loses a record only when audit.log and all
\* KeepFiles rotated files are there, as long as no two writes overlapped and no
\* rotation died half way (rotateNow in audit-log.ts: an empty slot stops the loss).
THEOREM RotationKeepsRecords == Spec => DropsOnlyPastKeepFiles
  <1>1. TypeInv /\ AloneInv /\ GapInv /\ [Next]_vars =>
        [\A i \in Slots : \A a \in HashesIn(files[i]) :
            \/ \E j \in Slots : \E b \in HashesIn(files'[j]) : files'[j][b] = files[i][a]
            \/ Present = Slots
            \/ ~Undisturbed({"race", "restart"})]_vars
    <2> SUFFICES ASSUME TypeInv, AloneInv, GapInv, Next, Undisturbed({"race", "restart"})
                 PROVE  Kept \/ Present = Slots
      BY DEF Kept
    <2> QED
      BY StepsDrop
  <1> QED
    BY <1>1, AloneStarts, AloneSteps, GapStarts, GapSteps, Invariant, PTL
    DEF Spec, DropsOnlyPastKeepFiles

-----------------------------------------------------------------------------
(* The trail.  A place is a slot and a line; its position counts the       *)
(* places up to it.                                                        *)

Position(f, p) == Cardinality({q \in RecordPlaces(f) : NoLater(q, p)})
Size(f) == Cardinality(RecordPlaces(f))

LEMMA PlacesAre ==
    ASSUME NEW f \in AllFiles
    PROVE  /\ \A p \in RecordPlaces(f) :
                /\ p[1] \in Slots /\ p[1] \in Nat /\ p[2] \in HashesIn(f[p[1]]) /\ p[2] \in Nat \ {0}
                /\ p = <<p[1], p[2]>> /\ f[p[1]][p[2]] \in Record
           /\ \A i \in Slots : \A a \in HashesIn(f[i]) : <<i, a>> \in RecordPlaces(f)
  <1>1. Slots \subseteq Nat
    BY Constants DEF Slots
  <1>2. \A i \in Slots : HashesIn(f[i]) \subseteq Nat \ {0}
    BY DEF HashesIn, AllFiles
  <1>3. ASSUME NEW p \in RecordPlaces(f)
        PROVE  /\ p[1] \in Slots /\ p[2] \in HashesIn(f[p[1]]) /\ p = <<p[1], p[2]>>
    <2>1. PICK i \in Slots : p \in {i} \X HashesIn(f[i])
      BY DEF RecordPlaces
    <2> QED
      BY <2>1
  <1>4. \A i \in Slots : \A a \in HashesIn(f[i]) : <<i, a>> \in RecordPlaces(f)
    BY DEF RecordPlaces
  <1>5. \A i \in Slots : \A a \in HashesIn(f[i]) : f[i][a] \in Record
    BY DEF HashesIn
  <1> QED
    BY <1>1, <1>2, <1>3, <1>4, <1>5

LEMMA PlacesFinite ==
    ASSUME NEW f \in AllFiles
    PROVE  IsFiniteSet(RecordPlaces(f)) /\ Size(f) \in Nat
  <1> DEFINE S == {{i} \X HashesIn(f[i]) : i \in Slots}
  <1>1. IsFiniteSet(Slots)
    BY Constants, FS_Interval DEF Slots
  <1>2. IsFiniteSet(S)
    <2> DEFINE G == [i \in Slots |-> {i} \X HashesIn(f[i])]
    <2>1. G \in Surjection(Slots, S)
      BY DEF Surjection
    <2> HIDE DEF G, S
    <2> QED
      BY <1>1, <2>1, FS_Surjection
  <1>3. ASSUME NEW i \in Slots PROVE IsFiniteSet({i} \X HashesIn(f[i]))
    <2>1. HashesIn(f[i]) \subseteq 1..Len(f[i]) /\ Len(f[i]) \in Int
      <3>1. f[i] \in Seq(Line)
        BY DEF AllFiles
      <3> HIDE DEF Line
      <3> QED
        BY <3>1 DEF HashesIn
    <2>2. IsFiniteSet(1..Len(f[i]))
      BY <2>1, FS_Interval
    <2>3. IsFiniteSet(HashesIn(f[i]))
      BY <2>1, <2>2, FS_Subset
    <2>4. IsFiniteSet({i})
      BY FS_Singleton
    <2> QED
      BY <2>3, <2>4, FS_Product
  <1>4. \A T \in S : IsFiniteSet(T)
    BY <1>3
  <1>5. IsFiniteSet(UNION S)
    BY <1>2, <1>4, FS_UNION
  <1>6. IsFiniteSet(RecordPlaces(f))
    BY <1>5 DEF RecordPlaces
  <1> QED
    BY <1>6, FS_CardinalityType DEF Size

LEMMA PositionRange ==
    ASSUME NEW f \in AllFiles, NEW p \in RecordPlaces(f)
    PROVE  /\ Position(f, p) \in 1..Size(f)
           /\ \A q \in RecordPlaces(f) : NoLater(q, p) /\ q # p => Position(f, q) < Position(f, p)
  <1> DEFINE P == RecordPlaces(f)
             U(q) == {r \in P : NoLater(r, q)}
  <1>1. IsFiniteSet(P) /\ Size(f) \in Nat
    BY PlacesFinite
  <1>2. ASSUME NEW q \in P
        PROVE  U(q) \subseteq P /\ IsFiniteSet(U(q)) /\ Cardinality(U(q)) \in Nat
               /\ Cardinality(U(q)) <= Size(f) /\ q \in U(q)
    <2>1. U(q) \in SUBSET P
      OBVIOUS
    <2>2. IsFiniteSet(U(q)) /\ Cardinality(U(q)) <= Cardinality(P)
      BY <1>1, <2>1, FS_Subset
    <2>3. Cardinality(U(q)) \in Nat
      BY <2>2, FS_CardinalityType
    <2>4. q \in U(q)
      BY PlacesAre DEF NoLater
    <2> QED
      BY <2>1, <2>2, <2>3, <2>4 DEF Size
  <1>3. Cardinality(U(p)) # 0
    BY <1>2, FS_EmptySet
  <1>4. Position(f, p) \in 1..Size(f)
    BY <1>1, <1>2, <1>3 DEF Position
  <1>5. ASSUME NEW q \in P, NoLater(q, p), q # p PROVE Cardinality(U(q)) < Cardinality(U(p))
    <2>1. p \notin U(q)
      BY <1>5, PlacesAre DEF NoLater
    <2>2. U(q) \in SUBSET U(p)
      <3> SUFFICES ASSUME NEW r \in P, NoLater(r, q) PROVE NoLater(r, p)
        OBVIOUS
      <3>1. /\ r[1] \in Nat /\ q[1] \in Nat /\ p[1] \in Nat
            /\ r[2] \in Nat /\ q[2] \in Nat /\ p[2] \in Nat
        BY PlacesAre
      <3> QED
        BY <1>5, <3>1 DEF NoLater
    <2>3. U(q) # U(p)
      BY <1>2, <2>1
    <2>4. Cardinality(U(q)) <= Cardinality(U(p)) /\ Cardinality(U(p)) # Cardinality(U(q))
      <3> HIDE DEF U
      <3> QED
        BY <1>2, <2>2, <2>3, FS_Subset
    <2> QED
      BY <1>2, <2>4
  <1> QED
    BY <1>4, <1>5 DEF Position

\* Every position up to the size is taken, by one place.
LEMMA PositionsAreTaken ==
    ASSUME NEW f \in AllFiles
    PROVE  /\ \A p, q \in RecordPlaces(f) : Position(f, p) = Position(f, q) => p = q
           /\ \A n \in 1..Size(f) : \E p \in RecordPlaces(f) : Position(f, p) = n
  <1> DEFINE P == RecordPlaces(f)
             F == [p \in P |-> Position(f, p)]
             N == Size(f)
  <1>1. IsFiniteSet(P) /\ N \in Nat
    BY PlacesFinite
  <1>2. ASSUME NEW p \in P, NEW q \in P, Position(f, p) = Position(f, q) PROVE p = q
    <2>1. NoLater(p, q) \/ NoLater(q, p)
      BY PlacesAre DEF NoLater
    <2>2. Position(f, p) \in Nat /\ Position(f, q) \in Nat
      BY <1>1, PositionRange
    <2> QED
      BY <1>2, <2>1, <2>2, PositionRange
  <1>3. F \in [P -> 1..N]
    BY PositionRange
  <1>4. \A p, q \in P : F[p] = F[q] => p = q
    BY <1>2
  <1>5. F \in Injection(P, 1..N)
    BY <1>3, <1>4 DEF Injection, IsInjective
  <1>6. IsFiniteSet(1..N) /\ Cardinality(1..N) = N
    BY <1>1, FS_Interval
  <1>7. Cardinality(P) = Cardinality(1..N)
    BY <1>6 DEF Size
  <1>8. F \in Surjection(P, 1..N)
    <2> HIDE DEF F, P, N
    <2> QED
      BY <1>5, <1>6, <1>7, FS_Injection
  <1>9. \A n \in 1..N : \E p \in P : F[p] = n
    BY <1>8 DEF Surjection
  <1> QED
    BY <1>2, <1>9

LEMMA TrailIs ==
    ASSUME NEW f \in AllFiles
    PROVE  /\ TrailOf(f) \in Seq(Record) /\ Len(TrailOf(f)) = Size(f) /\ Size(f) \in Nat
           /\ DOMAIN TrailOf(f) = 1..Size(f)
           /\ \A p \in RecordPlaces(f) :
                Position(f, p) \in 1..Size(f) /\ TrailOf(f)[Position(f, p)] = f[p[1]][p[2]]
           /\ \A n \in 1..Size(f) : \E p \in RecordPlaces(f) : Position(f, p) = n
  <1> DEFINE P == RecordPlaces(f)
             N == Size(f)
             At2(n) == CHOOSE p \in P : Position(f, p) = n
             T == [n \in 1..N |-> f[At2(n)[1]][At2(n)[2]]]
  <1>1. TrailOf(f) = T
    BY DEF TrailOf, Position, Size
  <1>2. N \in Nat
    BY PlacesFinite
  <1>3. ASSUME NEW n \in 1..N PROVE At2(n) \in P /\ Position(f, At2(n)) = n
    BY PositionsAreTaken
  <1>4. \A n \in 1..N : T[n] \in Record
    <2> SUFFICES ASSUME NEW n \in 1..N PROVE T[n] \in Record
      OBVIOUS
    <2>1. T[n] = f[At2(n)[1]][At2(n)[2]]
      OBVIOUS
    <2>2. At2(n) \in P
      BY <1>3
    <2> HIDE DEF At2, T
    <2> QED
      BY <2>1, <2>2, PlacesAre
  <1>5. T \in [1..N -> Record]
    <2>1. DOMAIN T = 1..N /\ T = [n \in DOMAIN T |-> T[n]]
      OBVIOUS
    <2> HIDE DEF T
    <2> QED
      BY <1>4, <2>1
  <1>6. T \in Seq(Record) /\ Len(T) = N
    <2> HIDE DEF T, N
    <2> QED
      BY <1>2, <1>5
  <1>7. ASSUME NEW p \in P PROVE Position(f, p) \in 1..N /\ T[Position(f, p)] = f[p[1]][p[2]]
    <2>1. Position(f, p) \in 1..N
      BY PositionRange
    <2>2. At2(Position(f, p)) = p
      <3>1. At2(Position(f, p)) \in P /\ Position(f, At2(Position(f, p))) = Position(f, p)
        BY <1>3, <2>1
      <3> HIDE DEF At2
      <3> QED
        BY <3>1, PositionsAreTaken
    <2> HIDE DEF At2
    <2> QED
      BY <2>1, <2>2
  <1> QED
    BY <1>1, <1>2, <1>5, <1>6, <1>7, PositionsAreTaken

\* Records that are added after all the others leave the positions of those alone.
LEMMA LaterPlaces ==
    ASSUME NEW f \in AllFiles, NEW g \in AllFiles, RecordPlaces(f) \subseteq RecordPlaces(g),
           \A p \in RecordPlaces(f), q \in RecordPlaces(g) \ RecordPlaces(f) : ~NoLater(q, p)
    PROVE  \A p \in RecordPlaces(f) : Position(g, p) = Position(f, p)
  <1> SUFFICES ASSUME NEW p \in RecordPlaces(f) PROVE Position(g, p) = Position(f, p)
    OBVIOUS
  <1>1. {q \in RecordPlaces(g) : NoLater(q, p)} = {q \in RecordPlaces(f) : NoLater(q, p)}
    OBVIOUS
  <1> QED
    BY <1>1 DEF Position

\* Files that hold the same records in the same order have the same trail.
LEMMA SameTrail ==
    ASSUME NEW f \in AllFiles, NEW g \in AllFiles, NEW m \in [RecordPlaces(f) -> RecordPlaces(g)],
           \A p, q \in RecordPlaces(f) : m[p] = m[q] => p = q,
           \A q \in RecordPlaces(g) : \E p \in RecordPlaces(f) : m[p] = q,
           \A p, q \in RecordPlaces(f) : NoLater(q, p) <=> NoLater(m[q], m[p]),
           \A p \in RecordPlaces(f) : g[m[p][1]][m[p][2]] = f[p[1]][p[2]]
    PROVE  TrailOf(g) = TrailOf(f)
  <1> DEFINE P == RecordPlaces(f)
             Q == RecordPlaces(g)
  <1>1. Size(g) = Size(f)
    <2>1. m \in Bijection(P, Q)
      BY DEF Bijection, Injection, Surjection, IsInjective
    <2>2. IsFiniteSet(P)
      BY PlacesFinite
    <2> HIDE DEF P, Q
    <2>3. ExistsBijection(P, Q)
      BY <2>1 DEF ExistsBijection
    <2>4. Cardinality(Q) = Cardinality(P)
      BY <2>2, <2>3, FS_Bijection
    <2> QED
      BY <2>4 DEF Size, P, Q
  <1>2. ASSUME NEW p \in P PROVE Position(g, m[p]) = Position(f, p)
    <2> DEFINE A == {q \in P : NoLater(q, p)}
               B == {q \in Q : NoLater(q, m[p])}
               h == [q \in A |-> m[q]]
    <2>1. h \in [A -> B]
      OBVIOUS
    <2>2. \A q \in B : \E r \in A : h[r] = q
      <3> SUFFICES ASSUME NEW q \in B PROVE \E r \in A : h[r] = q
        OBVIOUS
      <3>1. PICK r \in P : m[r] = q
        OBVIOUS
      <3>2. NoLater(r, p)
        BY <3>1
      <3> QED
        BY <3>1, <3>2
    <2>3. \A q, r \in A : h[q] = h[r] => q = r
      OBVIOUS
    <2>4. A \in SUBSET P /\ IsFiniteSet(P)
      BY PlacesFinite
    <2>5. IsFiniteSet(A)
      <3> HIDE DEF A
      <3> QED
        BY <2>4, FS_Subset
    <2> HIDE DEF A, B, h
    <2>6. h \in Bijection(A, B)
      BY <2>1, <2>2, <2>3 DEF Bijection, Injection, Surjection, IsInjective
    <2>7. ExistsBijection(A, B)
      BY <2>6 DEF ExistsBijection
    <2>8. Cardinality(B) = Cardinality(A)
      BY <2>5, <2>7, FS_Bijection
    <2> QED
      BY <2>8 DEF Position, A, B
  <1> DEFINE S == TrailOf(f)
             T == TrailOf(g)
  <1>3. S \in Seq(Record) /\ T \in Seq(Record) /\ Len(S) = Size(f) /\ Len(T) = Size(f)
    BY <1>1, TrailIs
  <1>4. ASSUME NEW n \in 1..Size(f) PROVE T[n] = S[n]
    <2>1. PICK p \in P : Position(f, p) = n
      BY TrailIs
    <2>2. S[n] = f[p[1]][p[2]]
      BY <2>1, TrailIs
    <2>3. T[n] = g[m[p][1]][m[p][2]]
      BY <1>2, <2>1, TrailIs
    <2> QED
      BY <2>2, <2>3
  <1> HIDE DEF S, T
  <1>5. S = T
    BY <1>3, <1>4
  <1> QED
    BY <1>5 DEF S, T

LEMMA UnchangedPlaces ==
    ASSUME NEW f \in AllFiles, NEW g \in AllFiles,
           \A i \in Slots : HashesIn(g[i]) = HashesIn(f[i]) /\ \A a \in HashesIn(f[i]) : g[i][a] = f[i][a]
    PROVE  RecordPlaces(g) = RecordPlaces(f)
  BY DEF RecordPlaces

\* Moving a file into the empty slot above it.
LEMMA ShiftedTrail ==
    ASSUME NEW f \in AllFiles, NEW n \in Slots, n > 0, f[n] = <<>>, NEW g \in AllFiles,
           g = [k \in Slots |-> IF k = n THEN f[n - 1] ELSE IF k = n - 1 THEN <<>> ELSE f[k]]
    PROVE  TrailOf(g) = TrailOf(f)
  <1>1. n \in Nat /\ n - 1 \in Slots /\ n - 1 # n /\ Slots \subseteq Nat
    BY Constants DEF Slots
  <1>2. /\ g[n - 1] = <<>> /\ g[n] = f[n - 1]
        /\ \A i \in Slots \ {n, n - 1} : g[i] = f[i]
    BY <1>1
  <1>3. HashesIn(<<>>) = {}
    BY DEF HashesIn
  <1> DEFINE To(i) == IF i = n - 1 THEN n ELSE i
             P == RecordPlaces(f)
             Q == RecordPlaces(g)
             m == [p \in P |-> <<To(p[1]), p[2]>>]
  <1>4. ASSUME NEW p \in P
        PROVE  /\ p[1] # n /\ p[1] \in Nat /\ p[2] \in Nat /\ p = <<p[1], p[2]>>
               /\ m[p] \in Q /\ g[m[p][1]][m[p][2]] = f[p[1]][p[2]]
    <2>1. /\ p[1] \in Slots /\ p[2] \in HashesIn(f[p[1]]) /\ p[1] \in Nat /\ p[2] \in Nat /\ p = <<p[1], p[2]>>
      BY PlacesAre
    <2>2. p[1] # n
      BY <1>3, <2>1
    <2>3. To(p[1]) \in Slots /\ g[To(p[1])] = f[p[1]]
      BY <1>1, <1>2, <2>1, <2>2
    <2> HIDE DEF To
    <2>4. m[p] = <<To(p[1]), p[2]>>
      OBVIOUS
    <2>5. <<To(p[1]), p[2]>> \in Q
      BY <2>1, <2>3, PlacesAre
    <2> QED
      BY <2>1, <2>2, <2>3, <2>4, <2>5
  <1>5. m \in [P -> Q]
    BY <1>4
  <1>6. ASSUME NEW p \in P, NEW q \in P PROVE NoLater(q, p) <=> NoLater(m[q], m[p])
    <2>1. m[p][1] = To(p[1]) /\ m[q][1] = To(q[1]) /\ m[p][2] = p[2] /\ m[q][2] = q[2]
      OBVIOUS
    <2>2. (q[1] > p[1] <=> To(q[1]) > To(p[1])) /\ (q[1] = p[1] <=> To(q[1]) = To(p[1]))
      <3>1. p[1] \in Nat /\ q[1] \in Nat /\ p[1] # n /\ q[1] # n /\ n \in Nat
        BY <1>1, <1>4
      <3> HIDE DEF m
      <3> QED
        BY <3>1
    <2> HIDE DEF To, m
    <2> QED
      BY <2>1, <2>2 DEF NoLater
  <1>7. ASSUME NEW p \in P, NEW q \in P, m[p] = m[q] PROVE p = q
    <2>1. To(p[1]) = To(q[1]) /\ p[2] = q[2]
      <3>1. m[p][1] = To(p[1]) /\ m[q][1] = To(q[1]) /\ m[p][2] = p[2] /\ m[q][2] = q[2]
        OBVIOUS
      <3> HIDE DEF To, m
      <3> QED
        BY <1>7, <3>1
    <2>2. p[1] = q[1]
      BY <1>1, <1>4, <2>1
    <2> HIDE DEF m, To
    <2> QED
      BY <1>4, <2>1, <2>2
  <1>8. ASSUME NEW q \in Q PROVE \E p \in P : m[p] = q
    <2>1. q[1] \in Slots /\ q[2] \in HashesIn(g[q[1]]) /\ q = <<q[1], q[2]>> /\ q[1] \in Nat
      BY PlacesAre
    <2>2. q[1] # n - 1
      BY <1>2, <1>3, <2>1
    <2> DEFINE i == IF q[1] = n THEN n - 1 ELSE q[1]
    <2>3. i \in Slots /\ f[i] = g[q[1]] /\ To(i) = q[1]
      BY <1>1, <1>2, <2>1, <2>2
    <2>4. <<i, q[2]>> \in P
      BY <2>1, <2>3, PlacesAre
    <2>5. m[<<i, q[2]>>] = <<To(i), q[2]>>
      BY <2>4
    <2> HIDE DEF m, To, i
    <2>6. m[<<i, q[2]>>] = q
      BY <2>1, <2>3, <2>5
    <2> QED
      BY <2>4, <2>6
  <1>9. /\ \A p, q \in P : m[p] = m[q] => p = q
        /\ \A q \in Q : \E p \in P : m[p] = q
        /\ \A p, q \in P : NoLater(q, p) <=> NoLater(m[q], m[p])
        /\ \A p \in P : g[m[p][1]][m[p][2]] = f[p[1]][p[2]]
    BY <1>4, <1>6, <1>7, <1>8
  <1> HIDE DEF m
  <1> QED
    BY <1>5, <1>9, SameTrail

\* One more record, after all the others.
LEMMA LongerTrail ==
    ASSUME NEW f \in AllFiles, NEW g \in AllFiles, NEW o, o \notin RecordPlaces(f),
           RecordPlaces(g) = RecordPlaces(f) \cup {o},
           \A p \in RecordPlaces(f) : ~NoLater(o, p) /\ NoLater(p, o),
           \A p \in RecordPlaces(f) : g[p[1]][p[2]] = f[p[1]][p[2]]
    PROVE  TrailOf(g) = Append(TrailOf(f), g[o[1]][o[2]])
  <1> DEFINE P == RecordPlaces(f)
             Q == RecordPlaces(g)
             N == Size(f)
             S == TrailOf(f)
             T == TrailOf(g)
             r == g[o[1]][o[2]]
  <1>1. IsFiniteSet(P) /\ N \in Nat /\ Size(g) = N + 1
    BY PlacesFinite, FS_AddElement DEF Size
  <1>2. \A p \in P : Position(g, p) = Position(f, p)
    BY LaterPlaces
  <1>3. Position(g, o) = N + 1
    <2>1. {q \in Q : NoLater(q, o)} = Q
      <3>1. o \in Q /\ o[2] \in Nat
        BY PlacesAre
      <3>2. NoLater(o, o)
        BY <3>1 DEF NoLater
      <3> QED
        BY <3>2
    <2> QED
      BY <1>1, <2>1 DEF Position, Size
  <1>4. S \in Seq(Record) /\ Len(S) = N /\ T \in Seq(Record) /\ Len(T) = N + 1
    BY <1>1, TrailIs
  <1>5. r \in Record /\ T[N + 1] = r
    BY <1>3, TrailIs, PlacesAre
  <1>6. ASSUME NEW n \in 1..N PROVE T[n] = S[n]
    <2>1. PICK p \in P : Position(f, p) = n
      BY TrailIs
    <2>2. S[n] = f[p[1]][p[2]]
      BY <2>1, TrailIs
    <2>3. p \in Q /\ T[n] = g[p[1]][p[2]]
      BY <1>2, <2>1, TrailIs
    <2> QED
      BY <2>2, <2>3
  <1> HIDE DEF S, T, r, N
  <1> DEFINE A == Append(S, r)
  <1>7. A \in Seq(Record) /\ Len(A) = N + 1 /\ A[N + 1] = r /\ \A n \in 1..N : A[n] = S[n]
    BY <1>1, <1>4, <1>5, AppendProperties
  <1> HIDE DEF A
  <1>8. ASSUME NEW n \in 1..(N + 1) PROVE T[n] = A[n]
    <2>1. CASE n = N + 1
      BY <1>5, <1>7, <2>1
    <2>2. CASE n # N + 1
      <3>1. n \in 1..N
        BY <1>1, <2>2
      <3> QED
        BY <1>6, <1>7, <3>1
    <2> QED
      BY <2>1, <2>2
  <1>9. T = A
    BY <1>1, <1>4, <1>7, <1>8
  <1> QED
    BY <1>9 DEF T, A, S, r

\* Dropping the oldest file drops a prefix of the trail.
LEMMA DroppedTrail ==
    ASSUME NEW f \in AllFiles, NEW g \in AllFiles, g = [f EXCEPT ![KeepFiles] = <<>>]
    PROVE  \E n \in 0..Size(f) :
             /\ Size(g) = Size(f) - n
             /\ \A k \in 1..(Size(f) - n) : TrailOf(g)[k] = TrailOf(f)[k + n]
             /\ n = 0 <=> HashesIn(f[KeepFiles]) = {}
  <1> DEFINE P == RecordPlaces(f)
             Q == RecordPlaces(g)
             D == {p \in P : p[1] = KeepFiles}
             n == Cardinality(D)
  <1>1. KeepFiles \in Slots /\ KeepFiles \in Nat /\ \A i \in Slots : i \in Nat /\ i <= KeepFiles
    BY Constants DEF Slots
  <1>2. /\ g[KeepFiles] = <<>> /\ HashesIn(<<>>) = {}
        /\ \A i \in Slots \ {KeepFiles} : g[i] = f[i]
    BY <1>1 DEF AllFiles, HashesIn
  <1>3. Q = P \ D
    <2>1. ASSUME NEW p \in Q PROVE p \in P \ D
      <3>1. p[1] \in Slots /\ p[2] \in HashesIn(g[p[1]]) /\ p = <<p[1], p[2]>>
        BY PlacesAre
      <3>2. p[1] # KeepFiles
        BY <1>2, <3>1
      <3>3. p[2] \in HashesIn(f[p[1]])
        BY <1>2, <3>1, <3>2
      <3>4. p \in P
        BY <3>1, <3>3, PlacesAre
      <3> QED
        BY <3>2, <3>4
    <2>2. ASSUME NEW p \in P \ D PROVE p \in Q
      <3>1. p[1] \in Slots /\ p[2] \in HashesIn(f[p[1]]) /\ p = <<p[1], p[2]>> /\ p[1] # KeepFiles
        BY PlacesAre
      <3>2. p[2] \in HashesIn(g[p[1]])
        BY <1>2, <3>1
      <3>3. <<p[1], p[2]>> \in Q
        BY <3>1, <3>2, PlacesAre
      <3> HIDE DEF P, Q, D
      <3> QED
        BY <3>1, <3>3
    <2> QED
      BY <2>1, <2>2
  <1>4. IsFiniteSet(P) /\ Size(f) \in Nat /\ Size(g) \in Nat /\ IsFiniteSet(Q)
    BY PlacesFinite
  <1>5. IsFiniteSet(D) /\ n \in Nat /\ (n = 0 <=> D = {})
    <2>1. D \in SUBSET P
      OBVIOUS
    <2>2. IsFiniteSet(D)
      <3> HIDE DEF D
      <3> QED
        BY <1>4, <2>1, FS_Subset
    <2> QED
      BY <2>2, FS_CardinalityType, FS_EmptySet
  <1>6. Size(f) = n + Size(g)
    <2>1. P = D \cup Q /\ D \cap Q = {}
      BY <1>3
    <2>2. Cardinality(D \cup Q) = Cardinality(D) + Cardinality(Q) - Cardinality(D \cap Q)
      <3> HIDE DEF D, Q
      <3> QED
        BY <1>4, <1>5, FS_Union
    <2>3. Cardinality(D \cap Q) = 0
      BY <2>1, FS_EmptySet
    <2>4. Cardinality(P) = Size(f) /\ Cardinality(Q) = Size(g)
      BY DEF Size
    <2> HIDE DEF D, P, Q
    <2>5. Cardinality(P) = Cardinality(D) + Cardinality(Q) - 0
      BY <2>1, <2>2, <2>3
    <2> QED
      BY <1>4, <1>5, <2>4, <2>5
  <1>7. ASSUME NEW p \in Q PROVE p \in P /\ Position(f, p) = n + Position(g, p)
    <2> DEFINE A == {q \in P : NoLater(q, p)}
               B == {q \in Q : NoLater(q, p)}
    <2>1. \A q \in D : NoLater(q, p)
      <3>0. p \in P /\ p \notin D
        BY <1>3
      <3>1. p[1] \in Slots /\ p[1] # KeepFiles
        BY <3>0, PlacesAre
      <3>2. KeepFiles > p[1]
        <4>1. p[1] \in Nat /\ p[1] <= KeepFiles
          BY <1>1, <3>1
        <4> HIDE DEF P, Q, D, n, A, B
        <4> QED
          BY <1>1, <3>1, <4>1
      <3>3. TAKE q \in D
      <3>4. q[1] = KeepFiles
        OBVIOUS
      <3> HIDE DEF D, P, Q
      <3> QED
        BY <3>2, <3>4 DEF NoLater
    <2>2. A = D \cup B /\ D \cap B = {}
      BY <1>3, <2>1
    <2>3. B \in SUBSET Q
      OBVIOUS
    <2>4. IsFiniteSet(B)
      <3> HIDE DEF B
      <3> QED
        BY <1>4, <2>3, FS_Subset
    <2>5. Cardinality(D \cup B) = Cardinality(D) + Cardinality(B) - Cardinality(D \cap B)
      <3> HIDE DEF D, B
      <3> QED
        BY <1>5, <2>4, FS_Union
    <2>6. Cardinality(D \cap B) = 0 /\ Cardinality(B) \in Nat
      BY <2>2, <2>4, FS_EmptySet, FS_CardinalityType
    <2>7. Cardinality(A) = n + Cardinality(B)
      <3> HIDE DEF A, B, D
      <3> QED
        BY <1>5, <2>2, <2>5, <2>6
    <2> QED
      BY <1>3, <2>7 DEF Position
  <1>8. ASSUME NEW k \in 1..(Size(f) - n) PROVE TrailOf(g)[k] = TrailOf(f)[k + n]
    <2>1. k \in 1..Size(g)
      BY <1>4, <1>5, <1>6
    <2>2. PICK p \in Q : Position(g, p) = k
      BY <2>1, TrailIs
    <2>3. TrailOf(g)[k] = g[p[1]][p[2]]
      BY <2>2, TrailIs
    <2>4. p \in P /\ Position(f, p) = k + n
      <3>1. p \in P /\ Position(f, p) = n + Position(g, p)
        BY <1>7
      <3> HIDE DEF n
      <3> QED
        BY <1>4, <1>5, <2>1, <2>2, <3>1
    <2>5. TrailOf(f)[k + n] = f[p[1]][p[2]]
      BY <2>4, TrailIs
    <2>6. p[1] \in Slots /\ p[1] # KeepFiles
      BY <1>3, PlacesAre
    <2> QED
      BY <1>2, <2>3, <2>5, <2>6
  <1>9. D = {} <=> HashesIn(f[KeepFiles]) = {}
    <2>1. \A a \in HashesIn(f[KeepFiles]) : <<KeepFiles, a>> \in D
      BY <1>1, PlacesAre
    <2>2. \A p \in D : p[2] \in HashesIn(f[KeepFiles])
      BY PlacesAre
    <2> QED
      BY <2>1, <2>2
  <1>10. n \in 0..Size(f) /\ Size(g) = Size(f) - n
    BY <1>4, <1>5, <1>6
  <1> HIDE DEF n
  <1> QED
    BY <1>5, <1>8, <1>9, <1>10

-----------------------------------------------------------------------------
(* Where a place stands: behind the records of the older files and the     *)
(* lines before it in its own.                                             *)

OlderPlaces(f, i) == {q \in RecordPlaces(f) : q[1] > i}
Older(f, i) == Cardinality(OlderPlaces(f, i))

LEMMA OlderIs ==
    ASSUME NEW f \in AllFiles, NEW i
    PROVE  IsFiniteSet(OlderPlaces(f, i)) /\ Older(f, i) \in Nat /\ Older(f, i) <= Size(f)
  <1>1. OlderPlaces(f, i) \in SUBSET RecordPlaces(f)
    BY DEF OlderPlaces
  <1>2. IsFiniteSet(OlderPlaces(f, i)) /\ Cardinality(OlderPlaces(f, i)) <= Size(f)
    BY <1>1, PlacesFinite, FS_Subset DEF Size
  <1> QED
    BY <1>2, FS_CardinalityType DEF Older

LEMMA HashesFinite ==
    ASSUME NEW f \in AllFiles, NEW i \in Slots
    PROVE  IsFiniteSet(HashesIn(f[i])) /\ Cardinality(HashesIn(f[i])) \in Nat
  <1>1. HashesIn(f[i]) \in SUBSET (1..Len(f[i])) /\ Len(f[i]) \in Int
    <2>1. f[i] \in Seq(Line)
      BY DEF AllFiles
    <2> HIDE DEF Line
    <2> QED
      BY <2>1 DEF HashesIn
  <1>2. IsFiniteSet(1..Len(f[i]))
    BY <1>1, FS_Interval
  <1>3. IsFiniteSet(HashesIn(f[i]))
    BY <1>1, <1>2, FS_Subset
  <1> QED
    BY <1>3, FS_CardinalityType

\* A set of lines makes as many places.
LEMMA LinesCount ==
    ASSUME NEW i, NEW S, IsFiniteSet(S)
    PROVE  IsFiniteSet({i} \X S) /\ Cardinality({i} \X S) = Cardinality(S)
  <1> DEFINE T == {i} \X S
             h == [a \in S |-> <<i, a>>]
  <1>1. h \in [S -> T]
    OBVIOUS
  <1>2. \A a, b \in S : h[a] = h[b] => a = b
    OBVIOUS
  <1>3. \A q \in T : \E a \in S : h[a] = q
    OBVIOUS
  <1> HIDE DEF h, T
  <1>4. h \in Bijection(S, T)
    BY <1>1, <1>2, <1>3 DEF Bijection, Injection, Surjection, IsInjective
  <1>5. ExistsBijection(S, T)
    BY <1>4 DEF ExistsBijection
  <1>6. Cardinality(T) = Cardinality(S)
    BY <1>5, FS_Bijection
  <1>7. IsFiniteSet(T)
    <2>1. IsFiniteSet({i})
      BY FS_Singleton
    <2> QED
      BY <2>1, FS_Product DEF T
  <1> QED
    BY <1>6, <1>7 DEF T

LEMMA DisjointCount ==
    ASSUME NEW S, NEW T, IsFiniteSet(S), IsFiniteSet(T), S \cap T = {}
    PROVE  IsFiniteSet(S \cup T) /\ Cardinality(S \cup T) = Cardinality(S) + Cardinality(T)
  <1>1. IsFiniteSet(S \cup T) /\ Cardinality(S \cup T) = Cardinality(S) + Cardinality(T) - Cardinality(S \cap T)
    BY FS_Union
  <1>2. Cardinality(S \cap T) = 0 /\ Cardinality(S) \in Nat /\ Cardinality(T) \in Nat
    BY FS_EmptySet, FS_CardinalityType
  <1> QED
    BY <1>1, <1>2

LEMMA OlderPosition ==
    ASSUME NEW f \in AllFiles, NEW i \in Slots, NEW a \in HashesIn(f[i])
    PROVE  /\ <<i, a>> \in RecordPlaces(f)
           /\ Position(f, <<i, a>>) = Older(f, i) + Ordinal(f[i], a)
           /\ Position(f, <<i, a>>) \in 1..Size(f)
           /\ TrailOf(f)[Position(f, <<i, a>>)] = f[i][a]
  <1> DEFINE p == <<i, a>>
             S == {b \in HashesIn(f[i]) : b <= a}
             L == {i} \X S
             U == {q \in RecordPlaces(f) : NoLater(q, p)}
  <1>1. p \in RecordPlaces(f) /\ p[1] = i /\ p[2] = a
    BY PlacesAre
  <1>2. Position(f, p) \in 1..Size(f) /\ TrailOf(f)[Position(f, p)] = f[i][a]
    <2> HIDE DEF p
    <2> QED
      BY <1>1, TrailIs
  <1>3. IsFiniteSet(S) /\ IsFiniteSet(L) /\ Cardinality(L) = Cardinality(S)
    <2>1. S \in SUBSET HashesIn(f[i])
      OBVIOUS
    <2>2. IsFiniteSet(S)
      <3> HIDE DEF S
      <3> QED
        BY <2>1, HashesFinite, FS_Subset
    <2> HIDE DEF S
    <2> QED
      BY <2>2, LinesCount
  <1>4. U = OlderPlaces(f, i) \cup L
    <2>1. ASSUME NEW q \in U PROVE q \in OlderPlaces(f, i) \cup L
      <3>1. /\ q \in RecordPlaces(f) /\ q[1] \in Slots /\ q[2] \in HashesIn(f[q[1]])
            /\ q = <<q[1], q[2]>> /\ (q[1] > i \/ (q[1] = i /\ q[2] <= a))
        BY PlacesAre DEF NoLater
      <3>2. CASE q[1] > i
        BY <3>1, <3>2 DEF OlderPlaces
      <3>3. CASE q[1] = i /\ q[2] <= a
        <4>1. q[2] \in S
          BY <3>1, <3>3
        <4>2. <<q[1], q[2]>> \in L
          BY <3>3, <4>1
        <4> HIDE DEF L
        <4> QED
          BY <3>1, <4>2
      <3> QED
        BY <3>1, <3>2, <3>3
    <2>2. ASSUME NEW q \in L PROVE q \in U
      BY PlacesAre DEF NoLater
    <2>3. ASSUME NEW q \in OlderPlaces(f, i) PROVE q \in U
      BY DEF NoLater, OlderPlaces
    <2> HIDE DEF U, L
    <2> QED
      BY <2>1, <2>2, <2>3
  <1>5. OlderPlaces(f, i) \cap L = {}
    <2>1. i \in Nat
      BY Constants DEF Slots
    <2>2. ASSUME NEW q \in OlderPlaces(f, i), q \in L PROVE FALSE
      BY <2>1, <2>2 DEF OlderPlaces
    <2> HIDE DEF L
    <2> QED
      BY <2>2
  <1>6. Cardinality(U) = Older(f, i) + Cardinality(S)
    <2> HIDE DEF U, L, S
    <2> QED
      BY <1>3, <1>4, <1>5, OlderIs, DisjointCount DEF Older
  <1> QED
    BY <1>1, <1>2, <1>6 DEF Position, Ordinal

\* The records that one file adds.
LEMMA OlderNext ==
    ASSUME NEW f \in AllFiles, NEW i \in Slots, NEW j \in Slots, j < i,
           \A k \in Slots : j < k /\ k < i => HashesIn(f[k]) = {}
    PROVE  Older(f, j) = Older(f, i) + Cardinality(HashesIn(f[i]))
  <1> DEFINE L == {i} \X HashesIn(f[i])
  <1>1. OlderPlaces(f, j) = OlderPlaces(f, i) \cup L
    <2>1. i \in Nat /\ j \in Nat
      BY Constants DEF Slots
    <2>2. ASSUME NEW q \in OlderPlaces(f, j) PROVE q \in OlderPlaces(f, i) \cup L
      <3>1. /\ q \in RecordPlaces(f) /\ q[1] \in Slots /\ q[1] \in Nat /\ q[2] \in HashesIn(f[q[1]])
            /\ q = <<q[1], q[2]>> /\ q[1] > j
        BY PlacesAre DEF OlderPlaces
      <3>2. q[1] > i \/ q[1] = i
        BY <2>1, <3>1
      <3>3. CASE q[1] = i
        <4>1. <<q[1], q[2]>> \in L
          BY <3>1, <3>3
        <4> HIDE DEF L
        <4> QED
          BY <3>1, <4>1
      <3> QED
        BY <3>1, <3>2, <3>3 DEF OlderPlaces
    <2>3. ASSUME NEW q \in L PROVE q \in OlderPlaces(f, j)
      BY PlacesAre DEF OlderPlaces
    <2>4. ASSUME NEW q \in OlderPlaces(f, i) PROVE q \in OlderPlaces(f, j)
      <3>1. q \in RecordPlaces(f) /\ q[1] \in Nat /\ q[1] > i
        BY PlacesAre DEF OlderPlaces
      <3>2. q[1] > j
        BY <2>1, <3>1
      <3> QED
        BY <3>1, <3>2 DEF OlderPlaces
    <2> HIDE DEF L
    <2> QED
      BY <2>2, <2>3, <2>4
  <1>2. OlderPlaces(f, i) \cap L = {}
    <2>1. i \in Nat
      BY Constants DEF Slots
    <2>2. ASSUME NEW q \in OlderPlaces(f, i), q \in L PROVE FALSE
      BY <2>1, <2>2 DEF OlderPlaces
    <2> HIDE DEF L
    <2> QED
      BY <2>2
  <1>3. IsFiniteSet(L) /\ Cardinality(L) = Cardinality(HashesIn(f[i]))
    BY HashesFinite, LinesCount
  <1> HIDE DEF L
  <1> QED
    BY <1>1, <1>2, <1>3, OlderIs, DisjointCount DEF Older

\* The oldest file starts the trail.
LEMMA OlderStart ==
    ASSUME NEW f \in AllFiles, NEW i \in Slots, \A k \in Slots : k > i => HashesIn(f[k]) = {}
    PROVE  Older(f, i) = 0
  <1>1. OlderPlaces(f, i) = {}
    BY PlacesAre DEF OlderPlaces
  <1> QED
    BY <1>1, FS_EmptySet DEF Older

\* Lines that are added to the active file: what was there stays where it is.
Grown(f, l) == [f EXCEPT ![0] = Extended(f[0], l)]
LEMMA ExtendedTrail ==
    ASSUME NEW f \in AllFiles, NEW l \in Line, NEW g, g = Grown(f, l)
    PROVE  /\ g \in AllFiles /\ g[0] # <<>> /\ \A i \in Slots \ {0} : g[i] = f[i]
           /\ RecordPlaces(f) \subseteq RecordPlaces(g)
           /\ \A p \in RecordPlaces(f) : g[p[1]][p[2]] = f[p[1]][p[2]] /\ Position(g, p) = Position(f, p)
           /\ \A q \in RecordPlaces(g) \ RecordPlaces(f) : Position(g, q) > Size(f)
           /\ \A i \in Slots : Older(g, i) = Older(f, i)
           /\ Size(f) <= Size(g)
           /\ \A n \in 1..Size(f) : TrailOf(g)[n] = TrailOf(f)[n]
  <1>1. f[0] \in Seq(Line) /\ 0 \in Slots /\ Slots \subseteq Nat
    BY Constants DEF AllFiles, Slots
  <1> DEFINE e == Extended(f[0], l)
             N == Len(f[0])
  <1>2. e \in Seq(Line) /\ N \in Nat /\ DOMAIN f[0] = 1..N
    <2>1. e \in Seq(Line)
      BY <1>1, ExtendedType
    <2> HIDE DEF Line, e
    <2> QED
      BY <1>1, <2>1
  <1>3. g \in AllFiles /\ g[0] = e /\ \A i \in Slots \ {0} : g[i] = f[i]
    <2> HIDE DEF e
    <2> QED
      BY <1>1, <1>2 DEF AllFiles, Grown, e
  <1>4. e # <<>>
    <2> HIDE DEF Line
    <2> QED
      BY <1>1 DEF Extended
  <1> HIDE DEF e
  <1>5. \A a \in HashesIn(f[0]) : a \in HashesIn(e) /\ e[a] = f[0][a]
    BY <1>1, ExtendedKeeps DEF e
  <1>6. \A a \in HashesIn(e) : a \in HashesIn(f[0]) \/ a = N + 1
    BY <1>1, ExtendedHashes DEF e
  <1>7. RecordPlaces(f) \subseteq RecordPlaces(g) /\ \A p \in RecordPlaces(f) : g[p[1]][p[2]] = f[p[1]][p[2]]
    <2> SUFFICES ASSUME NEW p \in RecordPlaces(f) PROVE p \in RecordPlaces(g) /\ g[p[1]][p[2]] = f[p[1]][p[2]]
      OBVIOUS
    <2>1. p[1] \in Slots /\ p[2] \in HashesIn(f[p[1]]) /\ p = <<p[1], p[2]>>
      BY PlacesAre
    <2>2. p[2] \in HashesIn(g[p[1]]) /\ g[p[1]][p[2]] = f[p[1]][p[2]]
      BY <1>3, <1>5, <2>1
    <2>3. <<p[1], p[2]>> \in RecordPlaces(g)
      BY <1>3, <2>1, <2>2, PlacesAre
    <2> QED
      BY <2>1, <2>2, <2>3
  <1>8. ASSUME NEW q \in RecordPlaces(g) \ RecordPlaces(f) PROVE q[1] = 0 /\ q[2] = N + 1
    <2>1. q[1] \in Slots /\ q[2] \in HashesIn(g[q[1]]) /\ q = <<q[1], q[2]>>
      BY <1>3, PlacesAre
    <2>2. q[2] \notin HashesIn(f[q[1]])
      <3>1. q[2] \in HashesIn(f[q[1]]) => <<q[1], q[2]>> \in RecordPlaces(f)
        BY <2>1, PlacesAre
      <3> QED
        BY <2>1, <3>1
    <2> QED
      BY <1>3, <1>6, <2>1, <2>2
  <1>9. ASSUME NEW p \in RecordPlaces(f), NEW q \in RecordPlaces(g) \ RecordPlaces(f)
        PROVE  ~NoLater(q, p) /\ NoLater(p, q)
    <2>1. p[1] \in Slots /\ p[2] \in HashesIn(f[p[1]]) /\ p[1] \in Nat /\ p[2] \in Nat
      BY PlacesAre
    <2>2. p[1] = 0 => p[2] <= N
      BY <1>2, <2>1 DEF HashesIn
    <2>3. q[1] = 0 /\ q[2] = N + 1
      BY <1>8
    <2> QED
      BY <1>2, <2>1, <2>2, <2>3 DEF NoLater
  <1>10. \A p \in RecordPlaces(f) : Position(g, p) = Position(f, p)
    BY <1>3, <1>7, <1>9, LaterPlaces
  <1>11. ASSUME NEW i \in Slots PROVE Older(g, i) = Older(f, i)
    <2>1. OlderPlaces(g, i) = OlderPlaces(f, i)
      <3>1. ASSUME NEW q \in RecordPlaces(g) \ RecordPlaces(f) PROVE ~(q[1] > i)
        <4>1. q[1] = 0 /\ i \in Nat
          BY <1>1, <1>8
        <4> QED
          BY <4>1
      <3> QED
        BY <1>7, <3>1 DEF OlderPlaces
    <2> QED
      BY <2>1 DEF Older
  <1>12. Size(f) <= Size(g)
    <2>1. RecordPlaces(f) \in SUBSET RecordPlaces(g) /\ IsFiniteSet(RecordPlaces(g))
      BY <1>3, <1>7, PlacesFinite
    <2> QED
      BY <2>1, FS_Subset DEF Size
  <1>13. ASSUME NEW q \in RecordPlaces(g) \ RecordPlaces(f) PROVE Position(g, q) > Size(f)
    <2>1. RecordPlaces(f) \cup {q} \in SUBSET {r \in RecordPlaces(g) : NoLater(r, q)}
      <3>1. q[1] \in Nat /\ q[2] \in Nat
        BY <1>3, PlacesAre
      <3>2. NoLater(q, q)
        BY <3>1 DEF NoLater
      <3> QED
        BY <1>7, <1>9, <3>2
    <2>2. IsFiniteSet({r \in RecordPlaces(g) : NoLater(r, q)})
      <3>1. {r \in RecordPlaces(g) : NoLater(r, q)} \in SUBSET RecordPlaces(g)
        OBVIOUS
      <3> QED
        BY <1>3, <3>1, PlacesFinite, FS_Subset
    <2>3. Cardinality(RecordPlaces(f) \cup {q}) = Size(f) + 1
      BY PlacesFinite, FS_AddElement DEF Size
    <2>4. Size(f) + 1 <= Position(g, q)
      BY <2>1, <2>2, <2>3, FS_Subset DEF Position
    <2>5. Size(f) \in Nat /\ Position(g, q) \in Nat
      BY <1>3, PlacesFinite, PositionRange
    <2> QED
      BY <2>4, <2>5
  <1>14. ASSUME NEW n \in 1..Size(f) PROVE TrailOf(g)[n] = TrailOf(f)[n]
    <2>1. PICK p \in RecordPlaces(f) : Position(f, p) = n
      BY TrailIs
    <2>2. TrailOf(f)[n] = f[p[1]][p[2]]
      BY <2>1, TrailIs
    <2>3. p \in RecordPlaces(g) /\ Position(g, p) = n
      BY <1>7, <1>10, <2>1
    <2>4. TrailOf(g)[n] = g[p[1]][p[2]]
      BY <1>3, <2>3, TrailIs
    <2> QED
      BY <1>7, <2>1, <2>2, <2>4
  <1> QED
    BY <1>3, <1>4, <1>7, <1>10, <1>11, <1>12, <1>13, <1>14

\* A whole record that is added is the last of the trail.
LEMMA AppendedTrail ==
    ASSUME NEW f \in AllFiles, Whole(f), NEW r \in Record, NEW g, g = Grown(f, r)
    PROVE  TrailOf(g) = Append(TrailOf(f), r)
  <1>1. /\ 0 \in Slots /\ f[0] \in Seq(Line) /\ r \in Line /\ Slots \subseteq Nat
    BY Constants DEF AllFiles, Slots
  <1>2. /\ g \in AllFiles /\ \A i \in Slots \ {0} : g[i] = f[i]
        /\ RecordPlaces(f) \subseteq RecordPlaces(g)
        /\ \A p \in RecordPlaces(f) : g[p[1]][p[2]] = f[p[1]][p[2]]
    BY <1>1, ExtendedTrail
  <1>3. Extended(f[0], r) = Append(f[0], r)
    <2>1. f[0] # <<>> => Len(f[0]) \in DOMAIN f[0]
      BY <1>1
    <2> QED
      BY <1>1, <2>1, LinesAssumption DEF Extended, Whole
  <1> DEFINE n == Len(f[0])
             o == <<0, n + 1>>
  <1>4. g[0] = Append(f[0], r)
    BY <1>1, <1>3 DEF AllFiles, Grown
  <1>5. /\ n \in Nat /\ DOMAIN f[0] = 1..n /\ DOMAIN g[0] = 1..(n + 1) /\ g[0][n + 1] = r
    <2> HIDE DEF Line
    <2> QED
      BY <1>1, <1>4
  <1>6. HashesIn(f[0]) = 1..n /\ HashesIn(g[0]) = 1..(n + 1)
    <2>1. HashesIn(f[0]) = 1..n
      BY <1>1, <1>5 DEF HashesIn, Whole
    <2>2. \A a \in 1..(n + 1) : a \in 1..n \/ a = n + 1
      BY <1>5
    <2>3. \A a \in 1..n : g[0][a] \in Record
      <3>1. \A a \in 1..n : <<0, a>> \in RecordPlaces(f)
        BY <1>1, <2>1, PlacesAre
      <3>2. \A a \in 1..n : <<0, a>> \in RecordPlaces(g)
        BY <1>2, <3>1
      <3>3. \A p \in RecordPlaces(g) : g[p[1]][p[2]] \in Record
        BY <1>2, PlacesAre
      <3> QED
        BY <3>2, <3>3
    <2>4. g[0][n + 1] \in Record
      BY <1>5
    <2> HIDE DEF n
    <2>5. ASSUME NEW a \in 1..(n + 1) PROVE g[0][a] \in Record
      BY <2>2, <2>3, <2>4
    <2>6. HashesIn(g[0]) = 1..(n + 1)
      BY <1>5, <2>5 DEF HashesIn
    <2> QED
      BY <2>1, <2>6
  <1>7. o \in RecordPlaces(g) /\ o \notin RecordPlaces(f)
    <2>1. o \in RecordPlaces(g)
      <3>1. n + 1 \in HashesIn(g[0])
        BY <1>5, <1>6
      <3> HIDE DEF n
      <3> QED
        BY <1>1, <1>2, <3>1, PlacesAre
    <2>2. ASSUME o \in RecordPlaces(f) PROVE FALSE
      <3>1. o[2] \in HashesIn(f[o[1]]) /\ o[1] = 0 /\ o[2] = n + 1
        BY <2>2, PlacesAre
      <3> HIDE DEF n, o
      <3> QED
        BY <1>5, <1>6, <3>1 DEF n
    <2> QED
      BY <2>1, <2>2
  <1>8. RecordPlaces(g) = RecordPlaces(f) \cup {o}
    <2>1. ASSUME NEW q \in RecordPlaces(g), q # o PROVE q \in RecordPlaces(f)
      <3>1. q[1] \in Slots /\ q[2] \in HashesIn(g[q[1]]) /\ q = <<q[1], q[2]>>
        BY <1>2, PlacesAre
      <3>2. q[2] \in HashesIn(f[q[1]])
        <4>1. CASE q[1] = 0
          <5>1. q[2] # n + 1
            BY <2>1, <3>1, <4>1
          <5> HIDE DEF n, o
          <5> QED
            BY <1>5, <1>6, <3>1, <4>1, <5>1
        <4>2. CASE q[1] # 0
          BY <1>2, <3>1, <4>2
        <4> QED
          BY <4>1, <4>2
      <3>3. <<q[1], q[2]>> \in RecordPlaces(f)
        BY <3>1, <3>2, PlacesAre
      <3> QED
        BY <3>1, <3>3
    <2> HIDE DEF o
    <2> QED
      BY <1>2, <1>7, <2>1
  <1>9. ASSUME NEW p \in RecordPlaces(f) PROVE ~NoLater(o, p) /\ NoLater(p, o)
    <2>1. p[1] \in Slots /\ p[2] \in HashesIn(f[p[1]]) /\ p[1] \in Nat /\ p[2] \in Nat
      BY PlacesAre
    <2>2. p[1] = 0 => p[2] <= n
      BY <1>5, <1>6, <2>1
    <2>3. o[1] = 0 /\ o[2] = n + 1
      OBVIOUS
    <2> HIDE DEF n, o
    <2> QED
      BY <1>5, <2>1, <2>2, <2>3 DEF NoLater
  <1>10. g[o[1]][o[2]] = r
    BY <1>5
  <1> HIDE DEF o, n
  <1>11. TrailOf(g) = Append(TrailOf(f), g[o[1]][o[2]])
    BY <1>2, <1>7, <1>8, <1>9, LongerTrail
  <1> QED
    BY <1>10, <1>11

-----------------------------------------------------------------------------
(* The end of the trail.                                                   *)

HeadOf(t) == IF t = <<>> THEN Genesis ELSE t[Len(t)].id
NoFiles(f) == \A i \in Slots : f[i] = <<>>

LEMMA EmptyTrail ==
    ASSUME NEW f \in AllFiles, NoFiles(f)
    PROVE  TrailOf(f) = <<>>
  <1>1. \A i \in Slots : HashesIn(f[i]) = {}
    BY DEF NoFiles, HashesIn
  <1>2. RecordPlaces(f) = {}
    BY <1>1, PlacesAre
  <1>3. Size(f) = 0
    BY <1>2, FS_EmptySet DEF Size
  <1>4. TrailOf(f) \in Seq(Record) /\ Len(TrailOf(f)) = 0
    BY <1>3, TrailIs
  <1> QED
    BY <1>4, EmptySeq

LEMMA SomeNewest ==
    ASSUME NEW f \in AllFiles, ~NoFiles(f)
    PROVE  \E i \in Slots : Newest(f, i)
  <1> DEFINE S == {i \in Slots : f[i] # <<>>}
  <1>1. S \subseteq Nat /\ S # {}
    BY Constants DEF NoFiles, Slots
  <1>2. PICK i \in S : \A j \in S : ~(<<j, i>> \in OpToRel(<, Nat))
    BY <1>1, NatLessThanWellFounded, WFMin
  <1>3. \A j \in S : ~(j < i)
    BY <1>1, <1>2 DEF OpToRel
  <1> QED
    BY <1>3 DEF Newest

LEMMA NewestEndsTrail ==
    ASSUME NEW f \in AllFiles, Whole(f), NEW i \in Slots, Newest(f, i)
    PROVE  Size(f) > 0 /\ TrailOf(f)[Size(f)] = f[i][Len(f[i])]
  <1> DEFINE n == Len(f[i])
             p == <<i, n>>
  <1>1. f[i] \in Seq(Line) /\ f[i] # <<>> /\ i \in Nat /\ Slots \subseteq Nat
    BY Constants DEF AllFiles, Newest, Slots
  <1>2. n \in Nat /\ n > 0 /\ DOMAIN f[i] = 1..n
    <2> HIDE DEF Line
    <2> QED
      BY <1>1
  <1>3. HashesIn(f[i]) = 1..n
    <2> HIDE DEF n
    <2> QED
      BY <1>2 DEF HashesIn, Whole
  <1>4. p \in RecordPlaces(f)
    <2>1. n \in HashesIn(f[i])
      BY <1>2, <1>3
    <2> HIDE DEF n
    <2> QED
      BY <2>1, PlacesAre
  <1>5. ASSUME NEW q \in RecordPlaces(f) PROVE NoLater(q, p)
    <2>1. q[1] \in Slots /\ q[2] \in HashesIn(f[q[1]]) /\ q[1] \in Nat /\ q[2] \in Nat
      BY PlacesAre
    <2>2. f[q[1]] # <<>>
      BY <2>1 DEF HashesIn
    <2>3. ~(q[1] < i)
      BY <2>1, <2>2 DEF Newest
    <2>4. q[1] = i => q[2] <= n
      BY <1>2, <1>3, <2>1
    <2>5. p[1] = i /\ p[2] = n
      OBVIOUS
    <2> HIDE DEF p, n
    <2> QED
      BY <1>1, <2>1, <2>3, <2>4, <2>5 DEF NoLater
  <1>6. Position(f, p) = Size(f)
    <2>1. {q \in RecordPlaces(f) : NoLater(q, p)} = RecordPlaces(f)
      BY <1>5
    <2> QED
      BY <2>1 DEF Position, Size
  <1>7. Position(f, p) \in 1..Size(f) /\ TrailOf(f)[Position(f, p)] = f[p[1]][p[2]] /\ Size(f) \in Nat
    <2> HIDE DEF p
    <2> QED
      BY <1>4, TrailIs
  <1>8. p[1] = i /\ p[2] = n
    OBVIOUS
  <1> HIDE DEF p
  <1> QED
    BY <1>6, <1>7, <1>8

\* What the scan of the files finds is the hash of the last record of the trail.
LEMMA HeadIs ==
    ASSUME NEW f \in AllFiles, Whole(f), NEW h, EndsIn(f, h), NoFiles(f) => h = Genesis
    PROVE  HeadOf(TrailOf(f)) = h
  <1>1. CASE NoFiles(f)
    BY <1>1, EmptyTrail DEF HeadOf
  <1>2. CASE ~NoFiles(f)
    <2>1. PICK i \in Slots : Newest(f, i)
      BY <1>2, SomeNewest
    <2>2. Size(f) > 0 /\ TrailOf(f)[Size(f)] = f[i][Len(f[i])]
      BY <2>1, NewestEndsTrail
    <2>3. Len(TrailOf(f)) = Size(f) /\ Size(f) \in Nat /\ TrailOf(f) \in Seq(Record)
      BY TrailIs
    <2>4. TrailOf(f) # <<>>
      BY <2>2, <2>3, EmptySeq
    <2>5. Last(f, i) = h
      BY <2>1 DEF EndsIn
    <2> QED
      BY <2>2, <2>3, <2>4, <2>5 DEF HeadOf, Last
  <1> QED
    BY <1>1, <1>2

-----------------------------------------------------------------------------
(* What one write at a time has in its hand.                               *)

Holds(s, f, next) ==
    /\ s.pc \in {"loaded", "append"} /\ NoFiles(f) => s.rec.prev = Genesis
    /\ s.pc = "append" => s.rec.id = next - 1 /\ s.rec.id > 0
    /\ s.pc = "appended" => ~NoFiles(f)
    /\ s.pc = "unlink" => f[0] # <<>>
HandParts ==
    /\ \A w \in Writers : Holds(writer[w], files, nextId)
    /\ loaded /\ NoFiles(files) /\ (\A w \in Writers : ~At(w, "shift")) => lastHash = Genesis
HandInv == Undisturbed({"race"}) => HandParts

\* It is enough to look at the write that takes the step.
LEMMA ItHolds ==
    ASSUME TypeInv, NEW w \in Writers, NEW s, Becomes(w, s), \A v \in Writers \ {w} : At(v, "idle"),
           Holds(s, files', nextId'),
           loaded' /\ NoFiles(files') /\ s.pc # "shift" => lastHash' = Genesis
    PROVE  HandParts'
  <1>1. writer'[w] = s
    BY DEF Becomes, TypeInv
  <1>2. \A v \in Writers \ {w} : writer'[v].pc = "idle"
    BY DEF Becomes, TypeInv, At
  <1>3. ASSUME NEW v \in Writers PROVE Holds(writer'[v], files', nextId')
    <2>1. CASE v = w
      BY <1>1, <2>1
    <2>2. CASE v # w
      BY <1>2, <2>2 DEF Holds
    <2> QED
      BY <2>1, <2>2
  <1>4. (\A v \in Writers : ~At(v, "shift"))' => s.pc # "shift"
    BY <1>1 DEF At
  <1> QED
    BY <1>3, <1>4 DEF HandParts

\* The cached hash is the one of the empty trail, unless a rotation is under way.
LEMMA EmptyCache ==
    ASSUME HandParts, NEW w \in Writers, \A v \in Writers \ {w} : At(v, "idle"), ~At(w, "shift")
    PROVE  loaded /\ NoFiles(files) => lastHash = Genesis
  BY DEF HandParts, At

LEMMA ExtendedIsThere ==
    ASSUME NEW lines \in Seq(Line), NEW l
    PROVE  Extended(lines, l) # <<>>
  <1> HIDE DEF Line
  <1>1. CASE lines # <<>> /\ lines[Len(lines)] = Open
    BY <1>1 DEF Extended
  <1>2. CASE ~(lines # <<>> /\ lines[Len(lines)] = Open)
    BY <1>2 DEF Extended
  <1> QED
    BY <1>1, <1>2

LEMMA StepsKeepHand ==
    ASSUME TypeInv, HandParts, NEW w \in Writers, Rotation(w) \/ Recovery(w) \/ Appending(w),
           \A v \in Writers \ {w} : At(v, "idle")
    PROVE  HandParts'
  <1>0. /\ Holds(writer[w], files, nextId) /\ nextId \in Nat /\ nextId > 0 /\ nextId' \in Nat
        /\ writer[w] \in WriterState
    <2>1. nextId' = nextId \/ nextId' = nextId + 1
      BY DEF Rotation, StatExists, Unlink, Shift, Rotated, Recovery, List, Scan, ScanEnds, Loaded,
             Appending, StatSize, Resume, AppendLine, TearLine, Finish, Build
    <2> QED
      BY <2>1, Constants DEF HandParts, TypeInv
  <1>1. CASE StatExists(w)
    <2> DEFINE s == Writer(IF files[0] = <<>> THEN "resume" ELSE "unlink", 0, {}, NoRec)
    <2>1. s.pc = "resume" \/ (s.pc = "unlink" /\ files[0] # <<>>)
      BY DEF Writer
    <2>2. Becomes(w, s) /\ At(w, "rotate") /\ UNCHANGED <<files, lastHash, loaded, nextId>>
      BY <1>1 DEF StatExists
    <2> HIDE DEF s
    <2>3. Holds(s, files', nextId')
      BY <2>1, <2>2 DEF Holds
    <2>4. loaded /\ NoFiles(files) => lastHash = Genesis
      BY <2>2, EmptyCache DEF At
    <2> QED
      BY <2>2, <2>3, <2>4, ItHolds
  <1>2. CASE Unlink(w) \/ Shift(w)
    <2>1. PICK i : Becomes(w, Writer("shift", i, {}, NoRec))
      BY <1>2 DEF Unlink, Shift
    <2> DEFINE s == Writer("shift", i, {}, NoRec)
    <2>2. s.pc = "shift"
      BY DEF Writer
    <2>3. Becomes(w, s)
      BY <2>1
    <2> HIDE DEF s
    <2>4. Holds(s, files', nextId')
      BY <2>2 DEF Holds
    <2> QED
      BY <2>2, <2>3, <2>4, ItHolds
  <1>3. CASE Rotated(w) \/ List(w)
    <2>1. PICK pc, todo : pc \in {"list", "scan"} /\ Becomes(w, Writer(pc, 0, todo, NoRec))
      BY <1>3 DEF Rotated, List
    <2> DEFINE s == Writer(pc, 0, todo, NoRec)
    <2>2. s.pc \in {"list", "scan"}
      BY <2>1 DEF Writer
    <2>3. Becomes(w, s)
      BY <2>1
    <2> HIDE DEF s
    <2>4. Holds(s, files', nextId')
      BY <2>2 DEF Holds
    <2>5. loaded' /\ NoFiles(files') => lastHash' = Genesis
      <3>1. CASE Rotated(w)
        BY <3>1 DEF Rotated
      <3>2. CASE List(w)
        BY <3>2, EmptyCache DEF List, At
      <3> QED
        BY <1>3, <3>1, <3>2
    <2> QED
      BY <2>3, <2>4, <2>5, ItHolds
  <1>4. CASE Scan(w) \/ ScanEnds(w)
    <2>1. At(w, "scan") /\ UNCHANGED <<files, lastHash, loaded, nextId>>
      BY <1>4 DEF Scan, ScanEnds
    <2>2. PICK s : Becomes(w, s) /\ (\/ s.pc = "loaded" /\ (NoFiles(files) => s.rec.prev = Genesis)
                                     \/ s.pc = "scan")
      <3>1. CASE ScanEnds(w)
        <4>1. Writer("loaded", 0, {}, NoRec).pc = "loaded" /\ Writer("loaded", 0, {}, NoRec).rec.prev = Genesis
          BY DEF Writer, NoRec, Rec, Genesis
        <4> QED
          BY <3>1, <4>1 DEF ScanEnds
      <3>2. CASE Scan(w)
        <4>1. PICK i \in writer[w].todo :
                 Becomes(w, IF HashesIn(files[i]) # {}
                            THEN Writer("loaded", 0, {}, Rec(0, TailHash(files[i])))
                            ELSE Writer("scan", 0, writer[w].todo \ {i}, NoRec))
          BY <3>2 DEF Scan
        <4>2. i \in Slots
          BY <1>0, <4>1 DEF WriterState
        <4>3. CASE HashesIn(files[i]) # {}
          <5>1. ~NoFiles(files)
            BY <4>2, <4>3 DEF NoFiles, HashesIn
          <5>2. Writer("loaded", 0, {}, Rec(0, TailHash(files[i]))).pc = "loaded"
            BY DEF Writer
          <5> QED
            BY <4>1, <4>3, <5>1, <5>2
        <4>4. CASE HashesIn(files[i]) = {}
          <5>1. Writer("scan", 0, writer[w].todo \ {i}, NoRec).pc = "scan"
            BY DEF Writer
          <5> QED
            BY <4>1, <4>4, <5>1
        <4> QED
          BY <4>3, <4>4
      <3> QED
        BY <1>4, <3>1, <3>2
    <2>3. Holds(s, files', nextId')
      BY <2>1, <2>2 DEF Holds
    <2>4. loaded /\ NoFiles(files) => lastHash = Genesis
      BY <2>1, EmptyCache DEF At
    <2> QED
      BY <2>1, <2>2, <2>3, <2>4, ItHolds
  <1>5. CASE Loaded(w)
    <2> DEFINE h == writer[w].rec.prev
               s == Writer("append", 0, {}, Rec(nextId, h))
    <2>1. s.pc = "append" /\ s.rec.prev = h /\ s.rec.id = nextId
      BY DEF Writer, Rec
    <2>2. Becomes(w, s) /\ files' = files /\ lastHash' = h /\ nextId' = nextId + 1 /\ At(w, "loaded")
      BY <1>5 DEF Loaded, Build
    <2>3. NoFiles(files) => h = Genesis
      BY <1>0, <2>2 DEF Holds, At
    <2> HIDE DEF s, h
    <2>4. Holds(s, files', nextId')
      BY <1>0, <2>1, <2>2, <2>3 DEF Holds
    <2> QED
      BY <2>2, <2>3, <2>4, ItHolds
  <1>6. CASE StatSize(w)
    <2> DEFINE s == Writer(IF Full THEN "rotate" ELSE "resume", 0, {}, NoRec)
    <2>1. s.pc \in {"rotate", "resume"}
      BY DEF Writer
    <2>2. Becomes(w, s) /\ At(w, "idle") /\ UNCHANGED <<files, lastHash, loaded, nextId>>
      BY <1>6 DEF StatSize
    <2> HIDE DEF s
    <2>3. Holds(s, files', nextId')
      BY <2>1 DEF Holds
    <2>4. loaded /\ NoFiles(files) => lastHash = Genesis
      BY <2>2, EmptyCache DEF At
    <2> QED
      BY <2>2, <2>3, <2>4, ItHolds
  <1>7. CASE Resume(w)
    <2>1. At(w, "resume") /\ UNCHANGED <<files, lastHash, loaded>>
      BY <1>7 DEF Resume
    <2>2. loaded /\ NoFiles(files) => lastHash = Genesis
      BY <2>1, EmptyCache DEF At
    <2>3. CASE loaded /\ Build(w, lastHash)
      <3> DEFINE s == Writer("append", 0, {}, Rec(nextId, lastHash))
      <3>1. s.pc = "append" /\ s.rec.prev = lastHash /\ s.rec.id = nextId
        BY DEF Writer, Rec
      <3>2. Becomes(w, s) /\ nextId' = nextId + 1
        BY <2>3 DEF Build
      <3> HIDE DEF s
      <3>3. Holds(s, files', nextId')
        BY <1>0, <2>1, <2>2, <2>3, <3>1, <3>2 DEF Holds
      <3> QED
        BY <2>1, <2>2, <3>2, <3>3, ItHolds
    <2>4. CASE ~loaded /\ Becomes(w, Writer("list", 0, {}, NoRec))
      <3> DEFINE s == Writer("list", 0, {}, NoRec)
      <3>1. s.pc = "list"
        BY DEF Writer
      <3>2. Becomes(w, s)
        BY <2>4
      <3> HIDE DEF s
      <3>3. Holds(s, files', nextId')
        BY <3>1 DEF Holds
      <3> QED
        BY <2>1, <2>2, <3>2, <3>3, ItHolds
    <2> QED
      BY <1>7, <2>3, <2>4 DEF Resume
  <1>8. CASE AppendLine(w) \/ TearLine(w)
    <2>1. PICK l \in Line : files' = [files EXCEPT ![0] = Extended(files[0], l)]
      BY <1>0, <1>8, Constants DEF AppendLine, TearLine, WriterState
    <2>2. ~NoFiles(files')
      <3>1. files'[0] = Extended(files[0], l) /\ 0 \in Slots
        BY <2>1, Constants DEF TypeInv
      <3>2. files[0] \in Seq(Line)
        BY <3>1 DEF TypeInv
      <3>3. Extended(files[0], l) # <<>>
        BY <3>2, ExtendedIsThere
      <3> QED
        BY <3>1, <3>3 DEF NoFiles
    <2>3. PICK s : Becomes(w, s) /\ s.pc \in {"idle", "appended"}
      <3>1. Idle.pc = "idle" /\ Writer("appended", 0, {}, writer[w].rec).pc = "appended"
        BY DEF Idle, Writer
      <3> QED
        BY <1>8, <3>1 DEF AppendLine, TearLine
    <2>4. Holds(s, files', nextId')
      BY <2>2, <2>3 DEF Holds
    <2> QED
      BY <2>2, <2>3, <2>4, ItHolds
  <1>9. CASE Finish(w)
    <2>1. Idle.pc = "idle"
      BY DEF Idle, Writer
    <2>2. Becomes(w, Idle) /\ files' = files /\ At(w, "appended")
      BY <1>9 DEF Finish
    <2>3. ~NoFiles(files)
      BY <1>0, <2>2 DEF Holds, At
    <2>4. Holds(Idle, files', nextId')
      BY <2>1 DEF Holds
    <2> QED
      BY <2>2, <2>3, <2>4, ItHolds
  <1> QED
    BY <1>1, <1>2, <1>3, <1>4, <1>5, <1>6, <1>7, <1>8, <1>9 DEF Rotation, Recovery, Appending

LEMMA HandSteps == TypeInv /\ AloneInv /\ HandInv /\ [Next]_vars => HandInv'
  <1> SUFFICES ASSUME TypeInv, AloneInv, HandInv, [Next]_vars, Undisturbed({"race"})'
               PROVE  HandParts'
    BY DEF HandInv
  <1>1. HandParts
    BY StillUndisturbed DEF HandInv
  <1>2. CASE UNCHANGED vars
    BY <1>1, <1>2 DEF vars, HandParts, At
  <1>3. CASE Restart
    <2>1. loaded' = FALSE /\ \A w \in Writers : writer'[w] = Idle
      BY <1>3 DEF Restart
    <2>2. Idle.pc = "idle"
      BY DEF Idle, Writer
    <2>3. \A w \in Writers : Holds(writer'[w], files', nextId')
      BY <2>1, <2>2 DEF Holds
    <2> QED
      BY <2>1, <2>3 DEF HandParts
  <1>4. ASSUME NEW w \in Writers, Rotation(w) \/ Recovery(w) \/ Appending(w) PROVE HandParts'
    <2>1. \A v \in Writers \ {w} : At(v, "idle")
      BY <1>4, StepsAlone
    <2> QED
      BY <1>1, <1>4, <2>1, StepsKeepHand
  <1> QED
    BY <1>2, <1>3, <1>4 DEF Next

LEMMA HandStarts == Init => HandInv
  <1> SUFFICES ASSUME Init PROVE HandParts
    BY DEF HandInv
  <1>1. ~loaded /\ \A w \in Writers : writer[w] = Idle
    BY DEF Init
  <1>2. Idle.pc = "idle"
    BY DEF Idle, Writer
  <1>3. \A w \in Writers : Holds(writer[w], files, nextId)
    BY <1>1, <1>2 DEF Holds
  <1> QED
    BY <1>1, <1>3 DEF HandParts

-----------------------------------------------------------------------------
(* What a step makes of the trail.                                         *)

Calm == Undisturbed({"race", "torn"})

Longer(t, u) ==
    \E r \in Record :
        /\ r.prev = HeadOf(t) /\ r.id > 0
        /\ \A k \in 1..Len(t) : t[k].id < r.id
        /\ u = Append(t, r)
Shorter(t, u) ==
    \E n \in 1..Len(t) :
        /\ u = SubSeq(t, n + 1, Len(t))
        /\ KeepFiles > 0 => n < Len(t)

\* A chain of growing ids.
GoodTrail(t) ==
    /\ \A k \in 1..(Len(t) - 1) : t[k + 1].prev = t[k].id /\ t[k].id < t[k + 1].id
    /\ \A k \in 1..Len(t) : t[k].id > 0

LEMMA RecordIds == \A r \in Record : r.id \in Nat /\ r.prev \in Nat /\ r.id \in 0..MaxRecords
  BY Constants DEF Record

LEMMA LongerIsGood ==
    ASSUME NEW t \in Seq(Record), GoodTrail(t), NEW u, Longer(t, u)
    PROVE  GoodTrail(u) /\ u \in Seq(Record) /\ Len(u) = Len(t) + 1 /\ \A k \in 1..Len(t) : u[k] = t[k]
  <1>1. PICK r \in Record : /\ r.prev = HeadOf(t) /\ r.id > 0
                            /\ \A k \in 1..Len(t) : t[k].id < r.id
                            /\ u = Append(t, r)
    BY DEF Longer
  <1> DEFINE n == Len(t)
  <1>2. n \in Nat /\ (t = <<>> => n = 0)
    BY LenProperties
  <1>3. /\ u \in Seq(Record) /\ Len(u) = n + 1 /\ u[n + 1] = r
        /\ \A k \in 1..n : u[k] = t[k]
    BY <1>1, AppendProperties
  <1>4. n # 0 => r.prev = t[n].id
    <2>1. n # 0 => t # <<>>
      BY EmptySeq
    <2> QED
      BY <1>1, <2>1 DEF HeadOf
  <1> HIDE DEF n
  <1>5. \A k \in 1..n : t[k].id < r.id /\ t[k].id > 0
    BY <1>1 DEF GoodTrail, n
  <1>6. ASSUME NEW k \in 1..n PROVE u[k + 1].prev = u[k].id /\ u[k].id < u[k + 1].id
    <2>1. CASE k = n
      BY <1>2, <1>3, <1>4, <1>5, <2>1
    <2>2. CASE k # n
      <3>1. k \in 1..(n - 1) /\ k + 1 \in 1..n
        BY <1>2, <2>2
      <3>2. t[k + 1].prev = t[k].id /\ t[k].id < t[k + 1].id
        BY <3>1 DEF GoodTrail, n
      <3> QED
        BY <1>3, <3>1, <3>2
    <2> QED
      BY <2>1, <2>2
  <1>7. ASSUME NEW k \in 1..(n + 1) PROVE u[k].id > 0
    <2>1. CASE k = n + 1
      BY <1>1, <1>3, <2>1
    <2>2. CASE k # n + 1
      <3>1. k \in 1..n
        BY <1>2, <2>2
      <3> QED
        BY <1>3, <1>5, <3>1
    <2> QED
      BY <2>1, <2>2
  <1>8. Len(u) - 1 = n
    BY <1>2, <1>3
  <1> QED
    BY <1>3, <1>6, <1>7, <1>8 DEF GoodTrail, n

LEMMA ShorterIs ==
    ASSUME NEW t \in Seq(Record), NEW n \in 0..Len(t)
    PROVE  LET u == SubSeq(t, n + 1, Len(t)) IN
           u \in Seq(Record) /\ Len(u) = Len(t) - n /\ \A k \in 1..(Len(t) - n) : u[k] = t[k + n]
  <1> DEFINE m == Len(t)
             u == SubSeq(t, n + 1, m)
  <1>1. m \in Nat /\ \A k \in 1..m : t[k] \in Record
    BY LenProperties
  <1> HIDE DEF m
  <1>2. n + 1 \in Int /\ m \in Int /\ n \in Nat /\ n <= m /\ \A k \in (n + 1)..m : t[k] \in Record
    BY <1>1 DEF m
  <1>3. /\ u \in Seq(Record)
        /\ Len(u) = IF n + 1 <= m THEN m - (n + 1) + 1 ELSE 0
        /\ \A k \in 1..(m - (n + 1) + 1) : u[k] = t[n + 1 + k - 1]
    <2> HIDE DEF Record
    <2> QED
      BY <1>2, SubSeqProperties
  <1> HIDE DEF u
  <1>4. Len(u) = m - n
    BY <1>2, <1>3
  <1>5. ASSUME NEW k \in 1..(m - n) PROVE u[k] = t[k + n]
    <2>1. k \in 1..(m - (n + 1) + 1) /\ n + 1 + k - 1 = k + n
      BY <1>2
    <2> QED
      BY <1>3, <2>1
  <1> QED
    BY <1>3, <1>4, <1>5 DEF u, m

LEMMA ShorterIsGood ==
    ASSUME NEW t \in Seq(Record), GoodTrail(t), NEW u, Shorter(t, u)
    PROVE  GoodTrail(u) /\ u \in Seq(Record)
  <1>1. PICK n \in 1..Len(t) : u = SubSeq(t, n + 1, Len(t))
    BY DEF Shorter
  <1> DEFINE m == Len(t)
  <1>2. m \in Nat
    BY LenProperties
  <1>3. n \in 0..m /\ n \in Nat
    BY <1>2
  <1>4. u \in Seq(Record) /\ Len(u) = m - n /\ \A k \in 1..(m - n) : u[k] = t[k + n]
    BY <1>1, <1>3, ShorterIs
  <1> HIDE DEF m
  <1>5. ASSUME NEW k \in 1..(m - n - 1) PROVE u[k + 1].prev = u[k].id /\ u[k].id < u[k + 1].id
    <2>1. /\ k \in 1..(m - n) /\ k + 1 \in 1..(m - n) /\ k + n \in 1..(m - 1)
          /\ k + 1 + n = k + n + 1
      BY <1>2, <1>3
    <2>2. t[k + n + 1].prev = t[k + n].id /\ t[k + n].id < t[k + n + 1].id
      BY <2>1 DEF GoodTrail, m
    <2> QED
      BY <1>4, <2>1, <2>2
  <1>6. ASSUME NEW k \in 1..(m - n) PROVE u[k].id > 0
    <2>1. k + n \in 1..m
      BY <1>2, <1>3
    <2>2. t[k + n].id > 0
      BY <2>1 DEF GoodTrail, m
    <2> QED
      BY <1>4, <2>2
  <1> QED
    BY <1>4, <1>5, <1>6 DEF GoodTrail

\* Every record of the trail is a line of a file.
LEMMA TrailIsOnFile ==
    ASSUME NEW f \in AllFiles, NEW k \in 1..Len(TrailOf(f))
    PROVE  \E i \in Slots : \E a \in HashesIn(f[i]) : TrailOf(f)[k] = f[i][a]
  <1>1. k \in 1..Size(f)
    BY TrailIs
  <1>2. PICK p \in RecordPlaces(f) : Position(f, p) = k
    BY <1>1, TrailIs
  <1> QED
    BY <1>2, TrailIs, PlacesAre

LEMMA AppendMakesLonger ==
    ASSUME TypeInv, UniqueInv, ChainParts, HandParts, NEW w \in Writers, AppendLine(w)
    PROVE  Longer(Trail, Trail')
  <1> DEFINE r == writer[w].rec
  <1>1. /\ files \in AllFiles /\ r \in Record /\ At(w, "append") /\ files' = Grown(files, r)
        /\ Whole(files)
    BY DEF AppendLine, TypeInv, WriterState, AllFiles, Grown, ChainParts
  <1>2. EndsIn(files, r.prev)
    BY <1>1 DEF ChainParts, Knows, At
  <1>3. (NoFiles(files) => r.prev = Genesis) /\ r.id = nextId - 1 /\ r.id > 0
    BY <1>1 DEF HandParts, Holds, At
  <1>4. ASSUME NEW i \in Slots, NEW a \in HashesIn(files[i]) PROVE files[i][a].id < r.id
    <2>1. files[i][a].id < nextId /\ files[i][a].id \in Nat
      BY HashesType DEF UniqueInv, Given
    <2>2. files[i][a].id # r.id
      BY <1>1 DEF UniqueInv, InHand
    <2>3. nextId \in Nat /\ r.id \in Nat
      BY <1>1, RecordIds, Constants DEF TypeInv
    <2> HIDE DEF r
    <2> QED
      BY <1>3, <2>1, <2>2, <2>3
  <1> HIDE DEF r
  <1>5. HeadOf(Trail) = r.prev
    BY <1>1, <1>2, <1>3, HeadIs DEF Trail
  <1>6. \A k \in 1..Len(Trail) : Trail[k].id < r.id
    <2>1. TAKE k \in 1..Len(Trail)
    <2>2. PICK i \in Slots : \E a \in HashesIn(files[i]) : Trail[k] = files[i][a]
      BY <1>1, TrailIsOnFile DEF Trail
    <2> QED
      BY <1>4, <2>2
  <1>7. Trail' = Append(Trail, r)
    BY <1>1, AppendedTrail DEF Trail
  <1> QED
    BY <1>1, <1>3, <1>5, <1>6, <1>7 DEF Longer

LEMMA UnlinkMakesShorter ==
    ASSUME TypeInv, ChainParts, HandParts, NEW w \in Writers, Unlink(w)
    PROVE  Trail' = Trail \/ Shorter(Trail, Trail')
  <1> DEFINE g == files'
             t == TrailOf(files)
             u == TrailOf(files')
  <1>1. /\ files \in AllFiles /\ At(w, "unlink") /\ Whole(files) /\ files[0] # <<>>
        /\ g = [files EXCEPT ![KeepFiles] = <<>>]
    BY DEF Unlink, TypeInv, AllFiles, ChainParts, HandParts, Holds, At
  <1>2. g \in AllFiles /\ Whole(g)
    BY <1>1, DroppedChain
  <1> HIDE DEF g
  <1>3. PICK n \in 0..Size(files) :
             /\ Size(g) = Size(files) - n
             /\ \A k \in 1..(Size(files) - n) : TrailOf(g)[k] = TrailOf(files)[k + n]
    BY <1>1, <1>2, DroppedTrail
  <1>4. /\ t \in Seq(Record) /\ Len(t) = Size(files) /\ Size(files) \in Nat
        /\ u \in Seq(Record) /\ Len(u) = Size(g) /\ u = TrailOf(g)
    BY <1>1, <1>2, TrailIs DEF g
  <1> HIDE DEF t, u
  <1>5. u = SubSeq(t, n + 1, Len(t))
    <2> DEFINE v == SubSeq(t, n + 1, Len(t))
    <2>1. n \in 0..Len(t)
      BY <1>4
    <2>2. v \in Seq(Record) /\ Len(v) = Len(t) - n /\ \A k \in 1..(Len(t) - n) : v[k] = t[k + n]
      BY <1>4, <2>1, ShorterIs
    <2> HIDE DEF v
    <2>3. Len(u) = Len(v)
      BY <1>3, <1>4, <2>2
    <2>4. \A k \in 1..Len(u) : u[k] = v[k]
      BY <1>3, <1>4, <2>2 DEF t
    <2>5. u = v
      BY <1>4, <2>2, <2>3, <2>4, SeqEqual
    <2> QED
      BY <2>5 DEF v
  <1>6. CASE n = 0
    <2>1. u = SubSeq(t, 1, Len(t))
      BY <1>5, <1>6
    <2>2. u = t
      BY <1>4, <2>1, SubSeqFull
    <2> QED
      BY <2>2 DEF t, u, Trail
  <1>7. CASE n # 0
    <2>1. n \in 1..Len(t)
      BY <1>4, <1>7
    <2>2. ASSUME KeepFiles > 0 PROVE n < Len(t)
      <3>1. g[0] = files[0] /\ 0 \in Slots
        BY <1>1, <2>2, Constants DEF AllFiles
      <3>2. ~NoFiles(g)
        BY <1>1, <3>1 DEF NoFiles
      <3>3. PICK i \in Slots : Newest(g, i)
        BY <1>2, <3>2, SomeNewest
      <3>4. Size(g) > 0
        BY <1>2, <3>3, NewestEndsTrail
      <3> QED
        BY <1>3, <1>4, <3>4
    <2>3. Shorter(t, u)
      BY <1>5, <2>1, <2>2 DEF Shorter
    <2> QED
      BY <2>3 DEF t, u, Trail
  <1> QED
    BY <1>6, <1>7

LEMMA ShiftKeepsTrail ==
    ASSUME TypeInv, ChainParts, NEW w \in Writers, Shift(w)
    PROVE  Trail' = Trail
  <1> DEFINE n == writer[w].slot
  <1>1. /\ files \in AllFiles /\ n \in Slots /\ n > 0 /\ files[n] = <<>>
        /\ files' = Renamed(n - 1, n)
    BY DEF Shift, At, TypeInv, WriterState, AllFiles, ChainParts, Knows
  <1> HIDE DEF n
  <1>2. files' = [k \in Slots |-> IF k = n THEN files[n - 1] ELSE IF k = n - 1 THEN <<>> ELSE files[k]]
    BY <1>1, RenamedInto
  <1>3. files' \in AllFiles
    BY <1>1, <1>2, ShiftedChain
  <1>4. TrailOf(files') = TrailOf(files)
    BY <1>1, <1>2, <1>3, ShiftedTrail
  <1> QED
    BY <1>4 DEF Trail

LEMMA TrailSteps ==
    ASSUME TypeInv, UniqueInv, AloneInv, ChainInv, HandInv, Next, Calm'
    PROVE  Trail' = Trail \/ Longer(Trail, Trail') \/ Shorter(Trail, Trail')
  <1>1. ChainParts /\ HandParts
    <2>1. Calm /\ Undisturbed({"race"})
      BY StillUndisturbed DEF Calm, Undisturbed
    <2> QED
      BY <2>1 DEF ChainInv, HandInv, Calm
  <1>2. ASSUME files' = files PROVE Trail' = Trail
    BY <1>2 DEF Trail
  <1>3. CASE Restart
    BY <1>2, <1>3 DEF Restart
  <1>4. ASSUME NEW w \in Writers, Rotation(w) \/ Recovery(w) \/ Appending(w), ~AppendLine(w), ~Unlink(w), ~Shift(w)
        PROVE  files' = files
    <2>1. ~TearLine(w)
      BY DEF TearLine, Calm, Undisturbed
    <2> QED
      BY <1>4, <2>1 DEF Rotation, StatExists, Rotated, Recovery, List, Scan, ScanEnds, Loaded,
             Appending, StatSize, Resume, Finish
  <1> QED
    BY <1>1, <1>2, <1>3, <1>4, AppendMakesLonger, UnlinkMakesShorter, ShiftKeepsTrail DEF Next

-----------------------------------------------------------------------------
(* The trail as one chain, and the abstract log.                           *)

TrailInv == Calm => GoodTrail(Trail)

LEMMA TrailType == TypeInv => Trail \in Seq(Record)
  BY TrailIs DEF TypeInv, AllFiles, Trail

LEMMA CalmBefore == ASSUME [Next]_vars, Calm' PROVE Calm
  BY StillUndisturbed DEF Calm

LEMMA TrailInvSteps ==
    TypeInv /\ UniqueInv /\ AloneInv /\ ChainInv /\ HandInv /\ TrailInv /\ [Next]_vars => TrailInv'
  <1> SUFFICES ASSUME TypeInv, UniqueInv, AloneInv, ChainInv, HandInv, TrailInv, [Next]_vars, Calm'
               PROVE  GoodTrail(Trail')
    BY DEF TrailInv
  <1>1. GoodTrail(Trail) /\ Trail \in Seq(Record)
    BY CalmBefore, TrailType DEF TrailInv
  <1>2. CASE UNCHANGED vars
    <2>1. Trail' = Trail
      BY <1>2 DEF vars, Trail
    <2> QED
      BY <1>1, <2>1
  <1>3. CASE Next
    <2>1. Trail' = Trail \/ Longer(Trail, Trail') \/ Shorter(Trail, Trail')
      BY <1>3, TrailSteps
    <2> QED
      BY <1>1, <2>1, LongerIsGood, ShorterIsGood
  <1> QED
    BY <1>2, <1>3

LEMMA NothingWritten == Init => Trail = <<>>
  <1> SUFFICES ASSUME Init PROVE Trail = <<>>
    OBVIOUS
  <1>1. NoFiles(files) /\ files \in AllFiles
    <2>1. <<>> \in Seq(Line)
      OBVIOUS
    <2> QED
      BY <2>1 DEF Init, NoFiles, AllFiles
  <1> QED
    BY <1>1, EmptyTrail DEF Trail

LEMMA TrailInvStarts == Init => TrailInv
  <1> SUFFICES ASSUME Init PROVE GoodTrail(<<>>)
    BY NothingWritten DEF TrailInv
  <1> QED
    BY DEF GoodTrail

LEMMA LogIsStrong == Spec => [](TypeInv /\ UniqueInv /\ AloneInv /\ ChainInv /\ HandInv /\ GapInv /\ TrailInv)
  <1>1. TypeInv /\ BoundInv /\ [Next]_vars => TypeInv'
    BY Steps
  <1> QED
    BY <1>1, Invariant, UniqueStarts, UniqueSteps, AloneStarts, AloneSteps, ChainStarts, ChainSteps,
       HandStarts, HandSteps, GapStarts, GapSteps, TrailInvStarts, TrailInvSteps, PTL DEF Spec

\* A step of the log is a step of the abstract one, or none.
LEMMA ChainLogSteps ==
    ASSUME TypeInv, UniqueInv, AloneInv, ChainInv, HandInv, TrailInv, [Next]_vars
    PROVE  Chain!Next \/ UNCHANGED ChainLog
  <1> SUFFICES ASSUME ChainLog' # ChainLog
               PROVE  Chain!Write \/ Chain!Forget
    BY DEF Chain!Next
  <1>1. CASE ~Calm'
    <2>1. ChainLog' = <<>>
      BY <1>1 DEF ChainLog, Calm
    <2>2. ChainLog \in Seq(Record)
      BY TrailType, EmptySeq DEF ChainLog
    <2>3. CASE ChainLog = <<>>
      BY <2>1, <2>3
    <2>4. CASE ChainLog # <<>>
      <3> DEFINE n == Len(ChainLog)
      <3>1. n \in 1..n /\ n \in Int /\ n + 1 \in Int /\ n < n + 1
        <4>1. n \in Nat \ {0}
          BY <2>2, <2>4, EmptySeq
        <4> HIDE DEF n
        <4> QED
          BY <4>1
      <3>2. SubSeq(ChainLog, n + 1, n) = <<>>
        <4> HIDE DEF n
        <4> QED
          BY <3>1, SubSeqEmpty
      <3>3. Chain!Forget
        BY <2>1, <3>1, <3>2 DEF Chain!Forget
      <3> QED
        BY <3>3
    <2> QED
      BY <2>3, <2>4
  <1>2. CASE Calm'
    <2>1. Calm /\ ChainLog = Trail /\ ChainLog' = Trail'
      BY <1>2, CalmBefore DEF ChainLog, Calm
    <2>2. CASE Trail' = Trail
      BY <2>1, <2>2
    <2>3. CASE Longer(Trail, Trail')
      <3>1. PICK r \in Record : /\ r.prev = HeadOf(Trail) /\ r.id > 0
                                /\ \A k \in 1..Len(Trail) : Trail[k].id < r.id
                                /\ Trail' = Append(Trail, r)
        BY <2>3 DEF Longer
      <3>2. r = [id |-> r.id, prev |-> HeadOf(Trail)] /\ r.id \in 0..MaxRecords
        BY <3>1 DEF Record
      <3>3. HeadOf(Trail) < r.id
        <4>1. Trail \in Seq(Record)
          BY TrailType
        <4>2. CASE Trail = <<>>
          BY <3>1, <4>2 DEF HeadOf, Genesis
        <4>3. CASE Trail # <<>>
          <5>1. Len(Trail) \in Nat \ {0}
            BY <4>1, <4>3, EmptySeq
          <5>2. Len(Trail) \in 1..Len(Trail)
            BY <5>1
          <5> QED
            BY <3>1, <4>3, <5>2 DEF HeadOf
        <4> QED
          BY <4>2, <4>3
      <3>4. Chain!NewestHash = HeadOf(Trail)
        BY <2>1 DEF Chain!NewestHash, HeadOf
      <3>5. Chain!Write
        BY <2>1, <3>1, <3>2, <3>3, <3>4 DEF Chain!Write
      <3> QED
        BY <3>5
    <2>4. CASE Shorter(Trail, Trail')
      <3>1. Chain!Forget
        BY <2>1, <2>4 DEF Shorter, Chain!Forget
      <3> QED
        BY <3>1
    <2>5. Trail' = Trail \/ Longer(Trail, Trail') \/ Shorter(Trail, Trail')
      <3>1. CASE UNCHANGED vars
        BY <3>1 DEF vars, Trail
      <3>2. CASE Next
        BY <1>2, <3>2, TrailSteps
      <3> QED
        BY <3>1, <3>2
    <2> QED
      BY <2>2, <2>3, <2>4, <2>5
  <1> QED
    BY <1>1, <1>2

LEMMA TrailSpecIsSpec == TrailSpec => Spec
  <1>1. TrailInit => Init
    BY DEF TrailInit
  <1>2. [TrailNext]_trailVars => [Next]_vars
    BY DEF TrailNext, Logging, Reviewing, trailVars, vars, Begin, VerifyFile, AnswerVerify, RecordAnchor,
           CompareAnchor, BeginProof, WalkOn, WalkEnds, AnswerCheck, IssueProof, EndReview
  <1> QED
    BY <1>1, <1>2, PTL DEF TrailSpec, Spec

\* ImplementsChain: as long as writes do not overlap and no line is torn, the log
\* does what AuditChain says: a write appends one record that links to the newest
\* one, a rotation forgets the oldest records or none, and nothing else is seen:
\* not the renames, the restarts or the reload of the cached hash.
THEOREM LogImplementsChain == TrailSpec => ImplementsChain
  <1>1. Init => Chain!Init
    BY NothingWritten DEF Chain!Init, ChainLog
  <1>2. TypeInv /\ UniqueInv /\ AloneInv /\ ChainInv /\ HandInv /\ TrailInv /\ [Next]_vars
        => [Chain!Next]_ChainLog
    BY ChainLogSteps
  <1>3. Spec => ImplementsChain
    BY <1>1, <1>2, LogIsStrong, PTL DEF Spec, ImplementsChain, Chain!Spec
  <1> QED
    BY <1>3, TrailSpecIsSpec, PTL

-----------------------------------------------------------------------------
(* Readers.  A reader that no rotation has disturbed has in todo what it   *)
(* has not read yet, and knows how many records are older than that.       *)

FilesOf(f) == {i \in Slots : f[i] # <<>>}
OldestOf(i, todo) == i \in todo /\ \A j \in todo : j <= i
Covers(f, todo) ==
    \A k \in Slots : k # 0 /\ f[k] # <<>> => k \in todo \/ \A j \in todo : k > j
Reads(f, todo, n) ==
    /\ todo \subseteq FilesOf(f)
    /\ Covers(f, todo)
    /\ \A i \in Slots : OldestOf(i, todo) => Older(f, i) = n

LEMMA ReadsStart ==
    ASSUME NEW f \in AllFiles
    PROVE  Reads(f, FilesOf(f), 0)
  <1>1. Covers(f, FilesOf(f))
    BY DEF Covers, FilesOf
  <1>2. ASSUME NEW i \in Slots, OldestOf(i, FilesOf(f)) PROVE Older(f, i) = 0
    <2>1. ASSUME NEW k \in Slots, k > i PROVE f[k] = <<>>
      <3>1. i \in Nat /\ k \in Nat
        BY Constants DEF Slots
      <3>2. ~(k <= i)
        BY <2>1, <3>1
      <3> QED
        BY <1>2, <3>2 DEF OldestOf, FilesOf
    <2>2. HashesIn(<<>>) = {}
      BY DEF HashesIn
    <2> QED
      BY <2>1, <2>2, OlderStart
  <1> QED
    BY <1>1, <1>2 DEF Reads

LEMMA ReadsOn ==
    ASSUME NEW f \in AllFiles, NEW todo, NEW n, Reads(f, todo, n), NEW i \in Slots, OldestOf(i, todo)
    PROVE  /\ Older(f, i) = n /\ f[i] # <<>>
           /\ Reads(f, todo \ {i}, n + Cardinality(HashesIn(f[i])))
  <1>1. Older(f, i) = n /\ f[i] # <<>> /\ i \in Nat
    BY Constants DEF Reads, OldestOf, FilesOf, Slots
  <1>2. todo \subseteq Slots /\ \A j \in todo : j \in Nat /\ j <= i
    BY Constants DEF Reads, OldestOf, FilesOf, Slots
  <1>3. \A k \in Slots : k \in Nat
    BY Constants DEF Slots
  <1>4. Covers(f, todo \ {i})
    <2> SUFFICES ASSUME NEW k \in Slots, k # 0, f[k] # <<>>, k \notin todo \ {i}, NEW j \in todo \ {i}
                 PROVE  k > j
      BY DEF Covers
    <2>1. CASE k = i
      BY <1>1, <1>2, <2>1
    <2>2. CASE k # i
      BY <2>2 DEF Reads, Covers
    <2> QED
      BY <2>1, <2>2
  <1>5. ASSUME NEW j \in Slots, OldestOf(j, todo \ {i})
        PROVE  Older(f, j) = n + Cardinality(HashesIn(f[i]))
    <2>1. j < i
      BY <1>1, <1>2, <1>5 DEF OldestOf
    <2>2. ASSUME NEW k \in Slots, j < k, k < i PROVE HashesIn(f[k]) = {}
      <3>1. k # 0 /\ k # i /\ ~(k <= j) /\ ~(k > i)
        BY <1>1, <1>3, <2>2
      <3>2. k \notin todo
        BY <1>5, <3>1 DEF OldestOf
      <3>3. ~(\A m \in todo : k > m)
        BY <3>1 DEF OldestOf
      <3>4. f[k] = <<>>
        BY <3>1, <3>2, <3>3 DEF Reads, Covers
      <3> QED
        BY <3>4 DEF HashesIn
    <2> QED
      BY <1>1, <2>1, <2>2, OlderNext
  <1>6. todo \ {i} \subseteq FilesOf(f)
    BY DEF Reads
  <1> QED
    BY <1>1, <1>4, <1>5, <1>6 DEF Reads

\* Lines are added to the active file, or nothing happens.
Quiet(f, g) == g = f \/ \E l \in Line : g = Grown(f, l)

LEMMA QuietFacts ==
    ASSUME NEW f \in AllFiles, NEW g, Quiet(f, g)
    PROVE  /\ g \in AllFiles /\ \A i \in Slots \ {0} : g[i] = f[i]
           /\ f[0] # <<>> => g[0] # <<>>
           /\ RecordPlaces(f) \subseteq RecordPlaces(g)
           /\ \A p \in RecordPlaces(f) : Position(g, p) = Position(f, p)
           /\ \A q \in RecordPlaces(g) \ RecordPlaces(f) : Position(g, q) > Size(f)
           /\ \A i \in Slots : Older(g, i) = Older(f, i)
           /\ Len(TrailOf(f)) <= Len(TrailOf(g))
           /\ \A n \in 1..Len(TrailOf(f)) : TrailOf(g)[n] = TrailOf(f)[n]
  <1>0. Size(f) \in Nat /\ Len(TrailOf(f)) = Size(f)
    BY TrailIs
  <1>1. CASE g = f
    BY <1>0, <1>1
  <1>2. CASE g # f
    <2>1. PICK l \in Line : g = Grown(f, l)
      BY <1>2 DEF Quiet
    <2>2. g \in AllFiles /\ Size(f) <= Size(g)
      BY <2>1, ExtendedTrail
    <2>3. Len(TrailOf(g)) = Size(g)
      BY <2>2, TrailIs
    <2> QED
      BY <1>0, <2>1, <2>2, <2>3, ExtendedTrail
  <1> QED
    BY <1>1, <1>2

LEMMA ReadsKept ==
    ASSUME NEW f \in AllFiles, NEW g, Quiet(f, g), NEW todo, NEW n, Reads(f, todo, n)
    PROVE  Reads(g, todo, n)
  <1>1. /\ \A i \in Slots \ {0} : g[i] = f[i]
        /\ f[0] # <<>> => g[0] # <<>>
        /\ \A i \in Slots : Older(g, i) = Older(f, i)
    BY QuietFacts
  <1>2. todo \subseteq FilesOf(g)
    BY <1>1 DEF Reads, FilesOf
  <1>3. Covers(g, todo)
    BY <1>1 DEF Reads, Covers
  <1> QED
    BY <1>1, <1>2, <1>3 DEF Reads

-----------------------------------------------------------------------------
(* verify's loop over one file.                                            *)

TallyState == [prev : Nat, checked : Nat, ok : BOOLEAN]

LEMMA TallyIs ==
    \A prev, checked, ok :
        /\ Tally(prev, checked, ok).prev = prev
        /\ Tally(prev, checked, ok).checked = checked
        /\ Tally(prev, checked, ok).ok = ok
        /\ prev \in Nat /\ checked \in Nat /\ ok \in BOOLEAN => Tally(prev, checked, ok) \in TallyState
  BY DEF Tally, TallyState

LEMMA LargestOf ==
    ASSUME NEW N \in Nat, NEW S, S \subseteq 0..N, S # {}
    PROVE  Max(S) \in S /\ \A y \in S : Max(S) >= y
  <1> DEFINE D == {N - a : a \in S}
  <1>1. D \subseteq Nat /\ D # {}
    <2>1. \A a \in S : a \in 0..N
      OBVIOUS
    <2>2. \A a \in S : N - a \in Nat
      BY <2>1
    <2> QED
      BY <2>2
  <1>2. PICK d \in D : \A e \in D : ~(<<e, d>> \in OpToRel(<, Nat))
    BY <1>1, NatLessThanWellFounded, WFMin
  <1>3. \A e \in D : ~(e < d) /\ e \in Nat /\ d \in Nat
    BY <1>1, <1>2 DEF OpToRel
  <1>4. PICK a \in S : d = N - a
    OBVIOUS
  <1>5. \A y \in S : a >= y
    <2>1. TAKE y \in S
    <2>2. N - y \in D
      OBVIOUS
    <2>3. ~(N - y < N - a)
      BY <1>3, <1>4, <2>2
    <2>4. y \in Int /\ a \in Int
      OBVIOUS
    <2> QED
      BY <2>3, <2>4
  <1> QED
    BY <1>4, <1>5 DEF Max

LEMMA CheckIs ==
    ASSUME NEW lines \in Seq(Line), NEW tally \in TallyState
    PROVE  /\ Check(tally, lines) \in TallyState
           /\ \E n \in 0..Len(lines) :
                /\ \A a \in 1..n : Links(tally, lines, a)
                /\ n < Len(lines) => ~Links(tally, lines, n + 1)
                /\ Check(tally, lines)
                     = Tally(IF n = 0 THEN tally.prev ELSE lines[n].id, tally.checked + n, n = Len(lines))
  <1> DEFINE N == Len(lines)
             S == {m \in 0..N : \A a \in 1..m : Links(tally, lines, a)}
             n == Max(S)
  <1>1. N \in Nat
    BY LenProperties
  <1> HIDE DEF N
  <1>2. 0 \in S
    BY <1>1
  <1>3. n \in S /\ \A y \in S : n >= y
    <2>1. S \subseteq 0..N /\ S # {}
      BY <1>2
    <2> HIDE DEF S
    <2> QED
      BY <1>1, <2>1, LargestOf
  <1> HIDE DEF n
  <1>4. n \in 0..N /\ \A a \in 1..n : Links(tally, lines, a)
    BY <1>3
  <1>5. ASSUME n < N, Links(tally, lines, n + 1) PROVE FALSE
    <2>1. n + 1 \in 0..N
      BY <1>1, <1>4, <1>5
    <2>2. \A a \in 1..(n + 1) : a \in 1..n \/ a = n + 1
      BY <1>1, <1>4
    <2>3. n + 1 \in S
      BY <1>4, <1>5, <2>1, <2>2
    <2>4. n >= n + 1
      BY <1>3, <2>3
    <2> HIDE DEF S
    <2> QED
      BY <1>1, <1>4, <2>4
  <1> DEFINE prev == IF n = 0 THEN tally.prev ELSE lines[n].id
             all == n = N
  <1>6. Check(tally, lines) = Tally(prev, tally.checked + n, all)
    BY DEF Check, N, n
  <1>7. prev \in Nat
    <2>1. CASE n = 0
      BY <2>1 DEF TallyState
    <2>2. CASE n # 0
      <3>1. n \in 1..n
        BY <1>1, <1>4, <2>2
      <3>2. lines[n] \in Record
        BY <1>4, <3>1 DEF Links
      <3> QED
        BY <2>2, <3>2, RecordIds
    <2> QED
      BY <2>1, <2>2
  <1>8. tally.checked + n \in Nat
    BY <1>1, <1>4 DEF TallyState
  <1>9. all \in BOOLEAN
    OBVIOUS
  <1> HIDE DEF prev, all
  <1>10. Check(tally, lines) \in TallyState
    BY <1>6, <1>7, <1>8, <1>9, TallyIs
  <1> QED
    BY <1>4, <1>5, <1>6, <1>10 DEF N, prev, all

\* In a file without torn lines all lines link, or the first one does not.
LEMMA CalmCheck ==
    ASSUME NEW f \in AllFiles, Whole(f), Chained(f), NEW i \in Slots, NEW tally \in TallyState
    PROVE  LET c == Check(tally, f[i]) IN
           /\ f[i] = <<>> => c = Tally(tally.prev, tally.checked, TRUE)
           /\ f[i] # <<>> /\ f[i][1].prev = tally.prev
                => c = Tally(Last(f, i), tally.checked + Len(f[i]), TRUE)
           /\ f[i] # <<>> /\ f[i][1].prev # tally.prev => c.ok = FALSE
  <1> DEFINE lines == f[i]
             N == Len(lines)
             c == Check(tally, lines)
  <1>1. lines \in Seq(Line) /\ Linked(lines)
    BY DEF AllFiles, Chained
  <1>2. N \in Nat /\ DOMAIN lines = 1..N /\ (lines = <<>> <=> N = 0)
    <2>1. N \in Nat /\ DOMAIN lines = 1..N
      BY <1>1, LenProperties
    <2>2. lines = <<>> => N = 0
      BY EmptySeq
    <2>3. lines # <<>> => N # 0
      BY <1>1, EmptySeq
    <2> QED
      BY <2>1, <2>2, <2>3
  <1>3. \A a \in 1..N : lines[a] \in Record
    BY <1>2 DEF Whole
  <1>4. PICK n \in 0..N :
           /\ \A a \in 1..n : Links(tally, lines, a)
           /\ n < N => ~Links(tally, lines, n + 1)
           /\ c = Tally(IF n = 0 THEN tally.prev ELSE lines[n].id, tally.checked + n, n = N)
    BY <1>1, CheckIs
  <1>5. tally.checked \in Nat
    BY DEF TallyState
  <1>6. Linked(lines) => \A a \in 1..(N - 1) : lines[a + 1].prev = lines[a].id
    BY DEF Linked
  <1>7. Last(f, i) = lines[N].id
    BY DEF Last
  <1> HIDE DEF lines, N, c
  <1>8. CASE lines = <<>>
    <2>1. n = 0 /\ tally.checked + n = tally.checked
      BY <1>2, <1>4, <1>5, <1>8
    <2>2. (n = N) = TRUE
      BY <1>2, <1>8, <2>1
    <2>3. c = Tally(tally.prev, tally.checked, TRUE)
      BY <1>4, <2>1, <2>2
    <2> QED
      BY <1>8, <2>3 DEF lines, c
  <1>9. CASE lines # <<>> /\ lines[1].prev = tally.prev
    <2>1. N \in Nat \ {0}
      BY <1>2, <1>9
    <2>2. Links(tally, lines, 1)
      BY <1>3, <1>9, <2>1 DEF Links
    <2>3. n # 0
      BY <1>4, <2>1, <2>2
    <2>4. ASSUME n < N PROVE FALSE
      <3>1. n \in 1..(N - 1) /\ n + 1 \in 1..N /\ n + 1 # 1 /\ n + 1 - 1 = n
        BY <1>2, <1>4, <2>3, <2>4
      <3>2. lines[n + 1].prev = lines[n].id /\ lines[n + 1] \in Record
        BY <1>1, <1>3, <1>6, <3>1
      <3>3. Links(tally, lines, n + 1)
        BY <3>1, <3>2 DEF Links
      <3> QED
        BY <1>4, <2>4, <3>3
    <2>5. n = N
      BY <1>2, <1>4, <2>4
    <2>6. c = Tally(lines[N].id, tally.checked + N, TRUE)
      BY <1>4, <2>3, <2>5
    <2> QED
      BY <1>7, <1>9, <2>6 DEF lines, N, c
  <1>10. CASE lines # <<>> /\ lines[1].prev # tally.prev
    <2>1. ~Links(tally, lines, 1)
      BY <1>10 DEF Links
    <2>2. n = 0 /\ N # 0
      <3>1. N # 0
        BY <1>2, <1>10
      <3>2. n # 0 => 1 \in 1..n
        BY <1>2, <1>4
      <3> QED
        BY <1>4, <2>1, <3>1, <3>2
    <2>3. (n = N) = FALSE
      BY <2>2
    <2>4. c = Tally(tally.prev, tally.checked + n, FALSE)
      BY <1>4, <2>2, <2>3
    <2>5. c.ok = FALSE
      BY <2>4 DEF Tally
    <2> QED
      BY <1>10, <2>5 DEF lines, c
  <1> QED
    BY <1>8, <1>9, <1>10 DEF lines, c

\* Where the lines of a file stand in the trail.
LEMMA FilePlaces ==
    ASSUME NEW f \in AllFiles, Whole(f), NEW i \in Slots, f[i] # <<>>
    PROVE  /\ Len(f[i]) \in Nat \ {0} /\ Cardinality(HashesIn(f[i])) = Len(f[i])
           /\ Older(f, i) \in Nat /\ Older(f, i) + Len(f[i]) <= Len(TrailOf(f))
           /\ TrailOf(f)[Older(f, i) + 1] = f[i][1]
           /\ TrailOf(f)[Older(f, i) + Len(f[i])] = f[i][Len(f[i])]
           /\ \A a \in HashesIn(f[i]) : Position(f, <<i, a>>) <= Older(f, i) + Len(f[i])
  <1> DEFINE N == Len(f[i])
             H == HashesIn(f[i])
  <1>1. f[i] \in Seq(Line)
    BY DEF AllFiles
  <1>2. N \in Nat \ {0} /\ DOMAIN f[i] = 1..N
    BY <1>1, LenProperties, EmptySeq
  <1>3. H = 1..N
    <2> HIDE DEF N
    <2> QED
      BY <1>2 DEF HashesIn, Whole
  <1>4. Cardinality(1..N) = N /\ \A a \in 1..N : Cardinality(1..a) = a
    <2> HIDE DEF N
    <2>1. \A a \in Nat : Cardinality(1..a) = a
      <3>1. TAKE a \in Nat
      <3>2. Cardinality(1..a) = IF 1 > a THEN 0 ELSE a - 1 + 1
        BY FS_Interval
      <3> QED
        BY <3>2
    <2> QED
      BY <1>2, <2>1
  <1>5. ASSUME NEW a \in 1..N PROVE Ordinal(f[i], a) = a
    <2>1. {b \in H : b <= a} = 1..a
      <3> HIDE DEF N, H
      <3> QED
        BY <1>2, <1>3
    <2> QED
      BY <1>4, <2>1 DEF Ordinal
  <1> HIDE DEF N
  <1>6. Older(f, i) \in Nat /\ Size(f) = Len(TrailOf(f)) /\ Size(f) \in Nat
    BY OlderIs, TrailIs
  <1>7. ASSUME NEW a \in 1..N
        PROVE  /\ Older(f, i) + a \in 1..Size(f) /\ TrailOf(f)[Older(f, i) + a] = f[i][a]
               /\ Position(f, <<i, a>>) = Older(f, i) + a
    <2>1. a \in HashesIn(f[i])
      BY <1>3
    <2> QED
      BY <1>5, <2>1, OlderPosition
  <1>8. 1 \in 1..N /\ N \in 1..N
    BY <1>2
  <1>9. Older(f, i) + N <= Len(TrailOf(f))
    <2>1. Older(f, i) + N \in 1..Size(f)
      BY <1>7, <1>8
    <2> QED
      BY <1>6, <2>1
  <1>10. \A a \in HashesIn(f[i]) : Position(f, <<i, a>>) <= Older(f, i) + N
    <2>1. TAKE a \in HashesIn(f[i])
    <2>2. a \in 1..N
      BY <1>3
    <2> QED
      BY <1>2, <1>6, <1>7, <2>2
  <1>11. Cardinality(HashesIn(f[i])) = N
    BY <1>3, <1>4
  <1> QED
    BY <1>2, <1>6, <1>7, <1>8, <1>9, <1>10, <1>11 DEF N

\* No id stands twice in the trail.
LEMMA TrailIsUnique ==
    ASSUME TypeInv, UniqueInv, NEW j \in 1..Len(Trail), NEW k \in 1..Len(Trail), Trail[j].id = Trail[k].id
    PROVE  j = k
  <1>1. files \in AllFiles
    BY DEF TypeInv, AllFiles
  <1>2. j \in 1..Size(files) /\ k \in 1..Size(files)
    BY <1>1, TrailIs DEF Trail
  <1>3. PICK p \in RecordPlaces(files) : Position(files, p) = j
    BY <1>1, <1>2, TrailIs
  <1>4. PICK q \in RecordPlaces(files) : Position(files, q) = k
    BY <1>1, <1>2, TrailIs
  <1>5. files[p[1]][p[2]].id = files[q[1]][q[2]].id
    BY <1>1, <1>3, <1>4, TrailIs DEF Trail
  <1>6. /\ p[1] \in Slots /\ p[2] \in HashesIn(files[p[1]]) /\ p = <<p[1], p[2]>>
        /\ q[1] \in Slots /\ q[2] \in HashesIn(files[q[1]]) /\ q = <<q[1], q[2]>>
    BY <1>1, PlacesAre
  <1>7. p[1] = q[1] /\ p[2] = q[2]
    BY <1>5, <1>6 DEF UniqueInv, RecordsAreUnique
  <1> QED
    BY <1>3, <1>4, <1>6, <1>7

-----------------------------------------------------------------------------
(* Reviews: their types.                                                   *)

ReviewState ==
    [pc : {"idle", "verify", "walk", "done"}, purpose : {"verify", "anchor", "check", "prove"},
     target : Nat, todo : SUBSET Slots, tally : TallyState, seen : Nat, ok : BOOLEAN, moved : BOOLEAN]
AnchorState == [head : Nat, checked : Nat]
ReviewTypes == review \in ReviewState /\ anchors \in Seq(AnchorState)

\* What a review is after a step.
Fields(r, pc, purpose, target, todo, tally, seen, moved) ==
    /\ r.pc = pc /\ r.purpose = purpose /\ r.target = target /\ r.todo = todo
    /\ r.tally = tally /\ r.seen = seen /\ r.moved = moved

LEMMA ReviewIs ==
    ASSUME NEW pc \in {"idle", "verify", "walk", "done"}, NEW purpose \in {"verify", "anchor", "check", "prove"},
           NEW target \in Nat, NEW todo \in SUBSET Slots, NEW tally \in TallyState, NEW seen \in Nat
    PROVE  /\ Review(pc, purpose, target, todo, tally, seen) \in ReviewState
           /\ Fields(Review(pc, purpose, target, todo, tally, seen), pc, purpose, target, todo, tally, seen, FALSE)
  BY DEF Review, ReviewState, Fields

LEMMA ContinueIs ==
    ASSUME ReviewTypes,
           NEW pc \in {"idle", "verify", "walk", "done"}, NEW purpose \in {"verify", "anchor", "check", "prove"},
           NEW target \in Nat, NEW todo \in SUBSET Slots, NEW tally \in TallyState, NEW seen \in Nat,
           Continue(Review(pc, purpose, target, todo, tally, seen))
    PROVE  /\ review' \in ReviewState
           /\ Fields(review', pc, purpose, target, todo, tally, seen, review.moved)
  <1> DEFINE r == Review(pc, purpose, target, todo, tally, seen)
  <1>1. r \in ReviewState /\ Fields(r, pc, purpose, target, todo, tally, seen, FALSE)
    BY ReviewIs
  <1>2. review' = [r EXCEPT !.moved = review.moved] /\ review.moved \in BOOLEAN
    BY DEF Continue, ReviewTypes, ReviewState
  <1> HIDE DEF r
  <1> QED
    BY <1>1, <1>2 DEF ReviewState, Fields

LEMMA DecideIs ==
    ASSUME ReviewTypes, NEW ok \in BOOLEAN, Decide(ok)
    PROVE  /\ review' \in ReviewState /\ review'.ok = ok
           /\ Fields(review', "done", review.purpose, review.target, {}, review.tally, 0, review.moved)
  <1> DEFINE r == Review("done", review.purpose, review.target, {}, review.tally, 0)
  <1>1. r \in ReviewState /\ Fields(r, "done", review.purpose, review.target, {}, review.tally, 0, FALSE)
    BY ReviewIs DEF ReviewTypes, ReviewState
  <1>2. review' = [r EXCEPT !.ok = ok, !.moved = review.moved] /\ review.moved \in BOOLEAN
    BY DEF Decide, ReviewTypes, ReviewState
  <1> HIDE DEF r
  <1> QED
    BY <1>1, <1>2 DEF ReviewState, Fields

LEMMA FreshIs == Fresh \in TallyState /\ Fresh.prev = Genesis /\ Fresh.checked = 0 /\ Fresh.ok = TRUE
  BY DEF Fresh, Genesis, Tally, TallyState

LEMMA NoReviewIs == NoReview \in ReviewState /\ NoReview.pc = "idle"
  <1>1. {} \in SUBSET Slots /\ Fresh \in TallyState
    BY FreshIs
  <1>2. NoReview = Review("idle", "verify", 0, {}, Fresh, 0)
    BY DEF NoReview
  <1> QED
    BY <1>1, <1>2 DEF Review, ReviewState

-----------------------------------------------------------------------------
(* What each step of a review does.                                        *)

LEMMA BeginDoes ==
    ASSUME TypeInv, ReviewTypes, NEW purpose \in Purposes, NEW target \in 0..MaxRecords, Begin(purpose, target)
    PROVE  /\ ReviewTypes' /\ UNCHANGED <<files, disturbed, anchors>>
           /\ Fields(review', "verify", purpose, target, FilesOf(files), Fresh, 0, FALSE)
  <1>1. purpose \in {"verify", "anchor", "check", "prove"} /\ target \in Nat /\ Present \in SUBSET Slots
        /\ Present = FilesOf(files)
    BY PurposesAssumption, Constants DEF Present, FilesOf
  <1>2. review' = Review("verify", purpose, target, Present, Fresh, 0) /\ UNCHANGED <<vars, anchors>>
    BY DEF Begin
  <1>3. /\ review' \in ReviewState
        /\ Fields(review', "verify", purpose, target, Present, Fresh, 0, FALSE)
    <2>1. Fresh \in TallyState /\ "verify" \in {"idle", "verify", "walk", "done"} /\ 0 \in Nat
      BY FreshIs
    <2> QED
      BY <1>1, <1>2, <2>1, ReviewIs
  <1> QED
    BY <1>1, <1>2, <1>3 DEF ReviewTypes, vars

LEMMA VerifyFileDoes ==
    ASSUME TypeInv, ReviewTypes, VerifyFile
    PROVE  /\ ReviewTypes' /\ UNCHANGED <<files, disturbed, anchors>>
           /\ review.pc = "verify" /\ review.tally.ok
           /\ \E i \in Slots :
                /\ OldestOf(i, review.todo)
                /\ Fields(review', "verify", review.purpose, review.target, review.todo \ {i},
                          Check(review.tally, files[i]), 0, review.moved)
  <1>1. PICK i \in review.todo :
          /\ Oldest(i)
          /\ Continue(Review("verify", review.purpose, review.target, review.todo \ {i},
                             Check(review.tally, files[i]), 0))
    BY DEF VerifyFile
  <1>2. i \in Slots /\ OldestOf(i, review.todo) /\ review.tally \in TallyState
    BY <1>1 DEF Oldest, OldestOf, ReviewTypes, ReviewState
  <1>3. Check(review.tally, files[i]) \in TallyState
    BY <1>2, CheckIs DEF TypeInv
  <1>4. /\ review' \in ReviewState
        /\ Fields(review', "verify", review.purpose, review.target, review.todo \ {i},
                  Check(review.tally, files[i]), 0, review.moved)
    <2>1. /\ review.purpose \in {"verify", "anchor", "check", "prove"} /\ review.target \in Nat
          /\ review.todo \ {i} \in SUBSET Slots
      BY DEF ReviewTypes, ReviewState
    <2> QED
      BY <1>1, <1>3, <2>1, ContinueIs
  <1> QED
    BY <1>2, <1>4 DEF VerifyFile, Reading, ReviewTypes, vars

LEMMA AnswerVerifyDoes ==
    ASSUME ReviewTypes, AnswerVerify
    PROVE  /\ ReviewTypes' /\ UNCHANGED <<files, disturbed, anchors>>
           /\ review.pc = "verify" /\ review.purpose = "verify" /\ (review.todo = {} \/ ~review.tally.ok)
           /\ review'.ok = review.tally.ok
           /\ Fields(review', "done", review.purpose, review.target, {}, review.tally, 0, review.moved)
  <1>1. review.tally.ok \in BOOLEAN
    BY DEF ReviewTypes, ReviewState, TallyState
  <1>2. Decide(review.tally.ok) /\ UNCHANGED <<vars, anchors>>
    BY DEF AnswerVerify
  <1> QED
    BY <1>1, <1>2, DecideIs DEF AnswerVerify, Verified, Reading, ReviewTypes, vars

LEMMA RecordAnchorDoes ==
    ASSUME ReviewTypes, RecordAnchor
    PROVE  /\ ReviewTypes' /\ UNCHANGED <<files, disturbed>>
           /\ review.pc = "verify" /\ review'.pc = "idle"
           /\ \/ UNCHANGED anchors
              \/ /\ review.tally.ok /\ review.tally.checked > 0
                 /\ anchors' = Append(anchors, [head |-> review.tally.prev, checked |-> review.tally.checked])
  <1>1. /\ review.tally \in TallyState
        /\ [head |-> review.tally.prev, checked |-> review.tally.checked] \in AnchorState
    BY DEF ReviewTypes, ReviewState, TallyState, AnchorState
  <1>2. Append(anchors, [head |-> review.tally.prev, checked |-> review.tally.checked]) \in Seq(AnchorState)
    BY <1>1, AppendProperties DEF ReviewTypes
  <1> QED
    BY <1>2, NoReviewIs DEF RecordAnchor, Verified, Reading, ReviewTypes, vars

LEMMA BeginProofDoes ==
    ASSUME TypeInv, ReviewTypes, BeginProof
    PROVE  /\ ReviewTypes' /\ UNCHANGED <<files, disturbed, anchors>>
           /\ \/ review'.pc = "idle"
              \/ Fields(review', "walk", "prove", review.target, FilesOf(files), review.tally, 0, review.moved)
  <1>1. /\ review.target \in Nat /\ review.tally \in TallyState /\ Present \in SUBSET Slots
        /\ Present = FilesOf(files)
    BY DEF Present, FilesOf, ReviewTypes, ReviewState
  <1>2. CASE review.tally.ok
    <2>1. Continue(Review("walk", "prove", review.target, Present, review.tally, 0)) /\ UNCHANGED <<vars, anchors>>
      BY <1>2 DEF BeginProof
    <2>2. /\ "walk" \in {"idle", "verify", "walk", "done"}
          /\ "prove" \in {"verify", "anchor", "check", "prove"}
          /\ 0 \in Nat
      OBVIOUS
    <2>3. /\ review' \in ReviewState
          /\ Fields(review', "walk", "prove", review.target, Present, review.tally, 0, review.moved)
      BY <1>1, <2>1, <2>2, ContinueIs
    <2> QED
      BY <1>1, <2>1, <2>3 DEF ReviewTypes, vars
  <1>3. CASE ~review.tally.ok
    BY <1>3, NoReviewIs DEF BeginProof, ReviewTypes, vars
  <1> QED
    BY <1>2, <1>3

LEMMA CompareAnchorDoes ==
    ASSUME TypeInv, ReviewTypes, CompareAnchor
    PROVE  /\ ReviewTypes' /\ UNCHANGED <<files, disturbed, anchors>>
           /\ review.pc = "verify" /\ review.purpose = "check" /\ (review.todo = {} \/ ~review.tally.ok)
           /\ LET n == anchors[Len(anchors)].checked IN
              \/ /\ anchors = <<>> \/ review.tally.checked < n
                 /\ Fields(review', "done", review.purpose, review.target, {}, review.tally, 0, review.moved)
              \/ /\ anchors # <<>> /\ review.tally.checked = n
                 /\ Fields(review', "done", review.purpose, review.target, {}, review.tally, 0, review.moved)
                 /\ review.tally.prev = anchors[Len(anchors)].head => review'.ok = TRUE
              \/ /\ anchors # <<>> /\ review.tally.checked > n
                 /\ Fields(review', "walk", "check", n, FilesOf(files), review.tally, 0, review.moved)
  <1> DEFINE latest == anchors[Len(anchors)]
             n == latest.checked
             c == review.tally.checked
             same == review.tally.prev = latest.head
  <1>1. /\ review.tally \in TallyState /\ Present \in SUBSET Slots /\ Present = FilesOf(files) /\ c \in Nat
    BY DEF Present, FilesOf, ReviewTypes, ReviewState, TallyState
  <1>2. UNCHANGED <<vars, anchors>> /\ review.pc = "verify" /\ review.purpose = "check"
        /\ (review.todo = {} \/ ~review.tally.ok)
    BY DEF CompareAnchor, Verified, Reading
  <1>3. CASE anchors = <<>>
    <2>1. Decide(FALSE)
      BY <1>3 DEF CompareAnchor
    <2> QED
      BY <1>2, <1>3, <2>1, DecideIs DEF ReviewTypes, vars
  <1>4. CASE anchors # <<>>
    <2>1. latest \in AnchorState /\ n \in Nat
      <3>1. Len(anchors) \in Nat \ {0} /\ \A k \in 1..Len(anchors) : anchors[k] \in AnchorState
        BY <1>4, EmptySeq, LenProperties DEF ReviewTypes
      <3>2. latest \in AnchorState
        BY <3>1
      <3> HIDE DEF latest
      <3> QED
        BY <3>2 DEF AnchorState
    <2>2. CASE c < n
      <3>1. ~(c = n) /\ ~(c > n)
        <4> HIDE DEF c, n
        <4> QED
          BY <1>1, <2>1, <2>2
      <3>2. Decide(FALSE)
        BY <1>4, <2>2, <3>1, Zenon DEF CompareAnchor
      <3> QED
        BY <1>2, <2>2, <3>2, DecideIs DEF ReviewTypes, vars
    <2>3. CASE c = n
      <3>0. ~(c < n) /\ ~(c > n)
        <4> HIDE DEF c, n
        <4> QED
          BY <1>1, <2>1, <2>3
      <3>1. Decide(same)
        BY <1>4, <2>3, <3>0, Zenon DEF CompareAnchor
      <3>2. same \in BOOLEAN
        OBVIOUS
      <3> HIDE DEF same
      <3>3. /\ review' \in ReviewState /\ review'.ok = same
            /\ Fields(review', "done", review.purpose, review.target, {}, review.tally, 0, review.moved)
        BY <3>1, <3>2, DecideIs
      <3>4. review.tally.prev = latest.head => review'.ok = TRUE
        BY <3>3 DEF same
      <3> QED
        BY <1>2, <1>4, <2>3, <3>3, <3>4 DEF ReviewTypes, vars
    <2>4. CASE c > n
      <3>0. ~(c < n) /\ ~(c = n)
        <4> HIDE DEF c, n
        <4> QED
          BY <1>1, <2>1, <2>4
      <3>1. Continue(Review("walk", "check", n, Present, review.tally, 0))
        BY <1>4, <2>4, <3>0, Zenon DEF CompareAnchor
      <3>2. /\ "walk" \in {"idle", "verify", "walk", "done"}
            /\ "check" \in {"verify", "anchor", "check", "prove"}
            /\ 0 \in Nat
        OBVIOUS
      <3>3. /\ review' \in ReviewState
            /\ Fields(review', "walk", "check", n, Present, review.tally, 0, review.moved)
        BY <1>1, <2>1, <3>1, <3>2, ContinueIs
      <3> QED
        BY <1>1, <1>2, <1>4, <2>4, <3>3 DEF ReviewTypes, vars
    <2>5. c < n \/ c = n \/ c > n
      <3> HIDE DEF c, n
      <3> QED
        BY <1>1, <2>1
    <2> QED
      BY <2>2, <2>3, <2>4, <2>5
  <1> QED
    BY <1>3, <1>4

LEMMA WalkOnDoes ==
    ASSUME TypeInv, ReviewTypes, WalkOn
    PROVE  /\ ReviewTypes' /\ UNCHANGED <<files, disturbed, anchors>> /\ review.pc = "walk"
           /\ \E i \in Slots :
                /\ OldestOf(i, review.todo) /\ Hits(i) = {}
                /\ Fields(review', "walk", review.purpose, review.target, review.todo \ {i}, review.tally,
                          review.seen + Cardinality(HashesIn(files[i])), review.moved)
  <1>1. PICK i \in review.todo :
          /\ Oldest(i)
          /\ Hits(i) = {}
          /\ Continue(Review("walk", review.purpose, review.target, review.todo \ {i}, review.tally,
                             review.seen + Cardinality(HashesIn(files[i]))))
    BY DEF WalkOn
  <1>2. i \in Slots /\ OldestOf(i, review.todo) /\ review.seen \in Nat
    BY <1>1 DEF Oldest, OldestOf, ReviewTypes, ReviewState
  <1>3. Cardinality(HashesIn(files[i])) \in Nat
    BY <1>2, HashesFinite DEF TypeInv, AllFiles
  <1> DEFINE seen == review.seen + Cardinality(HashesIn(files[i]))
  <1>4. seen \in Nat
    BY <1>2, <1>3
  <1>5. Continue(Review("walk", review.purpose, review.target, review.todo \ {i}, review.tally, seen))
    BY <1>1
  <1> HIDE DEF seen
  <1>6. /\ review' \in ReviewState
        /\ Fields(review', "walk", review.purpose, review.target, review.todo \ {i}, review.tally, seen, review.moved)
    <2>1. /\ review.purpose \in {"verify", "anchor", "check", "prove"} /\ review.target \in Nat
          /\ review.todo \ {i} \in SUBSET Slots /\ review.tally \in TallyState
      BY DEF ReviewTypes, ReviewState
    <2> QED
      BY <1>4, <1>5, <2>1, ContinueIs
  <1> QED
    BY <1>1, <1>2, <1>6 DEF WalkOn, Reading, ReviewTypes, vars, seen

LEMMA WalkEndsDoes ==
    ASSUME ReviewTypes, WalkEnds
    PROVE  /\ ReviewTypes' /\ UNCHANGED <<files, disturbed, anchors>>
           /\ review.pc = "walk" /\ review.todo = {}
           /\ \/ review'.pc = "idle"
              \/ /\ review.purpose = "check"
                 /\ Fields(review', "done", review.purpose, review.target, {}, review.tally, 0, review.moved)
  <1>1. CASE review.purpose = "check"
    <2>1. Decide(FALSE)
      BY <1>1 DEF WalkEnds
    <2> QED
      BY <1>1, <2>1, DecideIs DEF WalkEnds, Reading, ReviewTypes, vars
  <1>2. CASE review.purpose # "check"
    BY <1>2, NoReviewIs DEF WalkEnds, Reading, ReviewTypes, vars
  <1> QED
    BY <1>1, <1>2

LEMMA AnswerCheckDoes ==
    ASSUME ReviewTypes, AnswerCheck
    PROVE  /\ ReviewTypes' /\ UNCHANGED <<files, disturbed, anchors>>
           /\ review.pc = "walk" /\ review.purpose = "check"
           /\ Fields(review', "done", review.purpose, review.target, {}, review.tally, 0, review.moved)
           /\ \E i \in Slots : \E a \in Hits(i) :
                /\ OldestOf(i, review.todo)
                /\ files[i][a].id = anchors[Len(anchors)].head => review'.ok = TRUE
  <1>1. PICK i \in review.todo : \E a \in Hits(i) :
          Oldest(i) /\ Decide(files[i][a].id = anchors[Len(anchors)].head)
    BY DEF AnswerCheck
  <1>2. PICK a \in Hits(i) : Oldest(i) /\ Decide(files[i][a].id = anchors[Len(anchors)].head)
    BY <1>1
  <1> DEFINE same == files[i][a].id = anchors[Len(anchors)].head
  <1>3. Decide(same) /\ same \in BOOLEAN
    BY <1>2
  <1>4. i \in Slots /\ OldestOf(i, review.todo)
    BY <1>2 DEF Oldest, OldestOf, ReviewTypes, ReviewState
  <1> HIDE DEF same
  <1>5. /\ review' \in ReviewState /\ review'.ok = same
        /\ Fields(review', "done", review.purpose, review.target, {}, review.tally, 0, review.moved)
    BY <1>3, DecideIs
  <1>6. files[i][a].id = anchors[Len(anchors)].head => review'.ok = TRUE
    BY <1>5 DEF same
  <1> QED
    BY <1>4, <1>5, <1>6 DEF AnswerCheck, Reading, ReviewTypes, vars

LEMMA IssueProofDoes ==
    ASSUME TypeInv, ReviewTypes, IssueProof
    PROVE  /\ ReviewTypes' /\ UNCHANGED <<files, disturbed, anchors>>
           /\ review.pc = "walk" /\ review.purpose = "prove"
           /\ \E i \in Slots : \E a \in Hits(i) :
                /\ OldestOf(i, review.todo)
                /\ Fields(review', "done", "prove", review.target, {}, review.tally,
                          review.seen + Ordinal(files[i], a), review.moved)
  <1>1. PICK i \in review.todo : \E a \in Hits(i) :
          /\ Oldest(i)
          /\ review' = [Review("done", "prove", review.target, {}, review.tally,
                               review.seen + Ordinal(files[i], a)) EXCEPT !.moved = review.moved]
    BY DEF IssueProof
  <1>2. PICK a \in Hits(i) :
          /\ Oldest(i)
          /\ review' = [Review("done", "prove", review.target, {}, review.tally,
                               review.seen + Ordinal(files[i], a)) EXCEPT !.moved = review.moved]
    BY <1>1
  <1> DEFINE seen == review.seen + Ordinal(files[i], a)
  <1>3. /\ i \in Slots /\ OldestOf(i, review.todo) /\ review.seen \in Nat /\ review.target \in Nat
        /\ review.tally \in TallyState
    BY <1>2 DEF Oldest, OldestOf, ReviewTypes, ReviewState
  <1>4. seen \in Nat
    <2>1. {b \in HashesIn(files[i]) : b <= a} \in SUBSET HashesIn(files[i]) /\ IsFiniteSet(HashesIn(files[i]))
      BY <1>3, HashesFinite DEF TypeInv, AllFiles
    <2>2. Ordinal(files[i], a) \in Nat
      BY <2>1, FS_Subset, FS_CardinalityType DEF Ordinal
    <2> QED
      BY <1>3, <2>2
  <1>5. Continue(Review("done", "prove", review.target, {}, review.tally, seen))
    BY <1>2 DEF Continue
  <1> HIDE DEF seen
  <1>6. "done" \in {"idle", "verify", "walk", "done"} /\ "prove" \in {"verify", "anchor", "check", "prove"}
        /\ {} \in SUBSET Slots
    OBVIOUS
  <1>7. /\ review' \in ReviewState
        /\ Fields(review', "done", "prove", review.target, {}, review.tally, seen, review.moved)
    BY <1>3, <1>4, <1>5, <1>6, ContinueIs
  <1> QED
    BY <1>3, <1>7 DEF IssueProof, Reading, ReviewTypes, vars, seen

LEMMA EndReviewDoes ==
    ASSUME ReviewTypes, EndReview
    PROVE  ReviewTypes' /\ UNCHANGED <<files, disturbed, anchors>> /\ review'.pc = "idle"
  BY NoReviewIs DEF EndReview, ReviewTypes, vars

LEMMA LoggingDoes ==
    ASSUME ReviewTypes, Logging
    PROVE  /\ ReviewTypes' /\ Next /\ UNCHANGED anchors
           /\ \/ review'.pc = "idle"
              \/ /\ Fields(review', review.pc, review.purpose, review.target, review.todo, review.tally,
                           review.seen, review'.moved)
                 /\ review'.ok = review.ok
                 /\ ~review'.moved => ~review.moved /\ ~Moves
  <1>1. CASE review' = NoReview
    BY <1>1, NoReviewIs DEF Logging, ReviewTypes
  <1>2. CASE review' = review /\ ~(Moves /\ ~Reading("idle"))
    <2>1. ReviewTypes'
      BY <1>2 DEF Logging, ReviewTypes
    <2>2. CASE Reading("idle")
      BY <1>2, <2>1, <2>2 DEF Logging, Reading
    <2>3. CASE ~Moves
      BY <1>2, <2>1, <2>3 DEF Logging, Fields
    <2> QED
      BY <1>2, <2>2, <2>3
  <1>3. CASE review' = [review EXCEPT !.moved = TRUE]
    <2>1. review \in ReviewState
      BY DEF ReviewTypes
    <2>2. review' \in ReviewState /\ review'.moved = TRUE /\ review'.ok = review.ok
          /\ Fields(review', review.pc, review.purpose, review.target, review.todo, review.tally, review.seen, TRUE)
      BY <1>3, <2>1 DEF ReviewState, Fields
    <2> QED
      BY <2>2 DEF Logging, ReviewTypes
  <1> QED
    BY <1>1, <1>2, <1>3 DEF Logging

-----------------------------------------------------------------------------
(* What a check of the trail relies on while records are added.            *)

StartKept(f) == TrailOf(f) # <<>> => TrailOf(f)[1].prev = Genesis
IsAt(f, n, h) == n \in 1..Len(TrailOf(f)) /\ TrailOf(f)[n].id = h

\* The start of the trail, once gone, does not come back; what stands in a trail
\* that still has its start stays where it is.
Evolves(f, g) ==
    /\ (KeepFiles > 0 \/ Quiet(f, g)) /\ StartKept(g) => StartKept(f) /\ \A n, h : IsAt(f, n, h) => IsAt(g, n, h)
    /\ Quiet(f, g) /\ StartKept(f) => StartKept(g)

LEMMA SameEvolves == \A f : Evolves(f, f)
  BY DEF Evolves

LEMMA TrailEvolves ==
    ASSUME NEW f \in AllFiles, NEW g \in AllFiles, GoodTrail(TrailOf(f)),
           TrailOf(g) = TrailOf(f) \/ Longer(TrailOf(f), TrailOf(g)) \/ Shorter(TrailOf(f), TrailOf(g))
    PROVE  Evolves(f, g)
  <1> DEFINE t == TrailOf(f)
             u == TrailOf(g)
             m == Len(t)
  <1>1. t \in Seq(Record) /\ u \in Seq(Record) /\ m \in Nat /\ GoodTrail(t)
        /\ (t = <<>> <=> m = 0)
    <2>1. t \in Seq(Record) /\ u \in Seq(Record)
      BY TrailIs
    <2> HIDE DEF t, u
    <2>2. m \in Nat /\ (t = <<>> => m = 0)
      BY <2>1, LenProperties, EmptySeq
    <2>3. t # <<>> => m # 0
      BY <2>1, EmptySeq
    <2> QED
      BY <2>1, <2>2, <2>3 DEF t
  <1>2. u = t \/ Longer(t, u) \/ Shorter(t, u)
    OBVIOUS
  <1>3. Quiet(f, g) => Len(t) <= Len(u)
    BY QuietFacts
  <1>4. /\ StartKept(f) <=> (t # <<>> => t[1].prev = Genesis)
        /\ StartKept(g) <=> (u # <<>> => u[1].prev = Genesis)
        /\ \A n, h : IsAt(f, n, h) <=> n \in 1..m /\ t[n].id = h
        /\ \A n, h : IsAt(g, n, h) <=> n \in 1..Len(u) /\ u[n].id = h
    BY DEF StartKept, IsAt
  <1> HIDE DEF t, u
  <1>5. CASE u = t
    BY <1>4, <1>5 DEF Evolves
  <1>6. CASE Longer(t, u)
    <2>1. Len(u) = m + 1 /\ \A k \in 1..m : u[k] = t[k]
      BY <1>1, <1>6, LongerIsGood
    <2>2. PICK r \in Record : r.prev = HeadOf(t) /\ u = Append(t, r)
      BY <1>6 DEF Longer
    <2>3. u # <<>>
      BY <1>1, <2>1, EmptySeq
    <2>4. t = <<>> => u[1].prev = Genesis
      <3>1. m = 0 => u[1] = r
        BY <1>1, <2>2, AppendProperties
      <3> QED
        BY <1>1, <2>2, <3>1 DEF HeadOf
    <2>5. t # <<>> => u[1] = t[1]
      <3>1. m # 0 => 1 \in 1..m
        BY <1>1
      <3> QED
        BY <1>1, <2>1, <3>1
    <2>6. StartKept(f) <=> StartKept(g)
      BY <1>4, <2>3, <2>4, <2>5
    <2>7. \A n \in 1..m : n \in 1..Len(u)
      BY <1>1, <2>1
    <2> QED
      BY <1>4, <2>1, <2>6, <2>7 DEF Evolves
  <1>7. CASE Shorter(t, u)
    <2>1. PICK n \in 1..m : u = SubSeq(t, n + 1, m) /\ (KeepFiles > 0 => n < m)
      BY <1>7 DEF Shorter
    <2>2. n \in 0..m /\ n \in Nat
      BY <1>1
    <2>3. Len(u) = m - n /\ \A k \in 1..(m - n) : u[k] = t[k + n]
      BY <1>1, <2>1, <2>2, ShorterIs
    <2>4. ~Quiet(f, g)
      BY <1>1, <1>3, <2>2, <2>3
    <2>5. ASSUME KeepFiles > 0 PROVE ~StartKept(g)
      <3>1. n \in 1..(m - 1) /\ 1 \in 1..(m - n) /\ 1 + n = n + 1 /\ n \in 1..m
        BY <1>1, <2>1, <2>2, <2>5
      <3>2. u[1] = t[n + 1]
        BY <2>3, <3>1
      <3>3. t[n + 1].prev = t[n].id /\ t[n].id > 0
        BY <1>1, <3>1 DEF GoodTrail
      <3>4. u # <<>>
        <4>1. Len(u) # 0
          BY <1>1, <2>2, <2>3, <3>1
        <4> QED
          BY <4>1, EmptySeq
      <3> QED
        BY <1>4, <3>2, <3>3, <3>4 DEF Genesis
    <2> QED
      BY <2>4, <2>5 DEF Evolves
  <1> QED
    BY <1>2, <1>5, <1>6, <1>7

LEMMA CalmEvolves ==
    ASSUME TypeInv, TypeInv', UniqueInv, AloneInv, ChainInv, HandInv, TrailInv, Next, Calm'
    PROVE  Evolves(files, files')
  <1>1. files \in AllFiles /\ files' \in AllFiles
    BY DEF TypeInv, AllFiles
  <1>2. Calm
    BY CalmBefore
  <1>3. GoodTrail(TrailOf(files))
    BY <1>2 DEF TrailInv, Trail
  <1>4. Trail' = Trail \/ Longer(Trail, Trail') \/ Shorter(Trail, Trail')
    BY TrailSteps
  <1> QED
    BY <1>1, <1>3, <1>4, TrailEvolves DEF Trail

\* A step of the log that no reader can notice adds a line to the active file.
LEMMA UnmovedIsQuiet ==
    ASSUME TypeInv, Next, ~Moves
    PROVE  Quiet(files, files')
  <1>1. files \in AllFiles /\ 0 \in Slots
    BY Constants DEF TypeInv, AllFiles, Slots
  <1>2. \A i \in Slots \ {0} : files'[i] = files[i]
    BY DEF Moves
  <1>3. files[0] # <<>> => files'[0] # <<>>
    BY DEF Moves
  <1>4. ASSUME files' \in AllFiles, files'[0] = files[0] PROVE files' = files
    BY <1>1, <1>2, <1>4 DEF AllFiles
  <1>5. CASE Restart
    BY <1>5 DEF Restart, Quiet
  <1>6. ASSUME NEW w \in Writers, AppendLine(w) PROVE Quiet(files, files')
    <2>1. writer[w].rec \in Line
      BY DEF TypeInv, WriterState, Line
    <2>2. files' = Grown(files, writer[w].rec)
      BY <1>6 DEF AppendLine, Grown
    <2> QED
      BY <2>1, <2>2 DEF Quiet
  <1>7. ASSUME NEW w \in Writers, TearLine(w) PROVE Quiet(files, files')
    <2>1. Open \in Line /\ files' = Grown(files, Open)
      BY <1>7 DEF TearLine, Grown, Line
    <2> QED
      BY <2>1 DEF Quiet
  <1>8. ASSUME NEW w \in Writers, Unlink(w) PROVE Quiet(files, files')
    <2>1. files' = [files EXCEPT ![KeepFiles] = <<>>]
      BY <1>8 DEF Unlink
    <2>2. KeepFiles \in Slots
      BY Constants DEF Slots
    <2>3. files'[KeepFiles] = <<>> /\ \A i \in Slots \ {KeepFiles} : files'[i] = files[i]
      BY <1>1, <2>1, <2>2 DEF AllFiles
    <2>4. files[KeepFiles] = <<>>
      <3>1. CASE KeepFiles = 0
        BY <1>3, <2>3, <3>1
      <3>2. CASE KeepFiles # 0
        BY <1>2, <2>2, <2>3, <3>2
      <3> QED
        BY <3>1, <3>2
    <2>5. files' = files
      BY <1>1, <2>1, <2>4 DEF AllFiles
    <2> QED
      BY <2>5 DEF Quiet
  <1>9. ASSUME NEW w \in Writers, Shift(w) PROVE Quiet(files, files')
    <2> DEFINE n == writer[w].slot
    <2>1. n \in Slots /\ n > 0 /\ files' = Renamed(n - 1, n)
      BY <1>9 DEF Shift, TypeInv, WriterState
    <2> HIDE DEF n
    <2>2. n \in Nat /\ n - 1 \in Slots /\ n # n - 1 /\ n # 0
      BY <2>1, Constants DEF Slots
    <2>3. CASE files[n - 1] = <<>>
      BY <2>1, <2>3 DEF Renamed, Quiet
    <2>4. CASE files[n - 1] # <<>>
      <3>1. files' = [k \in Slots |-> IF k = n THEN files[n - 1] ELSE IF k = n - 1 THEN <<>> ELSE files[k]]
        BY <2>1, <2>4 DEF Renamed
      <3>2. files'[n - 1] = <<>>
        BY <2>2, <3>1
      <3> QED
        BY <1>2, <1>3, <2>2, <2>4, <3>2
    <2> QED
      BY <2>3, <2>4
  <1>10. ASSUME NEW w \in Writers, Rotation(w) \/ Recovery(w) \/ Appending(w),
                ~AppendLine(w), ~TearLine(w), ~Unlink(w), ~Shift(w)
         PROVE  Quiet(files, files')
    BY <1>10 DEF Rotation, StatExists, Rotated, Recovery, List, Scan, ScanEnds, Loaded,
           Appending, StatSize, Resume, Finish, Quiet
  <1> QED
    BY <1>5, <1>6, <1>7, <1>8, <1>9, <1>10 DEF Next

-----------------------------------------------------------------------------
(* What a reader has found out so far: a review r, the anchors an, files f. *)

AnchorsHold(an, f) ==
    KeepFiles > 0 /\ StartKept(f) => \A n \in DOMAIN an : IsAt(f, an[n].checked, an[n].head)

\* verify has followed the chain from its start to the record it counted last.
LinkedSoFar(r, f) ==
    r.pc = "verify" /\ r.tally.ok =>
        /\ r.tally.checked = 0 => r.tally.prev = Genesis
        /\ r.tally.checked > 0 /\ StartKept(f) /\ (KeepFiles > 0 \/ ~r.moved)
             => IsAt(f, r.tally.checked, r.tally.prev)
\* If no file has moved, it has met all records up to there, and breaks off only
\* where the start of the chain is missing.
CountedSoFar(r, f) ==
    r.pc = "verify" /\ ~r.moved =>
        /\ r.tally.ok => Reads(f, r.todo, r.tally.checked)
        /\ r.tally.ok /\ (r.tally.checked > 0 \/ r.todo = {}) => StartKept(f)
        /\ ~r.tally.ok => ~StartKept(f)
\* The records up to position n are counted or lie ahead.
Ahead(f, todo, n, counted) ==
    \A p \in RecordPlaces(f) : Position(f, p) <= n => Position(f, p) <= counted \/ p[1] \in todo
AnchorAhead(r, an, f) ==
    r.pc = "verify" /\ ~r.moved /\ r.tally.ok /\ KeepFiles > 0 /\ StartKept(f) /\ an # <<>>
        => Ahead(f, r.todo, an[Len(an)].checked, r.tally.checked)
\* The walk to the anchored position has not passed it.
TargetAhead(r, an, f) ==
    r.pc = "walk" /\ r.purpose = "check" /\ ~r.moved /\ KeepFiles > 0 /\ StartKept(f) =>
        /\ an # <<>> /\ r.target = an[Len(an)].checked
        /\ \A p \in RecordPlaces(f) : Position(f, p) = r.target => p[1] \in r.todo
AnsweredRight(r, an, f) ==
    r.pc = "done" /\ ~r.moved =>
        /\ r.purpose = "verify" => (r.ok <=> StartKept(f))
        /\ r.purpose = "check" /\ KeepFiles > 0 /\ StartKept(f) /\ an # <<>> => r.ok

CalmParts(r, an, f) ==
    /\ AnchorsHold(an, f) /\ LinkedSoFar(r, f) /\ CountedSoFar(r, f) /\ AnchorAhead(r, an, f)
    /\ TargetAhead(r, an, f) /\ AnsweredRight(r, an, f)

\* A walk has counted the records that are older than what it reads next, also
\* in a log that writes have torn or raced on.
WalkCounts(r, f) == r.pc = "walk" /\ ~r.moved => Reads(f, r.todo, r.seen)
CertificateParts(r, f) ==
    r.pc = "done" /\ r.purpose = "prove" /\ ~r.moved => IsAt(f, r.seen, r.target)

-----------------------------------------------------------------------------
(* A step of the log.                                                      *)

LEMMA IsAtKept ==
    ASSUME NEW f \in AllFiles, NEW g, Quiet(f, g), NEW n, NEW h, IsAt(f, n, h)
    PROVE  IsAt(g, n, h)
  <1> DEFINE t == TrailOf(f)
             u == TrailOf(g)
  <1>1. Len(t) <= Len(u) /\ \A k \in 1..Len(t) : u[k] = t[k]
    BY QuietFacts
  <1>2. g \in AllFiles
    BY QuietFacts
  <1>3. Len(t) \in Nat /\ Len(u) \in Nat
    BY <1>2, TrailIs
  <1>4. n \in 1..Len(t) /\ t[n].id = h
    BY DEF IsAt
  <1> HIDE DEF t, u
  <1>5. n \in 1..Len(u) /\ u[n].id = h
    BY <1>1, <1>3, <1>4
  <1> QED
    BY <1>5 DEF IsAt, u

LEMMA LogKeepsWalk ==
    ASSUME NEW f \in AllFiles, NEW g, NEW r, NEW s,
           WalkCounts(r, f), CertificateParts(r, f),
           Fields(s, r.pc, r.purpose, r.target, r.todo, r.tally, r.seen, s.moved),
           ~s.moved => ~r.moved /\ Quiet(f, g)
    PROVE  WalkCounts(s, g) /\ CertificateParts(s, g)
  <1>1. s.pc = r.pc /\ s.purpose = r.purpose /\ s.target = r.target /\ s.todo = r.todo /\ s.seen = r.seen
    BY DEF Fields
  <1>2. WalkCounts(s, g)
    <2> SUFFICES ASSUME s.pc = "walk", ~s.moved PROVE Reads(g, s.todo, s.seen)
      BY DEF WalkCounts
    <2> QED
      BY <1>1, ReadsKept DEF WalkCounts
  <1>3. CertificateParts(s, g)
    <2> SUFFICES ASSUME s.pc = "done", s.purpose = "prove", ~s.moved PROVE IsAt(g, s.seen, s.target)
      BY DEF CertificateParts
    <2> QED
      BY <1>1, IsAtKept DEF CertificateParts
  <1> QED
    BY <1>2, <1>3

LEMMA LogKeepsAnchors ==
    ASSUME NEW f, NEW g, Evolves(f, g), NEW an, AnchorsHold(an, f)
    PROVE  AnchorsHold(an, g)
  BY DEF AnchorsHold, Evolves

\* A new record stands behind every position of an anchor.
LEMMA NewIsBehind ==
    ASSUME NEW f \in AllFiles, NEW g, Quiet(f, g), NEW n \in 1..Len(TrailOf(f)), NEW q \in RecordPlaces(g),
           Position(g, q) <= n
    PROVE  q \in RecordPlaces(f) /\ Position(f, q) = Position(g, q)
  <1>1. g \in AllFiles
    BY QuietFacts
  <1>2. /\ \A p \in RecordPlaces(f) : Position(g, p) = Position(f, p)
        /\ \A p \in RecordPlaces(g) \ RecordPlaces(f) : Position(g, p) > Size(f)
    BY QuietFacts
  <1>3. Len(TrailOf(f)) = Size(f) /\ Size(f) \in Nat /\ Position(g, q) \in 1..Size(g) /\ Size(g) \in Nat
    BY <1>1, TrailIs
  <1>4. ~(Position(g, q) > Size(f))
    BY <1>3
  <1> QED
    BY <1>2, <1>4

LEMMA LogKeepsParts ==
    ASSUME NEW f \in AllFiles, NEW g, Evolves(f, g), NEW an \in Seq(AnchorState), NEW r, NEW s,
           CalmParts(r, an, f),
           Fields(s, r.pc, r.purpose, r.target, r.todo, r.tally, r.seen, s.moved), s.ok = r.ok,
           ~s.moved => ~r.moved /\ Quiet(f, g)
    PROVE  CalmParts(s, an, g)
  <1>1. /\ s.pc = r.pc /\ s.purpose = r.purpose /\ s.target = r.target /\ s.todo = r.todo /\ s.seen = r.seen
        /\ s.tally = r.tally
    BY DEF Fields
  <1>2. AnchorsHold(an, g)
    BY LogKeepsAnchors DEF CalmParts
  <1>3. LinkedSoFar(s, g)
    BY <1>1 DEF CalmParts, LinkedSoFar, Evolves
  <1>4. CountedSoFar(s, g)
    <2> SUFFICES ASSUME s.pc = "verify", ~s.moved
                 PROVE  /\ s.tally.ok => Reads(g, s.todo, s.tally.checked)
                        /\ s.tally.ok /\ (s.tally.checked > 0 \/ s.todo = {}) => StartKept(g)
                        /\ ~s.tally.ok => ~StartKept(g)
      BY DEF CountedSoFar
    <2>1. /\ r.tally.ok => Reads(f, r.todo, r.tally.checked)
          /\ r.tally.ok /\ (r.tally.checked > 0 \/ r.todo = {}) => StartKept(f)
          /\ ~r.tally.ok => ~StartKept(f)
      BY <1>1 DEF CalmParts, CountedSoFar
    <2>2. StartKept(f) <=> StartKept(g)
      BY DEF Evolves
    <2> QED
      BY <1>1, <2>1, <2>2, ReadsKept
  <1>5. AnchorAhead(s, an, g)
    <2> SUFFICES ASSUME s.pc = "verify", ~s.moved, s.tally.ok, KeepFiles > 0, StartKept(g), an # <<>>,
                        NEW q \in RecordPlaces(g), Position(g, q) <= an[Len(an)].checked
                 PROVE  Position(g, q) <= s.tally.checked \/ q[1] \in s.todo
      BY DEF AnchorAhead, Ahead
    <2>1. StartKept(f) /\ Quiet(f, g)
      BY DEF Evolves
    <2>2. Len(an) \in DOMAIN an
      BY EmptySeq, LenProperties
    <2>3. an[Len(an)].checked \in 1..Len(TrailOf(f))
      BY <2>1, <2>2 DEF CalmParts, AnchorsHold, IsAt
    <2>4. q \in RecordPlaces(f) /\ Position(f, q) = Position(g, q)
      BY <2>1, <2>3, NewIsBehind
    <2>5. Ahead(f, r.todo, an[Len(an)].checked, r.tally.checked)
      BY <1>1, <2>1 DEF CalmParts, AnchorAhead
    <2> QED
      BY <1>1, <2>4, <2>5 DEF Ahead
  <1>6. TargetAhead(s, an, g)
    <2> SUFFICES ASSUME s.pc = "walk", s.purpose = "check", ~s.moved, KeepFiles > 0, StartKept(g)
                 PROVE  /\ an # <<>> /\ s.target = an[Len(an)].checked
                        /\ \A q \in RecordPlaces(g) : Position(g, q) = s.target => q[1] \in s.todo
      BY DEF TargetAhead
    <2>1. StartKept(f) /\ Quiet(f, g)
      BY DEF Evolves
    <2>2. /\ an # <<>> /\ r.target = an[Len(an)].checked
          /\ \A p \in RecordPlaces(f) : Position(f, p) = r.target => p[1] \in r.todo
      BY <1>1, <2>1 DEF CalmParts, TargetAhead
    <2>3. Len(an) \in DOMAIN an
      BY <2>2, EmptySeq, LenProperties
    <2>4. r.target \in 1..Len(TrailOf(f))
      BY <2>1, <2>2, <2>3 DEF CalmParts, AnchorsHold, IsAt
    <2>5. ASSUME NEW q \in RecordPlaces(g), Position(g, q) = s.target PROVE q[1] \in s.todo
      <3>1. Position(g, q) <= r.target
        BY <1>1, <2>4, <2>5
      <3>2. q \in RecordPlaces(f) /\ Position(f, q) = Position(g, q)
        BY <2>1, <2>4, <3>1, NewIsBehind
      <3> QED
        BY <1>1, <2>2, <2>5, <3>2
    <2> QED
      BY <1>1, <2>2, <2>5
  <1>7. AnsweredRight(s, an, g)
    BY <1>1 DEF CalmParts, AnsweredRight, Evolves
  <1> QED
    BY <1>2, <1>3, <1>4, <1>5, <1>6, <1>7 DEF CalmParts

-----------------------------------------------------------------------------
(* verify reads a file.                                                    *)

LEMMA FirstLine ==
    ASSUME NEW f \in AllFiles, Whole(f), GoodTrail(TrailOf(f)), NEW i \in Slots, f[i] # <<>>
    PROVE  LET q == Older(f, i) IN
           /\ q \in Nat /\ TrailOf(f) # <<>>
           /\ q = 0 => f[i][1] = TrailOf(f)[1]
           /\ q # 0 => q \in 1..Len(TrailOf(f)) /\ f[i][1].prev = TrailOf(f)[q].id /\ TrailOf(f)[q].id > 0
  <1> DEFINE q == Older(f, i)
             t == TrailOf(f)
             m == Len(t)
             n == Len(f[i])
  <1>1. n \in Nat \ {0} /\ q \in Nat /\ q + n <= m /\ t[q + 1] = f[i][1]
    BY FilePlaces
  <1>2. m \in Nat /\ t \in Seq(Record) /\ GoodTrail(t)
    BY TrailIs
  <1> HIDE DEF q, t, n
  <1>3. m # 0
    BY <1>1, <1>2
  <1>4. t # <<>>
    BY <1>3, EmptySeq
  <1>5. CASE q = 0
    BY <1>1, <1>4, <1>5 DEF q, t
  <1>6. CASE q # 0
    <2>1. q \in 1..m /\ q \in 1..(m - 1)
      BY <1>1, <1>2, <1>6
    <2>2. t[q + 1].prev = t[q].id /\ t[q].id > 0
      BY <1>2, <2>1 DEF GoodTrail
    <2> QED
      BY <1>1, <1>4, <1>6, <2>1, <2>2 DEF q, t
  <1> QED
    BY <1>5, <1>6

\* The next line links to what verify has read: this is the file that follows.
LEMMA LinkedFollows ==
    ASSUME TypeInv, UniqueInv, Whole(files), GoodTrail(Trail), NEW i \in Slots, files[i] # <<>>, StartKept(files),
           NEW tally \in TallyState, files[i][1].prev = tally.prev,
           tally.checked = 0 => tally.prev = Genesis,
           tally.checked > 0 => IsAt(files, tally.checked, tally.prev)
    PROVE  Older(files, i) = tally.checked
  <1> DEFINE q == Older(files, i)
             c == tally.checked
  <1>1. files \in AllFiles /\ c \in Nat
    BY DEF TypeInv, AllFiles, TallyState
  <1>2. /\ q \in Nat /\ Trail # <<>>
        /\ q = 0 => files[i][1] = Trail[1]
        /\ q # 0 => q \in 1..Len(Trail) /\ files[i][1].prev = Trail[q].id /\ Trail[q].id > 0
    BY <1>1, FirstLine DEF Trail
  <1>3. Trail[1].prev = Genesis
    BY <1>2 DEF StartKept, Trail
  <1>4. c > 0 => c \in 1..Len(Trail) /\ Trail[c].id = tally.prev /\ tally.prev > 0
    <2>1. c > 0 => c \in 1..Len(Trail) /\ Trail[c].id = tally.prev
      BY DEF IsAt, Trail
    <2> QED
      BY <2>1 DEF GoodTrail
  <1> HIDE DEF q, c
  <1>5. CASE c = 0
    <2>1. q = 0
      BY <1>2, <1>5 DEF Genesis, c
    <2> QED
      BY <1>5, <2>1 DEF q, c
  <1>6. CASE c # 0
    <2>1. c > 0
      BY <1>1, <1>6
    <2>2. q # 0
      BY <1>2, <1>3, <1>4, <2>1 DEF Genesis
    <2>3. q \in 1..Len(Trail) /\ c \in 1..Len(Trail) /\ Trail[q].id = Trail[c].id
      BY <1>2, <1>4, <2>1, <2>2
    <2>4. q = c
      BY <2>3, TrailIsUnique
    <2> QED
      BY <2>4 DEF q, c
  <1> QED
    BY <1>5, <1>6

LEMMA VerifyFileParts ==
    ASSUME TypeInv, UniqueInv, ReviewTypes, Whole(files), Chained(files), GoodTrail(Trail),
           CalmParts(review, anchors, files), VerifyFile
    PROVE  CalmParts(review', anchors', files')
  <1> DEFINE f == files
             r == review
             s == review'
             tally == review.tally
  <1>1. /\ files' = f /\ anchors' = anchors /\ r.pc = "verify" /\ tally.ok /\ tally \in TallyState
        /\ f \in AllFiles
    BY VerifyFileDoes DEF ReviewTypes, ReviewState, TypeInv, AllFiles
  <1>2. PICK i \in Slots :
          /\ OldestOf(i, r.todo)
          /\ Fields(s, "verify", r.purpose, r.target, r.todo \ {i}, Check(tally, f[i]), 0, r.moved)
    BY VerifyFileDoes
  <1> DEFINE c == Check(tally, f[i])
             N == Len(f[i])
             q == Older(f, i)
  <1>3. s.pc = "verify" /\ s.todo = r.todo \ {i} /\ s.tally = c /\ s.moved = r.moved
    BY <1>2 DEF Fields
  <1>4. /\ f[i] = <<>> => c = Tally(tally.prev, tally.checked, TRUE)
        /\ f[i] # <<>> /\ f[i][1].prev = tally.prev => c = Tally(Last(f, i), tally.checked + N, TRUE)
        /\ f[i] # <<>> /\ f[i][1].prev # tally.prev => c.ok = FALSE
    BY <1>1, CalmCheck
  <1>5. /\ tally.checked = 0 => tally.prev = Genesis
        /\ tally.checked > 0 /\ StartKept(f) /\ (KeepFiles > 0 \/ ~r.moved) => IsAt(f, tally.checked, tally.prev)
    BY <1>1 DEF CalmParts, LinkedSoFar
  <1>6. ~r.moved =>
          /\ q = tally.checked /\ f[i] # <<>>
          /\ Reads(f, r.todo \ {i}, tally.checked + Cardinality(HashesIn(f[i])))
          /\ tally.checked > 0 => StartKept(f)
    <2> SUFFICES ASSUME ~r.moved
                 PROVE  /\ q = tally.checked /\ f[i] # <<>>
                        /\ Reads(f, r.todo \ {i}, tally.checked + Cardinality(HashesIn(f[i])))
                        /\ tally.checked > 0 => StartKept(f)
      OBVIOUS
    <2>1. Reads(f, r.todo, tally.checked) /\ (tally.checked > 0 => StartKept(f))
      BY <1>1 DEF CalmParts, CountedSoFar
    <2>2. f \in AllFiles /\ OldestOf(i, r.todo)
      BY <1>1, <1>2
    <2>3. /\ q = tally.checked /\ f[i] # <<>>
          /\ Reads(f, r.todo \ {i}, tally.checked + Cardinality(HashesIn(f[i])))
      BY <2>1, <2>2, ReadsOn
    <2> QED
      BY <2>1, <2>3
  <1>7. tally.checked \in Nat
    BY <1>1 DEF TallyState
  <1>8. f[i] # <<>> =>
          /\ N \in Nat \ {0} /\ Cardinality(HashesIn(f[i])) = N /\ q \in Nat /\ q + N <= Len(Trail)
          /\ Trail[q + N] = f[i][N] /\ \A a \in HashesIn(f[i]) : Position(f, <<i, a>>) <= q + N
    BY <1>1, FilePlaces DEF Trail
  <1>9. f[i] # <<>> =>
          /\ q \in Nat /\ Trail # <<>>
          /\ q = 0 => f[i][1] = Trail[1]
          /\ q # 0 => q \in 1..Len(Trail) /\ f[i][1].prev = Trail[q].id /\ Trail[q].id > 0
    BY <1>1, FirstLine DEF Trail
  <1>10. AnchorsHold(anchors', files') /\ TargetAhead(s, anchors', files') /\ AnsweredRight(s, anchors', files')
    BY <1>1, <1>3 DEF CalmParts, TargetAhead, AnsweredRight
  <1>11. CASE f[i] = <<>>
    <2>1. r.moved
      BY <1>6, <1>11
    <2>2. s.tally.prev = tally.prev /\ s.tally.checked = tally.checked /\ s.tally.ok = TRUE
      BY <1>3, <1>4, <1>11 DEF Tally
    <2> QED
      BY <1>1, <1>3, <1>5, <1>10, <2>1, <2>2 DEF CalmParts, LinkedSoFar, CountedSoFar, AnchorAhead
  <1>12. CASE f[i] # <<>> /\ f[i][1].prev = tally.prev
    <2>1. s.tally.prev = Last(f, i) /\ s.tally.checked = tally.checked + N /\ s.tally.ok = TRUE
      BY <1>3, <1>4, <1>12 DEF Tally
    <2>2. LinkedSoFar(s, f)
      <3> SUFFICES ASSUME StartKept(f), KeepFiles > 0 \/ ~r.moved
                   PROVE  IsAt(f, tally.checked + N, Last(f, i))
        <4>1. tally.checked + N # 0
          BY <1>7, <1>8, <1>12
        <4> QED
          BY <1>3, <2>1, <4>1 DEF LinkedSoFar
      <3>1. q = tally.checked
        BY <1>1, <1>5, <1>12, LinkedFollows
      <3>2. q + N \in 1..Len(Trail) /\ Trail[q + N].id = Last(f, i)
        <4>1. Len(Trail) \in Nat
          BY <1>1, TrailIs DEF Trail
        <4>2. Trail[q + N].id = Last(f, i)
          BY <1>8, <1>12 DEF Last
        <4> HIDE DEF N, q
        <4> QED
          BY <1>8, <1>12, <4>1, <4>2
      <3> QED
        BY <3>1, <3>2 DEF IsAt, Trail
    <2>3. CountedSoFar(s, f)
      <3> SUFFICES ASSUME ~r.moved
                   PROVE  Reads(f, s.todo, s.tally.checked) /\ StartKept(f)
        BY <1>3, <2>1 DEF CountedSoFar
      <3>1. Reads(f, s.todo, s.tally.checked)
        BY <1>3, <1>6, <1>8, <1>12, <2>1
      <3>2. CASE tally.checked > 0
        BY <1>6, <3>1, <3>2
      <3>3. CASE ~(tally.checked > 0)
        <4>1. tally.checked = 0 /\ q = 0
          BY <1>6, <1>7, <3>3
        <4>2. Trail[1].prev = Genesis
          BY <1>5, <1>9, <1>12, <4>1
        <4> QED
          BY <3>1, <4>2 DEF StartKept, Trail
      <3> QED
        BY <3>2, <3>3
    <2>4. AnchorAhead(s, anchors, f)
      <3> SUFFICES ASSUME ~r.moved, KeepFiles > 0, StartKept(f), anchors # <<>>, NEW p \in RecordPlaces(f),
                          Position(f, p) <= anchors[Len(anchors)].checked
                   PROVE  Position(f, p) <= tally.checked + N \/ p[1] \in r.todo \ {i}
        BY <1>3, <2>1 DEF AnchorAhead, Ahead
      <3>1. Position(f, p) <= tally.checked \/ p[1] \in r.todo
        BY <1>1 DEF CalmParts, AnchorAhead, Ahead
      <3>2. Position(f, p) \in Nat
        BY <1>1, TrailIs
      <3>3. p[1] = i => Position(f, p) <= tally.checked + N
        BY <1>1, <1>6, <1>8, <1>12, PlacesAre
      <3> HIDE DEF N
      <3>4. N \in Nat
        BY <1>8, <1>12
      <3> QED
        BY <1>7, <3>1, <3>2, <3>3, <3>4
    <2> QED
      BY <1>1, <1>10, <2>2, <2>3, <2>4 DEF CalmParts
  <1>13. CASE f[i] # <<>> /\ f[i][1].prev # tally.prev
    <2>1. s.tally.ok = FALSE
      BY <1>3, <1>4, <1>13
    <2>2. ASSUME ~r.moved, StartKept(f) PROVE FALSE
      <3>1. q = tally.checked
        BY <1>6, <2>2
      <3>2. CASE tally.checked = 0
        <4>1. Trail[1].prev = Genesis
          BY <1>9, <1>13, <2>2 DEF StartKept, Trail
        <4> QED
          BY <1>5, <1>9, <1>13, <3>1, <3>2, <4>1
      <3>3. CASE tally.checked # 0
        <4>1. tally.checked > 0
          BY <1>7, <3>3
        <4>2. Trail[tally.checked].id = tally.prev
          BY <1>5, <2>2, <4>1 DEF IsAt, Trail
        <4> QED
          BY <1>9, <1>13, <3>1, <3>3, <4>2
      <3> QED
        BY <3>2, <3>3
    <2> QED
      BY <1>1, <1>3, <1>10, <2>1, <2>2 DEF CalmParts, LinkedSoFar, CountedSoFar, AnchorAhead
  <1> QED
    BY <1>11, <1>12, <1>13

-----------------------------------------------------------------------------
(* The other steps of a review.                                            *)

\* Nothing to say of a review that is over.
LEMMA NothingAsked ==
    ASSUME NEW s, s.pc = "idle", NEW an, NEW f, AnchorsHold(an, f)
    PROVE  CalmParts(s, an, f)
  BY DEF CalmParts, LinkedSoFar, CountedSoFar, AnchorAhead, TargetAhead, AnsweredRight

LEMMA BeginParts ==
    ASSUME TypeInv, ReviewTypes, CalmParts(review, anchors, files),
           NEW purpose \in Purposes, NEW target \in 0..MaxRecords, Begin(purpose, target)
    PROVE  CalmParts(review', anchors', files')
  <1> DEFINE f == files
             s == review'
  <1>1. /\ files' = f /\ anchors' = anchors /\ f \in AllFiles
        /\ s.pc = "verify" /\ s.todo = FilesOf(f) /\ s.tally = Fresh /\ s.moved = FALSE
    BY BeginDoes DEF Fields, TypeInv, AllFiles
  <1>2. Fresh.prev = Genesis /\ Fresh.checked = 0 /\ Fresh.ok = TRUE
    BY FreshIs
  <1>3. LinkedSoFar(s, f)
    BY <1>1, <1>2 DEF LinkedSoFar
  <1>4. CountedSoFar(s, f)
    <2>1. Reads(f, s.todo, 0)
      BY <1>1, ReadsStart
    <2>2. s.todo = {} => StartKept(f)
      <3>1. s.todo = {} => NoFiles(f)
        BY <1>1 DEF FilesOf, NoFiles
      <3> QED
        BY <1>1, <3>1, EmptyTrail DEF StartKept
    <2> QED
      BY <1>1, <1>2, <2>1, <2>2 DEF CountedSoFar
  <1>5. AnchorAhead(s, anchors, f)
    <2>1. \A p \in RecordPlaces(f) : p[1] \in s.todo
      <3>1. \A p \in RecordPlaces(f) : p[1] \in Slots /\ p[2] \in HashesIn(f[p[1]])
        BY <1>1, PlacesAre
      <3>2. \A i \in Slots : f[i] = <<>> => HashesIn(f[i]) = {}
        BY DEF HashesIn
      <3> QED
        BY <1>1, <3>1, <3>2 DEF FilesOf
    <2> QED
      BY <2>1 DEF AnchorAhead, Ahead
  <1>6. TargetAhead(s, anchors, f) /\ AnsweredRight(s, anchors, f)
    BY <1>1 DEF TargetAhead, AnsweredRight
  <1> QED
    BY <1>1, <1>3, <1>4, <1>5, <1>6 DEF CalmParts

LEMMA AnswerVerifyParts ==
    ASSUME ReviewTypes, CalmParts(review, anchors, files), AnswerVerify
    PROVE  CalmParts(review', anchors', files')
  <1> DEFINE f == files
             r == review
             s == review'
  <1>1. /\ files' = f /\ anchors' = anchors /\ r.pc = "verify" /\ (r.todo = {} \/ ~r.tally.ok)
        /\ s.pc = "done" /\ s.purpose = "verify" /\ s.ok = r.tally.ok /\ s.moved = r.moved
    BY AnswerVerifyDoes DEF Fields
  <1>2. ~s.moved => (s.ok <=> StartKept(f))
    BY <1>1 DEF CalmParts, CountedSoFar
  <1>3. AnsweredRight(s, anchors, f)
    BY <1>1, <1>2 DEF AnsweredRight
  <1>4. LinkedSoFar(s, f) /\ CountedSoFar(s, f) /\ AnchorAhead(s, anchors, f) /\ TargetAhead(s, anchors, f)
    BY <1>1 DEF LinkedSoFar, CountedSoFar, AnchorAhead, TargetAhead
  <1> QED
    BY <1>1, <1>3, <1>4 DEF CalmParts

LEMMA RecordAnchorParts ==
    ASSUME ReviewTypes, CalmParts(review, anchors, files), RecordAnchor
    PROVE  CalmParts(review', anchors', files')
  <1> DEFINE f == files
             r == review
             x == [head |-> r.tally.prev, checked |-> r.tally.checked]
  <1>1. /\ files' = f /\ r.pc = "verify" /\ review'.pc = "idle"
        /\ \/ anchors' = anchors
           \/ r.tally.ok /\ r.tally.checked > 0 /\ anchors' = Append(anchors, x)
    BY RecordAnchorDoes
  <1>2. CASE anchors' = anchors
    BY <1>1, <1>2, NothingAsked DEF CalmParts
  <1>3. CASE r.tally.ok /\ r.tally.checked > 0 /\ anchors' = Append(anchors, x)
    <2>1. ASSUME KeepFiles > 0, StartKept(f) PROVE IsAt(f, x.checked, x.head)
      BY <1>1, <1>3, <2>1 DEF CalmParts, LinkedSoFar
    <2> HIDE DEF x
    <2>2. AnchorsHold(anchors', f)
      <3> SUFFICES ASSUME KeepFiles > 0, StartKept(f), NEW n \in DOMAIN anchors'
                   PROVE  IsAt(f, anchors'[n].checked, anchors'[n].head)
        BY DEF AnchorsHold
      <3> DEFINE m == Len(anchors)
      <3>1. anchors \in Seq(AnchorState) /\ m \in Nat /\ DOMAIN anchors = 1..m /\ x \in AnchorState
        <4>1. x \in AnchorState
          BY DEF x, ReviewTypes, ReviewState, TallyState, AnchorState
        <4> QED
          BY <4>1, LenProperties DEF ReviewTypes
      <3>2. /\ DOMAIN anchors' = 1..(m + 1) /\ anchors'[m + 1] = x
            /\ \A k \in 1..m : anchors'[k] = anchors[k]
        <4>1. anchors' \in Seq(AnchorState) /\ Len(anchors') = m + 1 /\ anchors'[m + 1] = x
              /\ \A k \in 1..m : anchors'[k] = anchors[k]
          BY <1>3, <3>1, AppendProperties
        <4> QED
          BY <4>1, LenProperties
      <3> HIDE DEF m
      <3>3. CASE n = m + 1
        BY <2>1, <3>2, <3>3
      <3>4. CASE n # m + 1
        <4>1. n \in 1..m
          BY <3>1, <3>2, <3>4
        <4> QED
          BY <3>1, <3>2, <4>1 DEF CalmParts, AnchorsHold
      <3> QED
        BY <3>3, <3>4
    <2> QED
      BY <1>1, <2>2, NothingAsked
  <1> QED
    BY <1>1, <1>2, <1>3

LEMMA BeginProofParts ==
    ASSUME TypeInv, ReviewTypes, CalmParts(review, anchors, files), BeginProof
    PROVE  CalmParts(review', anchors', files')
  <1>1. files' = files /\ anchors' = anchors
        /\ (review'.pc = "idle" \/ (review'.pc = "walk" /\ review'.purpose = "prove"))
    BY BeginProofDoes DEF Fields
  <1> QED
    BY <1>1 DEF CalmParts, LinkedSoFar, CountedSoFar, AnchorAhead, TargetAhead, AnsweredRight

\* All records lie ahead of a reader that starts.
LEMMA AllAhead ==
    ASSUME NEW f \in AllFiles
    PROVE  \A p \in RecordPlaces(f) : p[1] \in FilesOf(f)
  <1>1. \A p \in RecordPlaces(f) : p[1] \in Slots /\ p[2] \in HashesIn(f[p[1]])
    BY PlacesAre
  <1>2. \A i \in Slots : f[i] = <<>> => HashesIn(f[i]) = {}
    BY DEF HashesIn
  <1> QED
    BY <1>1, <1>2 DEF FilesOf

\* The newest anchor, where the checks compare it.
LEMMA LatestHolds ==
    ASSUME ReviewTypes, AnchorsHold(anchors, files), KeepFiles > 0, StartKept(files), anchors # <<>>
    PROVE  LET latest == anchors[Len(anchors)] IN
           latest.checked \in 1..Len(Trail) /\ Trail[latest.checked].id = latest.head
  <1>1. Len(anchors) \in DOMAIN anchors
    BY EmptySeq, LenProperties DEF ReviewTypes
  <1> QED
    BY <1>1 DEF AnchorsHold, IsAt, Trail

LEMMA CompareAnchorParts ==
    ASSUME TypeInv, ReviewTypes, CalmParts(review, anchors, files), CompareAnchor
    PROVE  CalmParts(review', anchors', files')
  <1> DEFINE f == files
             r == review
             s == review'
             n == anchors[Len(anchors)].checked
             c == review.tally.checked
  <1>1. /\ files' = f /\ anchors' = anchors /\ f \in AllFiles
        /\ r.pc = "verify" /\ r.purpose = "check" /\ (r.todo = {} \/ ~r.tally.ok)
    BY CompareAnchorDoes DEF TypeInv, AllFiles
  <1>2. \/ /\ anchors = <<>> \/ c < n
           /\ s.pc = "done" /\ s.purpose = "check" /\ s.moved = r.moved
        \/ /\ anchors # <<>> /\ c = n
           /\ s.pc = "done" /\ s.purpose = "check" /\ s.moved = r.moved
           /\ r.tally.prev = anchors[Len(anchors)].head => s.ok = TRUE
        \/ /\ anchors # <<>>
           /\ s.pc = "walk" /\ s.target = n /\ s.todo = FilesOf(f)
    BY CompareAnchorDoes DEF Fields
  <1>3. LinkedSoFar(s, f) /\ CountedSoFar(s, f) /\ AnchorAhead(s, anchors, f)
    BY <1>2 DEF LinkedSoFar, CountedSoFar, AnchorAhead
  <1>4. TargetAhead(s, anchors, f)
    BY <1>1, <1>2, AllAhead DEF TargetAhead
  <1>5. AnsweredRight(s, anchors, f)
    <2> SUFFICES ASSUME s.pc = "done", ~s.moved, KeepFiles > 0, StartKept(f), anchors # <<>>, s.purpose = "check"
                 PROVE  s.ok
      BY <1>2 DEF AnsweredRight
    <2>1. n \in 1..Len(Trail) /\ Trail[n].id = anchors[Len(anchors)].head
      BY LatestHolds DEF CalmParts
    <2>2. ~r.moved /\ r.tally.ok /\ r.todo = {}
      BY <1>1, <1>2 DEF CalmParts, CountedSoFar
    <2>3. c \in Nat
      BY DEF ReviewTypes, ReviewState, TallyState
    <2>4. ASSUME c < n PROVE FALSE
      <3>1. Len(Trail) = Size(f) /\ Size(f) \in Nat
        BY <1>1, TrailIs DEF Trail
      <3>2. PICK p \in RecordPlaces(f) : Position(f, p) = n
        BY <1>1, <2>1, <3>1, TrailIs
      <3>3. Position(f, p) <= n
        <4>1. n \in Nat
          BY <2>1, <3>1
        <4> QED
          BY <3>2, <4>1
      <3>4. Position(f, p) <= c \/ p[1] \in r.todo
        BY <1>1, <2>2, <3>3 DEF CalmParts, AnchorAhead, Ahead
      <3>5. n <= c
        BY <2>2, <3>2, <3>4
      <3> HIDE DEF n, c
      <3> QED
        BY <2>1, <2>3, <2>4, <3>1, <3>5
    <2>5. c = n => r.tally.prev = anchors[Len(anchors)].head
      <3>1. c = n => c > 0
        BY <2>1, <2>3
      <3>2. c > 0 => IsAt(f, c, r.tally.prev)
        BY <1>1, <2>2 DEF CalmParts, LinkedSoFar
      <3>3. c > 0 => Trail[c].id = r.tally.prev
        BY <3>2 DEF IsAt, Trail
      <3> QED
        BY <2>1, <3>1, <3>3
    <2> QED
      BY <1>2, <2>4, <2>5
  <1> QED
    BY <1>1, <1>3, <1>4, <1>5 DEF CalmParts

LEMMA WalkOnParts ==
    ASSUME TypeInv, ReviewTypes, CalmParts(review, anchors, files), WalkCounts(review, files), WalkOn
    PROVE  CalmParts(review', anchors', files')
  <1> DEFINE f == files
             r == review
             s == review'
  <1>1. files' = f /\ anchors' = anchors /\ f \in AllFiles /\ r.pc = "walk"
    BY WalkOnDoes DEF TypeInv, AllFiles
  <1>2. PICK i \in Slots :
          /\ OldestOf(i, r.todo) /\ Hits(i) = {}
          /\ s.pc = "walk" /\ s.purpose = r.purpose /\ s.target = r.target /\ s.todo = r.todo \ {i}
          /\ s.moved = r.moved
    BY WalkOnDoes DEF Fields
  <1>3. LinkedSoFar(s, f) /\ CountedSoFar(s, f) /\ AnchorAhead(s, anchors, f) /\ AnsweredRight(s, anchors, f)
    BY <1>2 DEF LinkedSoFar, CountedSoFar, AnchorAhead, AnsweredRight
  <1>4. TargetAhead(s, anchors, f)
    <2> SUFFICES ASSUME r.purpose = "check", ~r.moved, KeepFiles > 0, StartKept(f)
                 PROVE  /\ anchors # <<>> /\ r.target = anchors[Len(anchors)].checked
                        /\ \A p \in RecordPlaces(f) : Position(f, p) = r.target => p[1] \in r.todo \ {i}
      BY <1>2 DEF TargetAhead
    <2>1. /\ anchors # <<>> /\ r.target = anchors[Len(anchors)].checked
          /\ \A p \in RecordPlaces(f) : Position(f, p) = r.target => p[1] \in r.todo
      BY <1>1 DEF CalmParts, TargetAhead
    <2>2. Older(f, i) = r.seen
      <3>1. Reads(f, r.todo, r.seen)
        BY <1>1 DEF WalkCounts
      <3> QED
        BY <1>2, <3>1 DEF Reads
    <2>3. ASSUME NEW p \in RecordPlaces(f), Position(f, p) = r.target, p[1] = i PROVE FALSE
      <3>1. p[2] \in HashesIn(f[i]) /\ p = <<i, p[2]>>
        BY <1>1, <2>3, PlacesAre
      <3>2. Position(f, p) = r.seen + Ordinal(f[i], p[2])
        BY <1>1, <2>2, <3>1, OlderPosition
      <3>3. p[2] \in Hits(i)
        BY <2>3, <3>1, <3>2 DEF Hits
      <3> QED
        BY <1>2, <3>3
    <2> QED
      BY <2>1, <2>3
  <1> QED
    BY <1>1, <1>3, <1>4 DEF CalmParts

LEMMA WalkEndsParts ==
    ASSUME TypeInv, ReviewTypes, CalmParts(review, anchors, files), WalkEnds
    PROVE  CalmParts(review', anchors', files')
  <1> DEFINE f == files
             r == review
             s == review'
  <1>1. /\ files' = f /\ anchors' = anchors /\ f \in AllFiles /\ r.pc = "walk" /\ r.todo = {}
        /\ \/ s.pc = "idle"
           \/ r.purpose = "check" /\ s.pc = "done" /\ s.purpose = "check" /\ s.moved = r.moved
    BY WalkEndsDoes DEF Fields, TypeInv, AllFiles
  <1>2. CASE s.pc = "idle"
    BY <1>1, <1>2, NothingAsked DEF CalmParts
  <1>3. CASE r.purpose = "check" /\ s.pc = "done" /\ s.purpose = "check" /\ s.moved = r.moved
    <2>1. ASSUME ~r.moved, KeepFiles > 0, StartKept(f) PROVE FALSE
      <3>1. /\ anchors # <<>> /\ r.target = anchors[Len(anchors)].checked
            /\ \A p \in RecordPlaces(f) : Position(f, p) = r.target => p[1] \in r.todo
        BY <1>1, <1>3, <2>1 DEF CalmParts, TargetAhead
      <3>2. r.target \in 1..Len(Trail)
        BY <2>1, <3>1, LatestHolds DEF CalmParts
      <3>3. r.target \in 1..Size(f)
        BY <1>1, <3>2, TrailIs DEF Trail
      <3>4. PICK p \in RecordPlaces(f) : Position(f, p) = r.target
        BY <1>1, <3>3, TrailIs
      <3> QED
        BY <1>1, <3>1, <3>4
    <2>2. AnsweredRight(s, anchors, f)
      BY <1>3, <2>1 DEF AnsweredRight
    <2>3. LinkedSoFar(s, f) /\ CountedSoFar(s, f) /\ AnchorAhead(s, anchors, f) /\ TargetAhead(s, anchors, f)
      BY <1>3 DEF LinkedSoFar, CountedSoFar, AnchorAhead, TargetAhead
    <2> QED
      BY <1>1, <2>2, <2>3 DEF CalmParts
  <1> QED
    BY <1>1, <1>2, <1>3

LEMMA AnswerCheckParts ==
    ASSUME TypeInv, ReviewTypes, CalmParts(review, anchors, files), WalkCounts(review, files), AnswerCheck
    PROVE  CalmParts(review', anchors', files')
  <1> DEFINE f == files
             r == review
             s == review'
  <1>1. /\ files' = f /\ anchors' = anchors /\ f \in AllFiles /\ r.pc = "walk" /\ r.purpose = "check"
        /\ s.pc = "done" /\ s.purpose = "check" /\ s.moved = r.moved
    BY AnswerCheckDoes DEF Fields, TypeInv, AllFiles
  <1>2. PICK i \in Slots : \E a \in Hits(i) :
          /\ OldestOf(i, r.todo)
          /\ f[i][a].id = anchors[Len(anchors)].head => s.ok = TRUE
    BY AnswerCheckDoes
  <1>3. PICK a \in Hits(i) :
          /\ OldestOf(i, r.todo)
          /\ f[i][a].id = anchors[Len(anchors)].head => s.ok = TRUE
    BY <1>2
  <1>4. ASSUME ~r.moved, KeepFiles > 0, StartKept(f) PROVE s.ok
    <2>1. anchors # <<>> /\ r.target = anchors[Len(anchors)].checked
      BY <1>1, <1>4 DEF CalmParts, TargetAhead
    <2>2. Trail[r.target].id = anchors[Len(anchors)].head
      BY <1>4, <2>1, LatestHolds DEF CalmParts
    <2>3. Older(f, i) = r.seen
      <3>1. Reads(f, r.todo, r.seen)
        BY <1>1, <1>4 DEF WalkCounts
      <3> QED
        BY <1>3, <3>1 DEF Reads
    <2>4. a \in HashesIn(f[i]) /\ r.seen + Ordinal(f[i], a) = r.target
      BY <1>1, <1>3 DEF Hits
    <2>5. Trail[r.target] = f[i][a]
      <3>1. /\ Position(f, <<i, a>>) = Older(f, i) + Ordinal(f[i], a)
            /\ TrailOf(f)[Position(f, <<i, a>>)] = f[i][a]
        BY <1>1, <2>4, OlderPosition
      <3>2. Position(f, <<i, a>>) = r.target
        BY <2>3, <2>4, <3>1
      <3> QED
        BY <3>1, <3>2 DEF Trail
    <2> QED
      BY <1>3, <2>2, <2>5
  <1>5. AnsweredRight(s, anchors, f)
    BY <1>1, <1>4 DEF AnsweredRight
  <1>6. LinkedSoFar(s, f) /\ CountedSoFar(s, f) /\ AnchorAhead(s, anchors, f) /\ TargetAhead(s, anchors, f)
    BY <1>1 DEF LinkedSoFar, CountedSoFar, AnchorAhead, TargetAhead
  <1> QED
    BY <1>1, <1>5, <1>6 DEF CalmParts

LEMMA IssueProofParts ==
    ASSUME TypeInv, ReviewTypes, CalmParts(review, anchors, files), IssueProof
    PROVE  CalmParts(review', anchors', files')
  <1>1. files' = files /\ anchors' = anchors /\ review'.pc = "done" /\ review'.purpose = "prove"
    BY IssueProofDoes DEF Fields
  <1> QED
    BY <1>1 DEF CalmParts, LinkedSoFar, CountedSoFar, AnchorAhead, TargetAhead, AnsweredRight

-----------------------------------------------------------------------------
(* The walk, whatever happens to the log.                                  *)

WalkInv == WalkCounts(review, files) /\ CertificateParts(review, files)

LEMMA WalkStarts ==
    ASSUME TypeInv, review'.pc = "walk" => files' = files /\ review'.todo = FilesOf(files) /\ review'.seen = 0,
           review'.pc # "done"
    PROVE  WalkInv'
  <1>1. files \in AllFiles
    BY DEF TypeInv, AllFiles
  <1>2. Reads(files, FilesOf(files), 0)
    BY <1>1, ReadsStart
  <1> QED
    BY <1>2 DEF WalkInv, WalkCounts, CertificateParts

LEMMA ReviewsKeepWalk ==
    ASSUME TypeInv, ReviewTypes, WalkInv, Reviewing
    PROVE  WalkInv' /\ ReviewTypes' /\ UNCHANGED <<files, disturbed>>
  <1> DEFINE f == files
             r == review
             s == review'
  <1>1. f \in AllFiles
    BY DEF TypeInv, AllFiles
  <1>2. CASE \E purpose \in Purposes, target \in 0..MaxRecords : Begin(purpose, target)
    <2>1. PICK purpose \in Purposes, target \in 0..MaxRecords : Begin(purpose, target)
      BY <1>2
    <2> QED
      BY <2>1, BeginDoes, WalkStarts DEF Fields
  <1>3. CASE VerifyFile
    BY <1>3, VerifyFileDoes, WalkStarts DEF Fields
  <1>4. CASE AnswerVerify
    <2>1. s.pc = "done" /\ s.purpose = "verify"
      BY <1>4, AnswerVerifyDoes DEF Fields
    <2> QED
      BY <1>4, <2>1, AnswerVerifyDoes DEF WalkInv, WalkCounts, CertificateParts
  <1>5. CASE RecordAnchor
    BY <1>5, RecordAnchorDoes, WalkStarts
  <1>6. CASE CompareAnchor
    <2>1. \/ s.pc = "done" /\ s.purpose = "check"
          \/ s.pc = "walk" /\ s.todo = FilesOf(f) /\ s.seen = 0
      BY <1>6, CompareAnchorDoes DEF Fields
    <2>2. ReviewTypes' /\ UNCHANGED <<files, disturbed>>
      BY <1>6, CompareAnchorDoes
    <2>3. CASE s.pc = "done" /\ s.purpose = "check"
      BY <2>2, <2>3 DEF WalkInv, WalkCounts, CertificateParts
    <2>4. CASE s.pc = "walk" /\ s.todo = FilesOf(f) /\ s.seen = 0
      BY <2>2, <2>4, WalkStarts
    <2> QED
      BY <2>1, <2>3, <2>4
  <1>7. CASE BeginProof
    BY <1>7, BeginProofDoes, WalkStarts DEF Fields
  <1>8. CASE WalkOn
    <2>1. ReviewTypes' /\ UNCHANGED <<files, disturbed>> /\ r.pc = "walk"
      BY <1>8, WalkOnDoes
    <2>2. PICK i \in Slots :
            /\ OldestOf(i, r.todo)
            /\ s.pc = "walk" /\ s.todo = r.todo \ {i} /\ s.moved = r.moved
            /\ s.seen = r.seen + Cardinality(HashesIn(f[i]))
      BY <1>8, WalkOnDoes DEF Fields
    <2>3. ASSUME ~s.moved PROVE Reads(f, s.todo, s.seen)
      <3>1. Reads(f, r.todo, r.seen)
        BY <2>1, <2>2, <2>3 DEF WalkInv, WalkCounts
      <3>2. Reads(f, r.todo \ {i}, r.seen + Cardinality(HashesIn(f[i])))
        BY <1>1, <2>2, <3>1, ReadsOn
      <3> QED
        BY <2>2, <3>2
    <2> QED
      BY <2>1, <2>2, <2>3 DEF WalkInv, WalkCounts, CertificateParts
  <1>9. CASE WalkEnds
    <2>1. s.pc = "idle" \/ (s.pc = "done" /\ s.purpose = "check")
      BY <1>9, WalkEndsDoes DEF Fields
    <2> QED
      BY <1>9, <2>1, WalkEndsDoes DEF WalkInv, WalkCounts, CertificateParts
  <1>10. CASE AnswerCheck
    <2>1. s.pc = "done" /\ s.purpose = "check"
      BY <1>10, AnswerCheckDoes DEF Fields
    <2> QED
      BY <1>10, <2>1, AnswerCheckDoes DEF WalkInv, WalkCounts, CertificateParts
  <1>11. CASE IssueProof
    <2>1. ReviewTypes' /\ UNCHANGED <<files, disturbed>> /\ r.pc = "walk" /\ r.purpose = "prove"
      BY <1>11, IssueProofDoes
    <2>2. PICK i \in Slots : \E a \in Hits(i) :
            /\ OldestOf(i, r.todo)
            /\ s.pc = "done" /\ s.target = r.target /\ s.seen = r.seen + Ordinal(f[i], a) /\ s.moved = r.moved
      BY <1>11, IssueProofDoes DEF Fields
    <2>3. PICK a \in Hits(i) :
            /\ OldestOf(i, r.todo)
            /\ s.pc = "done" /\ s.target = r.target /\ s.seen = r.seen + Ordinal(f[i], a) /\ s.moved = r.moved
      BY <2>2
    <2>4. a \in HashesIn(f[i]) /\ f[i][a].id = r.target
      BY <2>1, <2>3 DEF Hits
    <2>5. ASSUME ~s.moved PROVE IsAt(f, s.seen, s.target)
      <3>1. Older(f, i) = r.seen
        BY <2>1, <2>3, <2>5 DEF WalkInv, WalkCounts, Reads
      <3>2. Position(f, <<i, a>>) = s.seen /\ Position(f, <<i, a>>) \in 1..Size(f)
            /\ TrailOf(f)[Position(f, <<i, a>>)] = f[i][a]
        BY <1>1, <2>3, <2>4, <3>1, OlderPosition
      <3>3. Len(TrailOf(f)) = Size(f)
        BY <1>1, TrailIs
      <3> QED
        BY <2>3, <2>4, <3>2, <3>3 DEF IsAt
    <2> QED
      BY <2>1, <2>3, <2>5 DEF WalkInv, WalkCounts, CertificateParts
  <1>12. CASE EndReview
    BY <1>12, EndReviewDoes, WalkStarts
  <1> QED
    BY <1>2, <1>3, <1>4, <1>5, <1>6, <1>7, <1>8, <1>9, <1>10, <1>11, <1>12 DEF Reviewing

LEMMA LoggingKeepsWalk ==
    ASSUME TypeInv, ReviewTypes, WalkInv, Logging
    PROVE  WalkInv' /\ ReviewTypes'
  <1>1. files \in AllFiles
    BY DEF TypeInv, AllFiles
  <1>2. ReviewTypes' /\ Next
    BY LoggingDoes
  <1>3. CASE review'.pc = "idle"
    BY <1>2, <1>3 DEF WalkInv, WalkCounts, CertificateParts
  <1>4. CASE /\ Fields(review', review.pc, review.purpose, review.target, review.todo, review.tally,
                       review.seen, review'.moved)
             /\ ~review'.moved => ~review.moved /\ ~Moves
    <2>1. ~review'.moved => ~review.moved /\ Quiet(files, files')
      BY <1>2, <1>4, UnmovedIsQuiet
    <2>2. WalkCounts(review', files') /\ CertificateParts(review', files')
      BY <1>1, <1>4, <2>1, LogKeepsWalk DEF WalkInv
    <2> QED
      BY <1>2, <2>2 DEF WalkInv
  <1> QED
    BY <1>3, <1>4, LoggingDoes

-----------------------------------------------------------------------------
(* The readers, with one write at a time.                                  *)

CheckInv == Calm => CalmParts(review, anchors, files)

LEMMA ReviewsKeepParts ==
    ASSUME TypeInv, UniqueInv, ChainInv, TrailInv, ReviewTypes, WalkInv, CheckInv, Reviewing
    PROVE  CheckInv'
  <1>1. UNCHANGED <<files, disturbed>>
    BY ReviewsKeepWalk
  <1>2. Calm' => Calm
    BY <1>1 DEF Calm, Undisturbed
  <1> SUFFICES ASSUME Calm PROVE CalmParts(review', anchors', files')
    BY <1>2 DEF CheckInv
  <1>3. CalmParts(review, anchors, files) /\ WalkCounts(review, files)
    BY DEF CheckInv, WalkInv
  <1>4. Whole(files) /\ Chained(files) /\ GoodTrail(Trail)
    BY DEF ChainInv, ChainParts, TrailInv, Calm
  <1>5. CASE \E purpose \in Purposes, target \in 0..MaxRecords : Begin(purpose, target)
    BY <1>3, <1>5, BeginParts
  <1>6. CASE VerifyFile
    BY <1>3, <1>4, <1>6, VerifyFileParts
  <1>7. CASE AnswerVerify
    BY <1>3, <1>7, AnswerVerifyParts
  <1>8. CASE RecordAnchor
    BY <1>3, <1>8, RecordAnchorParts
  <1>9. CASE CompareAnchor
    BY <1>3, <1>9, CompareAnchorParts
  <1>10. CASE BeginProof
    BY <1>3, <1>10, BeginProofParts
  <1>11. CASE WalkOn
    BY <1>3, <1>11, WalkOnParts
  <1>12. CASE WalkEnds
    BY <1>3, <1>12, WalkEndsParts
  <1>13. CASE AnswerCheck
    BY <1>3, <1>13, AnswerCheckParts
  <1>14. CASE IssueProof
    BY <1>3, <1>14, IssueProofParts
  <1>15. CASE EndReview
    <2>1. UNCHANGED <<files, anchors>> /\ review'.pc = "idle"
      BY <1>15, EndReviewDoes
    <2> QED
      BY <1>3, <2>1, NothingAsked DEF CalmParts
  <1> QED
    BY <1>5, <1>6, <1>7, <1>8, <1>9, <1>10, <1>11, <1>12, <1>13, <1>14, <1>15 DEF Reviewing

LEMMA LoggingKeepsParts ==
    ASSUME TypeInv, TypeInv', UniqueInv, AloneInv, ChainInv, HandInv, TrailInv, ReviewTypes, CheckInv, Logging
    PROVE  CheckInv'
  <1> SUFFICES ASSUME Calm' PROVE CalmParts(review', anchors', files')
    BY DEF CheckInv
  <1>1. Next /\ anchors' = anchors /\ anchors \in Seq(AnchorState) /\ files \in AllFiles
    BY LoggingDoes DEF ReviewTypes, TypeInv, AllFiles
  <1>2. CalmParts(review, anchors, files)
    BY <1>1, CalmBefore DEF CheckInv
  <1>3. Evolves(files, files')
    BY <1>1, CalmEvolves
  <1>4. CASE review'.pc = "idle"
    <2>1. AnchorsHold(anchors, files')
      BY <1>2, <1>3, LogKeepsAnchors DEF CalmParts
    <2> QED
      BY <1>1, <1>4, <2>1, NothingAsked
  <1>5. CASE /\ Fields(review', review.pc, review.purpose, review.target, review.todo, review.tally,
                       review.seen, review'.moved)
             /\ review'.ok = review.ok
             /\ ~review'.moved => ~review.moved /\ ~Moves
    <2>1. ~review'.moved => ~review.moved /\ Quiet(files, files')
      BY <1>1, <1>5, UnmovedIsQuiet
    <2>2. CalmParts(review', anchors, files')
      BY <1>1, <1>2, <1>3, <1>5, <2>1, LogKeepsParts
    <2> QED
      BY <1>1, <2>2
  <1> QED
    BY <1>4, <1>5, LoggingDoes

ReadersInv == ReviewTypes /\ WalkInv /\ CheckInv

LEMMA ReadersStart == TrailInit => ReadersInv
  <1> SUFFICES ASSUME TrailInit PROVE ReadersInv
    OBVIOUS
  <1>1. review \in ReviewState /\ review.pc = "idle" /\ anchors = <<>>
    BY NoReviewIs DEF TrailInit
  <1>2. AnchorsHold(anchors, files)
    BY <1>1 DEF AnchorsHold
  <1>3. CalmParts(review, anchors, files)
    BY <1>1, <1>2, NothingAsked
  <1>4. anchors \in Seq(AnchorState)
    BY <1>1, EmptySeq
  <1> QED
    BY <1>1, <1>3, <1>4 DEF ReadersInv, ReviewTypes, WalkInv, WalkCounts, CertificateParts, CheckInv

LEMMA ReadersSteps ==
    /\ TypeInv /\ UniqueInv /\ AloneInv /\ ChainInv /\ HandInv /\ TrailInv /\ TypeInv'
    /\ ReadersInv /\ [TrailNext]_trailVars
    => ReadersInv'
  <1> SUFFICES ASSUME TypeInv, UniqueInv, AloneInv, ChainInv, HandInv, TrailInv, TypeInv',
                      ReadersInv, [TrailNext]_trailVars
               PROVE  ReadersInv'
    OBVIOUS
  <1>1. ReviewTypes /\ WalkInv /\ CheckInv
    BY DEF ReadersInv
  <1>2. CASE UNCHANGED trailVars
    BY <1>1, <1>2 DEF trailVars, vars, ReadersInv, ReviewTypes, WalkInv, CheckInv, Calm, Undisturbed
  <1>3. CASE Logging
    BY <1>1, <1>3, LoggingKeepsWalk, LoggingKeepsParts DEF ReadersInv
  <1>4. CASE Reviewing
    BY <1>1, <1>4, ReviewsKeepWalk, ReviewsKeepParts DEF ReadersInv
  <1> QED
    BY <1>2, <1>3, <1>4 DEF TrailNext

LEMMA ReadersAreStrong == TrailSpec => [](TypeInv /\ ReadersInv)
  <1>1. TrailSpec => [](TypeInv /\ UniqueInv /\ AloneInv /\ ChainInv /\ HandInv /\ GapInv /\ TrailInv)
    BY TrailSpecIsSpec, LogIsStrong, PTL
  <1> QED
    BY <1>1, ReadersStart, ReadersSteps, PTL DEF TrailSpec

\* VerifyIsExact: as long as writes do not overlap and no line is torn, a verify
\* that no rotation disturbs answers ok exactly when the trail still starts with
\* the first record ever written, although records are added while it reads.
THEOREM VerifyTellsTheTruth == TrailSpec => []VerifyIsExact
  <1>1. TypeInv /\ ReadersInv => VerifyIsExact
    <2> SUFFICES ASSUME ReadersInv, Calm, Answered("verify"), ~review.moved
                 PROVE  review.ok <=> NothingForgotten
      BY DEF VerifyIsExact, Calm
    <2>1. review.ok <=> StartKept(files)
      BY DEF ReadersInv, CheckInv, CalmParts, AnsweredRight, Answered, Reading
    <2> QED
      BY <2>1 DEF StartKept, NothingForgotten, Trail
  <1> QED
    BY <1>1, ReadersAreStrong, PTL

\* AnchorsAreTrue: as long as writes do not overlap, no line is torn and retention
\* drops nothing, every anchor names the record that stands at its position, also
\* when rotations moved the files while its verify counted them, and a check that
\* no rotation disturbs finds the newest one to match.
THEOREM AnchorsStayTrue == TrailSpec => []AnchorsAreTrue
  <1>1. TypeInv /\ ReadersInv => AnchorsAreTrue
    <2> SUFFICES ASSUME TypeInv, ReadersInv, Calm, KeepFiles > 0, anchors # <<>>, NothingForgotten
                 PROVE  /\ \A n \in DOMAIN anchors :
                              /\ anchors[n].checked \in DOMAIN Trail
                              /\ Trail[anchors[n].checked].id = anchors[n].head
                        /\ Answered("check") /\ ~review.moved => review.ok
      BY DEF AnchorsAreTrue, Calm
    <2>1. StartKept(files) /\ CalmParts(review, anchors, files)
      BY DEF StartKept, NothingForgotten, Trail, ReadersInv, CheckInv
    <2>2. DOMAIN Trail = 1..Len(Trail)
      BY TrailIs DEF Trail, TypeInv, AllFiles
    <2>3. \A n \in DOMAIN anchors :
             anchors[n].checked \in DOMAIN Trail /\ Trail[anchors[n].checked].id = anchors[n].head
      BY <2>1, <2>2 DEF CalmParts, AnchorsHold, IsAt, Trail
    <2>4. Answered("check") /\ ~review.moved => review.ok
      BY <2>1 DEF CalmParts, AnsweredRight, Answered, Reading
    <2> QED
      BY <2>3, <2>4
  <1> QED
    BY <1>1, ReadersAreStrong, PTL

\* CertificateIsTrue: whatever writes race, tear or restart, the position that an
\* inclusion proof signs is the position of its event in the trail, unless a
\* rotation moved a file while the proof was made.
THEOREM CertificatesAreTrue == TrailSpec => []CertificateIsTrue
  <1>1. TypeInv /\ ReadersInv => CertificateIsTrue
    <2> SUFFICES ASSUME TypeInv, ReadersInv, Answered("prove"), ~review.moved
                 PROVE  review.seen \in DOMAIN Trail /\ Trail[review.seen].id = review.target
      BY DEF CertificateIsTrue
    <2>1. IsAt(files, review.seen, review.target)
      BY DEF ReadersInv, WalkInv, CertificateParts, Answered, Reading
    <2>2. DOMAIN Trail = 1..Len(Trail)
      BY TrailIs DEF Trail, TypeInv, AllFiles
    <2> QED
      BY <2>1, <2>2 DEF IsAt, Trail
  <1> QED
    BY <1>1, ReadersAreStrong, PTL
=============================================================================
