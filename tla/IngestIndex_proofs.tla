------------------------- MODULE IngestIndex_proofs -------------------------
(***************************************************************************)
(* SkipIsSound, LegsAgree and SkipIsSoundInLance for every number of       *)
(* files, runs and contents.                                               *)
(*                                                                         *)
(* None is inductive: what the stores hold between two awaits depends      *)
(* on how far the one run that works on the path has come.  PathInv says   *)
(* so phase by phase, and adds what makes the skipped work harmless: a run *)
(* that has begun to delete knows that the manifest entry is not that of   *)
(* the file (Stale), and stays right about it because an edit only makes   *)
(* the file's mtime greater.  DurablePath does the same for a process that *)
(* may die, over every version of the entry that a restart could load.     *)
(***************************************************************************)
EXTENDS IngestIndex, TLAPS

\* The entry cannot match the file: not now, and not after any edit.
Outdated(p) == manifest[p] # Nil => manifest[p].mtime < file[p].mtime
Stale(p)    == Outdated(p) \/ (manifest[p] # Nil /\ manifest[p].hash # file[p].hash)

Intact(p) ==
    \/ Empty(p) /\ Stale(p)
    \/ manifest[p] # Nil /\ Exact(p, manifest[p].hash)

Phase(r, p) ==
    LET j == job[r][p] IN
    /\ j.pc = "read"      => Intact(p) /\ (j.hash = file[p].hash \/ Outdated(p))
    /\ j.pc = "deleting"  => Intact(p) /\ Stale(p)
    /\ j.pc = "deleted"   => lance[p] = NoRows /\ Stale(p)
    /\ j.pc = "embedding" => Empty(p) /\ Stale(p)
    /\ j.pc = "adding"    => Empty(p) /\ Stale(p)
    /\ j.pc = "added"     => lance[p] = RowsOf(j.hash) /\ bm[p] = NoCopy /\ Stale(p)
    /\ j.pc = "dropping"  => Intact(p)
    /\ j.pc = "dropped"   => lance[p] = NoRows

OneHolder(p) == \A r, s \in Runs : Holds(r, p) /\ Holds(s, p) => r = s

PathInv(p) ==
    ~overlap[p] => /\ OneHolder(p)
                   /\ ~Busy(p) => Intact(p)
                   /\ \A r \in Runs : Phase(r, p)

\* Facts that hold whether or not runs overlapped.
MtimeInv ==
    \A p \in Paths :
      /\ manifest[p] # Nil => manifest[p].mtime <= file[p].mtime
      /\ \A r \in Runs : job[r][p].mtime <= file[p].mtime
Loaded == {"read", "deleting", "deleted", "embedding", "adding", "added"}
HashInv ==
    \A r \in Runs, p \in Paths : job[r][p].pc \in Loaded => job[r][p].hash \in Contents
RunInv == \A r \in Runs, p \in Paths : Holds(r, p) => run[r].pc = "working"

-----------------------------------------------------------------------------
(* The stores' operators *)

LEMMA StoreTypes ==
    /\ NoRows \in [Rows -> Nat]
    /\ NoCopy \in [Contents -> Nat]
    /\ \A c \in Contents : RowsOf(c) \in [Rows -> Nat] /\ CopyOf(c) \in [Contents -> Nat]
  BY DEF NoRows, NoCopy, RowsOf, CopyOf, WithoutIds, WithRows

LEMMA UpsertTypes ==
    ASSUME NEW rows \in [Rows -> Nat], NEW c
    PROVE  WithoutIds(rows, c) \in [Rows -> Nat] /\ WithRows(rows, c) \in [Rows -> Nat]
  BY DEF RowsOf, WithoutIds, WithRows

\* Adding a document to empty stores makes them exact.
LEMMA AddToEmpty ==
    ASSUME NEW c \in Contents
    PROVE  /\ WithoutIds(NoRows, c) = NoRows
           /\ WithRows(NoRows, c) = RowsOf(c)
           /\ [NoCopy EXCEPT ![c] = @ + 1] = CopyOf(c)
  BY DEF NoRows, NoCopy, RowsOf, CopyOf, WithoutIds, WithRows

-----------------------------------------------------------------------------
(* Types *)

LEMMA TypeInit == Init => TypeOK
  <1> USE ChunksAssumption, BoundsAssumption, NilAssumption, StoreTypes
  <1> SUFFICES ASSUME Init PROVE TypeOK
    OBVIOUS
  <1>1. up \in BOOLEAN /\ crashed \in BOOLEAN
    BY DEF Init
  <1> QED
    BY <1>1 DEF Init, TypeOK, IdleRun, IdleJob, Run, Job, RunRecords, JobRecords,
           JobPcs, RunPcs, Manifests, Indexes, Holding

\* The record types, by the way a record is made.
LEMMA JobType ==
    ASSUME NEW pc \in JobPcs, NEW h \in Contents \cup {Nil}, NEW m \in 0..MaxEdits
    PROVE  Job(pc, h, m) \in JobRecords
  BY DEF Job, JobRecords

LEMMA JobFields ==
    ASSUME NEW j \in JobRecords
    PROVE  j.pc \in JobPcs /\ j.hash \in Contents \cup {Nil} /\ j.mtime \in 0..MaxEdits
  BY DEF JobRecords

LEMMA RunType ==
    /\ IdleRun \in RunRecords
    /\ \A k \in {"ingest", "unlink", "compact", "forget"} :
         Run("working", k, Nil, Nil) \in RunRecords
    /\ \A x \in RunRecords :
         /\ Run("savedM", x.kind, Nil, Nil) \in RunRecords
         /\ \A m \in Manifests : Run("savingM", x.kind, m, Nil) \in RunRecords
         /\ \A b \in Indexes : Run("savingB", x.kind, Nil, b) \in RunRecords
  BY DEF IdleRun, Run, RunRecords, RunPcs

\* A saving run has taken the snapshot it is about to write.
SnapInv ==
    \A r \in Runs : /\ run[r].pc = "savingM" => run[r].snapM \in Manifests
                    /\ run[r].pc = "savingB" => run[r].snapB \in Indexes

LEMMA IdleType == IdleJob \in JobRecords /\ Job("done", Nil, 0) \in JobRecords
  BY BoundsAssumption, JobType DEF IdleJob, JobPcs

LEMMA JobToType ==
    ASSUME TypeOK, NEW r \in Runs, NEW p \in Paths, NEW pc \in JobPcs, JobTo(r, p, pc)
    PROVE  job' \in [Runs -> [Paths -> JobRecords]]
  <1> job[r][p] \in JobRecords
    BY DEF TypeOK
  <1> Job(pc, job[r][p].hash, job[r][p].mtime) \in JobRecords
    BY JobType, JobFields
  <1> QED BY DEF TypeOK, JobTo, JobIs

LEMMA JobDoneType ==
    ASSUME TypeOK, NEW r \in Runs, NEW p \in Paths, JobDone(r, p)
    PROVE  job' \in [Runs -> [Paths -> JobRecords]]
  BY IdleType DEF TypeOK, JobDone, JobIs

LEMMA StartType ==
    ASSUME TypeOK, SnapInv,
           NEW r \in Runs, NEW k \in {"ingest", "unlink", "compact", "forget"},
           NEW f \in [Paths -> {"queued", "idle", "stat", "doomed", "dropping"}],
           StartWith(r, k, f)
    PROVE  /\ run' \in [Runs -> RunRecords]
           /\ job' \in [Runs -> [Paths -> JobRecords]]
           /\ SnapInv'
  <1> \A p \in Paths : Job(f[p], Nil, 0) \in JobRecords
    BY BoundsAssumption, JobType DEF JobPcs, Holding
  <1> [p \in Paths |-> Job(f[p], Nil, 0)] \in [Paths -> JobRecords]
    OBVIOUS
  <1> SnapInv'
    BY DEF SnapInv, StartWith, Run, TypeOK
  <1> QED BY RunType DEF TypeOK, StartWith

LEMMA OverlapType ==
    ASSUME TypeOK, NEW r \in Runs, NEW p \in Paths, MarkOverlap(r, p)
    PROVE  overlap' \in [Paths -> BOOLEAN]
  BY DEF TypeOK, MarkOverlap

LEMMA TypeStep == TypeOK /\ SnapInv /\ HashInv /\ [Next]_vars => TypeOK' /\ SnapInv'
  <1> SUFFICES ASSUME TypeOK, SnapInv, HashInv, [Next]_vars PROVE TypeOK' /\ SnapInv'
    OBVIOUS
  <1> USE ChunksAssumption, BoundsAssumption, NilAssumption
  <1>1. CASE UserStep
    <2> USE DEF TypeOK, SnapInv, Schedule
    <2>1. ASSUME NEW p \in Paths, WriteFile(p) PROVE TypeOK' /\ SnapInv'
      BY <2>1 DEF WriteFile
    <2>2. ASSUME NEW p \in Paths, RemoveFile(p) PROVE TypeOK' /\ SnapInv'
      BY <2>2 DEF RemoveFile
    <2> QED BY <1>1, <2>1, <2>2 DEF UserStep
  <1>2. ASSUME NEW r \in Runs, Start(r) PROVE TypeOK' /\ SnapInv'
    <2>1. CASE StartIngest(r)  BY <2>1, StartType DEF StartIngest, TypeOK
    <2>2. CASE StartCompact(r) BY <2>2, StartType DEF StartCompact, TypeOK
    <2>3. CASE StartForget(r)  BY <2>3, StartType DEF StartForget, TypeOK
    <2> QED BY <1>2, <2>1, <2>2, <2>3 DEF Start
  <1>3. ASSUME NEW r \in Runs, SaveStep(r) PROVE TypeOK' /\ SnapInv'
    <2>0. run[r] \in RunRecords
      BY DEF TypeOK
    <2>1. CASE FinishEmpty(r)
      BY <2>1, RunType DEF FinishEmpty, TypeOK, SnapInv, IdleRun, Run
    <2>2. CASE OpenManifest(r)
      <3>1. run' \in [Runs -> RunRecords]
        BY <2>0, <2>2, RunType DEF OpenManifest, TypeOK
      <3>2. [p \in Paths |-> IdleJob] \in [Paths -> JobRecords]
        BY IdleType
      <3>3. SnapInv'
        BY <2>2 DEF OpenManifest, SnapInv, TypeOK, Run
      <3> QED BY <2>2, <3>1, <3>2, <3>3 DEF OpenManifest, TypeOK
    <2>3. CASE WriteManifest(r)
      <3>1. run' \in [Runs -> RunRecords]
        BY <2>0, <2>3, RunType DEF WriteManifest, TypeOK
      <3>3. SnapInv' /\ diskM' \in Manifests
        BY <2>3 DEF WriteManifest, SnapInv, TypeOK, Run
      <3> QED BY <2>3, <3>1, <3>3 DEF WriteManifest, TypeOK
    <2>4. CASE OpenBm(r)
      <3>1. run' \in [Runs -> RunRecords]
        BY <2>0, <2>4, RunType DEF OpenBm, TypeOK
      <3>3. SnapInv'
        BY <2>4 DEF OpenBm, SnapInv, TypeOK, Run
      <3> QED BY <2>4, <3>1, <3>3 DEF OpenBm, TypeOK
    <2>5. CASE WriteBm(r)
      <3>1. run' \in [Runs -> RunRecords]
        BY <2>0, <2>5, RunType DEF WriteBm, TypeOK
      <3>3. SnapInv' /\ diskB' \in Indexes
        BY <2>5 DEF WriteBm, SnapInv, TypeOK, Run, IdleRun
      <3> QED BY <2>5, <3>1, <3>3 DEF WriteBm, TypeOK
    <2> QED BY <1>3, <2>1, <2>2, <2>3, <2>4, <2>5 DEF SaveStep
  <1>4. ASSUME NEW r \in Runs, NEW p \in Paths, JobStep(r, p) PROVE TypeOK' /\ SnapInv'
    <2>0. UNCHANGED run => SnapInv'
      BY DEF SnapInv
    <2>a. job[r][p] \in JobRecords /\ file[p].hash \in Contents /\ file[p].mtime \in 0..MaxEdits
      BY DEF TypeOK
    <2> USE <2>0, JobToType, JobDoneType, OverlapType DEF JobPcs, Holding
    <2>1. CASE Read(r, p)
      <3>1. Job("read", file[p].hash, 0) \in JobRecords
        BY <2>a, JobType
      <3>2. JobIs(r, p, Job("read", file[p].hash, 0)) => job' \in [Runs -> [Paths -> JobRecords]]
        BY <3>1 DEF JobIs, TypeOK
      <3> QED BY <2>1, <3>2 DEF Read, TypeOK
    <2>2. CASE Check(r, p)
      <3>1. Job("deleting", job[r][p].hash, file[p].mtime) \in JobRecords
        BY <2>a, JobType, JobFields
      <3>2. JobIs(r, p, Job("deleting", job[r][p].hash, file[p].mtime))
              => job' \in [Runs -> [Paths -> JobRecords]]
        BY <3>1 DEF JobIs, TypeOK
      <3> QED BY <2>2, <3>2 DEF Check, TypeOK
    <2>3. CASE LanceDelete(r, p) BY <2>3, StoreTypes DEF LanceDelete, TypeOK
    <2>4. CASE BmRemove(r, p)
      BY <2>4, StoreTypes DEF BmRemove, WithoutDocument, Indexes, TypeOK
    <2>5. CASE UpsertDelete(r, p)
      BY <2>5, UpsertTypes DEF UpsertDelete, TypeOK
    <2>6. CASE UpsertAdd(r, p)
      BY <2>6, UpsertTypes DEF UpsertAdd, TypeOK
    <2>7. CASE Commit(r, p)
      <3>1. [hash |-> job[r][p].hash, mtime |-> job[r][p].mtime] \in Entry
        BY <2>7, <2>a, JobFields DEF Commit, HashInv, Loaded, Entry
      <3>0. job[r][p].hash \in Contents /\ bm[p] \in [Contents -> Nat]
        BY <2>7 DEF Commit, HashInv, Loaded, TypeOK, Indexes
      <3>2. bm' \in Indexes
        <4> [bm[p] EXCEPT ![job[r][p].hash] = @ + 1] \in [Contents -> Nat]
          BY <3>0
        <4> QED BY <2>7 DEF Commit, TypeOK, Indexes
      <3>3. manifest' \in Manifests
        BY <2>7, <3>1 DEF Commit, TypeOK, Manifests
      <3> QED BY <2>7, <3>2, <3>3 DEF Commit, TypeOK
    <2>8. CASE Fail(r, p)      BY <2>8 DEF Fail, TypeOK
    <2>9. CASE StatEntry(r, p) BY <2>9 DEF StatEntry, TypeOK
    <2>10. CASE Doom(r, p)     BY <2>10 DEF Doom, TypeOK
    <2>11. CASE LanceDrop(r, p) BY <2>11, StoreTypes DEF LanceDrop, TypeOK
    <2>12. CASE Drop(r, p)
      BY <2>12, StoreTypes DEF Drop, WithoutDocument, Indexes, Manifests, TypeOK
    <2> QED BY <1>4, <2>1, <2>2, <2>3, <2>4, <2>5, <2>6, <2>7, <2>8, <2>9, <2>10, <2>11, <2>12
            DEF JobStep
  <1>5. ASSUME NEW r \in Runs, NEW p \in Paths, Fire(r, p) PROVE TypeOK' /\ SnapInv'
    <2>1. CASE FireChange(r, p)
      BY <2>1, StartType DEF FireChange, TypeOK
    <2>2. CASE FireUnlink(r, p)
      <3>1. CASE manifest[p] = Nil
        BY <2>2, <3>1, OverlapType DEF FireUnlink, TypeOK, SnapInv
      <3>2. CASE manifest[p] # Nil
        BY <2>2, <3>2, OverlapType, StartType DEF FireUnlink, TypeOK
      <3> QED BY <3>1, <3>2
    <2> QED BY <1>5, <2>1, <2>2 DEF Fire
  <1>6. CASE UNCHANGED vars
    BY <1>6 DEF vars, TypeOK, SnapInv
  <1> QED BY <1>1, <1>2, <1>3, <1>4, <1>5, <1>6 DEF Next

-----------------------------------------------------------------------------
(* What a step does to the jobs, point by point *)

LEMMA JobIsAt ==
    ASSUME TypeOK, NEW r \in Runs, NEW p \in Paths, NEW j, JobIs(r, p, j)
    PROVE  \A s \in Runs, q \in Paths : job'[s][q] = IF s = r /\ q = p THEN j ELSE job[s][q]
  BY DEF JobIs, TypeOK

LEMMA StartAt ==
    ASSUME TypeOK, NEW r \in Runs, NEW k, NEW f, StartWith(r, k, f)
    PROVE  /\ \A s \in Runs, q \in Paths :
                job'[s][q] = IF s = r THEN Job(f[q], Nil, 0) ELSE job[s][q]
           /\ \A s \in Runs : run'[s] = IF s = r THEN Run("working", k, Nil, Nil) ELSE run[s]
  BY DEF StartWith, TypeOK

LEMMA StartHash ==
    ASSUME TypeOK, HashInv, NEW r \in Runs, NEW k,
           NEW f \in [Paths -> {"queued", "idle", "stat", "doomed", "dropping"}],
           StartWith(r, k, f)
    PROVE  HashInv'
  <1> SUFFICES ASSUME NEW s \in Runs, NEW q \in Paths, job'[s][q].pc \in Loaded
               PROVE  job'[s][q].hash \in Contents
    BY DEF HashInv
  <1>1. CASE s = r
    <2>1. job'[s][q] = Job(f[q], Nil, 0)
      BY <1>1, StartAt
    <2>2. job'[s][q].pc = f[q]
      BY <2>1 DEF Job
    <2> QED BY <2>2 DEF Loaded
  <1>2. CASE s # r
    BY <1>2, StartAt DEF HashInv
  <1> QED BY <1>1, <1>2

LEMMA HashStep == TypeOK /\ HashInv /\ [Next]_vars => HashInv'
  <1> SUFFICES ASSUME TypeOK, HashInv, [Next]_vars PROVE HashInv'
    OBVIOUS
  <1> USE DEF HashInv, Loaded, Job, IdleJob
  <1>1. CASE UserStep
    BY <1>1 DEF UserStep, WriteFile, RemoveFile
  <1>2. ASSUME NEW r \in Runs, Start(r) PROVE HashInv'
    BY <1>2, StartHash DEF Start, StartIngest, StartCompact, StartForget
  <1>3. ASSUME NEW r \in Runs, SaveStep(r) PROVE HashInv'
    <2>1. CASE OpenManifest(r)
      BY <2>1 DEF OpenManifest, TypeOK
    <2>2. CASE UNCHANGED job
      BY <2>2
    <2> QED
      BY <1>3, <2>1, <2>2 DEF SaveStep, FinishEmpty, WriteManifest, OpenBm, WriteBm
  <1>4. ASSUME NEW r \in Runs, NEW p \in Paths, JobStep(r, p) PROVE HashInv'
    <2> USE JobIsAt DEF JobTo, JobDone
    <2>0. file[p].hash \in Contents BY DEF TypeOK
    <2>1. CASE Read(r, p)          BY <2>0, <2>1 DEF Read
    <2>2. CASE Check(r, p)         BY <2>2 DEF Check
    <2>3. CASE LanceDelete(r, p)   BY <2>3 DEF LanceDelete
    <2>4. CASE BmRemove(r, p)      BY <2>4 DEF BmRemove
    <2>5. CASE UpsertDelete(r, p)  BY <2>5 DEF UpsertDelete
    <2>6. CASE UpsertAdd(r, p)     BY <2>6 DEF UpsertAdd
    <2>7. CASE Commit(r, p)        BY <2>7 DEF Commit
    <2>8. CASE Fail(r, p)          BY <2>8 DEF Fail
    <2>9. CASE StatEntry(r, p)     BY <2>9 DEF StatEntry
    <2>10. CASE Doom(r, p)         BY <2>10 DEF Doom
    <2>11. CASE LanceDrop(r, p)    BY <2>11 DEF LanceDrop
    <2>12. CASE Drop(r, p)         BY <2>12 DEF Drop
    <2> QED BY <1>4, <2>1, <2>2, <2>3, <2>4, <2>5, <2>6, <2>7, <2>8, <2>9, <2>10, <2>11, <2>12
            DEF JobStep
  <1>5. ASSUME NEW r \in Runs, NEW p \in Paths, Fire(r, p) PROVE HashInv'
    BY <1>5, StartHash DEF Fire, FireChange, FireUnlink
  <1>6. CASE UNCHANGED vars
    BY <1>6 DEF vars
  <1> QED BY <1>1, <1>2, <1>3, <1>4, <1>5, <1>6 DEF Next

TypeInv == TypeOK /\ SnapInv /\ HashInv

LEMMA TypeInvInit == Init => TypeInv
  BY TypeInit DEF Init, TypeInv, SnapInv, HashInv, Loaded, IdleRun, Run, IdleJob, Job

\* Every variable keeps its type through every operation of the index.
THEOREM IndexTypes == Spec => []TypeOK
  <1>1. TypeInv /\ [Next]_vars => TypeInv'
    BY TypeStep, HashStep DEF TypeInv
  <1>2. TypeInv => TypeOK
    BY DEF TypeInv
  <1> QED BY <1>1, <1>2, TypeInvInit, PTL DEF Spec

-----------------------------------------------------------------------------
(* Paths *)

\* A step that leaves a path alone, or only moves runs that do not hold it.
LEMMA Frame ==
    ASSUME NEW p \in Paths, PathInv(p),
           file'[p] = file[p], lance'[p] = lance[p], bm'[p] = bm[p],
           manifest'[p] = manifest[p], overlap'[p] = overlap[p],
           \A s \in Runs : \/ job'[s][p] = job[s][p]
                           \/ job'[s][p].pc \notin Holding /\ job[s][p].pc \notin Holding
    PROVE  PathInv(p)'
  <1> SUFFICES ASSUME ~overlap'[p]
               PROVE  /\ OneHolder(p)'
                      /\ ~Busy(p)' => Intact(p)'
                      /\ \A s \in Runs : Phase(s, p)'
    BY DEF PathInv
  <1>1. OneHolder(p) /\ (~Busy(p) => Intact(p)) /\ \A s \in Runs : Phase(s, p)
    BY DEF PathInv
  <1>2. \A s \in Runs : Holds(s, p)' <=> Holds(s, p)
    BY DEF Holds
  <1>3. Intact(p)' <=> Intact(p)
    BY DEF Intact, Empty, Exact, Stale, Outdated
  <1>4. ASSUME NEW s \in Runs PROVE Phase(s, p)'
    <2>1. CASE job'[s][p] = job[s][p]
      BY <1>1, <1>3, <2>1 DEF Phase, Stale, Outdated, Empty
    <2>2. CASE job'[s][p].pc \notin Holding
      BY <2>2 DEF Phase, Holding
    <2> QED BY <2>1, <2>2
  <1>5. OneHolder(p)'
    BY <1>1, <1>2 DEF OneHolder
  <1>6. Busy(p)' <=> Busy(p)
    BY <1>2 DEF Busy
  <1> QED BY <1>1, <1>3, <1>4, <1>5, <1>6

\* After a step of the only run that holds a path, its own phase is all there is.
LEMMA Solo ==
    ASSUME NEW p \in Paths, NEW r \in Runs,
           \A s \in Runs \ {r} : ~Holds(s, p)',
           ~Holds(r, p)' => Intact(p)',
           Phase(r, p)'
    PROVE  PathInv(p)'
  <1>1. \A s \in Runs \ {r} : Phase(s, p)'
    BY DEF Phase, Holds, Holding
  <1>2. \A s \in Runs : Phase(s, p)'
    BY <1>1
  <1>3. OneHolder(p)'
    BY DEF OneHolder
  <1>4. ~Busy(p)' => Intact(p)'
    BY DEF Busy
  <1> QED BY <1>2, <1>3, <1>4 DEF PathInv

LEMMA Alone ==
    ASSUME NEW p \in Paths, NEW r \in Runs, PathInv(p), ~overlap[p], Holds(r, p)
    PROVE  \A s \in Runs \ {r} : ~Holds(s, p)
  BY DEF PathInv, OneHolder

LEMMA RunStep == TypeOK /\ RunInv /\ [Next]_vars => RunInv'
  <1> SUFFICES ASSUME TypeOK, RunInv, [Next]_vars PROVE RunInv'
    OBVIOUS
  <1> USE DEF RunInv, Holds
  <1>1. CASE UserStep
    BY <1>1 DEF UserStep, WriteFile, RemoveFile
  <1>2. ASSUME NEW r \in Runs, NEW k, NEW f, StartWith(r, k, f) PROVE RunInv'
    <2>1. ASSUME NEW s \in Runs, NEW q \in Paths, Holds(s, q)' PROVE run'[s].pc = "working"
      <3>1. CASE s = r
        <4> run'[s] = Run("working", k, Nil, Nil)
          BY <1>2, <3>1, StartAt
        <4> QED BY DEF Run
      <3>2. CASE s # r
        BY <1>2, <2>1, <3>2, StartAt
      <3> QED BY <3>1, <3>2
    <2> QED BY <2>1
  <1>3. ASSUME NEW r \in Runs, Start(r) PROVE RunInv'
    BY <1>2, <1>3 DEF Start, StartIngest, StartCompact, StartForget
  <1>4. ASSUME NEW r \in Runs, SaveStep(r) PROVE RunInv'
    <2>0. \A q \in Paths : ~Holds(r, q)'
      <3>1. CASE OpenManifest(r)
        BY <3>1 DEF OpenManifest, TypeOK, IdleJob, Job, Holding
      <3>2. CASE FinishEmpty(r)
        BY <3>2 DEF FinishEmpty, AllDone, Holding
      <3> QED
        BY <1>4, <3>1, <3>2 DEF SaveStep, WriteManifest, OpenBm, WriteBm
    <2>1. \A s \in Runs \ {r} : job'[s] = job[s] /\ run'[s] = run[s]
      BY <1>4 DEF SaveStep, FinishEmpty, OpenManifest, WriteManifest, OpenBm, WriteBm, TypeOK
    <2> QED BY <2>0, <2>1
  <1>5. ASSUME NEW r \in Runs, NEW p \in Paths, JobStep(r, p) PROVE RunInv'
    <2>1. run[r].pc = "working" /\ run' = run
      BY <1>5 DEF JobStep, Read, Check, LanceDelete, BmRemove, UpsertDelete, UpsertAdd,
                  Commit, Fail, StatEntry, Doom, LanceDrop, Drop, Working
    <2>2. PICK j : JobIs(r, p, j)
      BY <1>5 DEF JobStep, Read, Check, LanceDelete, BmRemove, UpsertDelete, UpsertAdd,
                  Commit, Fail, StatEntry, Doom, LanceDrop, Drop, JobTo, JobDone
    <2>3. \A s \in Runs, q \in Paths : s # r => job'[s][q] = job[s][q]
      BY <2>2, JobIsAt
    <2> QED BY <2>1, <2>3
  <1>6. ASSUME NEW r \in Runs, NEW p \in Paths, Fire(r, p) PROVE RunInv'
    BY <1>2, <1>6 DEF Fire, FireChange, FireUnlink
  <1>7. CASE UNCHANGED vars
    BY <1>7 DEF vars
  <1> QED BY <1>1, <1>3, <1>4, <1>5, <1>6, <1>7 DEF Next

LEMMA JobStepAt ==
    ASSUME TypeOK, NEW r \in Runs, NEW p \in Paths, JobStep(r, p)
    PROVE  /\ \A s \in Runs, q \in Paths : s # r \/ q # p => job'[s][q] = job[s][q]
           /\ \A q \in Paths : q # p => /\ lance'[q] = lance[q] /\ bm'[q] = bm[q]
                                        /\ manifest'[q] = manifest[q]
                                        /\ overlap'[q] = overlap[q]
           /\ file' = file
  <1>1. PICK j : JobIs(r, p, j)
    BY DEF JobStep, Read, Check, LanceDelete, BmRemove, UpsertDelete, UpsertAdd,
           Commit, Fail, StatEntry, Doom, LanceDrop, Drop, JobTo, JobDone
  <1>2. \A s \in Runs, q \in Paths : s # r \/ q # p => job'[s][q] = job[s][q]
    BY <1>1, JobIsAt
  <1>3. \A q \in Paths : q # p => lance'[q] = lance[q]
    BY DEF JobStep, Read, Check, LanceDelete, BmRemove, UpsertDelete, UpsertAdd,
           Commit, Fail, StatEntry, Doom, LanceDrop, Drop, TypeOK
  <1>4. \A q \in Paths : q # p => bm'[q] = bm[q]
    BY DEF JobStep, Read, Check, LanceDelete, BmRemove, UpsertDelete, UpsertAdd,
           Commit, Fail, StatEntry, Doom, LanceDrop, Drop, TypeOK, Indexes
  <1>5. \A q \in Paths : q # p => manifest'[q] = manifest[q]
    BY DEF JobStep, Read, Check, LanceDelete, BmRemove, UpsertDelete, UpsertAdd,
           Commit, Fail, StatEntry, Doom, LanceDrop, Drop, TypeOK, Manifests
  <1>6. \A q \in Paths : q # p => overlap'[q] = overlap[q]
    BY DEF JobStep, Read, Check, LanceDelete, BmRemove, UpsertDelete, UpsertAdd,
           Commit, Fail, StatEntry, Doom, LanceDrop, Drop, TypeOK, MarkOverlap
  <1>7. file' = file
    BY DEF JobStep, Read, Check, LanceDelete, BmRemove, UpsertDelete, UpsertAdd,
           Commit, Fail, StatEntry, Doom, LanceDrop, Drop
  <1> QED BY <1>2, <1>3, <1>4, <1>5, <1>6, <1>7

LEMMA MtimeStep == TypeOK /\ MtimeInv /\ [Next]_vars => MtimeInv'
  <1> SUFFICES ASSUME TypeOK, MtimeInv, [Next]_vars PROVE MtimeInv'
    OBVIOUS
  <1>0. \A q \in Paths : file[q].mtime \in Nat
    BY BoundsAssumption DEF TypeOK
  <1> USE <1>0 DEF MtimeInv
  <1>1. CASE UserStep
    <2>1. ASSUME NEW p \in Paths, WriteFile(p) PROVE MtimeInv'
      <3>1. \A q \in Paths : file'[q].mtime \in Nat /\ file[q].mtime <= file'[q].mtime
        BY <2>1 DEF WriteFile, TypeOK
      <3>2. \A q \in Paths : manifest[q] # Nil => manifest[q].mtime \in Nat
        BY BoundsAssumption DEF TypeOK, Manifests, Entry
      <3>3. \A s \in Runs, q \in Paths : job[s][q].mtime \in Nat
        BY BoundsAssumption DEF TypeOK, JobRecords
      <3>4. manifest' = manifest /\ job' = job
        BY <2>1 DEF WriteFile
      <3> QED BY <3>1, <3>2, <3>3, <3>4
    <2>2. ASSUME NEW p \in Paths, RemoveFile(p) PROVE MtimeInv'
      <3>1. \A q \in Paths : file'[q].mtime = file[q].mtime
        BY <2>2 DEF RemoveFile, TypeOK
      <3> QED BY <2>2, <3>1 DEF RemoveFile
    <2> QED BY <1>1, <2>1, <2>2 DEF UserStep
  <1>2. ASSUME NEW r \in Runs, NEW k, NEW f, StartWith(r, k, f),
               UNCHANGED <<file, manifest>> PROVE MtimeInv'
    <2>1. \A s \in Runs, q \in Paths : job'[s][q].mtime \in {0, job[s][q].mtime}
      <3>1. \A q \in Paths : job'[r][q] = Job(f[q], Nil, 0)
        BY <1>2, StartAt
      <3>2. \A q \in Paths : job'[r][q].mtime = 0
        <4> \A q \in Paths : Job(f[q], Nil, 0).mtime = 0
          BY DEF Job
        <4> QED BY <3>1
      <3>3. \A s \in Runs, q \in Paths : s # r => job'[s][q] = job[s][q]
        BY <1>2, StartAt
      <3> QED BY <3>2, <3>3
    <2> QED BY <1>2, <2>1
  <1>3. ASSUME NEW r \in Runs, Start(r) PROVE MtimeInv'
    BY <1>2, <1>3 DEF Start, StartIngest, StartCompact, StartForget
  <1>4. ASSUME NEW r \in Runs, SaveStep(r) PROVE MtimeInv'
    <2>1. UNCHANGED <<file, manifest>>
      BY <1>4 DEF SaveStep, FinishEmpty, OpenManifest, WriteManifest, OpenBm, WriteBm
    <2>2. \A s \in Runs, q \in Paths : job'[s][q].mtime \in {0, job[s][q].mtime}
      <3>1. CASE OpenManifest(r)
        BY <3>1 DEF OpenManifest, TypeOK, IdleJob, Job
      <3>2. CASE job' = job
        BY <3>2
      <3> QED BY <1>4, <3>1, <3>2 DEF SaveStep, FinishEmpty, WriteManifest, OpenBm, WriteBm
    <2> QED BY <2>1, <2>2
  <1>5. ASSUME NEW r \in Runs, NEW p \in Paths, JobStep(r, p) PROVE MtimeInv'
    <2>1. job'[r][p].mtime <= file[p].mtime
      <3> USE JobIsAt DEF JobTo, JobDone, Job
      <3>1. CASE Read(r, p)  BY <3>1 DEF Read
      <3>2. CASE Check(r, p) BY <3>2 DEF Check
      <3>3. CASE BmRemove(r, p) BY <3>3 DEF BmRemove
      <3>4. CASE Doom(r, p)  BY <3>4 DEF Doom
      <3> QED BY <1>5, <3>1, <3>2, <3>3, <3>4
              DEF JobStep, LanceDelete, UpsertDelete, UpsertAdd, Commit, Fail, StatEntry,
                  LanceDrop, Drop
    <2>2. manifest'[p] # Nil => manifest'[p].mtime <= file[p].mtime
      <3>1. CASE Commit(r, p)
        BY <3>1 DEF Commit, TypeOK, Manifests
      <3>2. CASE Drop(r, p)
        BY <3>2 DEF Drop, TypeOK, Manifests
      <3> QED BY <1>5, <3>1, <3>2
              DEF JobStep, Read, Check, LanceDelete, BmRemove, UpsertDelete, UpsertAdd,
                  Fail, StatEntry, Doom, LanceDrop
    <2> QED BY <1>5, <2>1, <2>2, JobStepAt
  <1>6. ASSUME NEW r \in Runs, NEW p \in Paths, Fire(r, p) PROVE MtimeInv'
    BY <1>2, <1>6 DEF Fire, FireChange, FireUnlink
  <1>7. CASE UNCHANGED vars
    BY <1>7 DEF vars
  <1> QED BY <1>1, <1>3, <1>4, <1>5, <1>6, <1>7 DEF Next

-----------------------------------------------------------------------------
(* One job step, at the path it works on *)

\* The facts about the step's own path that every case below starts from.
LEMMA PathStep ==
    ASSUME TypeOK, HashInv, MtimeInv, NEW r \in Runs, NEW p \in Paths,
           PathInv(p), JobStep(r, p)
    PROVE  PathInv(p)'
  <1> SUFFICES ASSUME ~overlap'[p] PROVE PathInv(p)'
    BY DEF PathInv
  <1>0. ~overlap[p]
    BY DEF JobStep, Read, Check, LanceDelete, BmRemove, UpsertDelete, UpsertAdd,
           Commit, Fail, StatEntry, Doom, LanceDrop, Drop, TypeOK, MarkOverlap
  <1>1. /\ \A s \in Runs : Phase(s, p)
        /\ (~Busy(p) => Intact(p))
        /\ Holds(r, p) => \A s \in Runs \ {r} : ~Holds(s, p)
    BY <1>0, Alone DEF PathInv
  <1>2. \A s \in Runs \ {r} : Holds(s, p)' <=> Holds(s, p)
    BY JobStepAt DEF Holds
  <1>3. ASSUME Holds(r, p), ~Holds(r, p)' => Intact(p)', Phase(r, p)'
        PROVE  PathInv(p)'
    BY <1>1, <1>2, <1>3, Solo
  <1>t. /\ lance[p] \in [Rows -> Nat] /\ bm[p] \in [Contents -> Nat]
        /\ job[r][p].hash \in Contents \/ job[r][p].pc \notin Loaded
        /\ file[p].mtime \in Nat
        /\ manifest[p] # Nil => manifest[p].mtime \in Nat /\ manifest[p].mtime <= file[p].mtime
    BY BoundsAssumption DEF TypeOK, HashInv, MtimeInv, Manifests, Indexes, Entry
  <1>4. CASE Read(r, p)
    <2>1. CASE file[p].there
      <3>1. JobIs(r, p, Job("read", file[p].hash, 0)) /\ MarkOverlap(r, p)
        BY <1>4, <2>1 DEF Read
      <3>2. job'[r][p].pc = "read" /\ job'[r][p].hash = file[p].hash
        BY <3>1, JobIsAt DEF Job
      <3>3. \A s \in Runs \ {r} : ~Holds(s, p)
        BY <3>1 DEF MarkOverlap, TypeOK
      <3>4. ~Busy(p)
        BY <1>4, <3>3 DEF Read, Busy, Holds, Holding
      <3>5. Intact(p)'
        BY <1>1, <1>4, <3>4 DEF Read, Intact, Empty, Exact, Stale, Outdated
      <3>6. Phase(r, p)'
        BY <1>4, <3>2, <3>5 DEF Phase, Read
      <3> QED BY <1>2, <3>3, <3>5, <3>6, Solo
    <2>2. CASE ~file[p].there
      <3>1. job'[r][p].pc = "done"
        BY <1>4, <2>2, JobIsAt DEF Read, JobDone, Job
      <3> QED
        BY <1>4, <2>2, <3>1, JobStepAt, Frame DEF Read, Holding
    <2> QED BY <2>1, <2>2
  <1>5. CASE Check(r, p)
    <2>0. Holds(r, p) /\ Intact(p) /\ (job[r][p].hash = file[p].hash \/ Outdated(p))
      BY <1>1, <1>5 DEF Check, Holds, Holding, Phase
    <2>1. Intact(p)'
      BY <1>5, <2>0 DEF Check, Intact, Empty, Exact, Stale, Outdated
    <2>2. CASE file[p].there /\ NeedsReindex(p, job[r][p].hash, file[p].mtime)
      <3>1. job'[r][p].pc = "deleting"
        BY <1>5, <2>2, JobIsAt DEF Check, Job
      <3>2. Stale(p)
        BY <1>t, <2>0, <2>2 DEF NeedsReindex, Stale, Outdated
      <3>3. Stale(p)'
        BY <1>5, <3>2 DEF Check, Stale, Outdated
      <3>4. Phase(r, p)'
        BY <2>1, <3>1, <3>3 DEF Phase
      <3> QED BY <1>3, <2>0, <2>1, <3>4
    <2>3. CASE ~(file[p].there /\ NeedsReindex(p, job[r][p].hash, file[p].mtime))
      <3>1. job'[r][p].pc = "done"
        BY <1>5, <2>3, JobIsAt DEF Check, JobDone, Job
      <3>2. Phase(r, p)'
        BY <3>1 DEF Phase
      <3> QED BY <1>3, <2>0, <2>1, <3>2
    <2> QED BY <2>2, <2>3
  <1>6. CASE LanceDelete(r, p)
    <2>0. Holds(r, p) /\ Stale(p)
      BY <1>1, <1>6 DEF LanceDelete, Holds, Holding, Phase
    <2>1. job'[r][p].pc = "deleted"
      BY <1>6, JobIsAt DEF LanceDelete, JobTo, Job
    <2>2. lance'[p] = NoRows /\ Stale(p)'
      BY <1>6, <2>0 DEF LanceDelete, TypeOK, Stale, Outdated
    <2> QED BY <1>3, <2>0, <2>1, <2>2 DEF Phase, Holds, Holding
  <1>7. CASE BmRemove(r, p)
    <2>0. Holds(r, p) /\ Stale(p) /\ lance[p] = NoRows
      BY <1>1, <1>7 DEF BmRemove, Holds, Holding, Phase
    <2>1. job'[r][p].pc \in {"done", "embedding"}
      BY <1>7, JobIsAt DEF BmRemove, JobTo, JobDone, Job
    <2>2. Empty(p)' /\ Stale(p)'
      BY <1>7, <2>0 DEF BmRemove, WithoutDocument, Empty, Stale, Outdated, TypeOK, Indexes
    <2> QED BY <1>3, <2>0, <2>1, <2>2 DEF Phase, Intact
  <1>8. CASE UpsertDelete(r, p)
    <2>0. Holds(r, p) /\ Stale(p) /\ Empty(p) /\ job[r][p].hash \in Contents
      BY <1>1, <1>8, <1>t DEF UpsertDelete, Holds, Holding, Phase, Loaded
    <2>1. job'[r][p].pc = "adding"
      BY <1>8, JobIsAt DEF UpsertDelete, JobTo, Job
    <2>2. Empty(p)' /\ Stale(p)'
      BY <1>8, <2>0, AddToEmpty DEF UpsertDelete, Empty, Stale, Outdated, TypeOK
    <2> QED BY <1>3, <2>0, <2>1, <2>2 DEF Phase, Intact
  <1>9. CASE UpsertAdd(r, p)
    <2>0. Holds(r, p) /\ Stale(p) /\ Empty(p) /\ job[r][p].hash \in Contents
      BY <1>1, <1>9, <1>t DEF UpsertAdd, Holds, Holding, Phase, Loaded
    <2>1. job'[r][p].pc = "added" /\ job'[r][p].hash = job[r][p].hash
      BY <1>9, JobIsAt DEF UpsertAdd, JobTo, Job
    <2>2. lance'[p] = RowsOf(job[r][p].hash) /\ bm'[p] = NoCopy /\ Stale(p)'
      BY <1>9, <2>0, AddToEmpty DEF UpsertAdd, Empty, Stale, Outdated, TypeOK
    <2>3. Holds(r, p)'
      BY <2>1 DEF Holds, Holding
    <2> QED BY <1>3, <2>0, <2>1, <2>2, <2>3 DEF Phase
  <1>10. CASE Commit(r, p)
    <2>0. /\ Holds(r, p) /\ lance[p] = RowsOf(job[r][p].hash) /\ bm[p] = NoCopy
          /\ job[r][p].hash \in Contents
      BY <1>1, <1>10, <1>t DEF Commit, Holds, Holding, Phase, Loaded
    <2>1. job'[r][p].pc = "done"
      BY <1>10, JobIsAt DEF Commit, JobDone, Job
    <2>2. /\ lance'[p] = RowsOf(job[r][p].hash)
          /\ bm'[p] = CopyOf(job[r][p].hash)
          /\ manifest'[p] = [hash |-> job[r][p].hash, mtime |-> job[r][p].mtime]
      BY <1>10, <2>0, AddToEmpty DEF Commit, TypeOK, Indexes, Manifests
    <2>3. manifest'[p] # Nil
      <3> [hash |-> job[r][p].hash, mtime |-> job[r][p].mtime] \in Entry
        BY <2>0 DEF TypeOK, JobRecords, Entry
      <3> QED BY <2>2, NilAssumption
    <2>4. Intact(p)'
      BY <2>2, <2>3 DEF Intact, Exact
    <2> QED BY <1>3, <2>0, <2>1, <2>4 DEF Phase
  <1>11. CASE Fail(r, p)
    <2>0. Holds(r, p) /\ Intact(p)
      BY <1>1, <1>11 DEF Fail, Holds, Holding, Phase, Intact
    <2>1. job'[r][p].pc = "done"
      BY <1>11, JobIsAt DEF Fail, JobDone, Job
    <2>2. Intact(p)'
      BY <1>11, <2>0 DEF Fail, Intact, Empty, Exact, Stale, Outdated
    <2> QED BY <1>3, <2>0, <2>1, <2>2 DEF Phase
  <1>12. CASE StatEntry(r, p)
    <2>1. job'[r][p].pc \in {"idle", "doomed"}
      BY <1>12, JobIsAt DEF StatEntry, JobTo, Job
    <2> QED BY <1>12, <2>1, JobStepAt, Frame DEF StatEntry, Holding
  <1>13. CASE Doom(r, p)
    <2>1. CASE run[r].kind = "compact" /\ manifest[p] = Nil
      <3>1. job'[r][p].pc = "done"
        BY <1>13, <2>1, JobIsAt DEF Doom, JobDone, Job
      <3> QED BY <1>13, <2>1, <3>1, JobStepAt, Frame DEF Doom, Holding
    <2>2. CASE ~(run[r].kind = "compact" /\ manifest[p] = Nil)
      <3>1. job'[r][p].pc = "dropping"
        BY <1>13, <2>2, JobIsAt DEF Doom, JobTo, Job
      <3>3. \A s \in Runs \ {r} : ~Holds(s, p)
        BY <1>13, <2>2 DEF Doom, MarkOverlap, TypeOK
      <3>4. ~Busy(p)
        BY <1>13, <3>3 DEF Doom, Busy, Holds, Holding
      <3>5. Intact(p)'
        BY <1>1, <1>13, <3>4 DEF Doom, Intact, Empty, Exact, Stale, Outdated
      <3>6. Phase(r, p)'
        BY <3>1, <3>5 DEF Phase
      <3> QED BY <1>2, <3>3, <3>5, <3>6, Solo
    <2> QED BY <2>1, <2>2
  <1>14. CASE LanceDrop(r, p)
    <2>0. Holds(r, p)
      BY <1>14 DEF LanceDrop, Holds, Holding
    <2>1. job'[r][p].pc = "dropped" /\ lance'[p] = NoRows
      BY <1>14, JobIsAt DEF LanceDrop, JobTo, Job, TypeOK
    <2> QED BY <1>3, <2>0, <2>1 DEF Phase, Holds, Holding
  <1>15. CASE Drop(r, p)
    <2>0. Holds(r, p) /\ lance[p] = NoRows
      BY <1>1, <1>15 DEF Drop, Holds, Holding, Phase
    <2>1. job'[r][p].pc = "done"
      BY <1>15, JobIsAt DEF Drop, JobDone, Job
    <2>2. Intact(p)'
      BY <1>15, <2>0 DEF Drop, WithoutDocument, Intact, Empty, Stale, Outdated, TypeOK,
                         Manifests, Indexes
    <2> QED BY <1>3, <2>0, <2>1, <2>2 DEF Phase
  <1> QED BY <1>4, <1>5, <1>6, <1>7, <1>8, <1>9, <1>10, <1>11, <1>12, <1>13, <1>14, <1>15
          DEF JobStep

-----------------------------------------------------------------------------
(* Every step, at every path *)

AllPaths == \A p \in Paths : PathInv(p)

LEMMA PathsStep ==
    TypeInv /\ RunInv /\ MtimeInv /\ AllPaths /\ [Next]_vars => AllPaths'
  <1> SUFFICES ASSUME TypeInv, RunInv, MtimeInv, AllPaths, [Next]_vars PROVE AllPaths'
    OBVIOUS
  <1> TypeOK /\ HashInv
    BY DEF TypeInv
  <1> SUFFICES ASSUME NEW p \in Paths PROVE PathInv(p)'
    BY DEF AllPaths
  <1> PathInv(p)
    BY DEF AllPaths
  <1>t. /\ file[p].mtime \in Nat
        /\ manifest[p] # Nil => manifest[p].mtime \in Nat /\ manifest[p].mtime <= file[p].mtime
    BY BoundsAssumption DEF TypeOK, MtimeInv, Manifests, Entry
  <1>1. CASE UserStep
    <2>1. ASSUME NEW q \in Paths, WriteFile(q) PROVE PathInv(p)'
      <3>1. CASE p # q
        BY <2>1, <3>1, Frame DEF WriteFile, TypeOK
      <3>2. CASE p = q
        <4>1. Outdated(p)' /\ Stale(p)'
          <5> file'[p].mtime = file[p].mtime + 1 /\ manifest' = manifest
            BY <2>1, <3>2 DEF WriteFile, TypeOK
          <5> QED BY <1>t DEF Outdated, Stale
        <4>2. UNCHANGED <<lance, bm, manifest, job, overlap>>
          BY <2>1 DEF WriteFile
        <4>3. Intact(p) => Intact(p)'
          BY <4>1, <4>2 DEF Intact, Empty, Exact
        <4>4. \A s \in Runs : Phase(s, p) => Phase(s, p)'
          BY <4>1, <4>2, <4>3 DEF Phase, Empty
        <4> QED BY <4>2, <4>3, <4>4 DEF PathInv, OneHolder, Busy, Holds
      <3> QED BY <3>1, <3>2
    <2>2. ASSUME NEW q \in Paths, RemoveFile(q) PROVE PathInv(p)'
      <3>1. file'[p].mtime = file[p].mtime /\ file'[p].hash = file[p].hash
        BY <2>2 DEF RemoveFile, TypeOK
      <3>2. UNCHANGED <<lance, bm, manifest, job, overlap>>
        BY <2>2 DEF RemoveFile
      <3>3. (Intact(p) <=> Intact(p)') /\ (Stale(p) <=> Stale(p)') /\ (Outdated(p) <=> Outdated(p)')
        BY <3>1, <3>2 DEF Intact, Empty, Exact, Stale, Outdated
      <3>4. \A s \in Runs : Phase(s, p) => Phase(s, p)'
        BY <3>1, <3>2, <3>3 DEF Phase, Empty
      <3> QED BY <3>2, <3>3, <3>4 DEF PathInv, OneHolder, Busy, Holds
    <2> QED BY <1>1, <2>1, <2>2 DEF UserStep
  <1>2. ASSUME NEW r \in Runs, NEW k,
               NEW f \in [Paths -> {"queued", "idle", "stat", "doomed"}],
               Idle(r), StartWith(r, k, f),
               UNCHANGED <<file, lance, bm, manifest, overlap>>
        PROVE  PathInv(p)'
    <2>1. job[r][p].pc \notin Holding
      BY <1>2 DEF RunInv, Idle, Holds
    <2>2. job'[r][p].pc \notin Holding
      <3>1. job'[r][p] = Job(f[p], Nil, 0)
        BY <1>2, StartAt
      <3>2. job'[r][p].pc = f[p]
        BY <3>1 DEF Job
      <3> QED BY <3>2 DEF Holding
    <2>3. \A s \in Runs : s # r => job'[s][p] = job[s][p]
      BY <1>2, StartAt
    <2> QED BY <1>2, <2>1, <2>2, <2>3, Frame
  <1>3. ASSUME NEW r \in Runs, Start(r) PROVE PathInv(p)'
    BY <1>2, <1>3 DEF Start, StartIngest, StartCompact, StartForget
  <1>4. ASSUME NEW r \in Runs, SaveStep(r) PROVE PathInv(p)'
    <2>1. UNCHANGED <<file, lance, bm, manifest, overlap>>
      BY <1>4 DEF SaveStep, FinishEmpty, OpenManifest, WriteManifest, OpenBm, WriteBm
    <2>2. \A s \in Runs : \/ job'[s][p] = job[s][p]
                          \/ job'[s][p].pc \notin Holding /\ job[s][p].pc \notin Holding
      <3>1. CASE OpenManifest(r)
        BY <3>1 DEF OpenManifest, AllDone, TypeOK, IdleJob, Job, Holding
      <3>2. CASE job' = job
        BY <3>2
      <3> QED BY <1>4, <3>1, <3>2 DEF SaveStep, FinishEmpty, WriteManifest, OpenBm, WriteBm
    <2> QED BY <2>1, <2>2, Frame
  <1>5. ASSUME NEW r \in Runs, NEW q \in Paths, JobStep(r, q) PROVE PathInv(p)'
    <2>1. CASE p = q
      BY <1>5, <2>1, PathStep
    <2>2. CASE p # q
      BY <1>5, <2>2, JobStepAt, Frame
    <2> QED BY <2>1, <2>2
  <1>6. ASSUME NEW r \in Runs, NEW q \in Paths, Fire(r, q) PROVE PathInv(p)'
    <2>1. CASE FireChange(r, q)
      BY <1>2, <2>1 DEF FireChange
    <2>2. CASE FireUnlink(r, q)
      <3>0. /\ UNCHANGED <<file, lance, bm, manifest>> /\ MarkOverlap(r, q) /\ Idle(r)
            /\ p # q => overlap'[p] = overlap[p]
        BY <2>2 DEF FireUnlink, MarkOverlap, TypeOK
      <3>1. CASE manifest[q] = Nil
        <4>1. job' = job
          BY <2>2, <3>1 DEF FireUnlink
        <4>2. CASE overlap'[p] = overlap[p]
          BY <3>0, <4>1, <4>2, Frame
        <4>3. CASE overlap'[p]
          BY <4>3 DEF PathInv
        <4> QED BY <3>0, <4>2, <4>3 DEF MarkOverlap, TypeOK
      <3>2. CASE manifest[q] # Nil
        <4>0. StartWith(r, "unlink", [x \in Paths |-> IF x = q THEN "dropping" ELSE "idle"])
          BY <2>2, <3>2 DEF FireUnlink
        <4>1. job[r][p].pc \notin Holding
          BY <3>0 DEF RunInv, Idle, Holds
        <4>2. \A s \in Runs : s # r => job'[s][p] = job[s][p]
          BY <4>0, StartAt
        <4>3. job'[r][p] = Job(IF p = q THEN "dropping" ELSE "idle", Nil, 0)
          BY <4>0, StartAt
        <4>4. job'[r][p].pc = IF p = q THEN "dropping" ELSE "idle"
          BY <4>3 DEF Job
        <4>5. CASE p # q
          BY <3>0, <4>1, <4>2, <4>4, <4>5, Frame DEF Holding
        <4>6. CASE p = q /\ ~overlap'[p]
          <5>1. ~overlap[p] /\ \A s \in Runs \ {r} : ~Holds(s, p)
            BY <3>0, <4>6 DEF MarkOverlap, TypeOK
          <5>2. Intact(p)
            BY <4>1, <5>1 DEF PathInv, Busy, Holds
          <5>3. Intact(p)'
            BY <3>0, <5>2 DEF Intact, Empty, Exact, Stale, Outdated
          <5>4. Phase(r, p)'
            BY <4>4, <4>6, <5>3 DEF Phase
          <5> QED BY <4>2, <5>1, <5>3, <5>4, Solo DEF Holds
        <4>7. CASE overlap'[p]
          BY <4>7 DEF PathInv
        <4> QED BY <4>5, <4>6, <4>7
      <3> QED BY <3>1, <3>2
    <2> QED BY <1>6, <2>1, <2>2 DEF Fire
  <1>7. CASE UNCHANGED vars
    BY <1>7, Frame DEF vars
  <1> QED BY <1>1, <1>3, <1>4, <1>5, <1>6, <1>7 DEF Next

LEMMA PathsInit == Init => RunInv /\ MtimeInv /\ AllPaths
  <1> SUFFICES ASSUME Init PROVE RunInv /\ MtimeInv /\ AllPaths
    OBVIOUS
  <1>1. \A r \in Runs, p \in Paths : ~Holds(r, p) /\ job[r][p].mtime = 0
    BY DEF Init, Holds, Holding, IdleJob, Job
  <1>2. \A p \in Paths : manifest[p] = Nil /\ file[p].mtime = 0 /\ Empty(p)
    BY DEF Init, Empty
  <1>3. \A p \in Paths : Intact(p)
    BY <1>2 DEF Intact, Stale, Outdated
  <1>4. \A r \in Runs, p \in Paths : Phase(r, p)
    BY <1>1 DEF Phase, Holds, Holding
  <1> QED BY <1>1, <1>2, <1>3, <1>4 DEF RunInv, MtimeInv, AllPaths, PathInv, OneHolder

IndexInv == TypeInv /\ RunInv /\ MtimeInv /\ AllPaths

LEMMA IndexInvariant == Spec => []IndexInv
  <1>1. Init => IndexInv
    BY TypeInvInit, PathsInit DEF IndexInv
  <1>2. IndexInv /\ [Next]_vars => IndexInv'
    BY TypeStep, HashStep, RunStep, MtimeStep, PathsStep DEF IndexInv, TypeInv
  <1> QED BY <1>1, <1>2, PTL DEF Spec

\* Whatever runs interleave, a file that ingest would skip as unchanged, and that
\* two operations never worked on at once, is in both stores exactly as it is.
THEOREM SkippedFilesAreIndexed == Spec => []SkipIsSound
  <1>1. IndexInv => SkipIsSound
    <2> SUFFICES ASSUME IndexInv, NEW p \in Paths, Quiet(p), Skipped(p)
                 PROVE  Exact(p, file[p].hash)
      BY DEF SkipIsSound
    <2>1. Intact(p) /\ manifest[p] # Nil
      BY DEF IndexInv, AllPaths, PathInv, Quiet, Skipped
    <2>2. manifest[p].hash = file[p].hash /\ manifest[p].mtime = file[p].mtime
      BY DEF Skipped, NeedsReindex
    <2>3. file[p].mtime \in Nat
      BY BoundsAssumption DEF IndexInv, TypeInv, TypeOK
    <2>4. ~Stale(p)
      BY <2>1, <2>2, <2>3 DEF Stale, Outdated
    <2> QED BY <2>1, <2>2, <2>4 DEF Intact
  <1> QED BY <1>1, IndexInvariant, PTL

\* The vector and the keyword leg of the index hold the same document or none.
THEOREM LegsStayTogether == Spec => []LegsAgree
  <1>1. IndexInv => LegsAgree
    BY DEF IndexInv, AllPaths, PathInv, Quiet, LegsAgree, Intact
  <1> QED BY <1>1, IndexInvariant, PTL

-----------------------------------------------------------------------------
(* The process that dies and is restarted.                                 *)
(*                                                                         *)
(* The manifest the next process loads may be older than the one in        *)
(* memory: it is any version that the disk, or a save under way, still     *)
(* holds.  What a run does to the rows is harmless because no version but  *)
(* the entry in memory vouches for the file: a run that has begun to       *)
(* delete knows that none does, and a drop that a crash undoes is marked.  *)

IsVersion(v, p) ==
    \/ v = manifest[p]
    \/ diskM # Torn /\ v = diskM[p]
    \/ \E r \in Runs : run[r].pc = "savingM" /\ v = run[r].snapM[p]

\* An ingest would skip the file if this were its entry.
VouchesFor(v, p) ==
    file[p].there /\ v # Nil /\ v.hash = file[p].hash /\ v.mtime = file[p].mtime

RowsAgree(v, p) == VouchesFor(v, p) => lance[p] = RowsOf(file[p].hash)
OneVersion(p) ==
    \A v \in Entry : IsVersion(v, p) /\ VouchesFor(v, p) => manifest[p] = Nil \/ manifest[p] = v
AllPast(p) == \A v \in Entry : IsVersion(v, p) => v.mtime < file[p].mtime
OnlyNew(p, j) ==
    \A v \in Entry : IsVersion(v, p) /\ VouchesFor(v, p) =>
      manifest[p] = Nil /\ v.hash = j.hash /\ v.mtime = j.mtime

Writing == {"deleting", "deleted", "embedding", "adding", "added"}
RowsPhase(j, p) ==
    /\ j.pc \in {"read", "dropping"} => RowsAgree(manifest[p], p)
    /\ j.pc = "read" => j.hash = file[p].hash \/ AllPast(p)
    /\ j.pc \in Writing => OnlyNew(p, j)
    /\ j.pc \in {"deleted", "embedding", "adding"} => lance[p] = NoRows
    /\ j.pc = "added" => lance[p] = RowsOf(j.hash)

RunningPath(p) ==
    /\ OneHolder(p)
    /\ OneVersion(p)
    /\ ~Busy(p) => RowsAgree(manifest[p], p)
    /\ \A r \in Runs : RowsPhase(job[r][p], p)
DownPath(p) == diskM # Torn => RowsAgree(diskM[p], p)
DurablePath(p) == ~overlap[p] => (up => RunningPath(p)) /\ (~up => DownPath(p))
AllDurable == \A p \in Paths : DurablePath(p)

\* No version is of a later file than the one there is.
PastInv == \A p \in Paths, v \in Entry : IsVersion(v, p) => v.mtime <= file[p].mtime
DownInv == ~up => \A r \in Runs : run[r] = IdleRun /\ \A p \in Paths : job[r][p] = IdleJob

DurableInv == TypeInv /\ RunInv /\ MtimeInv /\ PastInv /\ DownInv /\ AllDurable

-----------------------------------------------------------------------------
(* Versions *)

LEMMA ManifestEntry ==
    ASSUME TypeOK, NEW p \in Paths
    PROVE  manifest[p] = Nil \/ (manifest[p] \in Entry /\ IsVersion(manifest[p], p))
  BY DEF TypeOK, Manifests, IsVersion

LEMMA EntryIsNotNil == ASSUME NEW v \in Entry PROVE v # Nil
  BY NilAssumption

LEMMA JobVersions ==
    ASSUME TypeOK, NEW r \in Runs, NEW p \in Paths, JobStep(r, p),
           NEW q \in Paths, NEW v \in Entry, IsVersion(v, q)'
    PROVE  \/ IsVersion(v, q)
           \/ q = p /\ Commit(r, p) /\ v = [hash |-> job[r][p].hash, mtime |-> job[r][p].mtime]
  <1>1. diskM' = diskM /\ run' = run
    BY DEF JobStep, Read, Check, LanceDelete, BmRemove, UpsertDelete, UpsertAdd,
           Commit, Fail, StatEntry, Doom, LanceDrop, Drop
  <1>2. CASE Commit(r, p)
    <2>1. manifest'[q] = IF q = p THEN [hash |-> job[r][p].hash, mtime |-> job[r][p].mtime]
                                  ELSE manifest[q]
      BY <1>2 DEF Commit, TypeOK, Manifests
    <2> QED BY <1>1, <1>2, <2>1 DEF IsVersion
  <1>3. CASE Drop(r, p)
    <2>1. manifest'[q] = IF q = p THEN Nil ELSE manifest[q]
      BY <1>3 DEF Drop, TypeOK, Manifests
    <2> QED BY <1>1, <2>1, EntryIsNotNil DEF IsVersion
  <1>4. CASE manifest' = manifest
    BY <1>1, <1>4 DEF IsVersion
  <1> QED
    BY <1>2, <1>3, <1>4 DEF JobStep, Read, Check, LanceDelete, BmRemove, UpsertDelete,
                            UpsertAdd, Fail, StatEntry, Doom, LanceDrop

LEMMA SaveVersions ==
    ASSUME TypeOK, NEW r \in Runs, SaveStep(r), NEW q \in Paths, NEW v \in Entry,
           IsVersion(v, q)'
    PROVE  IsVersion(v, q)
  <1>0. manifest' = manifest
    BY DEF SaveStep, FinishEmpty, OpenManifest, WriteManifest, OpenBm, WriteBm
  <1>1. CASE OpenManifest(r)
    <2>1. \A s \in Runs : run'[s] = IF s = r THEN Run("savingM", run[r].kind, manifest, Nil)
                                            ELSE run[s]
      BY <1>1 DEF OpenManifest, TypeOK
    <2>2. run'[r].snapM = manifest
      BY <2>1 DEF Run
    <2> QED BY <1>0, <1>1, <2>1, <2>2 DEF OpenManifest, IsVersion
  <1>2. CASE WriteManifest(r)
    <2>1. \A s \in Runs : run'[s] = IF s = r THEN Run("savedM", run[r].kind, Nil, Nil) ELSE run[s]
      BY <1>2 DEF WriteManifest, TypeOK
    <2>2. run'[r].pc = "savedM"
      BY <2>1 DEF Run
    <2> QED BY <1>0, <1>2, <2>1, <2>2 DEF WriteManifest, IsVersion
  <1>3. CASE FinishEmpty(r) \/ OpenBm(r) \/ WriteBm(r)
    <2>1. diskM' = diskM /\ \A s \in Runs : s # r => run'[s] = run[s]
      BY <1>3 DEF FinishEmpty, OpenBm, WriteBm, TypeOK
    <2>2. run'[r].pc # "savingM"
      BY <1>3 DEF FinishEmpty, OpenBm, WriteBm, TypeOK, IdleRun, Run
    <2> QED BY <1>0, <2>1, <2>2 DEF IsVersion
  <1> QED BY <1>1, <1>2, <1>3 DEF SaveStep

LEMMA StartVersions ==
    ASSUME TypeOK, NEW r \in Runs, NEW k, NEW f, StartWith(r, k, f),
           UNCHANGED <<manifest, diskM>>, NEW q \in Paths, NEW v \in Entry, IsVersion(v, q)'
    PROVE  IsVersion(v, q)
  <1>1. \A s \in Runs : run'[s] = IF s = r THEN Run("working", k, Nil, Nil) ELSE run[s]
    BY StartAt
  <1>2. run'[r].pc = "working"
    BY <1>1 DEF Run
  <1> QED BY <1>1, <1>2 DEF IsVersion

\* A running process makes no new version of an entry but by a commit.
LEMMA NextVersions ==
    ASSUME TypeOK, Next, NEW q \in Paths, NEW v \in Entry, IsVersion(v, q)'
    PROVE  \/ IsVersion(v, q)
           \/ \E r \in Runs : /\ Commit(r, q)
                              /\ v = [hash |-> job[r][q].hash, mtime |-> job[r][q].mtime]
  <1>1. CASE UserStep
    BY <1>1 DEF UserStep, WriteFile, RemoveFile, IsVersion
  <1>2. ASSUME NEW r \in Runs, Start(r) PROVE IsVersion(v, q)
    BY <1>2, StartVersions DEF Start, StartIngest, StartCompact, StartForget
  <1>3. ASSUME NEW r \in Runs, SaveStep(r) PROVE IsVersion(v, q)
    BY <1>3, SaveVersions
  <1>4. ASSUME NEW r \in Runs, NEW p \in Paths, JobStep(r, p)
        PROVE  \/ IsVersion(v, q)
               \/ /\ Commit(r, q)
                  /\ v = [hash |-> job[r][q].hash, mtime |-> job[r][q].mtime]
    BY <1>4, JobVersions
  <1>5. ASSUME NEW r \in Runs, NEW p \in Paths, Fire(r, p) PROVE IsVersion(v, q)
    <2>1. CASE FireChange(r, p)
      BY <2>1, StartVersions DEF FireChange
    <2>2. CASE FireUnlink(r, p)
      <3>1. CASE manifest[p] = Nil
        BY <2>2, <3>1 DEF FireUnlink, IsVersion
      <3>2. CASE manifest[p] # Nil
        BY <2>2, <3>2, StartVersions DEF FireUnlink
      <3> QED BY <3>1, <3>2
    <2> QED BY <1>5, <2>1, <2>2 DEF Fire
  <1> QED BY <1>1, <1>2, <1>3, <1>4, <1>5 DEF Next

LEMMA PastStep == TypeInv /\ MtimeInv /\ PastInv /\ [Next]_vars => PastInv'
  <1> SUFFICES ASSUME TypeInv, MtimeInv, PastInv, [Next]_vars,
                      NEW q \in Paths, NEW v \in Entry, IsVersion(v, q)'
               PROVE  v.mtime <= file'[q].mtime
    BY DEF PastInv
  <1> TypeOK
    BY DEF TypeInv
  <1>n. v.mtime \in Nat /\ file[q].mtime \in Nat
    BY BoundsAssumption DEF TypeOK, Entry
  <1>1. file'[q].mtime \in Nat /\ file[q].mtime <= file'[q].mtime
    <2>1. CASE UserStep
      BY <1>n, <2>1 DEF UserStep, WriteFile, RemoveFile, TypeOK
    <2>2. CASE file' = file
      BY <1>n, <2>2
    <2>3. CASE \E r \in Runs : Start(r) \/ SaveStep(r) \/ \E p \in Paths : JobStep(r, p) \/ Fire(r, p)
      <3> file' = file
        BY <2>3, JobStepAt DEF Start, StartIngest, StartCompact, StartForget, SaveStep,
           FinishEmpty, OpenManifest, WriteManifest, OpenBm, WriteBm, Fire, FireChange, FireUnlink
      <3> QED BY <2>2
    <2> QED BY <2>1, <2>2, <2>3 DEF Next, vars
  <1>2. v.mtime <= file[q].mtime
    <2>1. CASE IsVersion(v, q)
      BY <2>1 DEF PastInv
    <2>2. CASE \E r \in Runs : /\ Commit(r, q)
                               /\ v = [hash |-> job[r][q].hash, mtime |-> job[r][q].mtime]
      BY <2>2 DEF MtimeInv
    <2>3. CASE UNCHANGED vars
      BY <2>1, <2>3 DEF vars, IsVersion
    <2> QED BY <2>1, <2>2, <2>3, NextVersions
  <1> QED BY <1>n, <1>1, <1>2

\* Only a process that is up takes the steps of a run, and it stays up.
LEMMA OnlyARunningProcess ==
    ASSUME NEW r \in Runs,
           Start(r) \/ SaveStep(r) \/ \E p \in Paths : JobStep(r, p) \/ Fire(r, p)
    PROVE  up /\ up' = up
  <1>1. CASE Start(r)
    BY <1>1 DEF Start, StartIngest, StartCompact, StartForget, Idle
  <1>2. CASE SaveStep(r)
    BY <1>2 DEF SaveStep, FinishEmpty, OpenManifest, WriteManifest, OpenBm, WriteBm
  <1>3. ASSUME NEW p \in Paths, Fire(r, p) PROVE up /\ up' = up
    BY <1>3 DEF Fire, FireChange, FireUnlink, Idle
  <1>4. ASSUME NEW p \in Paths, JobStep(r, p) PROVE up /\ up' = up
    BY <1>4 DEF JobStep, Read, Check, LanceDelete, BmRemove, UpsertDelete, UpsertAdd,
                Commit, Fail, StatEntry, Doom, LanceDrop, Drop, Working
  <1> QED BY <1>1, <1>2, <1>3, <1>4

LEMMA DownStep == TypeOK /\ DownInv /\ [Next]_vars => DownInv'
  <1> SUFFICES ASSUME TypeOK, DownInv, [Next]_vars, ~up'
               PROVE  \A r \in Runs : run'[r] = IdleRun /\ \A p \in Paths : job'[r][p] = IdleJob
    BY DEF DownInv
  <1>1. CASE UNCHANGED <<run, job, up>>
    BY <1>1 DEF DownInv
  <1>2. CASE UserStep
    BY <1>1, <1>2 DEF UserStep, WriteFile, RemoveFile
  <1>3. CASE \E r \in Runs : Start(r) \/ SaveStep(r) \/ \E p \in Paths : JobStep(r, p) \/ Fire(r, p)
    BY <1>3, OnlyARunningProcess
  <1> QED BY <1>1, <1>2, <1>3 DEF Next, vars

-----------------------------------------------------------------------------
(* One step at one path of a running process *)

\* A step that leaves a path alone, or only moves runs that do not hold it.
LEMMA RowsFrame ==
    ASSUME NEW p \in Paths, RunningPath(p),
           file'[p] = file[p], lance'[p] = lance[p], manifest'[p] = manifest[p],
           \A v \in Entry : IsVersion(v, p)' => IsVersion(v, p),
           \A s \in Runs : \/ job'[s][p] = job[s][p]
                           \/ job'[s][p].pc \notin Holding /\ job[s][p].pc \notin Holding
    PROVE  RunningPath(p)'
  <1>1. \A s \in Runs : Holds(s, p)' <=> Holds(s, p)
    BY DEF Holds
  <1>2. (Busy(p)' <=> Busy(p)) /\ (OneHolder(p)' <=> OneHolder(p))
    BY <1>1 DEF Busy, OneHolder
  <1>3. RowsAgree(manifest[p], p)' <=> RowsAgree(manifest[p], p)
    BY DEF RowsAgree, VouchesFor
  <1>4. OneVersion(p)'
    BY DEF RunningPath, OneVersion, VouchesFor
  <1>5. ASSUME NEW s \in Runs PROVE RowsPhase(job[s][p], p)'
    <2>1. CASE job'[s][p] = job[s][p]
      <3>1. RowsPhase(job[s][p], p)
        BY DEF RunningPath
      <3>2. AllPast(p) => AllPast(p)'
        BY DEF AllPast
      <3>3. OnlyNew(p, job[s][p]) => OnlyNew(p, job[s][p])'
        BY <2>1 DEF OnlyNew, VouchesFor
      <3> QED BY <1>3, <2>1, <3>1, <3>2, <3>3 DEF RowsPhase
    <2>2. CASE job'[s][p].pc \notin Holding
      BY <2>2 DEF RowsPhase, Holding, Writing
    <2> QED BY <2>1, <2>2
  <1> QED BY <1>2, <1>3, <1>4, <1>5 DEF RunningPath

\* After a step of the only run that holds a path, its own phase is all there is.
LEMMA RowsSolo ==
    ASSUME NEW p \in Paths, NEW r \in Runs,
           \A s \in Runs \ {r} : ~Holds(s, p)',
           OneVersion(p)',
           ~Holds(r, p)' => RowsAgree(manifest[p], p)',
           RowsPhase(job[r][p], p)'
    PROVE  RunningPath(p)'
  <1>1. \A s \in Runs \ {r} : RowsPhase(job[s][p], p)'
    BY DEF RowsPhase, Holds, Holding, Writing
  <1>2. \A s \in Runs : RowsPhase(job[s][p], p)'
    BY <1>1
  <1>3. OneHolder(p)'
    BY DEF OneHolder
  <1>4. ~Busy(p)' => RowsAgree(manifest[p], p)'
    BY DEF Busy
  <1> QED BY <1>2, <1>3, <1>4 DEF RunningPath

LEMMA RowsStep ==
    ASSUME TypeOK, HashInv, PastInv, NEW r \in Runs, NEW p \in Paths,
           RunningPath(p), JobStep(r, p), ~overlap'[p]
    PROVE  RunningPath(p)'
  <1>1. /\ OneVersion(p)
        /\ RowsPhase(job[r][p], p)
        /\ (~Busy(p) => RowsAgree(manifest[p], p))
        /\ Holds(r, p) => \A s \in Runs \ {r} : ~Holds(s, p)
    BY DEF RunningPath, OneHolder
  <1>2. /\ \A s \in Runs \ {r} : Holds(s, p)' <=> Holds(s, p)
        /\ file' = file
    BY JobStepAt DEF Holds
  <1>3. ASSUME Holds(r, p), OneVersion(p)', ~Holds(r, p)' => RowsAgree(manifest[p], p)',
               RowsPhase(job[r][p], p)'
        PROVE  RunningPath(p)'
    BY <1>1, <1>2, <1>3, RowsSolo
  <1>4. job[r][p].pc # "added" => \A v \in Entry : IsVersion(v, p)' => IsVersion(v, p)
    BY JobVersions DEF Commit
  <1>5. \A v : VouchesFor(v, p)' <=> VouchesFor(v, p)
    BY <1>2 DEF VouchesFor
  <1>6. job[r][p].pc # "added" /\ manifest' = manifest => OneVersion(p)'
    BY <1>1, <1>4, <1>5 DEF OneVersion
  <1>7. /\ job[r][p].pc # "added" /\ manifest' = manifest
        /\ job'[r][p].hash = job[r][p].hash /\ job'[r][p].mtime = job[r][p].mtime
        /\ OnlyNew(p, job[r][p])
        => OnlyNew(p, job[r][p])'
    BY <1>4, <1>5 DEF OnlyNew
  <1>8. lance' = lance /\ manifest' = manifest /\ RowsAgree(manifest[p], p)
        => RowsAgree(manifest[p], p)'
    BY <1>2 DEF RowsAgree, VouchesFor
  <1>t. /\ lance[p] \in [Rows -> Nat]
        /\ job[r][p].hash \in Contents \/ job[r][p].pc \notin Loaded
        /\ file[p].mtime \in Nat
        /\ \A v \in Entry : v.mtime \in Nat /\ (IsVersion(v, p) => v.mtime <= file[p].mtime)
        /\ manifest[p] = Nil \/ (manifest[p] \in Entry /\ IsVersion(manifest[p], p))
    BY BoundsAssumption, ManifestEntry DEF TypeOK, HashInv, PastInv, Entry
  <1>9. OnlyNew(p, job[r][p]) => ~VouchesFor(manifest[p], p)
    BY <1>t DEF OnlyNew, VouchesFor
  <1>10. CASE Read(r, p)
    <2>1. CASE file[p].there
      <3>1. JobIs(r, p, Job("read", file[p].hash, 0)) /\ MarkOverlap(r, p)
        BY <1>10, <2>1 DEF Read
      <3>2. job'[r][p].pc = "read" /\ job'[r][p].hash = file[p].hash
        BY <3>1, JobIsAt DEF Job
      <3>3. \A s \in Runs \ {r} : ~Holds(s, p)
        BY <3>1 DEF MarkOverlap, TypeOK
      <3>4. ~Busy(p)
        BY <1>10, <3>3 DEF Read, Busy, Holds, Holding
      <3>5. RowsAgree(manifest[p], p)' /\ OneVersion(p)'
        BY <1>1, <1>6, <1>8, <1>10, <3>4 DEF Read
      <3>6. RowsPhase(job[r][p], p)'
        BY <1>2, <3>2, <3>5 DEF RowsPhase, Writing
      <3> QED BY <1>2, <3>3, <3>5, <3>6, RowsSolo
    <2>2. CASE ~file[p].there
      <3>1. job'[r][p].pc = "done"
        BY <1>10, <2>2, JobIsAt DEF Read, JobDone, Job
      <3> QED
        BY <1>4, <1>10, <2>2, <3>1, JobStepAt, RowsFrame DEF Read, Holding
    <2> QED BY <2>1, <2>2
  <1>11. CASE Check(r, p)
    <2>0. /\ Holds(r, p) /\ RowsAgree(manifest[p], p)
          /\ job[r][p].hash = file[p].hash \/ AllPast(p)
          /\ job[r][p].pc = "read" /\ UNCHANGED <<lance, manifest>>
      BY <1>1, <1>11 DEF Check, Holds, Holding, RowsPhase
    <2>1. RowsAgree(manifest[p], p)' /\ OneVersion(p)'
      BY <1>6, <1>8, <2>0
    <2>2. CASE file[p].there /\ NeedsReindex(p, job[r][p].hash, file[p].mtime)
      <3>1. /\ job'[r][p].pc = "deleting"
            /\ job'[r][p].hash = job[r][p].hash /\ job'[r][p].mtime = file[p].mtime
        BY <1>11, <2>2, JobIsAt DEF Check, Job
      <3>2. ASSUME NEW v \in Entry, IsVersion(v, p), VouchesFor(v, p)
            PROVE  manifest[p] = Nil /\ v.hash = job[r][p].hash /\ v.mtime = file[p].mtime
        <4>1. ~AllPast(p) /\ v.hash = file[p].hash /\ v.mtime = file[p].mtime
          BY <1>t, <3>2 DEF AllPast, VouchesFor
        <4>2. manifest[p] = Nil \/ manifest[p] = v
          BY <1>1, <3>2 DEF OneVersion
        <4> QED BY <2>0, <2>2, <4>1, <4>2 DEF NeedsReindex
      <3>3. OnlyNew(p, job[r][p])'
        BY <1>4, <1>5, <2>0, <3>1, <3>2 DEF OnlyNew
      <3>4. RowsPhase(job[r][p], p)'
        BY <3>1, <3>3 DEF RowsPhase
      <3> QED BY <1>3, <2>0, <2>1, <3>4
    <2>3. CASE ~(file[p].there /\ NeedsReindex(p, job[r][p].hash, file[p].mtime))
      <3>1. job'[r][p].pc = "done"
        BY <1>11, <2>3, JobIsAt DEF Check, JobDone, Job
      <3>2. RowsPhase(job[r][p], p)'
        BY <3>1 DEF RowsPhase, Writing
      <3> QED BY <1>3, <2>0, <2>1, <3>2
    <2> QED BY <2>2, <2>3
  <1>12. CASE LanceDelete(r, p)
    <2>0. /\ Holds(r, p) /\ OnlyNew(p, job[r][p])
          /\ job[r][p].pc = "deleting" /\ manifest' = manifest
      BY <1>1, <1>12 DEF LanceDelete, Holds, Holding, RowsPhase, Writing
    <2>1. /\ job'[r][p].pc = "deleted"
          /\ job'[r][p].hash = job[r][p].hash /\ job'[r][p].mtime = job[r][p].mtime
      BY <1>12, JobIsAt DEF LanceDelete, JobTo, Job
    <2>2. lance'[p] = NoRows /\ OneVersion(p)' /\ OnlyNew(p, job[r][p])'
      BY <1>6, <1>7, <1>12, <2>0, <2>1 DEF LanceDelete, TypeOK
    <2> QED BY <1>3, <2>0, <2>1, <2>2 DEF RowsPhase, Holds, Holding
  <1>13. CASE BmRemove(r, p)
    <2>0. /\ Holds(r, p) /\ OnlyNew(p, job[r][p]) /\ lance[p] = NoRows
          /\ job[r][p].pc = "deleted" /\ UNCHANGED <<lance, manifest>>
      BY <1>1, <1>13 DEF BmRemove, Holds, Holding, RowsPhase, Writing
    <2>1. OneVersion(p)' /\ RowsAgree(manifest[p], p)'
      BY <1>6, <1>8, <1>9, <2>0 DEF RowsAgree
    <2>2. CASE JobDone(r, p)
      <3>1. job'[r][p].pc = "done"
        BY <2>2, JobIsAt DEF JobDone, Job
      <3> QED BY <1>3, <2>0, <2>1, <3>1 DEF RowsPhase, Writing
    <2>3. CASE JobTo(r, p, "embedding")
      <3>1. /\ job'[r][p].pc = "embedding"
            /\ job'[r][p].hash = job[r][p].hash /\ job'[r][p].mtime = job[r][p].mtime
        BY <2>3, JobIsAt DEF JobTo, Job
      <3>2. OnlyNew(p, job[r][p])'
        BY <1>7, <2>0, <3>1
      <3> QED BY <1>3, <2>0, <2>1, <3>1, <3>2 DEF RowsPhase
    <2> QED BY <1>13, <2>2, <2>3 DEF BmRemove
  <1>14. CASE UpsertDelete(r, p)
    <2>0. /\ Holds(r, p) /\ OnlyNew(p, job[r][p]) /\ lance[p] = NoRows
          /\ job[r][p].hash \in Contents
          /\ job[r][p].pc = "embedding" /\ manifest' = manifest
      BY <1>1, <1>14, <1>t DEF UpsertDelete, Holds, Holding, RowsPhase, Writing, Loaded
    <2>1. /\ job'[r][p].pc = "adding"
          /\ job'[r][p].hash = job[r][p].hash /\ job'[r][p].mtime = job[r][p].mtime
      BY <1>14, JobIsAt DEF UpsertDelete, JobTo, Job
    <2>2. lance'[p] = NoRows /\ OneVersion(p)' /\ OnlyNew(p, job[r][p])'
      BY <1>6, <1>7, <1>14, <2>0, <2>1, AddToEmpty DEF UpsertDelete, TypeOK
    <2> QED BY <1>3, <2>0, <2>1, <2>2 DEF RowsPhase, Holds, Holding
  <1>15. CASE UpsertAdd(r, p)
    <2>0. /\ Holds(r, p) /\ OnlyNew(p, job[r][p]) /\ lance[p] = NoRows
          /\ job[r][p].hash \in Contents
          /\ job[r][p].pc = "adding" /\ manifest' = manifest
      BY <1>1, <1>15, <1>t DEF UpsertAdd, Holds, Holding, RowsPhase, Writing, Loaded
    <2>1. /\ job'[r][p].pc = "added"
          /\ job'[r][p].hash = job[r][p].hash /\ job'[r][p].mtime = job[r][p].mtime
      BY <1>15, JobIsAt DEF UpsertAdd, JobTo, Job
    <2>2. lance'[p] = RowsOf(job[r][p].hash) /\ OneVersion(p)' /\ OnlyNew(p, job[r][p])'
      BY <1>6, <1>7, <1>15, <2>0, <2>1, AddToEmpty DEF UpsertAdd, TypeOK
    <2> QED BY <1>3, <2>0, <2>1, <2>2 DEF RowsPhase, Holds, Holding
  <1>16. CASE Commit(r, p)
    <2>0. /\ Holds(r, p) /\ OnlyNew(p, job[r][p]) /\ lance[p] = RowsOf(job[r][p].hash)
          /\ job[r][p].hash \in Contents /\ job[r][p].mtime \in 0..MaxEdits
      BY <1>1, <1>16, <1>t DEF Commit, Holds, Holding, RowsPhase, Writing, Loaded, TypeOK, JobRecords
    <2> DEFINE e == [hash |-> job[r][p].hash, mtime |-> job[r][p].mtime]
    <2>1. job'[r][p].pc = "done"
      BY <1>16, JobIsAt DEF Commit, JobDone, Job
    <2>2. lance' = lance /\ manifest'[p] = e
      BY <1>16 DEF Commit, TypeOK, Manifests
    <2>3. e \in Entry /\ e.hash = job[r][p].hash /\ e.mtime = job[r][p].mtime
      BY <2>0 DEF Entry
    <2>4. ASSUME NEW v \in Entry, IsVersion(v, p)', VouchesFor(v, p)' PROVE v = e
      <3>1. VouchesFor(v, p)
        BY <1>5, <2>4
      <3>2. v = e \/ IsVersion(v, p)
        BY <2>4, JobVersions
      <3>3. CASE IsVersion(v, p)
        <4>1. v.hash = e.hash /\ v.mtime = e.mtime
          BY <2>0, <2>3, <3>1, <3>3 DEF OnlyNew
        <4> QED BY <2>3, <4>1 DEF Entry
      <3> QED BY <3>2, <3>3
    <2>5. OneVersion(p)'
      BY <2>2, <2>4 DEF OneVersion
    <2>6. RowsAgree(manifest[p], p)'
      BY <1>2, <2>0, <2>2, <2>3 DEF RowsAgree, VouchesFor
    <2> QED BY <1>3, <2>0, <2>1, <2>5, <2>6 DEF RowsPhase, Writing
  <1>17. CASE Fail(r, p)
    <2>0. Holds(r, p) /\ job[r][p].pc # "added" /\ UNCHANGED <<lance, manifest>>
      BY <1>17 DEF Fail, Holds, Holding
    <2>1. RowsAgree(manifest[p], p)
      BY <1>1, <1>9, <1>17 DEF Fail, RowsPhase, RowsAgree, Writing
    <2>2. job'[r][p].pc = "done"
      BY <1>17, JobIsAt DEF Fail, JobDone, Job
    <2> QED BY <1>3, <1>6, <1>8, <2>0, <2>1, <2>2 DEF RowsPhase, Writing
  <1>18. CASE StatEntry(r, p)
    <2>1. job'[r][p].pc \in {"idle", "doomed"}
      BY <1>18, JobIsAt DEF StatEntry, JobTo, Job
    <2> QED BY <1>4, <1>18, <2>1, JobStepAt, RowsFrame DEF StatEntry, Holding
  <1>19. CASE Doom(r, p)
    <2>1. CASE run[r].kind = "compact" /\ manifest[p] = Nil
      <3>1. job'[r][p].pc = "done"
        BY <1>19, <2>1, JobIsAt DEF Doom, JobDone, Job
      <3> QED BY <1>4, <1>19, <2>1, <3>1, JobStepAt, RowsFrame DEF Doom, Holding
    <2>2. CASE ~(run[r].kind = "compact" /\ manifest[p] = Nil)
      <3>1. job'[r][p].pc = "dropping"
        BY <1>19, <2>2, JobIsAt DEF Doom, JobTo, Job
      <3>2. \A s \in Runs \ {r} : ~Holds(s, p)
        BY <1>19, <2>2 DEF Doom, MarkOverlap, TypeOK
      <3>3. ~Busy(p)
        BY <1>19, <3>2 DEF Doom, Busy, Holds, Holding
      <3>4. RowsAgree(manifest[p], p)' /\ OneVersion(p)'
        BY <1>1, <1>6, <1>8, <1>19, <3>3 DEF Doom
      <3>5. RowsPhase(job[r][p], p)'
        BY <3>1, <3>4 DEF RowsPhase, Writing
      <3> QED BY <1>2, <3>2, <3>4, <3>5, RowsSolo
    <2> QED BY <2>1, <2>2
  <1>20. CASE LanceDrop(r, p)
    <2>0. Holds(r, p) /\ job[r][p].pc = "dropping" /\ manifest' = manifest
      BY <1>20 DEF LanceDrop, Holds, Holding
    <2>1. job'[r][p].pc = "dropped"
      BY <1>20, JobIsAt DEF LanceDrop, JobTo, Job
    <2>2. Holds(r, p)' /\ OneVersion(p)'
      BY <1>6, <2>0, <2>1 DEF Holds, Holding
    <2> QED BY <1>3, <2>0, <2>1, <2>2 DEF RowsPhase, Writing
  <1>21. CASE Drop(r, p)
    <2>0. Holds(r, p) /\ job[r][p].pc = "dropped"
      BY <1>21 DEF Drop, Holds, Holding
    <2>1. job'[r][p].pc = "done" /\ manifest'[p] = Nil
      BY <1>21, JobIsAt DEF Drop, JobDone, Job, TypeOK, Manifests
    <2>2. OneVersion(p)' /\ RowsAgree(manifest[p], p)'
      BY <2>1 DEF OneVersion, RowsAgree, VouchesFor
    <2> QED BY <1>3, <2>0, <2>1, <2>2 DEF RowsPhase, Writing
  <1> QED BY <1>10, <1>11, <1>12, <1>13, <1>14, <1>15, <1>16, <1>17, <1>18, <1>19, <1>20, <1>21
          DEF JobStep

-----------------------------------------------------------------------------
(* Every step of a process that may die, at every path *)

\* An edit leaves no version that vouches for the file.
LEMMA EditedRows ==
    ASSUME NEW p \in Paths, RunningPath(p),
           UNCHANGED <<lance, manifest, diskM, run, job>>,
           \A v \in Entry : IsVersion(v, p) => ~VouchesFor(v, p)',
           ~VouchesFor(manifest[p], p)',
           AllPast(p)' \/ (file'[p].hash = file[p].hash /\ (AllPast(p) => AllPast(p)'))
    PROVE  RunningPath(p)'
  <1>1. \A v \in Entry : IsVersion(v, p)' => IsVersion(v, p)
    BY DEF IsVersion
  <1>2. OneVersion(p)' /\ RowsAgree(manifest[p], p)' /\ OneHolder(p)'
    BY <1>1 DEF OneVersion, RowsAgree, RunningPath, OneHolder, Holds
  <1>3. ASSUME NEW s \in Runs PROVE RowsPhase(job[s][p], p)'
    <2>1. RowsPhase(job[s][p], p)
      BY DEF RunningPath
    <2>2. OnlyNew(p, job[s][p])'
      BY <1>1 DEF OnlyNew
    <2> QED BY <1>2, <2>1, <2>2 DEF RowsPhase
  <1> QED BY <1>2, <1>3 DEF RunningPath

LEMMA UserKeepsPath ==
    ASSUME TypeOK, MtimeInv, PastInv, UserStep, NEW p \in Paths, DurablePath(p)
    PROVE  DurablePath(p)'
  <1>0. UNCHANGED <<lance, manifest, diskM, run, job, up, overlap>>
    BY DEF UserStep, WriteFile, RemoveFile
  <1>t. /\ file[p].mtime \in Nat
        /\ \A v \in Entry : v.mtime \in Nat /\ (IsVersion(v, p) => v.mtime <= file[p].mtime)
        /\ manifest[p] = Nil \/ (manifest[p] \in Entry /\ IsVersion(manifest[p], p))
        /\ diskM # Torn => diskM[p] = Nil \/ (diskM[p] \in Entry /\ IsVersion(diskM[p], p))
    BY BoundsAssumption, ManifestEntry DEF TypeOK, PastInv, Entry, Manifests, IsVersion
  <1>1. CASE file'[p] = file[p]
    <2>1. RunningPath(p) => RunningPath(p)'
      BY <1>0, <1>1, RowsFrame DEF IsVersion
    <2>2. DownPath(p) => DownPath(p)'
      BY <1>0, <1>1 DEF DownPath, RowsAgree, VouchesFor
    <2> QED BY <1>0, <2>1, <2>2 DEF DurablePath
  <1>2. CASE ~file'[p].there \/ file'[p].mtime = file[p].mtime + 1
    <2>1. \A v \in Entry : IsVersion(v, p) => ~VouchesFor(v, p)'
      BY <1>t, <1>2 DEF VouchesFor
    <2>2. ~VouchesFor(manifest[p], p)' /\ (diskM # Torn => ~VouchesFor(diskM[p], p)')
      BY <1>0, <1>t, <1>2 DEF VouchesFor
    <2>3. \A v \in Entry : IsVersion(v, p)' => IsVersion(v, p)
      BY <1>0 DEF IsVersion
    <2>4. AllPast(p)' \/ (file'[p].hash = file[p].hash /\ (AllPast(p) => AllPast(p)'))
      <3>1. CASE file'[p].mtime = file[p].mtime + 1
        BY <1>t, <2>3, <3>1 DEF AllPast
      <3>2. CASE file'[p].mtime = file[p].mtime /\ file'[p].hash = file[p].hash
        BY <2>3, <3>2 DEF AllPast
      <3> QED BY <3>1, <3>2 DEF UserStep, WriteFile, RemoveFile, TypeOK
    <2>5. RunningPath(p) => RunningPath(p)'
      BY <1>0, <2>1, <2>2, <2>4, EditedRows
    <2>6. DownPath(p)'
      BY <1>0, <2>2 DEF DownPath, RowsAgree
    <2> QED BY <1>0, <2>5, <2>6 DEF DurablePath
  <1> QED BY <1>1, <1>2 DEF UserStep, WriteFile, RemoveFile, TypeOK

\* The steps of a run but those of a job: the same for every operation that starts.
LEMMA StartKeepsPath ==
    ASSUME TypeOK, RunInv, NEW p \in Paths, RunningPath(p),
           NEW r \in Runs, NEW k,
           NEW f \in [Paths -> {"queued", "idle", "stat", "doomed"}],
           Idle(r), StartWith(r, k, f),
           UNCHANGED <<file, lance, manifest, diskM>>
    PROVE  RunningPath(p)'
  <1>1. job[r][p].pc \notin Holding
    BY DEF RunInv, Idle, Holds
  <1>2. job'[r][p].pc \notin Holding
    <2>1. job'[r][p] = Job(f[p], Nil, 0)
      BY StartAt
    <2>2. job'[r][p].pc = f[p]
      BY <2>1 DEF Job
    <2> QED BY <2>2 DEF Holding
  <1>3. \A s \in Runs : s # r => job'[s][p] = job[s][p]
    BY StartAt
  <1>4. \A v \in Entry : IsVersion(v, p)' => IsVersion(v, p)
    BY StartVersions
  <1> QED BY <1>1, <1>2, <1>3, <1>4, RowsFrame

LEMMA SaveKeepsPath ==
    ASSUME TypeOK, NEW p \in Paths, RunningPath(p), NEW r \in Runs, SaveStep(r)
    PROVE  RunningPath(p)'
  <1>1. UNCHANGED <<file, lance, manifest>>
    BY DEF SaveStep, FinishEmpty, OpenManifest, WriteManifest, OpenBm, WriteBm
  <1>2. \A s \in Runs : \/ job'[s][p] = job[s][p]
                        \/ job'[s][p].pc \notin Holding /\ job[s][p].pc \notin Holding
    <2>1. CASE OpenManifest(r)
      BY <2>1 DEF OpenManifest, AllDone, TypeOK, IdleJob, Job, Holding
    <2>2. CASE job' = job
      BY <2>2
    <2> QED BY <2>1, <2>2 DEF SaveStep, FinishEmpty, WriteManifest, OpenBm, WriteBm
  <1>3. \A v \in Entry : IsVersion(v, p)' => IsVersion(v, p)
    BY SaveVersions
  <1> QED BY <1>1, <1>2, <1>3, RowsFrame

LEMMA FireKeepsPath ==
    ASSUME TypeOK, RunInv, NEW p \in Paths, RunningPath(p),
           NEW r \in Runs, NEW q \in Paths, Fire(r, q), ~overlap'[p]
    PROVE  RunningPath(p)'
  <1>1. CASE FireChange(r, q)
    BY <1>1, StartKeepsPath DEF FireChange
  <1>2. CASE FireUnlink(r, q) /\ manifest[q] = Nil
    BY <1>2, RowsFrame DEF FireUnlink, IsVersion
  <1>3. CASE FireUnlink(r, q) /\ manifest[q] # Nil
    <2>0. /\ UNCHANGED <<file, lance, manifest, diskM>> /\ MarkOverlap(r, q) /\ Idle(r)
          /\ StartWith(r, "unlink", [x \in Paths |-> IF x = q THEN "dropping" ELSE "idle"])
      BY <1>3 DEF FireUnlink
    <2>1. job[r][p].pc \notin Holding
      BY <2>0 DEF RunInv, Idle, Holds
    <2>2. \A s \in Runs : s # r => job'[s][p] = job[s][p]
      BY <2>0, StartAt
    <2>3. job'[r][p] = Job(IF p = q THEN "dropping" ELSE "idle", Nil, 0)
      BY <2>0, StartAt
    <2>4. job'[r][p].pc = IF p = q THEN "dropping" ELSE "idle"
      BY <2>3 DEF Job
    <2>5. \A v \in Entry : IsVersion(v, p)' => IsVersion(v, p)
      BY <2>0, StartVersions
    <2>6. CASE p # q
      BY <2>0, <2>1, <2>2, <2>4, <2>5, <2>6, RowsFrame DEF Holding
    <2>7. CASE p = q
      <3>1. \A s \in Runs \ {r} : ~Holds(s, p)
        BY <2>0, <2>7 DEF MarkOverlap, TypeOK
      <3>2. RowsAgree(manifest[p], p) /\ OneVersion(p)
        BY <2>1, <3>1 DEF RunningPath, Busy, Holds
      <3>3. RowsAgree(manifest[p], p)' /\ OneVersion(p)'
        BY <2>0, <2>5, <3>2 DEF RowsAgree, OneVersion, VouchesFor
      <3>4. RowsPhase(job[r][p], p)'
        BY <2>4, <2>7, <3>3 DEF RowsPhase, Writing
      <3>5. \A s \in Runs \ {r} : ~Holds(s, p)'
        BY <2>2, <3>1 DEF Holds
      <3> QED BY <3>3, <3>4, <3>5, RowsSolo
    <2> QED BY <2>6, <2>7
  <1> QED BY <1>1, <1>2, <1>3 DEF Fire

\* A mark stays: no step of a running process takes it back.
LEMMA MarksStay ==
    ASSUME TypeOK, Next, NEW p \in Paths, overlap[p]
    PROVE  overlap'[p]
  <1>1. \A r \in Runs, q \in Paths : MarkOverlap(r, q) => overlap'[p]
    BY DEF MarkOverlap, TypeOK
  <1>2. CASE overlap' = overlap
    BY <1>2
  <1>3. CASE UserStep
    BY <1>2, <1>3 DEF UserStep, WriteFile, RemoveFile
  <1>4. ASSUME NEW r \in Runs, Start(r) \/ SaveStep(r) PROVE overlap'[p]
    BY <1>2, <1>4 DEF Start, StartIngest, StartCompact, StartForget, SaveStep,
       FinishEmpty, OpenManifest, WriteManifest, OpenBm, WriteBm
  <1>5. ASSUME NEW r \in Runs, NEW q \in Paths, Fire(r, q) PROVE overlap'[p]
    BY <1>1, <1>2, <1>5 DEF Fire, FireChange, FireUnlink
  <1>6. ASSUME NEW r \in Runs, NEW q \in Paths, JobStep(r, q) PROVE overlap'[p]
    BY <1>1, <1>2, <1>6 DEF JobStep, Read, Check, LanceDelete, BmRemove, UpsertDelete,
       UpsertAdd, Commit, Fail, StatEntry, Doom, LanceDrop, Drop
  <1> QED BY <1>3, <1>4, <1>5, <1>6 DEF Next

LEMMA DurableStep ==
    TypeInv /\ RunInv /\ MtimeInv /\ PastInv /\ AllDurable /\ [Next]_vars => AllDurable'
  <1> SUFFICES ASSUME TypeInv, RunInv, MtimeInv, PastInv, AllDurable, [Next]_vars,
                      NEW p \in Paths
               PROVE  DurablePath(p)'
    BY DEF AllDurable
  <1> TypeOK /\ HashInv /\ DurablePath(p)
    BY DEF TypeInv, AllDurable
  <1>1. CASE UserStep
    BY <1>1, UserKeepsPath
  <1>2. ASSUME Next, ~overlap'[p], NEW r \in Runs,
               Start(r) \/ SaveStep(r) \/ \E q \in Paths : JobStep(r, q) \/ Fire(r, q)
        PROVE  RunningPath(p)'
    <2>0. RunningPath(p)
      BY <1>2, MarksStay, OnlyARunningProcess DEF DurablePath
    <2>1. CASE Start(r)
      BY <2>0, <2>1, StartKeepsPath DEF Start, StartIngest, StartCompact, StartForget
    <2>2. CASE SaveStep(r)
      BY <2>0, <2>2, SaveKeepsPath
    <2>3. ASSUME NEW q \in Paths, JobStep(r, q) PROVE RunningPath(p)'
      <3>1. CASE p = q
        BY <1>2, <2>0, <2>3, <3>1, RowsStep
      <3>2. CASE p # q
        <4>1. \A v \in Entry : IsVersion(v, p)' => IsVersion(v, p)
          BY <2>3, <3>2, JobVersions
        <4> QED BY <2>0, <2>3, <3>2, <4>1, JobStepAt, RowsFrame
      <3> QED BY <3>1, <3>2
    <2>4. ASSUME NEW q \in Paths, Fire(r, q) PROVE RunningPath(p)'
      BY <1>2, <2>0, <2>4, FireKeepsPath
    <2> QED BY <1>2, <2>1, <2>2, <2>3, <2>4
  <1>3. ASSUME Next, NEW r \in Runs,
               Start(r) \/ SaveStep(r) \/ \E q \in Paths : JobStep(r, q) \/ Fire(r, q)
        PROVE  DurablePath(p)'
    BY <1>2, <1>3, OnlyARunningProcess DEF DurablePath
  <1>4. CASE UNCHANGED vars
    <2>1. RunningPath(p) => RunningPath(p)'
      BY <1>4, RowsFrame DEF vars, IsVersion
    <2>2. DownPath(p) => DownPath(p)'
      BY <1>4 DEF vars, DownPath, RowsAgree, VouchesFor
    <2> QED BY <1>4, <2>1, <2>2 DEF vars, DurablePath
  <1> QED BY <1>1, <1>3, <1>4 DEF Next

LEMMA CrashStep == DurableInv /\ Crash => DurableInv'
  <1> SUFFICES ASSUME DurableInv, Crash PROVE DurableInv'
    OBVIOUS
  <1>0. TypeOK /\ SnapInv /\ RunInv /\ MtimeInv /\ PastInv /\ AllDurable
    BY DEF DurableInv, TypeInv
  <1>1. /\ \A r \in Runs : run'[r] = IdleRun
        /\ \A r \in Runs, p \in Paths : job'[r][p] = IdleJob
        /\ \A p \in Paths : manifest'[p] = Nil
        /\ \A p \in Paths : overlap'[p] = (overlap[p] \/ DropUndone(p))
        /\ UNCHANGED <<file, lance, diskM, diskB>> /\ up /\ ~up'
    BY DEF Crash
  <1>2. IdleRun.pc = "idle" /\ IdleJob.pc = "idle" /\ IdleJob.mtime = 0
    BY DEF IdleRun, IdleJob, Run, Job
  <1>3. TypeOK'
    <2>1. /\ [r \in Runs |-> IdleRun] \in [Runs -> RunRecords]
          /\ [r \in Runs |-> [p \in Paths |-> IdleJob]] \in [Runs -> [Paths -> JobRecords]]
          /\ [p \in Paths |-> Nil] \in Manifests
          /\ [p \in Paths |-> NoCopy] \in Indexes
      BY RunType, IdleType, StoreTypes DEF Manifests, Indexes
    <2>2. overlap' \in [Paths -> BOOLEAN]
      BY <1>0 DEF Crash, TypeOK, DropUndone
    <2> QED BY <1>0, <2>1, <2>2 DEF Crash, TypeOK
  <1>4. SnapInv' /\ HashInv' /\ RunInv' /\ DownInv'
    BY <1>1, <1>2 DEF SnapInv, HashInv, RunInv, DownInv, Loaded, Holds, Holding
  <1>5. MtimeInv' /\ PastInv'
    <2>1. \A p \in Paths : file'[p].mtime \in Nat
      BY <1>3, BoundsAssumption DEF TypeOK
    <2>2. MtimeInv'
      BY <1>1, <1>2, <2>1 DEF MtimeInv
    <2>3. \A p \in Paths, v \in Entry : IsVersion(v, p)' => IsVersion(v, p)
      BY <1>1, <1>2, EntryIsNotNil DEF IsVersion
    <2> QED BY <1>0, <1>1, <2>2, <2>3 DEF PastInv
  <1>6. ASSUME NEW p \in Paths, ~overlap'[p], diskM # Torn, VouchesFor(diskM[p], p)
        PROVE  lance[p] = RowsOf(file[p].hash)
    <2>1. ~overlap[p] /\ ~DropUndone(p) /\ RunningPath(p)
      BY <1>0, <1>1, <1>6 DEF AllDurable, DurablePath
    <2>2. diskM[p] \in Entry /\ IsVersion(diskM[p], p) /\ diskM[p] # Nil
      BY <1>0, <1>6 DEF TypeOK, Manifests, IsVersion, VouchesFor
    <2>3. manifest[p] = diskM[p] /\ \A r \in Runs : job[r][p].pc # "dropped"
      BY <1>6, <2>1, <2>2 DEF RunningPath, OneVersion, DropUndone
    <2>4. RowsAgree(manifest[p], p)
      <3>1. CASE ~Busy(p)
        BY <2>1, <3>1 DEF RunningPath
      <3>2. ASSUME NEW r \in Runs, Holds(r, p) PROVE RowsAgree(manifest[p], p)
        <4>1. RowsPhase(job[r][p], p)
          BY <2>1 DEF RunningPath
        <4>2. ~OnlyNew(p, job[r][p])
          BY <1>6, <2>2, <2>3 DEF OnlyNew
        <4>3. job[r][p].pc \in {"read", "dropping"}
          BY <2>3, <3>2, <4>1, <4>2 DEF Holds, Holding, RowsPhase, Writing
        <4> QED BY <4>1, <4>3 DEF RowsPhase
      <3> QED BY <3>1, <3>2 DEF Busy
    <2> QED BY <1>6, <2>3, <2>4 DEF RowsAgree
  <1>7. AllDurable'
    BY <1>1, <1>6 DEF AllDurable, DurablePath, DownPath, RowsAgree, VouchesFor
  <1> QED BY <1>3, <1>4, <1>5, <1>7 DEF DurableInv, TypeInv

LEMMA BootStep == DurableInv /\ Boot => DurableInv'
  <1> SUFFICES ASSUME DurableInv, Boot PROVE DurableInv'
    OBVIOUS
  <1>0. TypeOK /\ SnapInv /\ HashInv /\ RunInv /\ MtimeInv /\ PastInv /\ DownInv /\ AllDurable
    BY DEF DurableInv, TypeInv
  <1>1. /\ UNCHANGED <<file, lance, diskM, diskB, run, job, timer, crashed, overlap>>
        /\ ~up /\ up' /\ manifest' = diskM /\ bm' = diskB /\ diskM # Torn /\ diskB # Torn
    BY DEF Boot
  <1>2. \A r \in Runs : run[r].pc = "idle" /\ \A p \in Paths : job[r][p].pc = "idle"
    BY <1>0, <1>1 DEF DownInv, IdleRun, IdleJob, Run, Job
  <1>3. TypeOK' /\ SnapInv' /\ HashInv' /\ RunInv' /\ DownInv'
    BY <1>0, <1>1 DEF TypeOK, SnapInv, HashInv, RunInv, DownInv, Holds
  <1>4. \A p \in Paths, v \in Entry :
          IsVersion(v, p)' => IsVersion(v, p) /\ v = manifest'[p]
    BY <1>1, <1>2 DEF IsVersion
  <1>5. PastInv'
    BY <1>0, <1>1, <1>4 DEF PastInv
  <1>6. MtimeInv'
    <2> \A p \in Paths : manifest'[p] # Nil => manifest'[p] \in Entry /\ IsVersion(manifest'[p], p)
      BY <1>0, <1>1 DEF TypeOK, Manifests, IsVersion
    <2> QED BY <1>0, <1>1 DEF MtimeInv, PastInv
  <1>7. ASSUME NEW p \in Paths PROVE DurablePath(p)'
    <2>1. ~overlap[p] => RowsAgree(manifest[p], p)'
      BY <1>0, <1>1 DEF AllDurable, DurablePath, DownPath, RowsAgree, VouchesFor
    <2>2. OneVersion(p)'
      BY <1>4 DEF OneVersion
    <2>3. OneHolder(p)' /\ \A r \in Runs : RowsPhase(job[r][p], p)'
      BY <1>1, <1>2 DEF OneHolder, Holds, Holding, RowsPhase, Writing
    <2> QED BY <1>1, <2>1, <2>2, <2>3 DEF DurablePath, RunningPath
  <1> QED BY <1>3, <1>5, <1>6, <1>7 DEF DurableInv, TypeInv, AllDurable

LEMMA DurableInit == Init => DurableInv
  <1> SUFFICES ASSUME Init PROVE DurableInv
    OBVIOUS
  <1>0. TypeInv /\ RunInv /\ MtimeInv
    BY TypeInvInit, PathsInit
  <1>1. /\ \A p \in Paths : manifest[p] = Nil /\ diskM[p] = Nil /\ file[p].mtime = 0
        /\ \A r \in Runs : run[r].pc = "idle" /\ \A p \in Paths : job[r][p].pc = "idle"
        /\ up
    BY DEF Init, IdleRun, IdleJob, Run, Job
  <1>2. \A p \in Paths, v \in Entry : ~IsVersion(v, p)
    BY <1>1, EntryIsNotNil DEF IsVersion
  <1>3. ASSUME NEW p \in Paths PROVE RunningPath(p)
    BY <1>1, <1>2 DEF RunningPath, OneHolder, OneVersion, RowsAgree, VouchesFor, RowsPhase,
                      Holds, Holding, Writing
  <1> QED BY <1>0, <1>1, <1>2, <1>3 DEF DurableInv, PastInv, DownInv, AllDurable, DurablePath

\* The process may die at any await and be restarted: every file that ingest would
\* then skip has exactly its rows in LanceDB, unless two operations worked on it at
\* once or the process died between a drop of its rows and the manifest's save.
THEOREM RestartsSkipSoundly == CrashSpec => []SkipIsSoundInLance
  <1>1. DurableInv /\ [CrashNext]_vars => DurableInv'
    <2> SUFFICES ASSUME DurableInv, [CrashNext]_vars PROVE DurableInv'
      OBVIOUS
    <2>1. CASE [Next]_vars
      BY <2>1, TypeStep, HashStep, RunStep, MtimeStep, PastStep, DownStep, DurableStep
         DEF DurableInv, TypeInv
    <2> QED BY <2>1, CrashStep, BootStep DEF CrashNext
  <1>2. DurableInv => SkipIsSoundInLance
    <2> SUFFICES ASSUME DurableInv, NEW p \in Paths, up, Quiet(p), Skipped(p)
                 PROVE  lance[p] = RowsOf(file[p].hash)
      BY DEF SkipIsSoundInLance
    <2>1. RowsAgree(manifest[p], p)
      BY DEF DurableInv, AllDurable, DurablePath, RunningPath, Quiet
    <2>2. VouchesFor(manifest[p], p)
      BY DEF Skipped, NeedsReindex, VouchesFor
    <2> QED BY <2>1, <2>2 DEF RowsAgree
  <1> QED BY <1>1, <1>2, DurableInit, PTL DEF CrashSpec
=============================================================================
