---------------------------- MODULE IngestIndex ----------------------------
(***************************************************************************)
(* The corpus index of ClawMind and the operations that write it.          *)
(*                                                                         *)
(* Three stores describe one corpus: the LanceDB table (durable at every   *)
(* call), the BM25 index (in memory, written to one JSON file) and the     *)
(* ingest manifest (in memory, written to another JSON file).  ingestPaths,*)
(* the watcher's timers, compactStore and forgetSources all update them    *)
(* step by step with an await between the steps, and nothing serialises    *)
(* two of those operations: each activation is a "run" here, and the runs  *)
(* interleave at every await.                                              *)
(*                                                                         *)
(* One action is one segment between two awaits, or the effect of one      *)
(* awaited call.  A file is its content (what shortHash tells apart) and   *)
(* its mtime.  A document id is shortHash(path), so a path stands for its  *)
(* document.                                                               *)
(***************************************************************************)
EXTENDS Naturals, FiniteSets

CONSTANTS
    Paths,        \* source files under the root
    Contents,     \* what a file may contain, up to its hash
    Chunks,       \* number of chunks semanticChunk cuts a content into
    MaxChunks,    \* bound: no content has more chunks
    Runs,         \* bound: activations of the operations alive at once
    Kinds,        \* the operations this process runs
    Concurrency,  \* PQueue concurrency of one ingestPaths
    MayFail,      \* whether a loader, the embedder or LanceDB may throw
    MaxEdits,     \* bound: edits of one file
    Nil,          \* no manifest entry
    Torn          \* a JSON file that writeFile has truncated and not filled

Entry == [hash : Contents, mtime : 0..MaxEdits]

ASSUME ChunksAssumption ==
    /\ MaxChunks \in Nat
    /\ Chunks \in [Contents -> 0..MaxChunks]
ASSUME BoundsAssumption ==
    /\ Concurrency \in Nat \ {0}
    /\ MaxEdits \in Nat
    /\ MayFail \in BOOLEAN
    /\ Kinds \subseteq {"ingest", "watch", "compact", "forget"}
ASSUME NilAssumption == Nil \notin Entry \cup Contents

VARIABLES
    file,      \* the source files on disk
    lance,     \* LanceDB rows of each document, counted
    bm,        \* copies of each document's chunk list in the BM25 index
    manifest,  \* IngestManifest.map
    diskM,     \* the manifest file
    diskB,     \* the BM25 file
    run,       \* control state of each activation
    job,       \* control state of each activation's work on each path
    timer,     \* the watcher's pending timers
    up,        \* whether the process runs
    crashed,   \* history: it has died before
    overlap    \* history: two runs worked on this path at the same time, or the
               \* process died between a drop of it and the manifest file's save

vars == <<file, lance, bm, manifest, diskM, diskB, run, job, timer, up, crashed, overlap>>

-----------------------------------------------------------------------------
(* Stores *)

Rows == Contents \X (0..(MaxChunks - 1))

NoRows    == [row \in Rows |-> 0]
RowsOf(c) == [row \in Rows |-> IF row[1] = c /\ row[2] < Chunks[c] THEN 1 ELSE 0]

NoCopy    == [c \in Contents |-> 0]
CopyOf(c) == [d \in Contents |-> IF d = c THEN 1 ELSE 0]

\* (mutant) compares the hash only
NeedsReindexByHash(p, h, m) ==
    manifest[p] = Nil \/ (manifest[p] # Nil /\ manifest[p].hash # h)
\* (mutant) compares the mtime only
NeedsReindexByMtime(p, h, m) ==
    manifest[p] = Nil \/ (manifest[p] # Nil /\ manifest[p].mtime # m)
NeedsReindex(p, h, m) ==
    \/ manifest[p] = Nil
    \/ manifest[p] # Nil /\ (manifest[p].hash # h \/ manifest[p].mtime # m)

\* table.delete("id IN ...") then table.add: the ids are document:ord, so rows
\* of other contents with the same ord go and rows with a higher ord stay.
WithoutIds(rows, c) ==
    [row \in Rows |-> IF row[2] < Chunks[c] THEN 0 ELSE rows[row]]
WithRows(rows, c) ==
    [row \in Rows |-> rows[row] + RowsOf(c)[row]]

\* bm25.removeByDocumentId, of every copy of the document.
\* (mutant) leaves them
WithDocument(copies) == copies
WithoutDocument(copies) == NoCopy

-----------------------------------------------------------------------------
(* Runs *)

Job(pc, hash, mtime) == [pc |-> pc, hash |-> hash, mtime |-> mtime]
IdleJob == Job("idle", Nil, 0)
Run(pc, kind, snapM, snapB) == [pc |-> pc, kind |-> kind, snapM |-> snapM, snapB |-> snapB]
IdleRun == Run("idle", "none", Nil, Nil)

\* Between its load and its last store call a run acts on what it read earlier.
Holding == {"read", "deleting", "deleted", "embedding", "adding", "added",
            "dropping", "dropped"}
Holds(r, p) == job[r][p].pc \in Holding
Busy(p)     == \E r \in Runs : Holds(r, p)

JobIs(r, p, j)  == job' = [job EXCEPT ![r][p] = j]
JobTo(r, p, pc) == JobIs(r, p, Job(pc, job[r][p].hash, job[r][p].mtime))
JobDone(r, p)   == JobIs(r, p, Job("done", Nil, 0))
MarkOverlap(r, p) ==
    overlap' = [overlap EXCEPT
                  ![p] = IF \E s \in Runs \ {r} : Holds(s, p) THEN TRUE ELSE @]

\* p-queue runs at most Concurrency jobs of one ingestPaths.
\* (mutant) counts the job that asks among those that run
HasSlotBesideItself(r) == Cardinality({q \in Paths : Holds(r, q)}) + 1 < Concurrency
HasSlot(r) == Cardinality({q \in Paths : Holds(r, q)}) < Concurrency

Idle(r)     == up /\ run[r].pc = "idle"
Working(r, k) == up /\ run[r].pc = "working" /\ run[r].kind = k

StartWith(r, kind, pcOf) ==
    /\ run' = [run EXCEPT ![r] = Run("working", kind, Nil, Nil)]
    /\ job' = [job EXCEPT ![r] = [p \in Paths |-> Job(pcOf[p], Nil, 0)]]

Init ==
    /\ file \in [Paths -> [there : BOOLEAN, hash : Contents, mtime : {0}]]
    /\ lance = [p \in Paths |-> NoRows]
    /\ bm = [p \in Paths |-> NoCopy]
    /\ manifest = [p \in Paths |-> Nil]
    /\ diskM = manifest
    /\ diskB = bm
    /\ run = [r \in Runs |-> IdleRun]
    /\ job = [r \in Runs |-> [p \in Paths |-> IdleJob]]
    /\ timer = [p \in Paths |-> "off"]
    /\ up = TRUE
    /\ crashed = FALSE
    /\ overlap = [p \in Paths |-> FALSE]

-----------------------------------------------------------------------------
(* The user's files, and chokidar's events while the process watches them.  *)
(* Every write gives the file an mtime it never had.                        *)

\* (mutant) keeps the first pending timer of a path instead of the last
ScheduleOnce(p, kind) ==
    IF up /\ "watch" \in Kinds /\ timer[p] = "off"
    THEN timer' = [timer EXCEPT ![p] = kind]
    ELSE UNCHANGED timer
Schedule(p, kind) ==
    IF up /\ "watch" \in Kinds
    THEN timer' = [timer EXCEPT ![p] = kind]   \* replaces the pending timer
    ELSE UNCHANGED timer

WriteFile(p) ==
    /\ file[p].mtime < MaxEdits
    /\ \E c \in Contents :
         file' = [file EXCEPT ![p] = [there |-> TRUE, hash |-> c, mtime |-> file[p].mtime + 1]]
    /\ Schedule(p, "change")
    /\ UNCHANGED <<lance, bm, manifest, diskM, diskB, run, job, up, crashed, overlap>>

RemoveFile(p) ==
    /\ file[p].there
    /\ file' = [file EXCEPT ![p] =
                   [there |-> FALSE, hash |-> file[p].hash, mtime |-> file[p].mtime]]
    /\ Schedule(p, "unlink")
    /\ UNCHANGED <<lance, bm, manifest, diskM, diskB, run, job, up, crashed, overlap>>

-----------------------------------------------------------------------------
(* ingestRoot and ingestPaths *)

StartIngest(r) ==
    /\ Idle(r) /\ "ingest" \in Kinds
    /\ \E S \in SUBSET {p \in Paths : file[p].there} :
         StartWith(r, "ingest", [p \in Paths |-> IF p \in S THEN "queued" ELSE "idle"])
    /\ UNCHANGED <<file, lance, bm, manifest, diskM, diskB, timer, up, crashed, overlap>>

\* The loader's readFile; a file that is gone by now throws and is skipped.
Read(r, p) ==
    /\ Working(r, "ingest") /\ job[r][p].pc = "queued"
    /\ HasSlot(r)
    /\ IF file[p].there
       THEN /\ JobIs(r, p, Job("read", file[p].hash, 0))
            /\ MarkOverlap(r, p)
       ELSE JobDone(r, p) /\ UNCHANGED overlap
    /\ UNCHANGED <<file, lance, bm, manifest, diskM, diskB, run, timer, up, crashed>>

\* The loader's stat, and needsReindex on the hash of the earlier read.
Check(r, p) ==
    /\ Working(r, "ingest") /\ job[r][p].pc = "read"
    /\ IF file[p].there /\ NeedsReindex(p, job[r][p].hash, file[p].mtime)
       THEN JobIs(r, p, Job("deleting", job[r][p].hash, file[p].mtime))
       ELSE JobDone(r, p)
    /\ UNCHANGED <<file, lance, bm, manifest, diskM, diskB, run, timer, up, crashed, overlap>>

LanceDelete(r, p) ==
    /\ Working(r, "ingest") /\ job[r][p].pc = "deleting"
    /\ lance' = [lance EXCEPT ![p] = NoRows]
    /\ JobTo(r, p, "deleted")
    /\ UNCHANGED <<file, bm, manifest, diskM, diskB, run, timer, up, crashed, overlap>>

\* bm25.removeByDocumentId and semanticChunk; no chunks is the early return.
BmRemove(r, p) ==
    /\ Working(r, "ingest") /\ job[r][p].pc = "deleted"
    /\ bm' = [bm EXCEPT ![p] = WithoutDocument(@)]
    /\ IF Chunks[job[r][p].hash] = 0 THEN JobDone(r, p) ELSE JobTo(r, p, "embedding")
    /\ UNCHANGED <<file, lance, manifest, diskM, diskB, run, timer, up, crashed, overlap>>

\* embedAll has answered and the first call of upsert has taken effect.
UpsertDelete(r, p) ==
    /\ Working(r, "ingest") /\ job[r][p].pc = "embedding"
    /\ lance' = [lance EXCEPT ![p] = WithoutIds(@, job[r][p].hash)]
    /\ JobTo(r, p, "adding")
    /\ UNCHANGED <<file, bm, manifest, diskM, diskB, run, timer, up, crashed, overlap>>

UpsertAdd(r, p) ==
    /\ Working(r, "ingest") /\ job[r][p].pc = "adding"
    /\ lance' = [lance EXCEPT ![p] = WithRows(@, job[r][p].hash)]
    /\ JobTo(r, p, "added")
    /\ UNCHANGED <<file, bm, manifest, diskM, diskB, run, timer, up, crashed, overlap>>

\* bm25.add and manifest.set.
Commit(r, p) ==
    /\ Working(r, "ingest") /\ job[r][p].pc = "added"
    /\ bm' = [bm EXCEPT ![p][job[r][p].hash] = @ + 1]
    /\ manifest' = [manifest EXCEPT
                      ![p] = [hash |-> job[r][p].hash, mtime |-> job[r][p].mtime]]
    /\ JobDone(r, p)
    /\ UNCHANGED <<file, lance, diskM, diskB, run, timer, up, crashed, overlap>>

\* An awaited call rejects: the catch block counts the file as skipped.
Fail(r, p) ==
    /\ MayFail
    /\ Working(r, "ingest")
    /\ job[r][p].pc \in {"read", "deleting", "embedding", "adding"}
    /\ JobDone(r, p)
    /\ UNCHANGED <<file, lance, bm, manifest, diskM, diskB, run, timer, up, crashed, overlap>>

-----------------------------------------------------------------------------
(* A timer of the watcher fires.  The callback forgets the timer before it  *)
(* awaits anything, so a later event of the same path starts another run.   *)

FireChange(r, p) ==
    /\ Idle(r) /\ timer[p] = "change"
    /\ timer' = [timer EXCEPT ![p] = "off"]
    /\ StartWith(r, "ingest", [q \in Paths |-> IF q = p THEN "queued" ELSE "idle"])
    /\ UNCHANGED <<file, lance, bm, manifest, diskM, diskB, up, crashed, overlap>>

FireUnlink(r, p) ==
    /\ Idle(r) /\ timer[p] = "unlink"
    /\ timer' = [timer EXCEPT ![p] = "off"]
    /\ IF manifest[p] = Nil
       THEN UNCHANGED <<run, job>>
       ELSE StartWith(r, "unlink", [q \in Paths |-> IF q = p THEN "dropping" ELSE "idle"])
    /\ MarkOverlap(r, p)
    /\ UNCHANGED <<file, lance, bm, manifest, diskM, diskB, up, crashed>>

-----------------------------------------------------------------------------
(* compactStore stats every entry first and then drops the missing ones one *)
(* by one; forgetSources and the unlink timer drop what they chose at once. *)

\* defaultStat: null on ENOENT.
Missing(p) == ~file[p].there

Indexed == {p \in Paths : manifest[p] # Nil}

StartCompact(r) ==
    /\ Idle(r) /\ "compact" \in Kinds
    /\ StartWith(r, "compact", [p \in Paths |-> IF p \in Indexed THEN "stat" ELSE "idle"])
    /\ UNCHANGED <<file, lance, bm, manifest, diskM, diskB, timer, up, crashed, overlap>>

StatEntry(r, p) ==
    /\ Working(r, "compact") /\ job[r][p].pc = "stat"
    /\ JobTo(r, p, IF Missing(p) THEN "doomed" ELSE "idle")
    /\ UNCHANGED <<file, lance, bm, manifest, diskM, diskB, run, timer, up, crashed, overlap>>

StartForget(r) ==
    /\ Idle(r) /\ "forget" \in Kinds
    /\ \E S \in SUBSET Indexed :
         StartWith(r, "forget", [p \in Paths |-> IF p \in S THEN "doomed" ELSE "idle"])
    /\ UNCHANGED <<file, lance, bm, manifest, diskM, diskB, timer, up, crashed, overlap>>

\* Only compactStore looks the entry up again before it drops it.
Doom(r, p) ==
    /\ up /\ run[r].pc = "working" /\ job[r][p].pc = "doomed"
    /\ \A q \in Paths : job[r][q].pc \notin {"stat", "dropping", "dropped"}
    /\ IF run[r].kind = "compact" /\ manifest[p] = Nil
       THEN JobDone(r, p) /\ UNCHANGED overlap
       ELSE JobTo(r, p, "dropping") /\ MarkOverlap(r, p)
    /\ UNCHANGED <<file, lance, bm, manifest, diskM, diskB, run, timer, up, crashed>>

LanceDrop(r, p) ==
    /\ up /\ run[r].pc = "working" /\ job[r][p].pc = "dropping"
    /\ lance' = [lance EXCEPT ![p] = NoRows]
    /\ JobTo(r, p, "dropped")
    /\ UNCHANGED <<file, bm, manifest, diskM, diskB, run, timer, up, crashed, overlap>>

Drop(r, p) ==
    /\ up /\ run[r].pc = "working" /\ job[r][p].pc = "dropped"
    /\ bm' = [bm EXCEPT ![p] = WithoutDocument(@)]
    /\ manifest' = [manifest EXCEPT ![p] = Nil]
    /\ JobDone(r, p)
    /\ UNCHANGED <<file, lance, diskM, diskB, run, timer, up, crashed, overlap>>

-----------------------------------------------------------------------------
(* manifest.save, then bm25.save.  Each serialises the map as it is now,    *)
(* truncates the file and fills it later.                                   *)

AllDone(r) == \A p \in Paths : job[r][p].pc \in {"idle", "done"}
SavesAtEnd(r) == run[r].kind = "ingest" \/ \E p \in Paths : job[r][p].pc = "done"

\* forget and compact skip both saves when they had no target.
FinishEmpty(r) ==
    /\ up /\ run[r].pc = "working" /\ AllDone(r) /\ ~SavesAtEnd(r)
    /\ run' = [run EXCEPT ![r] = IdleRun]
    /\ UNCHANGED <<file, lance, bm, manifest, diskM, diskB, job, timer, up, crashed, overlap>>

OpenManifest(r) ==
    /\ up /\ run[r].pc = "working" /\ AllDone(r) /\ SavesAtEnd(r)
    /\ diskM' = Torn
    /\ run' = [run EXCEPT ![r] = Run("savingM", run[r].kind, manifest, Nil)]
    /\ job' = [job EXCEPT ![r] = [p \in Paths |-> IdleJob]]
    /\ UNCHANGED <<file, lance, bm, manifest, diskB, timer, up, crashed, overlap>>

WriteManifest(r) ==
    /\ up /\ run[r].pc = "savingM"
    /\ diskM' = run[r].snapM
    /\ run' = [run EXCEPT ![r] = Run("savedM", run[r].kind, Nil, Nil)]
    /\ UNCHANGED <<file, lance, bm, manifest, diskB, job, timer, up, crashed, overlap>>

OpenBm(r) ==
    /\ up /\ run[r].pc = "savedM"
    /\ diskB' = Torn
    /\ run' = [run EXCEPT ![r] = Run("savingB", run[r].kind, Nil, bm)]
    /\ UNCHANGED <<file, lance, bm, manifest, diskM, job, timer, up, crashed, overlap>>

WriteBm(r) ==
    /\ up /\ run[r].pc = "savingB"
    /\ diskB' = run[r].snapB
    /\ run' = [run EXCEPT ![r] = IdleRun]
    /\ UNCHANGED <<file, lance, bm, manifest, diskM, job, timer, up, crashed, overlap>>

-----------------------------------------------------------------------------
(* The process dies and starts again: load() and BM25Index.load() read the  *)
(* two files, and throw on one that is not JSON.                            *)

\* The file still has an entry for a document whose rows are dropped already.
DropUndone(p) ==
    /\ diskM # Torn /\ diskM[p] # Nil
    /\ manifest[p] = Nil \/ \E r \in Runs : job[r][p].pc = "dropped"

Crash ==
    /\ up
    /\ up' = FALSE
    /\ crashed' = TRUE
    /\ run' = [r \in Runs |-> IdleRun]
    /\ job' = [r \in Runs |-> [p \in Paths |-> IdleJob]]
    /\ timer' = [p \in Paths |-> "off"]
    /\ manifest' = [p \in Paths |-> Nil]
    /\ bm' = [p \in Paths |-> NoCopy]
    /\ overlap' = [p \in Paths |-> overlap[p] \/ DropUndone(p)]
    /\ UNCHANGED <<file, lance, diskM, diskB>>

Boot ==
    /\ ~up
    /\ diskM # Torn /\ diskB # Torn
    /\ up' = TRUE
    /\ manifest' = diskM
    /\ bm' = diskB
    /\ UNCHANGED <<file, lance, diskM, diskB, run, job, timer, crashed, overlap>>

-----------------------------------------------------------------------------
JobStep(r, p) ==
    \/ Read(r, p) \/ Check(r, p) \/ LanceDelete(r, p) \/ BmRemove(r, p)
    \/ UpsertDelete(r, p) \/ UpsertAdd(r, p) \/ Commit(r, p) \/ Fail(r, p)
    \/ StatEntry(r, p) \/ Doom(r, p) \/ LanceDrop(r, p) \/ Drop(r, p)

SaveStep(r) ==
    \/ FinishEmpty(r) \/ OpenManifest(r) \/ WriteManifest(r) \/ OpenBm(r) \/ WriteBm(r)

Fire(r, p) == FireChange(r, p) \/ FireUnlink(r, p)

Start(r) == StartIngest(r) \/ StartCompact(r) \/ StartForget(r)

UserStep == \E p \in Paths : WriteFile(p) \/ RemoveFile(p)

Next ==
    \/ UserStep
    \/ \E r \in Runs :
         \/ Start(r)
         \/ SaveStep(r)
         \/ \E p \in Paths : JobStep(r, p) \/ Fire(r, p)

Spec == Init /\ [][Next]_vars

\* The same system with a process that may die at any point and be restarted.
CrashNext == Next \/ Crash \/ Boot
CrashSpec == Init /\ [][CrashNext]_vars

\* The event loop runs every continuation that is ready, awaited calls settle,
\* and setTimeout callbacks are called.  Starting an operation is up to a user.  A
\* timer needs no slot in the code, so runs that users keep starting cannot hold it
\* back: strong fairness makes up for the bound on Runs.
Fairness ==
    /\ \A r \in Runs :
      /\ WF_vars(SaveStep(r))
      /\ \A p \in Paths : WF_vars(JobStep(r, p))
    /\ \A p \in Paths : SF_vars(\E r \in Runs : Fire(r, p))
FairSpec == Spec /\ Fairness

-----------------------------------------------------------------------------
(* Correctness *)

JobPcs == Holding \cup {"idle", "queued", "done", "stat", "doomed"}
RunPcs == {"idle", "working", "savingM", "savedM", "savingB"}
Manifests == [Paths -> Entry \cup {Nil}]
Indexes   == [Paths -> [Contents -> Nat]]

RunRecords == [pc : RunPcs, kind : {"none", "ingest", "unlink", "compact", "forget"},
               snapM : Manifests \cup {Nil}, snapB : Indexes \cup {Nil}]
JobRecords == [pc : JobPcs, hash : Contents \cup {Nil}, mtime : 0..MaxEdits]

\* Every variable has its type.
TypeOK ==
    /\ file \in [Paths -> [there : BOOLEAN, hash : Contents, mtime : 0..MaxEdits]]
    /\ lance \in [Paths -> [Rows -> Nat]]
    /\ bm \in Indexes
    /\ manifest \in Manifests
    /\ diskM \in Manifests \cup {Torn}
    /\ diskB \in Indexes \cup {Torn}
    /\ run \in [Runs -> RunRecords]
    /\ job \in [Runs -> [Paths -> JobRecords]]
    /\ timer \in [Paths -> {"off", "change", "unlink"}]
    /\ up \in BOOLEAN /\ crashed \in BOOLEAN
    /\ overlap \in [Paths -> BOOLEAN]

Exact(p, c) == lance[p] = RowsOf(c) /\ bm[p] = CopyOf(c)
Empty(p)    == lance[p] = NoRows /\ bm[p] = NoCopy

\* What ingestPaths skips: the entry has the hash and the mtime of the file.
Skipped(p) ==
    file[p].there /\ manifest[p] # Nil /\ ~NeedsReindex(p, file[p].hash, file[p].mtime)

\* A path nobody is working on, that no two operations ever worked on at once and
\* whose drop no crash undid.
Quiet(p) == ~Busy(p) /\ ~overlap[p]

\* A file that the next ingest would skip as unchanged is in both stores, with
\* exactly the chunks of its present content, whatever edits, failed embeddings,
\* compactions and watcher events came before in the life of the process
\* (needsReindex in ingestPaths).
SkipIsSound == ~crashed => \A p \in Paths : Quiet(p) /\ Skipped(p) => Exact(p, file[p].hash)

\* The vector leg and the keyword leg of the hybrid index hold the same document
\* or neither holds any, and a document without a manifest entry, which compact
\* and forget could never find again, is in neither, until the process dies.
LegsAgree ==
    ~crashed => \A p \in Paths : Quiet(p) =>
      \/ Empty(p)
      \/ manifest[p] # Nil /\ Exact(p, manifest[p].hash)

\* LanceDB alone survives a crash at any point: whatever manifest the restarted
\* process loads, a file it would skip has exactly its rows in the table, unless
\* the crash came between the drop of the rows and the save of the manifest.
SkipIsSoundInLance ==
    \A p \in Paths : up /\ Quiet(p) /\ Skipped(p) => lance[p] = RowsOf(file[p].hash)

\* docs/operations.md:254 for the BM25 index: re-running ingest reconciles it,
\* so a file that ingest skips is in it.
IngestReconcilesBm ==
    \A p \in Paths : up /\ Quiet(p) /\ Skipped(p) => bm[p] = CopyOf(file[p].hash)

\* An operation that started gets to the end of its saves: no await of
\* ingestPaths, compactStore, forgetSources or the timers waits for another run.
RunsFinish == \A r \in Runs : run[r].pc # "idle" ~> run[r].pc = "idle"

\* Once the user leaves a watched file alone the index follows it, unless an
\* event was served while an earlier one of the same file was still being served.
Settled(p) ==
    IF file[p].there
    THEN IF Chunks[file[p].hash] = 0 THEN Empty(p)
                                     ELSE Skipped(p) /\ Exact(p, file[p].hash)
    ELSE manifest[p] = Nil /\ Empty(p)
Edited(p) == file[p].mtime > 0
WatcherCatchesUp == \A p \in Paths : <>[](Edited(p) => Settled(p) \/ overlap[p])
=============================================================================
