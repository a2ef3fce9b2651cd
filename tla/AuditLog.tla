------------------------------ MODULE AuditLog ------------------------------
(***************************************************************************)
(* The append-only audit log of ClawMind: a chain of records spread over   *)
(* one active file and KeepFiles rotated ones.                             *)
(*                                                                         *)
(* AuditLog.write stats the active file, rotates when it is full, reads    *)
(* the chain's tail back when the cached hash is not loaded, builds a      *)
(* record that links to it and appends a line.  Every request of the API   *)
(* process may be in it at once (the audit plugin writes from onResponse)  *)
(* and no lock orders them: a Writer is one such activation.               *)
(*                                                                         *)
(* One action is the effect of one file-system call, or the code that runs *)
(* between two of them.  A record is its id and the hash it links to; the  *)
(* hash of a record stands for its content, so the id is the hash.  Slot 0 *)
(* is audit.log and slot i is audit.log.i; a file that is not there has no *)
(* lines, since appendFile creates it with its first.                      *)
(***************************************************************************)
EXTENDS Naturals, Sequences, FiniteSets

CONSTANTS
    Writers,     \* activations of write() alive at once
    KeepFiles,   \* AuditLogOptions.keepFiles
    RotateAt,    \* AuditLogOptions.maxBytes, in lines; 0 turns rotation off
    MaxRecords,  \* bound: records ever built
    MayTear,     \* whether an append may stop inside its line
    Open,        \* a torn last line: no newline follows it
    Bad          \* a line that does not parse

Slots   == 0..KeepFiles
Genesis == 0
Record  == [id : 0..MaxRecords, prev : 0..MaxRecords]
Line    == Record \cup {Open, Bad}

ASSUME SizesAssumption ==
    /\ KeepFiles \in Nat
    /\ RotateAt \in Nat
    /\ MaxRecords \in Nat
    /\ MayTear \in BOOLEAN
ASSUME WritersAssumption == IsFiniteSet(Writers)
ASSUME LinesAssumption ==
    /\ Open \notin Record
    /\ Bad \notin Record
    /\ Open # Bad

VARIABLES
    files,     \* the lines of each file
    lastHash,  \* AuditLog.lastHash; Genesis stands for null
    loaded,    \* AuditLog.lastHashLoaded
    writer,    \* control state of each activation of write
    nextId,    \* the id the next record gets
    disturbed  \* history: what has interfered with the log so far

vars == <<files, lastHash, loaded, writer, nextId, disturbed>>

-----------------------------------------------------------------------------
(* Files *)

Present == {i \in Slots : files[i] # <<>>}

\* size < maxBytes keeps the file.
Full     == RotateAt # 0 /\ Len(files[0]) >= RotateAt

\* appendFile continues a line that was left open.
Glued(l) == IF l = Open THEN Open ELSE Bad
Extended(lines, l) ==
    IF lines # <<>> /\ lines[Len(lines)] = Open
    THEN [lines EXCEPT ![Len(lines)] = Glued(l)]
    ELSE Append(lines, l)

\* rename fails, and the failure is swallowed, when there is nothing to move.
\* (mutant) copies instead of moving
RenamedByCopy(i, j) ==
    IF files[i] = <<>> THEN files ELSE [files EXCEPT ![j] = files[i]]
Renamed(i, j) ==
    IF files[i] = <<>> THEN files
    ELSE [k \in Slots |-> IF k = j THEN files[i] ELSE IF k = i THEN <<>> ELSE files[k]]

\* readLastHash scans a file from its end and skips what does not parse.
HashesIn(lines) == {a \in DOMAIN lines : lines[a] \in Record}
TailHash(lines) ==
    LET last == CHOOSE a \in HashesIn(lines) : \A b \in HashesIn(lines) : b <= a
    IN  lines[last].id

-----------------------------------------------------------------------------
(* Writers *)

Rec(id, prev) == [id |-> id, prev |-> prev]
NoRec == Rec(0, 0)
Writer(pc, slot, todo, rec) == [pc |-> pc, slot |-> slot, todo |-> todo, rec |-> rec]
Idle == Writer("idle", 0, {}, NoRec)

At(w, pc)    == writer[w].pc = pc
Becomes(w, s) == writer' = [writer EXCEPT ![w] = s]

\* id, ts, prevHash and hash are computed with no await between them.
Build(w, prev) ==
    /\ nextId <= MaxRecords
    /\ Becomes(w, Writer("append", 0, {}, Rec(nextId, prev)))
    /\ nextId' = nextId + 1

Init ==
    /\ files = [i \in Slots |-> <<>>]
    /\ lastHash = Genesis
    /\ loaded = FALSE
    /\ writer = [w \in Writers |-> Idle]
    /\ nextId = 1
    /\ disturbed = {}

\* mkdir changes nothing; maybeRotate stats the active file.
StatSize(w) ==
    /\ At(w, "idle")
    /\ Becomes(w, Writer(IF Full THEN "rotate" ELSE "resume", 0, {}, NoRec))
    /\ disturbed' = IF \A v \in Writers : At(v, "idle") THEN disturbed
                    ELSE disturbed \cup {"race"}
    /\ UNCHANGED <<files, lastHash, loaded, nextId>>

\* rotateNow returns early when the active file is gone.
StatExists(w) ==
    /\ At(w, "rotate")
    /\ Becomes(w, Writer(IF files[0] = <<>> THEN "resume" ELSE "unlink", 0, {}, NoRec))
    /\ UNCHANGED <<files, lastHash, loaded, nextId, disturbed>>

\* (mutant) drops the file before the oldest
UnlinkBelow(w) ==
    /\ At(w, "unlink")
    /\ files' = [files EXCEPT ![KeepFiles - 1] = <<>>]
    /\ Becomes(w, Writer("shift", KeepFiles, {}, NoRec))
    /\ UNCHANGED <<lastHash, loaded, nextId, disturbed>>
\* With keepFiles = 0 the file to drop is the active one, which is slot KeepFiles too.
Unlink(w) ==
    /\ At(w, "unlink")
    /\ files' = [files EXCEPT ![KeepFiles] = <<>>]
    /\ Becomes(w, Writer("shift", KeepFiles, {}, NoRec))
    /\ UNCHANGED <<lastHash, loaded, nextId, disturbed>>

\* The shift loop, from the top down; its last rename is audit.log -> audit.log.1.
Shift(w) ==
    /\ At(w, "shift")
    /\ writer[w].slot > 0
    /\ files' = Renamed(writer[w].slot - 1, writer[w].slot)
    /\ Becomes(w, Writer("shift", writer[w].slot - 1, {}, NoRec))
    /\ UNCHANGED <<lastHash, loaded, nextId, disturbed>>

\* (mutant) keeps the cached hash flagged as unloaded but null, so the next
\* record starts a fresh chain
RotatedFresh(w) ==
    /\ At(w, "shift")
    /\ writer[w].slot = 0
    /\ lastHash' = Genesis
    /\ loaded' = TRUE
    /\ Becomes(w, Writer("resume", 0, {}, NoRec))
    /\ UNCHANGED <<files, nextId, disturbed>>
Rotated(w) ==
    /\ At(w, "shift")
    /\ writer[w].slot = 0
    /\ lastHash' = Genesis
    /\ loaded' = FALSE
    /\ Becomes(w, Writer("list", 0, {}, NoRec))
    /\ UNCHANGED <<files, nextId, disturbed>>

Resume(w) ==
    /\ At(w, "resume")
    /\ \/ loaded /\ Build(w, lastHash)
       \/ ~loaded /\ Becomes(w, Writer("list", 0, {}, NoRec)) /\ UNCHANGED nextId
    /\ UNCHANGED <<files, lastHash, loaded, disturbed>>

\* readLastHash lists the files, then reads them newest first.
List(w) ==
    /\ At(w, "list")
    /\ Becomes(w, Writer("scan", 0, Present, NoRec))
    /\ UNCHANGED <<files, lastHash, loaded, nextId, disturbed>>

Scan(w) ==
    /\ At(w, "scan")
    /\ \E i \in writer[w].todo :
          /\ \A j \in writer[w].todo : i <= j
          /\ Becomes(w, IF HashesIn(files[i]) # {}
                        THEN Writer("loaded", 0, {}, Rec(0, TailHash(files[i])))
                        ELSE Writer("scan", 0, writer[w].todo \ {i}, NoRec))
    /\ UNCHANGED <<files, lastHash, loaded, nextId, disturbed>>

\* No file holds a chained record: null.
ScanEnds(w) ==
    /\ At(w, "scan")
    /\ writer[w].todo = {}
    /\ Becomes(w, Writer("loaded", 0, {}, NoRec))
    /\ UNCHANGED <<files, lastHash, loaded, nextId, disturbed>>

Loaded(w) ==
    /\ At(w, "loaded")
    /\ lastHash' = writer[w].rec.prev
    /\ loaded' = TRUE
    /\ Build(w, writer[w].rec.prev)
    /\ UNCHANGED <<files, disturbed>>

AppendLine(w) ==
    /\ At(w, "append")
    /\ files' = [files EXCEPT ![0] = Extended(files[0], writer[w].rec)]
    /\ Becomes(w, Writer("appended", 0, {}, writer[w].rec))
    /\ UNCHANGED <<lastHash, loaded, nextId, disturbed>>

\* appendFile rejects after part of the line: write() rejects too.
TearLine(w) ==
    /\ MayTear
    /\ At(w, "append")
    /\ files' = [files EXCEPT ![0] = Extended(files[0], Open)]
    /\ Becomes(w, Idle)
    /\ disturbed' = disturbed \cup {"torn"}
    /\ UNCHANGED <<lastHash, loaded, nextId>>

Finish(w) ==
    /\ At(w, "appended")
    /\ lastHash' = writer[w].rec.id
    /\ Becomes(w, Idle)
    /\ UNCHANGED <<files, loaded, nextId, disturbed>>

\* The process dies and another one opens the same files.
\* (mutant) the new one believes that its cache is loaded
RestartLoaded ==
    /\ writer' = [w \in Writers |-> Idle]
    /\ lastHash' = Genesis
    /\ loaded' = TRUE
    /\ disturbed' = disturbed \cup {"restart"}
    /\ UNCHANGED <<files, nextId>>
Restart ==
    /\ writer' = [w \in Writers |-> Idle]
    /\ lastHash' = Genesis
    /\ loaded' = FALSE
    /\ disturbed' = disturbed \cup {"restart"}
    /\ UNCHANGED <<files, nextId>>

Rotation(w)  == StatExists(w) \/ Unlink(w) \/ Shift(w) \/ Rotated(w)
Recovery(w)  == List(w) \/ Scan(w) \/ ScanEnds(w) \/ Loaded(w)
Appending(w) == StatSize(w) \/ Resume(w) \/ AppendLine(w) \/ TearLine(w) \/ Finish(w)

Next == Restart \/ \E w \in Writers : Rotation(w) \/ Recovery(w) \/ Appending(w)

Spec == Init /\ [][Next]_vars

-----------------------------------------------------------------------------
(* Properties *)

WriterState ==
    [pc : {"idle", "rotate", "unlink", "shift", "resume", "list", "scan",
           "loaded", "append", "appended"},
     slot : Slots, todo : SUBSET Slots, rec : Record]

\* Every variable stays in its type: no rotation leaves the slots audit.log ..
\* audit.log.KeepFiles, and however many writes race past the size check, the
\* active file grows past the limit by less than one line per concurrent write
\* (write: "Rotate BEFORE appending so the new entry always lands in a file that
\* is at or below the configured limit").
TypeOK ==
    /\ RotateAt # 0 => Len(files[0]) < RotateAt + Cardinality(Writers)
    /\ files \in [Slots -> Seq(Line)]
    /\ lastHash \in 0..MaxRecords
    /\ loaded \in BOOLEAN
    /\ writer \in [Writers -> WriterState]
    /\ nextId \in 1..(MaxRecords + 1)
    /\ disturbed \subseteq {"race", "torn", "restart"}

\* No interleaving of rotations and appends puts a record in the trail twice:
\* query, iterate and export show each event once.
RecordsAreUnique ==
    \A i, j \in Slots : \A a \in HashesIn(files[i]), b \in HashesIn(files[j]) :
        files[i][a].id = files[j][b].id => i = j /\ a = b

-----------------------------------------------------------------------------
(* What one write at a time guarantees *)

Undisturbed(by) == disturbed \cap by = {}

Linked(lines) ==
    \A a \in 1..(Len(lines) - 1) : lines[a + 1].prev = lines[a].id
\* Slot i is the next older file that is there.
NextOlder(i, j) ==
    /\ j < i
    /\ files[i] # <<>>
    /\ files[j] # <<>>
    /\ \A k \in Slots : j < k /\ k < i => files[k] = <<>>

\* As long as writes have not overlapped and no line was torn, the retained
\* records form one unbroken chain across every rotated file, also in the middle
\* of a rotation and after the process died there: each links to the one before.
ChainIsContiguous ==
    Undisturbed({"race", "torn"}) =>
        /\ \A i \in Slots : Linked(files[i])
        /\ \A i, j \in Slots :
              NextOlder(i, j) => files[j][1].prev = files[i][Len(files[i])].id

\* A rotation deletes records only when all KeepFiles rotated files are there
\* (operations.md: "anything past CLAWMIND_AUDIT_KEEP_FILES is deleted"), unless
\* two rotations raced or one died half way.
DropsOnlyPastKeepFiles ==
    [][\A i \in Slots : \A a \in HashesIn(files[i]) :
          \/ \E j \in Slots : \E b \in HashesIn(files'[j]) : files'[j][b] = files[i][a]
          \/ Present = Slots
          \/ ~Undisturbed({"race", "restart"})]_vars
=============================================================================
