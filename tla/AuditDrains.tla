----------------------------- MODULE AuditDrains ----------------------------
(***************************************************************************)
(* The SIEM drains: runOnce pushes audit events past each drain's cursor   *)
(* to a remote receiver, and the owner's routes create, change and delete  *)
(* drains.                                                                 *)
(*                                                                         *)
(* All of them read the whole drains.json, change their copy and write the *)
(* whole copy back (a temporary file, then a rename).  runOnce holds its   *)
(* copy over every POST of the pass.  The timer starts a pass whether or   *)
(* not the last one has ended, and the flush route starts one more: a Tick *)
(* is one such pass and an Admin one call of an owner's route.             *)
(*                                                                         *)
(* An event is its (ts, id) key, a number; Ts gives its ts.                *)
(***************************************************************************)
EXTENDS Naturals, FiniteSets, Sequences

CONSTANTS
    Drains,      \* drain ids
    Ticks,       \* passes of runOnce alive at once
    Admins,      \* owner calls alive at once
    MaxEvents,   \* bound: audit events
    Ts,          \* the ts of each event; keys are ordered by (ts, id)
    DeadAfter,   \* consecutive failures that dead-letter a batch (6)
    MaxBatch,    \* maxBatch
    MaxDead,     \* maxDeadLetters
    MaxSecrets,  \* bound: secrets a drain ever gets
    MaxCrashes,  \* bound: deaths of the process
    Ops,         \* the owner's routes in use
    Absent

Events == 1..MaxEvents

ASSUME DrainBoundsAssumption ==
    /\ MaxEvents \in Nat /\ MaxSecrets \in Nat \ {0} /\ MaxCrashes \in Nat
    /\ DeadAfter \in Nat \ {0} /\ MaxBatch \in Nat \ {0} /\ MaxDead \in Nat \ {0}
    /\ Ops \subseteq {"create", "enable", "disable", "rotate", "delete"}
ASSUME TsAssumption ==
    /\ Ts \in [Events -> Nat]
    /\ \A e, f \in Events : e < f => Ts[e] <= Ts[f]

Drain(on, secret, cursor, fails) ==
    [on |-> on, secret |-> secret, cursor |-> cursor, fails |-> fails]
Storage(drains, dead) == [drains |-> drains, dead |-> dead]
Letter(d, batch) == [drain |-> d, batch |-> batch]

DrainState == [on : BOOLEAN, secret : 0..MaxSecrets, cursor : 0..MaxEvents,
               fails : 0..(DeadAfter - 1)]
DeadLetters == [drain : Drains, batch : SUBSET Events]

ASSUME AbsentAssumption ==
    Absent \notin [drains : [Drains -> DrainState], dead : Seq(DeadLetters)]

VARIABLES
    log,        \* the audit log, as iterate yields it
    disk,       \* drains.json
    tmp,        \* drains.json.tmp, or Absent
    proc,       \* control state of each pass and of each owner call
    unused,     \* drain ids not yet given out
    received,   \* history: how often each receiver took each event in
    abandoned,  \* history: events of dead-lettered batches
    overflow,   \* history: the dead-letter list has been cut
    meddled,  \* history: what has interfered so far
    crashes     \* deaths so far

history == <<received, abandoned, overflow>>
drainVars == <<log, disk, tmp, proc, unused, history, meddled, crashes>>

-----------------------------------------------------------------------------
(* Storage *)

NoDrain == Drain(FALSE, 0, 0, 0)
NoDrains == Storage([d \in Drains |-> NoDrain], <<>>)
Known(s, d) == s.drains[d].secret # 0
Config(s, d) == [on |-> s.drains[d].on, secret |-> s.drains[d].secret]
WithDrain(s, d, r) == Storage([s.drains EXCEPT ![d] = r], s.dead)

Created(s, d) == WithDrain(s, d, Drain(TRUE, 1, 0, 0))
Enabled(s, d) == WithDrain(s, d, [s.drains[d] EXCEPT !.on = TRUE, !.fails = 0])
Disabled(s, d) == WithDrain(s, d, [s.drains[d] EXCEPT !.on = FALSE])
Rekeyed(s, d) == WithDrain(s, d, [s.drains[d] EXCEPT !.secret = @ + 1])

\* The letters of the other drains, in their order: the k-th of them is the one
\* with k of them up to it.
Others(dead, d) == {i \in DOMAIN dead : dead[i].drain # d}
UpTo(places, i) == {j \in places : j <= i}
LettersBut(dead, d) ==
    [k \in 1..Cardinality(Others(dead, d)) |->
        dead[CHOOSE i \in Others(dead, d) : Cardinality(UpTo(Others(dead, d), i)) = k]]
Deleted(s, d) == Storage([s.drains EXCEPT ![d] = NoDrain], LettersBut(s.dead, d))

\* A batch is a set of places in the log: those whose events are past the
\* cursor, the first MaxBatch of them.
Pending(s, d) == {i \in DOMAIN log : log[i] > s.drains[d].cursor}
Batch(s, d) == {i \in Pending(s, d) : Cardinality(UpTo(Pending(s, d), i)) <= MaxBatch}
EventsIn(batch) == {log[i] : i \in batch}
LastPlace(batch) == CHOOSE i \in batch : \A j \in batch : j <= i
CursorAfter(batch) == log[LastPlace(batch)]
Logged == EventsIn(DOMAIN log)

\* 2xx: the cursor moves past the batch.
\* (mutant) leaves the cursor where it is
DeliveredInPlace(s, d, batch) ==
    WithDrain(s, d, [s.drains[d] EXCEPT !.fails = 0])
Delivered(s, d, batch) ==
    WithDrain(s, d, [s.drains[d] EXCEPT !.cursor = CursorAfter(batch), !.fails = 0])

\* Anything else counts as a failure; the last one allowed gives the batch up.
FailedAgain(s, d) == WithDrain(s, d, [s.drains[d] EXCEPT !.fails = @ + 1])
WithLetter(s, d, batch, most) ==
    LET dead == <<Letter(d, EventsIn(batch))>> \o s.dead
    IN  Storage([s.drains EXCEPT ![d] = [@ EXCEPT !.cursor = CursorAfter(batch), !.fails = 0]],
                SubSeq(dead, 1, IF Len(dead) > most THEN most ELSE Len(dead)))

\* (mutant) moves the cursor at the first failure
FailedPast(s, d, batch) ==
    IF s.drains[d].fails + 1 < DeadAfter
    THEN WithDrain(s, d, [s.drains[d] EXCEPT !.cursor = CursorAfter(batch), !.fails = @ + 1])
    ELSE WithLetter(s, d, batch, MaxDead)
\* (mutant) retries one batch for ever
FailedForever(s, d, batch) ==
    IF s.drains[d].fails + 1 < DeadAfter THEN FailedAgain(s, d) ELSE s
\* (mutant) switches a drain off when it gives a batch up
FailedOff(s, d, batch) ==
    IF s.drains[d].fails + 1 < DeadAfter THEN FailedAgain(s, d)
    ELSE LET t == WithLetter(s, d, batch, MaxDead)
         IN  WithDrain(t, d, [t.drains[d] EXCEPT !.on = FALSE])
Failed(s, d, batch) ==
    IF s.drains[d].fails + 1 < DeadAfter THEN FailedAgain(s, d)
    ELSE WithLetter(s, d, batch, MaxDead)
GivesUp(s, d) == s.drains[d].fails + 1 >= DeadAfter

-----------------------------------------------------------------------------
(* Processes *)

Procs == Ticks \cup Admins

Proc(pc, copy, todo, drain, batch) ==
    [pc |-> pc, copy |-> copy, todo |-> todo, drain |-> drain, batch |-> batch]
IdleProc == Proc("idle", Absent, {}, Absent, {})

Stands(p, pc)     == proc[p].pc = pc
Turns(p, s) == proc' = [proc EXCEPT ![p] = s]
Copy(p)       == proc[p].copy

\* A pass or call that starts while another is at work overlaps with it.
Starts == meddled' = IF \A p \in Procs : Stands(p, "idle") THEN meddled
                       ELSE meddled \cup {"overlap"}

DrainInit ==
    /\ log = <<>>
    /\ disk = NoDrains
    /\ tmp = Absent
    /\ proc = [p \in Procs |-> IdleProc]
    /\ unused = Drains
    /\ received = [d \in Drains |-> [e \in Events |-> 0]]
    /\ abandoned = [d \in Drains |-> {}]
    /\ overflow = FALSE
    /\ meddled = {}
    /\ crashes = 0

\* AuditLog.write; ts is the clock's, the id a random UUID.
Emit(e) ==
    /\ e \notin Logged
    /\ \A f \in Logged : Ts[f] <= Ts[e]
    /\ log' = Append(log, e)
    /\ UNCHANGED <<disk, tmp, proc, unused, history, meddled, crashes>>

-----------------------------------------------------------------------------
(* The worker *)

\* setInterval, or the flush route.
StartTick(t) ==
    /\ Stands(t, "idle")
    /\ Turns(t, Proc("scan", disk, {d \in Drains : Known(disk, d)}, Absent, {}))
    /\ Starts
    /\ UNCHANGED <<log, disk, tmp, unused, history, crashes>>

\* Disabled, inside its backoff window, or nothing to send.
SkipDrain(t) ==
    /\ Stands(t, "scan")
    /\ \E d \in proc[t].todo :
          /\ \/ ~Copy(t).drains[d].on
             \/ Copy(t).drains[d].fails > 0
             \/ Batch(Copy(t), d) = {}
          /\ Turns(t, Proc("scan", Copy(t), proc[t].todo \ {d}, Absent, {}))
    /\ UNCHANGED <<log, disk, tmp, unused, history, meddled, crashes>>

PostBatch(t) ==
    /\ Stands(t, "scan")
    /\ \E d \in proc[t].todo :
          /\ Copy(t).drains[d].on
          /\ Batch(Copy(t), d) # {}
          /\ Turns(t, Proc("post", Copy(t), proc[t].todo \ {d}, d, Batch(Copy(t), d)))
    /\ UNCHANGED <<log, disk, tmp, unused, history, meddled, crashes>>

\* The receiver takes the batch in.
Take(d, batch) ==
    received' = [received EXCEPT ![d] = [e \in Events |->
                    IF e \in EventsIn(batch) /\ @[e] < 2 THEN @[e] + 1 ELSE @[e]]]

Accepted(t) ==
    /\ Stands(t, "post")
    /\ LET d == proc[t].drain
           batch == proc[t].batch IN
       /\ Take(d, batch)
       /\ Turns(t, Proc("scan", Delivered(Copy(t), d, batch), proc[t].todo, Absent, {}))
    /\ UNCHANGED <<log, disk, tmp, unused, abandoned, overflow, meddled, crashes>>

\* An error status, a refused connection, or a timeout after which the receiver
\* may have the batch all the same.
Refused(t) ==
    /\ Stands(t, "post")
    /\ LET d == proc[t].drain
           batch == proc[t].batch IN
       /\ \/ UNCHANGED <<received, meddled>>
          \/ Take(d, batch) /\ meddled' = meddled \cup {"unanswered"}
       /\ abandoned' = IF GivesUp(Copy(t), d)
                       THEN [abandoned EXCEPT ![d] = @ \cup EventsIn(batch)]
                       ELSE abandoned
       /\ overflow' = IF GivesUp(Copy(t), d) /\ Len(Copy(t).dead) >= MaxDead
                      THEN TRUE ELSE overflow
       /\ Turns(t, Proc("scan", Failed(Copy(t), d, batch), proc[t].todo, Absent, {}))
    /\ UNCHANGED <<log, disk, tmp, unused, crashes>>

-----------------------------------------------------------------------------
(* writeAtomic, and the owner's routes *)

Ready(p) == Stands(p, "write") \/ (Stands(p, "scan") /\ proc[p].todo = {})
WriteTmp(p) ==
    /\ Ready(p)
    /\ tmp' = Copy(p)
    /\ Turns(p, Proc("rename", Absent, {}, proc[p].drain, {}))
    /\ UNCHANGED <<log, disk, unused, history, meddled, crashes>>

\* The temporary file has one name: a rename may publish the copy of another
\* writer, whose own rename then fails.
Rename(p) ==
    /\ Stands(p, "rename")
    /\ tmp # Absent
    /\ disk' = tmp
    /\ tmp' = Absent
    /\ Turns(p, IdleProc)
    /\ UNCHANGED <<log, unused, history, meddled, crashes>>

RenameFails(p) ==
    /\ Stands(p, "rename")
    /\ tmp = Absent
    /\ Turns(p, IdleProc)
    /\ UNCHANGED <<log, disk, tmp, unused, history, meddled, crashes>>

Change(a, d, copy) ==
    /\ Stands(a, "idle")
    /\ Turns(a, Proc("write", copy, {}, d, {}))
    /\ Starts
    /\ UNCHANGED <<log, disk, tmp, history, crashes>>

CreateDrain(a, d) ==
    /\ "create" \in Ops
    /\ d \in unused
    /\ unused' = unused \ {d}
    /\ Change(a, d, Created(disk, d))

\* updateDrain, rotateSecret and deleteDrain answer not_found for an unknown id.
ChangeDrain(a, d) ==
    /\ Known(disk, d)
    /\ UNCHANGED unused
    /\ \/ "enable" \in Ops /\ Change(a, d, Enabled(disk, d))
       \/ "disable" \in Ops /\ Change(a, d, Disabled(disk, d))
       \/ /\ "rotate" \in Ops
          /\ disk.drains[d].secret < MaxSecrets
          /\ Change(a, d, Rekeyed(disk, d))
       \/ "delete" \in Ops /\ Change(a, d, Deleted(disk, d))

\* The process dies and another one opens the same files.
ServerDies ==
    /\ crashes < MaxCrashes
    /\ crashes' = crashes + 1
    /\ proc' = [p \in Procs |-> IdleProc]
    /\ meddled' = meddled \cup {"crash"}
    /\ UNCHANGED <<log, disk, tmp, unused, history>>

Tick(t) == \/ StartTick(t) \/ SkipDrain(t) \/ PostBatch(t) \/ Accepted(t)
           \/ Refused(t) \/ WriteTmp(t) \/ Rename(t) \/ RenameFails(t)
Owner(a) == \/ \E d \in Drains : CreateDrain(a, d) \/ ChangeDrain(a, d)
            \/ WriteTmp(a) \/ Rename(a) \/ RenameFails(a)

DrainNext == \/ \E e \in Events : Emit(e)
        \/ \E t \in Ticks : Tick(t)
        \/ \E a \in Admins : Owner(a)
        \/ ServerDies

DrainSpec == DrainInit /\ [][DrainNext]_drainVars

\* The timer keeps firing, every await of a pass ends, and a backoff window of
\* at most an hour is over at some tick.
DrainFairSpec == /\ DrainSpec
            /\ \A t \in Ticks : WF_drainVars(Tick(t)) /\ SF_drainVars(PostBatch(t))

-----------------------------------------------------------------------------
(* Properties *)

IsStorage(s) ==
    /\ s.drains \in [Drains -> DrainState]
    /\ s.dead \in Seq(DeadLetters)
    /\ Len(s.dead) <= MaxDead
Copies == ({disk, tmp} \cup {Copy(p) : p \in Procs}) \ {Absent}

\* Every variable stays in its type, and every copy of drains.json within its
\* limits: failures below the dead-letter threshold, a bounded dead-letter list.
DrainTypeOK ==
    /\ \A s \in Copies : IsStorage(s)
    /\ log \in Seq(Events)
    /\ \A p \in Procs :
          /\ proc[p].pc \in {"idle", "scan", "post", "write", "rename"}
          /\ proc[p].todo \subseteq Drains
          /\ proc[p].batch \subseteq DOMAIN log
    /\ unused \subseteq Drains
    /\ received \in [Drains -> [Events -> 0..2]]
    /\ abandoned \in [Drains -> SUBSET Events]
    /\ overflow \in BOOLEAN
    /\ meddled \subseteq {"overlap", "crash", "unanswered"}
    /\ crashes \in 0..MaxCrashes

\* features.md: "an operator sees a stuck receiver instead of silently dropping
\* audit traffic".  Whatever passes overlap, whatever the owner changes and
\* wherever the process dies, an event behind a drain's cursor was taken in by
\* its receiver or stands in the dead-letter list stored with that cursor,
\* unless the list was full.
SkippedIsAccountedFor ==
    \A s \in Copies : \A d \in Drains : \A e \in Logged :
        Known(s, d) /\ e <= s.drains[d].cursor =>
            \/ received[d][e] > 0
            \/ \E i \in DOMAIN s.dead : s.dead[i].drain = d /\ e \in s.dead[i].batch
            \/ overflow /\ e \in abandoned[d]

\* The cursor keeps a pass from sending again what the last one delivered: with
\* one pass at a time, no crash and no lost answer, a receiver gets no event
\* twice.
DeliveredAtMostOnce ==
    meddled = {} => \A d \in Drains, e \in Events : received[d][e] <= 1

\* features.md: "a restart resumes exactly where it left off".  A drain that
\* stays on gets, or gives up, every event in the end, crashes or not, as long
\* as no pass or owner's call starts while another is at work.
Steady(d) == /\ Known(disk, d)
              /\ disk.drains[d].on
              /\ \A a \in Admins : Stands(a, "idle")
DrainsCatchUp ==
    \A d \in Drains, e \in Events :
        <>[]Steady(d) /\ []("overlap" \notin meddled) =>
            [](e \in Logged => <>(received[d][e] > 0 \/ e \in abandoned[d]))

\* What the owner configured (a rotated secret, a drain disabled or deleted) is
\* what the workers use until the owner changes it, unless a pass was at work
\* when the owner's call started (test "rotateSecret invalidates the previous
\* signature").
OwnerChangesStick ==
    [][\A d \in Drains : Config(disk', d) # Config(disk, d) =>
          \/ \E a \in Admins : Rename(a) /\ proc[a].drain = d
          \/ "overlap" \in meddled]_drainVars
=============================================================================
