-------------------------- MODULE WorkspaceDeletion -------------------------
(***************************************************************************)
(* The scheduled deletion of the workspace and the gate it closes.         *)
(*                                                                         *)
(* POST /v1/workspace/deletion consumes a DualControl approval and then    *)
(* schedules; DELETE cancels; POST .../complete records that the wipe ran. *)
(* While a deletion is pending a preHandler answers 423 to every mutating  *)
(* request outside its allowlist, the dual-control routes among them.  The *)
(* gate asks isPending, which remembers its answer for CacheTtl.           *)
(***************************************************************************)
EXTENDS DualControl

CONSTANTS
    Graces,    \* grace windows an owner may ask for
    CacheTtl   \* CACHE_TTL_MS

ASSUME WindowAssumption == Graces \subseteq Nat \ {0} /\ CacheTtl \in Nat \ {0}

VARIABLES
    deletion,  \* workspace-deletion.json
    view,      \* the deletion record each call has read
    cached,    \* isPending's memo, or Nil
    since      \* history: when the file last became or stopped being pending

deletionVars == <<deletion, view, cached, since>>
vars == <<now, call, controlVars, deletionVars>>

Deletion(state, due, by) == [state |-> state, due |-> due, by |-> by]
Memo(pending, expiresAt) == [pending |-> pending, expiresAt |-> expiresAt]

IsPending == deletion.state = "pending"
IsPastDue(d, t) == d.state = "pending" /\ d.due <= t

Init ==
    /\ ControlInit
    /\ deletion = Deletion("none", 0, Nil)
    /\ view = [c \in Calls |-> Nil]
    /\ cached = Nil
    /\ since = 0

-----------------------------------------------------------------------------
(* Arrival, and the gate in front of the mutating routes.  "other" is any  *)
(* mutating route that touches none of these files.                        *)

Gated == {"create", "approve", "reject", "other"}
Open == {"mint", "schedule", "cancel", "complete"}

\* A route outside the gate.  "mint" is a deletion request with no approval
\* header, which is given a new approval instead.
Enter(c) ==
    /\ call[c] = Nil
    /\ \E op \in Open, who \in Owners, id \in Ids \union {Nil} :
        /\ (op = "schedule") = (id # Nil)
        /\ call' = [call EXCEPT ![c] =
             Call(op, who, id, DeletionPurpose, IF op = "complete" THEN now ELSE 0, 0,
                  IF op \in {"cancel", "complete"} THEN "readDeletion" ELSE "handler")]
    /\ UNCHANGED <<now, controlVars, deletionVars>>

\* isPending up to its await: a live memo answers at once.
MemoStep ==
    IF cached = Nil \/ cached.expiresAt <= now THEN "gate"
    ELSE IF cached.pending THEN "refused" ELSE "handler"

\* A route behind the gate.
Arrive(c) ==
    /\ call[c] = Nil
    /\ \E op \in Gated, who \in Owners, id \in Ids \union {Nil}, purpose \in Purposes :
        /\ (op \in {"approve", "reject"}) = (id # Nil)
        /\ op # "create" => purpose = DeletionPurpose
        /\ call' = [call EXCEPT ![c] =
             Call(op, who, id, purpose, IF MemoStep = "gate" THEN now ELSE 0, 0, MemoStep)]
    /\ UNCHANGED <<now, controlVars, deletionVars>>

\* The gate reads the file.
GateRead(c) ==
    /\ At(c, "gate")
    /\ GoTo(c, IF IsPending THEN "sawPending" ELSE "sawClear")
    /\ UNCHANGED <<now, controlVars, deletionVars>>

\* (mutant) the memo's life counts from the answer, not from the question
GateAnswerLate(c) ==
    /\ At(c, "sawPending") \/ At(c, "sawClear")
    /\ cached' = Memo(At(c, "sawPending"), now + CacheTtl)
    /\ Leave(c, IF At(c, "sawPending") THEN "refused" ELSE "handler")
    /\ UNCHANGED <<now, controlVars, deletion, view, since>>

\* The gate stores its answer, dated from its arrival, and gives it.
GateAnswer(c) ==
    /\ At(c, "sawPending") \/ At(c, "sawClear")
    /\ cached' = Memo(At(c, "sawPending"), call[c].at + CacheTtl)
    /\ Leave(c, IF At(c, "sawPending") THEN "refused" ELSE "handler")
    /\ UNCHANGED <<now, controlVars, deletion, view, since>>

\* The file cannot be read: the gate lets the request through.
GateFails(c) ==
    /\ At(c, "gate")
    /\ Leave(c, "handler")
    /\ UNCHANGED <<now, controlVars, deletionVars>>

\* The answer of a refused request, or of a mutating route elsewhere.
Answer(c) ==
    /\ At(c, "refused") \/ (At(c, "handler") /\ call[c].op = "other")
    /\ Return(c)
    /\ UNCHANGED <<now, controlVars, deletionVars>>

-----------------------------------------------------------------------------
(* The operations on workspace-deletion.json.  Each fixes its time, loads, *)
(* checks, saves with a rename, and then drops the memo.                   *)

\* scheduleDeletion begins once the consumption is written.
Schedule(c) ==
    /\ At(c, "granted")
    /\ \E grace \in Graces : Move(c, call[c].id, 0, now + grace, "readDeletion")
    /\ UNCHANGED <<now, controlVars, deletionVars>>

\* (mutant) completion does not look at scheduledFor
AllowedEarly(k, d) ==
    /\ k.op = "schedule" => d.state \notin {"pending", "completed"}
    /\ k.op \in {"cancel", "complete"} => d.state = "pending"

\* Whether call k may change the record d it has loaded
Allowed(k, d) ==
    /\ k.op = "schedule" => d.state \notin {"pending", "completed"}
    /\ k.op = "cancel"   => d.state = "pending"
    /\ k.op = "complete" => IsPastDue(d, k.at)

\* The record call k writes in place of d
Outcome(k, d) ==
    IF k.op = "schedule" THEN Deletion("pending", k.until, k.who)
    ELSE Deletion(IF k.op = "cancel" THEN "cancelled" ELSE "completed", d.due, d.by)

ReadDeletion(c) ==
    /\ At(c, "readDeletion")
    /\ IF Allowed(call[c], deletion)
       THEN /\ view' = [view EXCEPT ![c] = deletion]
            /\ GoTo(c, "saveDeletion")
       ELSE /\ Return(c)
            /\ UNCHANGED view
    /\ UNCHANGED <<now, controlVars, deletion, cached, since>>

SaveDeletion(c) ==
    /\ At(c, "saveDeletion")
    /\ deletion' = Outcome(call[c], view[c])
    /\ since' = IF IsPending' = IsPending THEN since ELSE now
    /\ view' = [view EXCEPT ![c] = Nil]
    /\ Leave(c, "invalidate")
    /\ UNCHANGED <<now, controlVars, cached>>

\* invalidateDeletionCache, and the answer
Invalidate(c) ==
    /\ At(c, "invalidate")
    /\ cached' = Nil
    /\ Return(c)
    /\ UNCHANGED <<now, controlVars, deletion, view, since>>

-----------------------------------------------------------------------------
Tick ==
    /\ now < MaxTime
    /\ now' = now + 1
    /\ UNCHANGED <<call, controlVars, deletionVars>>

\* The process dies and starts again: the calls and the memo are gone.
Restart ==
    /\ call' = [c \in Calls |-> Nil]
    /\ copy' = [c \in Calls |-> Nil]
    /\ view' = [c \in Calls |-> Nil]
    /\ cached' = Nil
    /\ UNCHANGED <<now, ledger, minted, did, respent, clobbered, deletion, since>>

Step(c) ==
    \/ ControlStep(c) /\ UNCHANGED deletionVars
    \/ Enter(c) \/ Arrive(c)
    \/ GateRead(c) \/ GateAnswer(c) \/ GateFails(c) \/ Answer(c)
    \/ Schedule(c) \/ ReadDeletion(c) \/ SaveDeletion(c) \/ Invalidate(c)

Next == Tick \/ Restart \/ \E c \in Calls : Step(c)

Spec == Init /\ [][Next]_vars

-----------------------------------------------------------------------------
ApprovalRecords ==
    [purpose : Purposes, requestedBy : Owners, expiresAt : Nat,
     state : {"pending", "approved", "rejected", "consumed", "expired"},
     approvedBy : Owners \union {Nil}, consumedBy : Owners \union {Nil}]

Ledgers == [Ids -> ApprovalRecords \union {Nil}]

CallRecords ==
    [op : Gated \union Open, who : Owners, id : Ids \union {Nil}, purpose : Purposes,
     at : Nat, until : Nat,
     step : {"gate", "sawPending", "sawClear", "refused", "handler", "readLedger",
             "saveLedger", "granted", "readDeletion", "saveDeletion", "invalidate"}]

DeletionRecords == [state : {"none", "pending", "cancelled", "completed"}, due : Nat, by : Owners \union {Nil}]

\* The type invariant.
TypeOK ==
    /\ now \in 0..MaxTime
    /\ ledger \in Ledgers
    /\ call \in [Calls -> CallRecords \union {Nil}]
    /\ copy \in [Calls -> Ledgers \union {Nil}]
    /\ did \subseteq [act : {"request", "approve", "consume"},
                      who : Owners, id : Ids]
    /\ respent \subseteq Ids
    /\ minted \subseteq Ids
    /\ clobbered \in BOOLEAN
    /\ deletion \in DeletionRecords
    /\ view \in [Calls -> DeletionRecords \union {Nil}]
    /\ cached \in [pending : BOOLEAN, expiresAt : Nat] \union {Nil}
    /\ since \in 0..MaxTime

\* Nobody schedules a wipe alone: whoever scheduled the deletion on file
\* consumed an approval that a different owner gave, and that owner was not the
\* one who had asked for it.  This holds through every overlap of calls, lost
\* writes and restarts included.
FourEyes ==
    deletion.state # "none" =>
        \E id \in Ids :
            /\ deletion.by \in Did("consume", id)
            /\ \E p \in Did("approve", id), r \in Did("request", id) :
                  p # deletion.by /\ p # r

\* An approval is consumed at most once, unless the writes of two overlapping
\* calls have replaced one another: dual-control.ts:244 calls the consumption
\* atomic, and it is atomic only among calls that do not overlap.
ConsumedOnce == ~clobbered => respent = {}

\* The wipe is recorded as done only when its grace window is over, whatever
\* overlaps: markCompleted judges the very record it writes back.
WipeAfterDue == deletion.state = "completed" => deletion.due <= now

\* A mutating request that arrives CacheTtl or more after the deletion was
\* scheduled (or cancelled) gets the right answer from a gate that answers,
\* however the gate's reads and memo fills raced the write.
Arrival(c) == IF call[c] = Nil THEN now ELSE call[c].at

GateIsCurrent ==
    [][\A c \in Calls :
         /\ call'[c] # call[c] /\ call'[c] # Nil
         /\ call'[c].op \in Gated /\ call'[c].step \in {"refused", "handler"}
         /\ ~At(c, "gate")
         /\ Arrival(c) >= since + CacheTtl
         => (call'[c].step = "refused" <=> IsPending)]_vars
=============================================================================
