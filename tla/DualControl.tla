----------------------------- MODULE DualControl ----------------------------
(***************************************************************************)
(* The four-eyes ledger, dual-control.json: owners request, approve and    *)
(* reject approvals, and a guarded route consumes one.                     *)
(*                                                                         *)
(* Every operation reads the whole file, checks and changes its copy, and  *)
(* writes the copy back with a rename.  No lock is held over the two       *)
(* awaits, so calls overlap.  The actions below are the steps of one call; *)
(* WorkspaceDeletion says how calls arrive and what follows a consumption. *)
(***************************************************************************)
EXTENDS Naturals, FiniteSets

CONSTANTS
    Owners,           \* people with the owner role
    Ids,              \* bound: the approval ids ever minted
    Purposes,         \* (action, resource) pairs
    DeletionPurpose,  \* the pair the deletion route presents
    Calls,            \* HTTP calls alive at once
    Ttls,             \* lifetimes an approval may be given
    MaxTime,          \* bound: the clock
    Nil

ASSUME PurposeAssumption == DeletionPurpose \in Purposes
ASSUME TimeAssumption == MaxTime \in Nat /\ Ttls \subseteq Nat \ {0}
ASSUME NilAssumption == Nil \notin Owners /\ Nil \notin Ids

Approval(purpose, requestedBy, expiresAt, state, approvedBy, consumedBy) ==
    [purpose |-> purpose, requestedBy |-> requestedBy, expiresAt |-> expiresAt,
     state |-> state, approvedBy |-> approvedBy, consumedBy |-> consumedBy]

Call(op, who, id, purpose, at, until, step) ==
    [op |-> op, who |-> who, id |-> id, purpose |-> purpose,
     at |-> at, until |-> until, step |-> step]

VARIABLES
    now,        \* Date.now()
    ledger,     \* dual-control.json: id -> record, or Nil
    call,       \* each call's place in its handler, or Nil
    copy,       \* the ledger each call has read
    minted,     \* history: ids given out (a random id never comes twice)
    did,        \* history: approvals, consumptions and requests for a deletion that took effect
    respent,    \* history: approvals consumed a second time
    clobbered   \* history: a write has replaced a ledger its writer had not read

controlVars == <<ledger, copy, minted, did, respent, clobbered>>

Act(act, who, id) == [act |-> act, who |-> who, id |-> id]
Did(act, id) == {d.who : d \in {e \in did : e.act = act /\ e.id = id}}

ControlInit ==
    /\ now = 0
    /\ ledger = [i \in Ids |-> Nil]
    /\ call = [c \in Calls |-> Nil]
    /\ copy = [c \in Calls |-> Nil]
    /\ minted = {}
    /\ did = {}
    /\ respent = {}
    /\ clobbered = FALSE

At(c, step) == call[c] # Nil /\ call[c].step = step
Move(c, id, at, until, step) ==
    call' = [call EXCEPT ![c] = Call(@.op, @.who, id, @.purpose, at, until, step)]
GoTo(c, step) == Move(c, call[c].id, call[c].at, call[c].until, step)
\* Times no later step uses are dropped from the call.
Leave(c, step) == Move(c, call[c].id, 0, 0, step)
Return(c) == call' = [call EXCEPT ![c] = Nil]

-----------------------------------------------------------------------------
(* What an operation makes of the ledger it has read.                      *)

\* expireSweep of one record
Swept(r, t) ==
    IF r # Nil /\ r.state \in {"pending", "approved"} /\ t >= r.expiresAt
    THEN Approval(r.purpose, r.requestedBy, r.expiresAt, "expired",
                  r.approvedBy, r.consumedBy)
    ELSE r

SweptLedger(l, t) == [i \in Ids |-> Swept(l[i], t)]

CanApprove(k, r) == r # Nil /\ r.state = "pending" /\ r.requestedBy # k.who

CanReject(k, r) == r # Nil /\ r.state = "pending"

\* (mutant) the approver may execute
CanConsumeOwn(k, r) == r # Nil /\ r.state = "approved" /\ r.purpose = k.purpose

\* (mutant) a consumed approval is accepted again
CanConsumeAgain(k, r) ==
    /\ r # Nil /\ r.state \in {"approved", "consumed"}
    /\ r.purpose = k.purpose
    /\ r.approvedBy # k.who

\* The branch for requestedBy = consumer is empty in the code: it bars nobody.
CanConsume(k, r) ==
    /\ r # Nil /\ r.state = "approved"
    /\ r.purpose = k.purpose
    /\ r.approvedBy # k.who

\* The record call k leaves where it found r
Changed(k, r) ==
    IF k.op \in {"create", "mint"}
    THEN Approval(k.purpose, k.who, k.until, "pending", Nil, Nil)
    ELSE Approval(r.purpose, r.requestedBy, r.expiresAt,
                  IF k.op = "approve" THEN "approved"
                  ELSE IF k.op = "reject" THEN "rejected" ELSE "consumed",
                  IF k.op = "approve" THEN k.who ELSE r.approvedBy,
                  IF k.op = "schedule" THEN k.who ELSE r.consumedBy)

\* The ledger call k writes, having read l
Written(k, l) == [SweptLedger(l, k.at) EXCEPT ![k.id] = Changed(k, SweptLedger(l, k.at)[k.id])]

-----------------------------------------------------------------------------
(* Steps of a call.                                                        *)

\* createRequest up to its load: the id, requestedAt and expiresAt are fixed first.
CreateRequest(c) ==
    /\ At(c, "handler") /\ call[c].op \in {"create", "mint"}
    /\ \E id \in Ids \ minted, ttl \in Ttls :
        /\ minted' = minted \union {id}
        /\ Move(c, id, now, now + ttl, "readLedger")
    /\ UNCHANGED <<now, ledger, copy, did, respent, clobbered>>

ReadLedger(c) ==
    /\ At(c, "readLedger")
    /\ copy' = [copy EXCEPT ![c] = ledger]
    /\ GoTo(c, "saveLedger")
    /\ UNCHANGED <<now, ledger, minted, did, respent, clobbered>>

\* The load, sweep and checks of the operations that name an existing approval;
\* a failed check ends the call with a 4xx.
Decide(c, op, can) ==
    /\ At(c, "handler") /\ call[c].op = op
    /\ IF can
       THEN /\ copy' = [copy EXCEPT ![c] = ledger]
            /\ Move(c, call[c].id, now, 0, "saveLedger")
       ELSE /\ Return(c)
            /\ UNCHANGED copy
    /\ UNCHANGED <<now, ledger, minted, did, respent, clobbered>>

ApproveRequest(c) ==
    At(c, "handler") /\ Decide(c, "approve", CanApprove(call[c], Swept(ledger[call[c].id], now)))

RejectRequest(c) ==
    At(c, "handler") /\ Decide(c, "reject", CanReject(call[c], Swept(ledger[call[c].id], now)))

ConsumeApproval(c) ==
    At(c, "handler") /\ Decide(c, "schedule", CanConsume(call[c], Swept(ledger[call[c].id], now)))

\* What the write of call k leaves in the history
Effect(k) ==
    {a \in {"request", "approve", "consume"} :
        \/ a = "request" /\ k.op \in {"create", "mint"} /\ k.purpose = DeletionPurpose
        \/ a = "approve" /\ k.op = "approve"
        \/ a = "consume" /\ k.op = "schedule"}

\* The rename that puts the call's ledger in place.
SaveLedger(c) ==
    /\ At(c, "saveLedger")
    /\ ledger' = Written(call[c], copy[c])
    /\ did' = did \union {Act(a, call[c].who, call[c].id) : a \in Effect(call[c])}
    /\ respent' = respent \union
                   {i \in {call[c].id} : call[c].op = "schedule" /\ Did("consume", i) # {}}
    /\ clobbered' = (clobbered \/ copy[c] # ledger)
    /\ copy' = [copy EXCEPT ![c] = Nil]
    /\ IF call[c].op = "schedule" THEN Leave(c, "granted") ELSE Return(c)
    /\ UNCHANGED <<now, minted>>

ControlStep(c) ==
    \/ CreateRequest(c) \/ ReadLedger(c)
    \/ ApproveRequest(c) \/ RejectRequest(c) \/ ConsumeApproval(c)
    \/ SaveLedger(c)
=============================================================================
