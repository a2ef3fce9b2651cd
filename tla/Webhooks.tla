------------------------------ MODULE Webhooks ------------------------------
(***************************************************************************)
(* The webhooks of a workspace (webhooks.json): what their owner does to   *)
(* them while events are being delivered.                                  *)
(*                                                                         *)
(* emit loads the whole file, delivers the event to one hook after the     *)
(* other, with retries and pauses between them, keeps its books in the     *)
(* copy it loaded and saves that copy.  The owner's calls, and a manual    *)
(* redelivery, load and save the whole file too.  saveAll writes the file  *)
(* in place: it is empty between the truncation and the write, and a load  *)
(* then throws.                                                            *)
(*                                                                         *)
(* A secret of a hook is its number: 1 at creation, one more at each       *)
(* rotation.  Which hooks have subscribed to an event is left open.        *)
(***************************************************************************)
EXTENDS AccessClock, FiniteSets

CONSTANTS
    Hooks,         \* webhook ids
    Couriers,      \* calls and emits alive at once
    RotationGrace, \* grace of a rotated secret
    AutoDisable,   \* AUTO_DISABLE_AFTER
    MaxAttempts,   \* MAX_ATTEMPTS
    MaxSecret      \* bound: secrets a hook ever gets

HookType == [secret : 1..MaxSecret, prev : 0..MaxSecret, prevUntil : 0..(Never + RotationGrace),
             active : BOOLEAN, failures : 0..AutoDisable]

ASSUME WebhooksAssumption ==
    /\ RotationGrace \in Nat
    /\ {AutoDisable, MaxAttempts, MaxSecret} \subseteq Nat \ {0}
    /\ Nil \notin HookType

VARIABLES
    hooks,      \* the array last written to webhooks.json
    hookFile,   \* "whole", "empty" while it is saved, or "garbled"
    hookIds,    \* ids not yet given out; they are random
    logged,     \* hooks with a row in the delivery log, which redeliver needs
    courier,    \* the copy of the file each call works on, and its place
    word,       \* history: what the owner's last answered call made of each hook
    row,        \* history: failures in a row that were saved; AutoDisable stays until re-enabled
    secretEnds, \* history: when each secret was promised to be over
    hooksLost   \* history: a change to the file, or a result, was lost

hookHistory == <<word, row, secretEnds, hooksLost>>
hookVars == <<hooks, hookFile, hookIds, logged, courier, hookHistory>>

Hook(secret, prev, prevUntil, active, failures) ==
    [secret |-> secret, prev |-> prev, prevUntil |-> prevUntil, active |-> active,
     failures |-> failures]

\* deliverOnce drops the previous secret once it has expired.
\* (mutant) keeps it
KeepsPrevious(w) == w
WithoutExpired(w) ==
    IF w.prev # 0 /\ w.prevUntil < clock THEN Hook(w.secret, 0, 0, w.active, w.failures) ELSE w
Rotate(w) == Hook(w.secret + 1, w.secret, clock + RotationGrace, w.active, w.failures)

\* updateWebhook; turning a hook on again forgives its failures.
\* (mutant) does not
SwitchedOnly(w, active) == [w EXCEPT !.active = active]
Switched(w, active) == [w EXCEPT !.active = active,
                                 !.failures = IF active THEN 0 ELSE @]

\* The books of emit after a delivery, and of redeliver.
Books(w, kind, ok) ==
    IF ok THEN [w EXCEPT !.failures = 0]
    ELSE IF kind = "redeliver" THEN w
    ELSE [w EXCEPT !.failures = @ + 1,
                   !.active = @ /\ w.failures + 1 < AutoDisable]

-----------------------------------------------------------------------------
(* Saving the file *)

\* kind: "owner" with the hook it changes, "emit" or "redeliver" with the hook at
\* hand; todo: hooks still to be delivered to; good, bad: hooks that were; signed:
\* the secrets that sign the delivery at hand, as of began.
Courier(pc, kind, copy, hook, todo, good, bad, attempt, signed, began, stale) ==
    [pc |-> pc, kind |-> kind, copy |-> copy, hook |-> hook, todo |-> todo, good |-> good,
     bad |-> bad, attempt |-> attempt, signed |-> signed, began |-> began, stale |-> stale]
NoCourier == Courier("idle", "owner", Nil, Nil, {}, {}, {}, 0, {}, 0, FALSE)

HAt(c, pc)   == courier[c].pc = pc
HMove(c, s)  == courier' = [courier EXCEPT ![c] = s]
HookFileOK   == hookFile = "whole"
SecretsOfHooks == Hooks \X (1..MaxSecret)
OwnerSaves(c, copy, h) ==
    HMove(c, Courier("save", "owner", copy, h, {}, {}, {}, 0, {}, 0, FALSE))

TruncateHooks(c) ==
    /\ HAt(c, "save")
    /\ hookFile' = "empty"
    /\ courier' = [courier EXCEPT ![c].pc = "fill"]
    /\ UNCHANGED <<clock, hooks, hookIds, logged, hookHistory>>

\* Every other copy has been loaded before this one was written.
AfterFillHooks(c) ==
    [d \in Couriers |->
        IF d = c THEN NoCourier
        ELSE IF HAt(d, "idle") \/ courier[c].copy = hooks THEN courier[d]
        ELSE [courier[d] EXCEPT !.stale = TRUE]]

\* What an owner's call changes is answered once it is on file.
Answered(c) == [h \in Hooks |-> IF courier[c].kind = "owner" /\ courier[c].hook = h
                                THEN courier[c].copy[h] ELSE word[h]]
Forgiven(c, h) ==
    /\ courier[c].kind = "owner" /\ courier[c].hook = h
    /\ courier[c].copy # hooks
    /\ courier[c].copy[h] # Nil /\ courier[c].copy[h].active
    /\ courier[c].copy[h].failures = 0 \/ hooks[h] = Nil \/ ~hooks[h].active

NewRow(c, h) == CASE Forgiven(c, h) -> 0
                  [] row[h] < AutoDisable /\ h \in courier[c].good -> 0
                  [] row[h] < AutoDisable /\ h \in courier[c].bad -> row[h] + 1
                  [] OTHER -> row[h]

\* Where another save has been at work the file may end in the rest of a longer array.
FillHooks(c) ==
    /\ HAt(c, "fill")
    /\ hooks' = courier[c].copy
    /\ \/ hookFile' = "whole"
       \/ hookFile # "empty" /\ hookFile' = "garbled"
    /\ courier' = AfterFillHooks(c)
    /\ word' = Answered(c)
    /\ row' = [h \in Hooks |-> NewRow(c, h)]
    /\ secretEnds' =
          [x \in SecretsOfHooks |->
              LET w == courier[c].copy[x[1]] IN
              IF courier[c].kind = "owner" /\ courier[c].hook = x[1] /\ w # Nil
                 /\ w.prev = x[2] /\ w.prevUntil < secretEnds[x]
              THEN w.prevUntil ELSE secretEnds[x]]
    /\ hooksLost' = (hooksLost \/ (courier[c].stale /\ courier[c].copy # hooks))
    /\ UNCHANGED <<clock, hookIds, logged>>

-----------------------------------------------------------------------------
(* The owner's calls *)

HookInit ==
    /\ hooks = [h \in Hooks |-> Nil]
    /\ hookFile = "whole"
    /\ hookIds = Hooks
    /\ logged = {}
    /\ courier = [c \in Couriers |-> NoCourier]
    /\ word = [h \in Hooks |-> Nil]
    /\ row = [h \in Hooks |-> 0]
    /\ secretEnds = [x \in SecretsOfHooks |-> Never + RotationGrace]
    /\ hooksLost = FALSE

HandsOn == UNCHANGED <<clock, hooks, hookFile, hookIds, logged, hookHistory>>

\* createWebhook
CreateHook(c, h) ==
    /\ HAt(c, "idle") /\ HookFileOK
    /\ h \in hookIds
    /\ hookIds' = hookIds \ {h}
    /\ OwnerSaves(c, [hooks EXCEPT ![h] = Hook(1, 0, 0, TRUE, 0)], h)
    /\ UNCHANGED <<clock, hooks, hookFile, logged, hookHistory>>

\* updateWebhook, deleteWebhook, rotateSecret
SwitchHook(c, h, active) ==
    /\ HAt(c, "idle") /\ HookFileOK
    /\ hooks[h] # Nil
    /\ OwnerSaves(c, [hooks EXCEPT ![h] = Switched(@, active)], h)
    /\ HandsOn
DeleteHook(c, h) ==
    /\ HAt(c, "idle") /\ HookFileOK
    /\ hooks[h] # Nil
    /\ OwnerSaves(c, [hooks EXCEPT ![h] = Nil], h)
    /\ HandsOn
RotateSecret(c, h) ==
    /\ HAt(c, "idle") /\ HookFileOK
    /\ hooks[h] # Nil /\ hooks[h].secret < MaxSecret
    /\ OwnerSaves(c, [hooks EXCEPT ![h] = Rotate(@)], h)
    /\ HandsOn

-----------------------------------------------------------------------------
(* Deliveries *)

\* emit, for the active hooks that have subscribed; and redeliver.
Emit(c, targets) ==
    /\ HAt(c, "idle") /\ HookFileOK
    /\ targets # {}
    /\ \A h \in targets : hooks[h] # Nil /\ hooks[h].active
    /\ HMove(c, Courier("pick", "emit", hooks, Nil, targets, {}, {}, 0, {}, 0, FALSE))
    /\ HandsOn
Redeliver(c, h) ==
    /\ HAt(c, "idle") /\ HookFileOK
    /\ h \in logged /\ hooks[h] # Nil
    /\ HMove(c, Courier("pick", "redeliver", hooks, Nil, {h}, {}, {}, 0, {}, 0, FALSE))
    /\ HandsOn

\* deliverOnce: both signatures are made with the copy at hand.
Begin(c, h) ==
    LET w == WithoutExpired(courier[c].copy[h]) IN
    /\ HAt(c, "pick")
    /\ h \in courier[c].todo
    /\ HMove(c, Courier("try", courier[c].kind, [courier[c].copy EXCEPT ![h] = w], h,
                        courier[c].todo \ {h}, courier[c].good, courier[c].bad,
                        1, {w.secret, w.prev} \ {0}, clock, courier[c].stale))
    /\ HandsOn

\* The delivery is over; the next hook, or the save.
Settle(c, ok) ==
    LET me == courier[c]  h == courier[c].hook IN
    HMove(c, Courier(IF me.todo = {} THEN "save" ELSE "pick", me.kind,
                     [me.copy EXCEPT ![h] = Books(@, me.kind, ok)], Nil, me.todo,
                     IF ok THEN me.good \cup {h} ELSE me.good,
                     IF ok THEN me.bad ELSE me.bad \cup {h}, 0, {}, 0, me.stale))

\* The guard or an allowlist stands in the way: no row in the log, no retry.
Blocked(c) ==
    /\ HAt(c, "try")
    /\ Settle(c, FALSE)
    /\ HandsOn

\* The receiver answers 2xx, or 4xx, which is final.
Respond(c, ok) ==
    /\ HAt(c, "try")
    /\ logged' = logged \cup {courier[c].hook}
    /\ Settle(c, ok)
    /\ UNCHANGED <<clock, hooks, hookFile, hookIds, hookHistory>>

\* A network error or 5xx: another attempt with the same signatures, or the end.
Fail(c) ==
    /\ HAt(c, "try")
    /\ logged' = logged \cup {courier[c].hook}
    /\ \/ /\ courier[c].attempt < MaxAttempts
          /\ courier' = [courier EXCEPT ![c].attempt = @ + 1]
       \/ /\ courier[c].attempt = MaxAttempts
          /\ Settle(c, FALSE)
    /\ UNCHANGED <<clock, hooks, hookFile, hookIds, hookHistory>>

\* The process dies; a save in progress leaves the file as it is.
HooksCrash ==
    /\ courier' = [c \in Couriers |-> NoCourier]
    /\ HandsOn

CourierStep(c) ==
    \/ TruncateHooks(c) \/ FillHooks(c) \/ Blocked(c) \/ Fail(c)
    \/ \E h \in Hooks :
          \/ CreateHook(c, h) \/ DeleteHook(c, h) \/ RotateSecret(c, h)
          \/ Redeliver(c, h) \/ Begin(c, h)
          \/ \E active \in BOOLEAN : SwitchHook(c, h, active)
    \/ \E targets \in SUBSET Hooks : Emit(c, targets)
    \/ \E ok \in BOOLEAN : Respond(c, ok)
HookNext ==
    \/ \E c \in Couriers : CourierStep(c)
    \/ HooksCrash
    \/ Tick /\ UNCHANGED hookVars
HookSpec == clock = 0 /\ HookInit /\ [][HookNext]_<<clock, hookVars>>

-----------------------------------------------------------------------------
(* Properties *)

HookFiles == [Hooks -> HookType \cup {Nil}]

\* Every variable stays in its type; a hook never counts past AutoDisable.
HookTypeOK ==
    /\ hooks \in HookFiles
    /\ hookFile \in {"whole", "empty", "garbled"}
    /\ hookIds \subseteq Hooks /\ logged \subseteq Hooks
    /\ courier \in [Couriers ->
          [pc : {"idle", "pick", "try", "save", "fill"}, kind : {"owner", "emit", "redeliver"},
           copy : HookFiles \cup {Nil}, hook : Hooks \cup {Nil}, todo : SUBSET Hooks,
           good : SUBSET Hooks, bad : SUBSET Hooks, attempt : 0..MaxAttempts,
           signed : SUBSET (1..MaxSecret), began : 0..MaxClock, stale : BOOLEAN]]
    /\ word \in HookFiles
    /\ row \in [Hooks -> 0..AutoDisable]
    /\ secretEnds \in [SecretsOfHooks -> 0..(Never + RotationGrace)]
    /\ hooksLost \in BOOLEAN

\* webhooks.ts: a subscription stays as its owner left it "so a dead endpoint
\* stops eating retry budget".  While deliveries go on and save their books,
\* each hook is on file with the secret and the switch of the owner's last
\* answered call, and is paused in spite of it only after AutoDisable failed
\* deliveries in a row since it was last on, unless a change was lost.
PausedByItsFailures ==
    ~hooksLost => \A h \in Hooks :
        /\ (hooks[h] = Nil) = (word[h] = Nil)
        /\ hooks[h] # Nil =>
              /\ hooks[h].secret = word[h].secret
              /\ hooks[h].active # word[h].active => row[h] >= AutoDisable

\* webhooks.ts: "never accidentally emit a header with a stale credential".  A
\* delivery is signed with no secret whose grace was over when it began, unless
\* its copy of the file is from before the rotation was answered.
SecretsSignInTime ==
    ~hooksLost => \A c \in Couriers :
        HAt(c, "try") /\ ~courier[c].stale =>
            \A g \in courier[c].signed : courier[c].began <= secretEnds[<<courier[c].hook, g>>]
=============================================================================
