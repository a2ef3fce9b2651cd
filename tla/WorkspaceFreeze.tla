--------------------------- MODULE WorkspaceFreeze --------------------------
(***************************************************************************)
(* The pause button, and how it stands with the scheduled deletion.        *)
(*                                                                         *)
(* A mutating request passes the freeze gate, then the deletion gate, then *)
(* its handler.  Each gate has an allowlist of its own: the freeze gate    *)
(* lets the freeze routes pass and none of the deletion, the deletion gate *)
(* its own routes and none of the freeze.  Behind the first gate a request *)
(* is a call of WorkspaceDeletion; freezing and releasing are mutating     *)
(* routes that are none of its own, "other" there.                         *)
(*                                                                         *)
(* Of workspace-freeze.json only the active flag is told apart.            *)
(***************************************************************************)
EXTENDS WorkspaceDeletion

CONSTANT FreezeTtl   \* CACHE_TTL_MS of the freeze

ASSUME FreezeAssumption == FreezeTtl \in Nat \ {0}

VARIABLES
    frozen,       \* active, in workspace-freeze.json
    frozenMemo,   \* isFrozen's memo, or Nil
    visit,        \* each request's place before, and beside, its call, or Nil
    frozenSince   \* history: when the file last became or stopped being active

freezeVars == <<frozen, frozenMemo, visit, frozenSince>>
lockVars == <<vars, freezeVars>>

Switches == {"freeze", "release"}
FreezeMemo(active, expiresAt) == [active |-> active, expiresAt |-> expiresAt]
Visit(op, at, step) == [op |-> op, at |-> at, step |-> step]

Comes(c, step) == visit[c] # Nil /\ visit[c].step = step
Proceed(c, step) == visit' = [visit EXCEPT ![c] = Visit(@.op, 0, step)]
Gone(c) == visit' = [visit EXCEPT ![c] = Nil]

LockInit ==
    /\ Init
    /\ frozen = FALSE
    /\ frozenMemo = Nil
    /\ visit = [c \in Calls |-> Nil]
    /\ frozenSince = 0

-----------------------------------------------------------------------------
(* The freeze gate.                                                        *)

FreezeAllowed == Switches
DeletionAllowed == Open

\* (mutant) a memo is good for its last millisecond and one more
ArriveStepLate(op) ==
    IF op \in FreezeAllowed THEN "through"
    ELSE IF frozenMemo = Nil \/ frozenMemo.expiresAt < now THEN "gate"
    ELSE IF frozenMemo.active THEN "refused" ELSE "through"

\* isFreezeAllowedPath, and isFrozen up to its await
ArriveStep(op) ==
    IF op \in FreezeAllowed THEN "through"
    ELSE IF frozenMemo = Nil \/ frozenMemo.expiresAt <= now THEN "gate"
    ELSE IF frozenMemo.active THEN "refused" ELSE "through"

Knock(c) ==
    /\ visit[c] = Nil
    /\ \E op \in Gated \cup Open \cup Switches :
         visit' = [visit EXCEPT ![c] =
             Visit(op, IF ArriveStep(op) = "gate" THEN now ELSE 0, ArriveStep(op))]
    /\ UNCHANGED <<vars, frozen, frozenMemo, frozenSince>>

FreezeRead(c) ==
    /\ Comes(c, "gate")
    /\ visit' = [visit EXCEPT ![c].step = IF frozen THEN "sawFrozen" ELSE "sawThawed"]
    /\ UNCHANGED <<vars, frozen, frozenMemo, frozenSince>>

\* The memo is dated from the arrival of the request that filled it.
FreezeAnswer(c) ==
    /\ Comes(c, "sawFrozen") \/ Comes(c, "sawThawed")
    /\ frozenMemo' = FreezeMemo(Comes(c, "sawFrozen"), visit[c].at + FreezeTtl)
    /\ Proceed(c, IF Comes(c, "sawFrozen") THEN "refused" ELSE "through")
    /\ UNCHANGED <<vars, frozen, frozenSince>>

\* A file that cannot be read lets the request through.
FreezeGateFails(c) ==
    /\ Comes(c, "gate")
    /\ Proceed(c, "through")
    /\ UNCHANGED <<vars, frozen, frozenMemo, frozenSince>>

\* 423
TurnAway(c) ==
    /\ Comes(c, "refused")
    /\ Gone(c)
    /\ UNCHANGED <<vars, frozen, frozenMemo, frozenSince>>

-----------------------------------------------------------------------------
(* Behind it: the deletion gate and the handlers of WorkspaceDeletion.     *)

Admit(c) ==
    /\ Comes(c, "through")
    /\ Enter(c) \/ Arrive(c)
    /\ call'[c].op = IF visit[c].op \in Switches THEN "other" ELSE visit[c].op
    /\ Proceed(c, "inside")
    /\ UNCHANGED <<frozen, frozenMemo, frozenSince>>

\* Any further step of the call but the answer of a switch that got through.
Inside(c) ==
    /\ Comes(c, "inside") /\ call[c] # Nil
    /\ ~(visit[c].op \in Switches /\ At(c, "handler"))
    /\ Step(c)
    /\ IF call'[c] = Nil THEN Gone(c) ELSE UNCHANGED visit
    /\ UNCHANGED <<frozen, frozenMemo, frozenSince>>

-----------------------------------------------------------------------------
(* freezeWorkspace and releaseFreeze: load, save with a rename, and drop   *)
(* the memo.  Only a release looks at what it has loaded.                  *)

LoadFreeze(c) ==
    /\ Comes(c, "inside") /\ visit[c].op \in Switches /\ At(c, "handler")
    /\ IF visit[c].op = "freeze" \/ frozen
       THEN Proceed(c, "save") /\ UNCHANGED vars
       ELSE Gone(c) /\ Answer(c)
    /\ UNCHANGED <<frozen, frozenMemo, frozenSince>>

SaveFreeze(c) ==
    /\ Comes(c, "save")
    /\ frozen' = (visit[c].op = "freeze")
    /\ frozenSince' = IF frozen' = frozen THEN frozenSince ELSE now
    /\ Proceed(c, "drop")
    /\ UNCHANGED <<vars, frozenMemo>>

DropMemo(c) ==
    /\ Comes(c, "drop")
    /\ frozenMemo' = Nil
    /\ Gone(c) /\ Answer(c)
    /\ UNCHANGED <<frozen, frozenSince>>

-----------------------------------------------------------------------------
FreezeStep(c) ==
    \/ Knock(c) \/ FreezeRead(c) \/ FreezeAnswer(c) \/ FreezeGateFails(c) \/ TurnAway(c)
    \/ Admit(c) \/ Inside(c)
    \/ LoadFreeze(c) \/ SaveFreeze(c) \/ DropMemo(c)

LockRestart ==
    /\ Restart
    /\ frozenMemo' = Nil
    /\ visit' = [c \in Calls |-> Nil]
    /\ UNCHANGED <<frozen, frozenSince>>

LockNext ==
    \/ Tick /\ UNCHANGED freezeVars
    \/ LockRestart
    \/ \E c \in Calls : FreezeStep(c)

LockSpec == LockInit /\ [][LockNext]_lockVars

-----------------------------------------------------------------------------
VisitOps == Gated \cup Open \cup Switches
VisitSteps == {"gate", "sawFrozen", "sawThawed", "refused", "through", "inside", "save", "drop"}
Visits == [op : VisitOps, at : Nat, step : VisitSteps]

\* The type invariant of what this module adds.
FreezeTypeOK ==
    /\ frozen \in BOOLEAN
    /\ frozenMemo \in [active : BOOLEAN, expiresAt : Nat] \cup {Nil}
    /\ visit \in [Calls -> Visits \cup {Nil}]
    /\ frozenSince \in 0..MaxTime

\* A request that arrives FreezeTtl or more after the workspace was frozen (or
\* released) is judged as the file says by a gate that answers, however reads, saves
\* and memo fills of freezes, releases and other requests raced one another; and
\* the freeze routes are never turned away here.
Knocked(c) == IF visit[c] = Nil THEN now ELSE visit[c].at
FreezeIsCurrent ==
    [][\A c \in Calls :
         /\ visit'[c] # visit[c] /\ visit'[c] # Nil
         /\ visit'[c].step \in {"refused", "through"}
         /\ ~Comes(c, "gate")
         /\ Knocked(c) >= frozenSince + FreezeTtl
         => (visit'[c].step = "refused" <=> frozen /\ visit'[c].op \notin Switches)]_lockVars

\* plugins/workspace-deletion.ts:17: "a workspace can be both frozen and pending
\* deletion without surprises".  Whatever closes a gate can be lifted: one of the two
\* routes that lift it passes both gates once they know of it (workspace-freeze.ts:222,
\* "so owners can unfreeze"; workspace-deletion.ts:330).
Passes(op) ==
    /\ frozen => op \in FreezeAllowed
    /\ IsPending => op \in DeletionAllowed
SomeLockOpens ==
    frozen \/ IsPending =>
        \/ frozen /\ Passes("release")
        \/ IsPending /\ Passes("cancel")
=============================================================================
