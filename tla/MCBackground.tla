---------------------------- MODULE MCBackground ----------------------------
(***************************************************************************)
(* What the process does by itself, under the fairness of its event loop:  *)
(* the watcher keeps the index and the timer feeds the audit drains.       *)
(***************************************************************************)
EXTENDS MCIngestIndex, AuditDrains

VARIABLE scenario

MCVars == <<vars, drainVars, scenario>>
MCOwnMs == [e \in Events |-> e]   \* every event has a millisecond of its own

MCWatch ==
    /\ scenario = "watch" /\ LiveNext
    /\ UNCHANGED <<drainVars, scenario>>
\* Bound: one pass or one owner's call at a time, as DrainsCatchUp supposes.
InDrains(step) ==
    /\ scenario = "drains" /\ step /\ "overlap" \notin meddled'
    /\ UNCHANGED <<vars, scenario>>
MCTick(t)  == InDrains(Tick(t))
MCPost(t)  == InDrains(PostBatch(t))
MCOwner(a) == InDrains(Owner(a))

MCInit == LiveInit /\ DrainInit /\ scenario \in {"watch", "drains"}
MCNext ==
    \/ MCWatch
    \/ \E t \in Ticks : MCTick(t)
    \/ \E a \in Admins : MCOwner(a)
    \/ InDrains(ServerDies \/ \E e \in Events : Emit(e))
\* Fairness and DrainFairSpec, each in its scenario: nothing of the index that is
\* under fairness is enabled before a file is written.
MCFairSpec ==
    /\ MCInit /\ [][MCNext]_MCVars
    /\ Fairness
    /\ \A t \in Ticks : WF_MCVars(MCTick(t)) /\ SF_MCVars(MCPost(t))
=============================================================================
