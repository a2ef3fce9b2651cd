---------------------------- MODULE MCAuditTrail ----------------------------
(***************************************************************************)
(* The audit log and its drains, four questions in one run.  "races": two  *)
(* writes at once, torn lines and restarts, nobody reads.  "reviews": one  *)
(* write at a time and no torn line, for what the routes that read the     *)
(* trail promise.  "passes": passes of the drains that overlap, an owner   *)
(* who creates and deletes a drain, and a crash.  "owner": one pass at a   *)
(* time and everything an owner may do.                                    *)
(***************************************************************************)
EXTENDS AuditTrail, AuditDrains, TLC

CONSTANT second   \* the pass that starts while another one is at work
VARIABLE scenario

MCVars == <<trailVars, drainVars, scenario>>
MCOwnMs == [e \in Events |-> e]   \* every event has a millisecond of its own

\* Bounds: records built in a race, and who writes during a review.
RacedRecords == 5
Scribe == CHOOSE w \in Writers : TRUE
OneWrite  == \A w \in Writers \ {Scribe} : writer'[w] = Idle
WholeLine == "torn" \notin disturbed'

TrailStep ==
    /\ UNCHANGED <<drainVars, scenario>>
    /\ Assert(TypeOK, "a variable of the log has left its type")
    /\ \/ scenario = "races" /\ Next /\ nextId' <= RacedRecords + 1
          /\ UNCHANGED <<review, anchors>>
       \/ scenario = "reviews" /\ TrailNext /\ OneWrite /\ WholeLine

\* Bounds: two passes, or a pass and an owner's call, at once; passes are alike,
\* and the one that starts alone is never the second; who creates and deletes.
TwoAtWork == Cardinality({p \in Procs : proc'[p].pc # "idle"}) <= 2
FirstAlone ==
    Stands(second, "idle") /\ proc'[second].pc # "idle" =>
        scenario = "passes" /\ \E t \in Ticks \ {second} : ~Stands(t, "idle")
OwnersCalls ==
    \A a \in Admins : Stands(a, "idle") /\ proc'[a].pc # "idle" =>
        \/ scenario = "owner"
        \/ \E d \in Drains : CreateDrain(a, d) \/ ~Known(proc'[a].copy, d)
DrainStep ==
    /\ UNCHANGED <<trailVars, scenario>>
    /\ Assert(DrainTypeOK, "a variable of the drains has left its type")
    /\ scenario \in {"passes", "owner"} /\ DrainNext
    /\ TwoAtWork /\ FirstAlone /\ OwnersCalls
    /\ scenario = "owner" => crashes' = 0

MCInit ==
    /\ TrailInit /\ DrainInit
    /\ scenario \in {"races", "reviews", "passes", "owner"}
MCNext == TrailStep \/ DrainStep
MCSpec == MCInit /\ [][MCNext]_MCVars
=============================================================================
