------------------------------ MODULE MCRecords -----------------------------
(***************************************************************************)
(* The records users and owners keep, in one run: requests for elevation,  *)
(* webhooks, and what deletions take from the history and saved queries or *)
(* from the conversations.                                                 *)
(***************************************************************************)
EXTENDS RoleElevation, Webhooks, Erasure, TLC

VARIABLE focus

MCVars == <<clock, elevVars, hookVars, erasureVars, focus>>
Symmetry == Permutations(Users) \cup Permutations(Purgers)

\* Bound: the registry moves between two calls only.
Reassigned == standing' # standing => \A c \in ElevCalls : EAt(c, "idle")
\* Bound: one tick ends a window or a grace, and ages a record.
OneTick == clock' <= 1
\* Bounds: what there is to delete, and no prune where there is no history.
NoConversation == \A k \in Convs : owner'[k] = Nil
OnlyConversations == /\ \A id \in Lines \cup Rows : owner'[id] = Nil
                     /\ \A c \in Purgers : purger'[c].kind # "prune"
                     /\ ~hold'
\* Bound: nothing but a crash once a change is lost, where no property says more.
Unless(lost, step, crash) == (~lost /\ step) \/ crash

\* Every variable stays in its type, and the files within their limits.
RecordsTypeOK == ElevTypeOK /\ HookTypeOK /\ ErasureTypeOK

MCInit ==
    /\ focus \in {"elevation", "webhooks", "history", "conversations"}
    /\ clock = 0
    /\ ElevInit /\ (focus # "elevation" => standing = {})
    /\ HookInit /\ ErasureInit
MCNext ==
    /\ UNCHANGED focus
    /\ Assert(RecordsTypeOK, "a variable has left its type")
    /\ \/ /\ focus = "elevation"
          /\ Unless(elevLost, ElevNext, ElevCrash) /\ Reassigned /\ OneTick
          /\ UNCHANGED <<hookVars, erasureVars>>
       \/ /\ focus = "webhooks"
          /\ Unless(hooksLost, HookNext, HooksCrash) /\ OneTick
          /\ UNCHANGED <<elevVars, erasureVars>>
       \/ /\ focus = "history"
          /\ Unless(dataLost, ErasureNext, DataCrash) /\ NoConversation /\ OneTick
          /\ UNCHANGED <<elevVars, hookVars>>
       \/ /\ focus = "conversations"
          /\ Unless(dataLost, ErasureNext, DataCrash) /\ OnlyConversations /\ OneTick
          /\ UNCHANGED <<elevVars, hookVars>>
MCSpec == MCInit /\ [][MCNext]_MCVars
=============================================================================
