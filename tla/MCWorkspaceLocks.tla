--------------------------- MODULE MCWorkspaceLocks --------------------------
(***************************************************************************)
(* The two locks of a workspace, in one run.  "deletion": requests the     *)
(* freeze gate has nothing to say about, and the whole of the ledger and   *)
(* the deletion.  "freeze": freezes, releases and other requests go        *)
(* through both gates, while no deletion is pending.                       *)
(***************************************************************************)
EXTENDS WorkspaceFreeze, TLC

VARIABLE scenario

MCVars == <<lockVars, scenario>>
Symmetry == Permutations(Owners) \union Permutations(Ids) \union Permutations(Calls)

\* Bounds of "freeze": a route of the deletion, and one elsewhere.
SomeVisits ==
    \A c \in Calls :
        visit'[c] # Nil => visit'[c].op \in Switches \cup {"other", "cancel"}

MCInit == LockInit /\ scenario \in {"deletion", "freeze"}
MCNext ==
    /\ UNCHANGED scenario
    /\ \/ scenario = "deletion" /\ Next /\ UNCHANGED freezeVars
       \/ /\ Assert(FreezeTypeOK, "a variable of the freeze has left its type")
          /\ scenario = "freeze" /\ LockNext /\ SomeVisits
MCSpec == MCInit /\ [][MCNext]_MCVars
=============================================================================
