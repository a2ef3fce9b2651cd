------------------------------ MODULE MCAccess ------------------------------
(***************************************************************************)
(* Who may use a workspace, in one run: members and invitations, API keys, *)
(* sessions, and the removal of a member that goes through all three.      *)
(***************************************************************************)
EXTENDS Offboarding, TLC

VARIABLE focus

MCVars == <<accessVars, focus>>
Symmetry == Permutations(Users) \cup Permutations(MemberCalls) \cup Permutations(Sids)

\* Bounds: calls that write one file at once.
TwoSave  == Cardinality({s \in Savers : saver'[s] # NoSave}) <= 2
TwoWrite == Cardinality({c \in Clerks : clerk'[c] # NoClerk}) <= 2
\* Bound: nothing but a crash once a save has been lost, where no property says more.
Unless(lost, step, crash) == (~lost /\ step) \/ crash

Fresh ==
    /\ clock = 0 /\ MemberInit /\ KeyInit /\ SessionInit
    /\ job = [p \in MemberCalls |-> Free]
    /\ removed = {} /\ overlap = FALSE /\ revived = FALSE
MCInit ==
    \/ focus \in {"members", "keys", "sessions"} /\ Fresh
    \/ focus = "offboarding" /\ AccessInit
MCNext ==
    /\ Assert(AccessTypeOK, "a variable has left its type")
    /\ UNCHANGED focus
    /\ \/ /\ focus = "members"
          /\ MemberNext
          /\ UNCHANGED <<clock, keyVars, sessionVars, requestVars>>
       \/ /\ focus = "keys"
          /\ Unless(keysLost, KeyNext, KeysCrash) /\ TwoSave
          /\ UNCHANGED <<memberVars, sessionVars, requestVars>>
       \/ /\ focus = "sessions"
          /\ SessionNext /\ TwoWrite
          /\ UNCHANGED <<memberVars, keyVars, requestVars>>
       \/ /\ focus = "offboarding"
          /\ AccessNext
MCSpec == MCInit /\ [][MCNext]_MCVars
=============================================================================
