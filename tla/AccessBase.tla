----------------------------- MODULE AccessBase -----------------------------
(* The users of a workspace, whom its members, API keys and sessions share. *)
CONSTANTS
    Users,  \* user ids
    Nil

ASSUME AccessAssumption == Nil \notin Users
=============================================================================
