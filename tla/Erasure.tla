------------------------------- MODULE Erasure ------------------------------
(***************************************************************************)
(* What users keep, and what takes it away: the history log, the           *)
(* conversation files and the saved queries; single deletions, the pruning *)
(* of the history, the retention sweep, the erasure of all data of a user, *)
(* and the legal hold that is to stop the last two.                        *)
(*                                                                         *)
(* History lines are appended, conversations are one file each, saved      *)
(* queries are one array; feedback.json and api-keys.json, which the       *)
(* erasure rewrites in the same way, are not told apart from it.  Nothing  *)
(* is held between reading a file and writing it.  A rewrite is one step:  *)
(* ApiKeys and Webhooks show what a half-written file does.                *)
(***************************************************************************)
EXTENDS AccessClock, FiniteSets

CONSTANTS
    Lines, Convs, Rows,  \* ids: history lines, conversations, saved queries
    Purgers,             \* calls alive at once
    RetentionAge,        \* historyDays and conversationDays
    ListLimit            \* default limit of listConversations

Ids == Lines \cup Convs \cup Rows
ConvType == [updated : 0..MaxClock, archived : BOOLEAN]

ASSUME ErasureAssumption ==
    /\ RetentionAge \in Nat /\ ListLimit \in Nat \ {0}
    /\ Lines \cap Convs = {} /\ Convs \cap Rows = {} /\ Rows \cap Lines = {}
    /\ Nil \notin Ids \cup ConvType

VARIABLES
    hold,      \* legal-hold.json: active
    log,       \* history.jsonl: the lines on file
    stamp,     \* ts of each line
    convs,     \* conversations/*.json: updatedAt and archivedAt, or Nil
    saved,     \* saved.json: the rows on file
    owner,     \* userId of each record ever made; ids are random
    purger,    \* each call's place
    erased,    \* history: records that answered erasures were to remove
    owed,      \* history: records stored and not removed by a call of their own user
    held,      \* history: records a bulk deletion has removed during a hold
    cut,       \* history: an erasure has met a conversation that was just deleted
    dataLost   \* history: a write has replaced a change its caller had not read

erasureHistory == <<erased, owed, held, cut, dataLost>>
erasureVars == <<hold, log, stamp, convs, saved, owner, purger, erasureHistory>>
stores == <<log, stamp, convs, saved, owner>>

Files  == {k \in Convs : convs[k] # Nil}
Kept == log \cup Files \cup saved
Of(u)  == {id \in Ids : owner[id] = u}

\* The history lines a call removes, of those on file.
\* (mutant) a prune or sweep does not look at userId
DoomedOfAnyone(kind, u, ids, before) ==
    IF kind \in {"sweep", "prune"} THEN {l \in log : stamp[l] < before} ELSE log \cap ids
Doomed(kind, u, ids, before) ==
    CASE kind = "erase"              -> log \cap Of(u)
      [] kind \in {"sweep", "prune"} -> {l \in log \cap Of(u) : stamp[l] < before}
      [] OTHER                       -> log \cap Of(u) \cap ids

-----------------------------------------------------------------------------
(* Calls *)

\* seen: what the call has read of the file it will write; ids: the records it is
\* about; todo: conversations still to be deleted; before: the cutoff.
Purger(pc, kind, user, ids, before, seen, todo) ==
    [pc |-> pc, kind |-> kind, user |-> user, ids |-> ids, before |-> before,
     seen |-> seen, todo |-> todo]
NoPurger == Purger("idle", "none", Nil, {}, 0, Nil, {})

PAt(c, pc)   == purger[c].pc = pc
PMove(c, s)  == purger' = [purger EXCEPT ![c] = s]
To(c, pc, seen, todo) ==
    PMove(c, Purger(pc, purger[c].kind, purger[c].user, purger[c].ids, purger[c].before,
                    seen, todo))
GoOn(c, pc) == IF pc = "idle" THEN PMove(c, NoPurger) ELSE To(c, pc, Nil, {})
Start(c, pc, kind, u, ids, before) ==
    /\ PAt(c, "idle")
    /\ PMove(c, Purger(pc, kind, u, ids, before, Nil, {}))

Bulk == {"erase", "sweep", "prune"}
\* The call takes records off the file.
Takes(c, gone) ==
    /\ owed' = owed \ (gone \cap Of(purger[c].user))
    /\ held' = IF hold /\ purger[c].kind \in Bulk THEN held \cup gone ELSE held

ErasureInit ==
    /\ hold = FALSE
    /\ log = {} /\ saved = {}
    /\ stamp = [l \in Lines |-> 0]
    /\ convs = [k \in Convs |-> Nil]
    /\ owner = [id \in Ids |-> Nil]
    /\ purger = [c \in Purgers |-> NoPurger]
    /\ erased = {} /\ owed = {} /\ held = {}
    /\ cut = FALSE /\ dataLost = FALSE

-----------------------------------------------------------------------------
(* Use *)

\* recordHistory, which appends.
RecordHistory(u, l) ==
    /\ owner[l] = Nil
    /\ owner' = [owner EXCEPT ![l] = u]
    /\ log' = log \cup {l}
    /\ stamp' = [stamp EXCEPT ![l] = clock]
    /\ owed' = owed \cup {l}
    /\ UNCHANGED <<clock, hold, convs, saved, purger, erased, held, cut, dataLost>>

\* createConversation
CreateConversation(u, k) ==
    /\ owner[k] = Nil
    /\ owner' = [owner EXCEPT ![k] = u]
    /\ convs' = [convs EXCEPT ![k] = [updated |-> clock, archived |-> FALSE]]
    /\ owed' = owed \cup {k}
    /\ UNCHANGED <<clock, hold, log, stamp, saved, purger, erased, held, cut, dataLost>>

\* appendTurn and setConversationArchived load the file and write it.
LoadConversation(c, k, kind) ==
    /\ convs[k] # Nil
    /\ PAt(c, "idle")
    /\ PMove(c, Purger("edit", kind, owner[k], {k}, 0, convs[k], {}))
    /\ UNCHANGED <<clock, hold, stores, erasureHistory>>
WriteConversation(c) ==
    /\ PAt(c, "edit")
    /\ \E k \in purger[c].ids :
          /\ convs' = [convs EXCEPT
                ![k] = IF purger[c].kind = "turn"
                       THEN [updated |-> clock, archived |-> purger[c].seen.archived]
                       ELSE [updated |-> purger[c].seen.updated,
                             archived |-> ~purger[c].seen.archived]]
          /\ dataLost' = (dataLost \/ convs[k] # purger[c].seen)
    /\ PMove(c, NoPurger)
    /\ UNCHANGED <<clock, hold, log, stamp, saved, owner, erased, owed, held, cut>>

\* addSaved reads the array and writes it.
AddSaved(c, u, q) ==
    /\ owner[q] = Nil
    /\ owner' = [owner EXCEPT ![q] = u]
    /\ PAt(c, "idle")
    /\ PMove(c, Purger("add", "save", u, {q}, 0, saved, {}))
    /\ UNCHANGED <<clock, hold, log, stamp, convs, saved, erasureHistory>>
WriteSaved(c) ==
    /\ PAt(c, "add")
    /\ saved' = purger[c].seen \cup purger[c].ids
    /\ owed' = owed \cup purger[c].ids
    /\ dataLost' = (dataLost \/ saved # purger[c].seen)
    /\ PMove(c, NoPurger)
    /\ UNCHANGED <<clock, hold, log, stamp, convs, owner, erased, held, cut>>

-----------------------------------------------------------------------------
(* Deletions *)

\* DELETE /me/data and POST /retention/apply ask for the hold once, first.
StartErase(c, u) ==
    /\ ~hold
    /\ Start(c, "log", "erase", u, Kept \cap Of(u), 0)
    /\ UNCHANGED <<clock, hold, stores, erasureHistory>>
StartSweep(c, u) ==
    /\ ~hold
    /\ RetentionAge <= clock
    /\ Start(c, "log", "sweep", u, {}, clock - RetentionAge)
    /\ UNCHANGED <<clock, hold, stores, erasureHistory>>
\* DELETE /history does not, nor do DELETE /history/:id and /conversations/:id.
StartPrune(c, u, before) ==
    /\ Start(c, "log", "prune", u, {}, before)
    /\ UNCHANGED <<clock, hold, stores, erasureHistory>>
DeleteHistoryItem(c, l) ==
    /\ l \in log
    /\ Start(c, "log", "item", owner[l], {l}, 0)
    /\ UNCHANGED <<clock, hold, stores, erasureHistory>>
DeleteConversation(c, k) ==
    /\ convs[k] # Nil
    /\ PAt(c, "idle")
    /\ PMove(c, Purger("unlink", "item", owner[k], {k}, 0, Nil, {}))
    /\ UNCHANGED <<clock, hold, stores, erasureHistory>>
RemoveSaved(c, q) ==
    /\ q \in saved
    /\ PAt(c, "idle")
    /\ PMove(c, Purger("rewrite", "item", owner[q], {q}, 0, saved, {}))
    /\ UNCHANGED <<clock, hold, stores, erasureHistory>>

\* The history: a call that has nothing to remove from it does not write it.
AfterLog(c) == IF purger[c].kind \in {"erase", "sweep"} THEN "list" ELSE "idle"
ReadLog(c) ==
    LET gone == Doomed(purger[c].kind, purger[c].user, purger[c].ids, purger[c].before) IN
    /\ PAt(c, "log")
    /\ IF gone = {} THEN GoOn(c, AfterLog(c)) ELSE To(c, "relog", log, gone)
    /\ UNCHANGED <<clock, hold, stores, erasureHistory>>
WriteLog(c) ==
    LET me == purger[c] IN
    /\ PAt(c, "relog")
    /\ log' = me.seen \ me.todo
    /\ dataLost' = (dataLost \/ log # me.seen)
    /\ Takes(c, log \ log')
    /\ GoOn(c, AfterLog(c))
    /\ UNCHANGED <<clock, hold, stamp, convs, saved, owner, erased, cut>>

\* listConversations gives a sweep the newest of those that are not archived; an
\* erasure takes every file of the directory.
Newest(ks) ==
    {k \in ks : Cardinality({j \in ks : convs[j].updated > convs[k].updated}) < ListLimit}
Unarchived(u) == {k \in Files : owner[k] = u /\ ~convs[k].archived}
\* (mutant) an erasure leaves archived conversations out
ToVisitByList(c) ==
    IF purger[c].kind = "erase" THEN Unarchived(purger[c].user)
    ELSE {k \in Newest(Unarchived(purger[c].user)) : convs[k].updated < purger[c].before}
ToVisit(c) ==
    IF purger[c].kind = "erase" THEN Files \cap Of(purger[c].user)
    ELSE {k \in Newest(Unarchived(purger[c].user)) : convs[k].updated < purger[c].before}
List(c) ==
    /\ PAt(c, "list")
    /\ To(c, "visit", Nil, ToVisit(c))
    /\ UNCHANGED <<clock, hold, stores, erasureHistory>>

\* One file after the other: it is loaded, and unlinked if it is still there.
AfterVisits(c) == IF purger[c].kind = "erase" THEN "rows" ELSE "idle"
Visit(c) ==
    /\ PAt(c, "visit")
    /\ \/ /\ purger[c].todo = {}
          /\ GoOn(c, AfterVisits(c))
       \/ \E k \in purger[c].todo :
             IF convs[k] = Nil THEN To(c, "visit", Nil, purger[c].todo \ {k})
             ELSE To(c, "unlink", {k}, purger[c].todo \ {k})
    /\ UNCHANGED <<clock, hold, stores, erasureHistory>>

\* unlink throws on a file that is gone by now: the erasure then leaves the rest
\* of the directory alone and goes on, a sweep or a single deletion fails.
Unlink(c) ==
    LET target == IF purger[c].kind = "item" THEN purger[c].ids ELSE purger[c].seen IN
    /\ PAt(c, "unlink")
    /\ IF target \subseteq Files
       THEN /\ convs' = [k \in Convs |-> IF k \in target THEN Nil ELSE convs[k]]
            /\ Takes(c, target)
            /\ IF purger[c].kind = "item" THEN PMove(c, NoPurger)
               ELSE To(c, "visit", Nil, purger[c].todo)
            /\ UNCHANGED cut
       ELSE /\ IF purger[c].kind = "erase"
               THEN cut' = TRUE /\ To(c, "rows", Nil, {})
               ELSE UNCHANGED cut /\ PMove(c, NoPurger)
            /\ UNCHANGED <<convs, owed, held>>
    /\ UNCHANGED <<clock, hold, log, stamp, saved, owner, erased, dataLost>>

\* The saved queries, and the answer of an erasure.
ReadSaved(c) ==
    /\ PAt(c, "rows")
    /\ IF saved \cap Of(purger[c].user) = {} THEN To(c, "answer", Nil, {})
       ELSE To(c, "rewrite", saved, {})
    /\ UNCHANGED <<clock, hold, stores, erasureHistory>>
RewriteSaved(c) ==
    LET me == purger[c] IN
    /\ PAt(c, "rewrite")
    /\ saved' = me.seen \ (IF me.kind = "erase" THEN Of(me.user) ELSE me.ids)
    /\ dataLost' = (dataLost \/ saved # me.seen)
    /\ Takes(c, saved \ saved')
    /\ IF me.kind = "erase" THEN To(c, "answer", Nil, {}) ELSE PMove(c, NoPurger)
    /\ UNCHANGED <<clock, hold, log, stamp, convs, owner, erased, cut>>
Confirm(c) ==
    /\ PAt(c, "answer")
    /\ erased' = erased \cup purger[c].ids
    /\ PMove(c, NoPurger)
    /\ UNCHANGED <<clock, hold, stores, owed, held, cut, dataLost>>

\* imposeHold, releaseHold.
Impose ==
    /\ ~hold /\ hold' = TRUE
    /\ UNCHANGED <<clock, stores, purger, erasureHistory>>
Release ==
    /\ hold /\ hold' = FALSE
    /\ UNCHANGED <<clock, stores, purger, erasureHistory>>

\* The process dies.
DataCrash ==
    /\ purger' = [c \in Purgers |-> NoPurger]
    /\ UNCHANGED <<clock, hold, stores, erasureHistory>>

Deletion(c) ==
    \/ ReadLog(c) \/ WriteLog(c) \/ List(c) \/ Visit(c) \/ Unlink(c)
    \/ ReadSaved(c) \/ RewriteSaved(c) \/ Confirm(c)
ErasureNext ==
    \/ \E c \in Purgers :
          \/ Deletion(c) \/ WriteConversation(c) \/ WriteSaved(c)
          \/ \E u \in Users :
                \/ StartErase(c, u) \/ StartSweep(c, u)
                \/ \E before \in 0..Never : StartPrune(c, u, before)
                \/ \E q \in Rows : AddSaved(c, u, q)
          \/ \E l \in Lines : DeleteHistoryItem(c, l)
          \/ \E k \in Convs :
                \/ DeleteConversation(c, k)
                \/ \E kind \in {"turn", "archive"} : LoadConversation(c, k, kind)
          \/ \E q \in Rows : RemoveSaved(c, q)
    \/ \E u \in Users, l \in Lines : RecordHistory(u, l)
    \/ \E u \in Users, k \in Convs : CreateConversation(u, k)
    \/ Impose \/ Release \/ DataCrash
    \/ Tick /\ UNCHANGED erasureVars
ErasureSpec == clock = 0 /\ ErasureInit /\ [][ErasureNext]_<<clock, erasureVars>>

-----------------------------------------------------------------------------
(* Properties *)

\* Every variable stays in its type, and every record on file has its user.
ErasureTypeOK ==
    /\ \A id \in Kept : owner[id] # Nil
    /\ {hold, cut, dataLost} \subseteq BOOLEAN
    /\ log \subseteq Lines /\ saved \subseteq Rows
    /\ stamp \in [Lines -> 0..MaxClock]
    /\ convs \in [Convs -> ConvType \cup {Nil}]
    /\ owner \in [Ids -> Users \cup {Nil}]
    /\ {erased, owed, held} \subseteq SUBSET Ids
    /\ \A c \in Purgers :
          /\ purger[c].pc \in {"idle", "edit", "add", "log", "relog", "list", "visit",
                               "unlink", "rows", "rewrite", "answer"}
          /\ purger[c].kind \in {"none", "turn", "archive", "save", "item"} \cup Bulk
          /\ purger[c].user \in Users \cup {Nil}
          /\ purger[c].ids \subseteq Ids /\ purger[c].todo \subseteq Ids
          /\ purger[c].before \in 0..Never

\* history.ts: "Other users' entries are never touched".  Whatever is pruned,
\* swept, deleted and erased at the same time, a record stays until a call of its
\* own user removes it, unless an overlapping write has replaced a change.
OthersKeepTheirs == ~dataLost => owed \subseteq Kept

\* lifecycle.ts: deleteUserData will "erase every per-user record".  Nothing that
\* the user had when an erasure began is left once it is answered, unless an
\* overlapping write brought it back, or a conversation was deleted at that moment.
ErasedUnlessCut == ~dataLost /\ ~cut => erased \cap Kept = {}

\* The same, although a conversation is deleted while the erasure is at it.
ErasedIsGone == ~dataLost => erased \cap Kept = {}

\* (violated) legal-hold.ts: while a hold is active ClawMind "must preserve user-generated
\* records regardless of any per-user retention policy or self-service deletion
\* request", "only bulk/destructive deletion is suppressed".
HoldPreserves == held = {}
=============================================================================
