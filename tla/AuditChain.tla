----------------------------- MODULE AuditChain -----------------------------
(***************************************************************************)
(* What the audit log promises, without files, caches or rotations: a      *)
(* sequence of records that only grows at its end, loses only its oldest   *)
(* records, and in which each record links to the one before it.           *)
(***************************************************************************)
EXTENDS Naturals, Sequences

CONSTANTS Hashes, Genesis

VARIABLE log

Init == log = <<>>

NewestHash == IF log = <<>> THEN Genesis ELSE log[Len(log)].id

\* A fresh record commits to the newest one and has a greater id.
Write ==
    LET newest == NewestHash IN
    \E h \in Hashes : newest < h /\ log' = Append(log, [id |-> h, prev |-> newest])

\* Retention forgets a prefix.
Forget == \E n \in 1..Len(log) : log' = SubSeq(log, n + 1, Len(log))

\* What leaves the log as it is, is no step.
Next == log' # log /\ (Write \/ Forget)

Spec == Init /\ [][Next]_log
=============================================================================
