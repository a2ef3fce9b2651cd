----------------------------- MODULE Offboarding ----------------------------
(***************************************************************************)
(* Requests as the auth plugin lets them in, and the removal of a member:  *)
(* DELETE /members/:userId removes the member, then sweepUser revokes the  *)
(* API keys and then the sessions.  Members, ApiKeys and Sessions each     *)
(* keep a file; a request goes from one to the next with nothing held.     *)
(*                                                                         *)
(* A request with a cookie is checked against the sessions, then against   *)
(* the registry, which it rewrites; one with an API key is checked against *)
(* the keys only.  What verifySecret and touch write goes on in the        *)
(* background.                                                             *)
(***************************************************************************)
EXTENDS Members, ApiKeys, Sessions

CONSTANTS
    Background  \* writes alive at once that no request waits for

ASSUME OffboardingAssumption ==
    /\ Savers = MemberCalls \cup Background
    /\ Clerks = MemberCalls \cup Background
    /\ MemberCalls \cap Background = {}
    /\ MaxClock >= 1

VARIABLES
    job,      \* how far each request is
    removed,  \* history: users whose removal has been answered
    overlap,  \* history: a removal has shared its time with another request or write
    revived   \* history: a session that is no longer on file has been let in

requestVars == <<job, removed, overlap, revived>>
accessVars == <<clock, memberVars, keyVars, sessionVars, requestVars>>

Job(step, user) == [step |-> step, user |-> user]
Free == Job("free", Nil)
Doing(p, step) == job[p].step = step
Turns(p, j)    == job' = [job EXCEPT ![p] = j]

Removing == {p \in MemberCalls : job[p].step \in {"delete", "keys", "swept", "sessions"}}
Overlaps(now) == overlap' = (overlap \/ now)

-----------------------------------------------------------------------------
(* A workspace in use: one owner, some members, their keys and sessions.   *)
(* All of it happens at one moment, long before a key expires or a revoked *)
(* session is dropped; every session has last been seen the moment before. *)

AccessInit ==
    \E o \in Users, holder \in [Keys -> Users \cup {Nil}], guest \in [Sids -> Users \cup {Nil}] :
        /\ clock = 1
        /\ registry = [u \in Users |-> IF u = o THEN "owner" ELSE "member"]
        /\ invitations = [i \in Invites |-> Nil] /\ drawn = {} /\ lapsed = {}
        /\ mcall = [c \in MemberCalls |-> NoCall] /\ crowned = {o} /\ outcomes = {}
        /\ keys = [k \in Keys |-> IF holder[k] = Nil THEN Nil
                                   ELSE Key(holder[k], 1, 0, 0, FALSE, 0, Never)]
        /\ keyFile = "whole" /\ keyIds = {k \in Keys : holder[k] = Nil}
        /\ saver = [s \in Savers |-> NoSave]
        /\ ends = [x \in SecretsOf(Keys) |-> Never + Grace] /\ keysLost = FALSE
        /\ sessions = [s \in Sids |-> IF guest[s] = Nil THEN Nil ELSE Session(guest[s], 0, Active)]
        /\ \A u \in Users : Cardinality(ActiveOf(sessions, u)) <= HardCap
        /\ cookies = guest /\ sids = {s \in Sids : guest[s] = Nil}
        /\ clerk = [c \in Clerks |-> NoClerk]
        /\ revokedAt = [s \in Sids |-> Active] /\ shed = {} /\ sessionsLost = FALSE
        /\ job = [p \in MemberCalls |-> Free]
        /\ removed = {} /\ overlap = FALSE /\ revived = FALSE

-----------------------------------------------------------------------------
(* The preHandler *)

\* A cookie whose session is not revoked.
ComeByCookie(p, s) ==
    /\ Doing(p, "free")
    /\ LetIn(s)
    /\ Turns(p, Job("cookie", cookies[s]))
    /\ Overlaps(Removing # {})
    /\ revived' = (revived \/ sessions[s] = Nil)
    /\ UNCHANGED <<clock, memberVars, keyVars, sessionVars, removed>>
Bootstrap(p) ==
    /\ Doing(p, "cookie")
    /\ Arrive(p, job[p].user)
    /\ Turns(p, Job("register", job[p].user))
    /\ UNCHANGED <<clock, keyVars, sessionVars, removed, overlap, revived>>
Register(p) ==
    /\ Doing(p, "register")
    /\ Recorded(p)
    /\ Turns(p, Job("route", job[p].user))
    /\ UNCHANGED <<clock, keyVars, sessionVars, removed, overlap, revived>>

\* A secret that verifySecret accepts.
ComeByKey(p, b, k, g, role) ==
    /\ Doing(p, "free")
    /\ UseKey(b, k, g)
    /\ ArriveByKey(p, keys[k].user, role)
    /\ Turns(p, Job("route", keys[k].user))
    /\ Overlaps(Removing # {})
    /\ UNCHANGED <<sessionVars, removed, revived>>

\* POST /keys for oneself, and any route that writes none of the three files.
Mint(p, k) ==
    /\ Doing(p, "route")
    /\ IssueKey(p, k, job[p].user, 0)
    /\ Leave(p)
    /\ Turns(p, Job("mint", job[p].user))
    /\ UNCHANGED <<sessionVars, removed, overlap, revived>>
Finish(p) ==
    /\ \/ Doing(p, "route") /\ Leave(p) /\ UNCHANGED keyVars
       \/ Doing(p, "mint") /\ KAt(p, "idle") /\ UNCHANGED <<memberVars, keyVars>>
    /\ Turns(p, Free)
    /\ UNCHANGED <<clock, sessionVars, removed, overlap, revived>>

-----------------------------------------------------------------------------
(* DELETE /members/:userId *)

Delete(p, u) ==
    /\ Doing(p, "route")
    /\ RemoveMember(p, u)
    /\ Turns(p, Job("delete", u))
    /\ Overlaps(\/ \E q \in MemberCalls \ {p} : ~Doing(q, "free")
                \/ \E s \in Savers : ~KAt(s, "idle")
                \/ \E c \in Clerks : ~CAt(c, "idle"))
    /\ UNCHANGED <<clock, keyVars, sessionVars, removed, revived>>
Unlist(p) ==
    /\ Doing(p, "delete")
    /\ WriteRegistry(p)
    /\ Turns(p, Job("keys", job[p].user))
    /\ UNCHANGED <<clock, keyVars, sessionVars, removed, overlap, revived>>

\* sweepUser
SweepOfKeys(p) ==
    /\ Doing(p, "keys")
    /\ Readable
    /\ IF OwnKeys(job[p].user) = {} THEN UNCHANGED <<clock, keyVars>>
       ELSE SweepKeys(p, job[p].user)
    /\ Turns(p, Job("swept", job[p].user))
    /\ UNCHANGED <<memberVars, sessionVars, removed, overlap, revived>>
\* (mutant) leaves the sessions to expire
SkipSessions(p) ==
    /\ Doing(p, "swept") /\ KAt(p, "idle")
    /\ Turns(p, Job("sessions", job[p].user))
    /\ UNCHANGED <<clock, memberVars, keyVars, sessionVars, removed, overlap, revived>>
SweepOfSessions(p) ==
    /\ Doing(p, "swept") /\ KAt(p, "idle")
    /\ IF ActiveOf(sessions, job[p].user) = {} THEN UNCHANGED <<clock, sessionVars>>
       ELSE RevokeAll(p, job[p].user, Nil)
    /\ Turns(p, Job("sessions", job[p].user))
    /\ UNCHANGED <<memberVars, keyVars, removed, overlap, revived>>
Answer(p) ==
    /\ Doing(p, "sessions") /\ CAt(p, "idle")
    /\ removed' = removed \cup {job[p].user}
    /\ Turns(p, Free)
    /\ UNCHANGED <<clock, memberVars, keyVars, sessionVars, overlap, revived>>

-----------------------------------------------------------------------------
(* What goes on beside the requests *)

\* A login of someone who has not been removed: the identity provider knows.
SignIn(b, s, u) ==
    /\ u \notin removed
    /\ registry[u] # Absent
    /\ \E policy \in PolicyCaps : Login(b, s, u, policy)
    /\ Overlaps(Removing # {})
    /\ UNCHANGED <<memberVars, keyVars, job, removed, revived>>
TouchLater(b, s) ==
    /\ Touch(b, s)
    /\ Overlaps(Removing # {})
    /\ UNCHANGED <<memberVars, keyVars, job, removed, revived>>
SaveKeys(s) ==
    /\ Truncate(s) \/ Fill(s)
    /\ UNCHANGED <<memberVars, sessionVars, requestVars>>
SaveSessions(c) ==
    /\ WriteSessions(c)
    /\ UNCHANGED <<memberVars, keyVars, requestVars>>
Rejected(s) ==
    /\ Refuse(s)
    /\ UNCHANGED <<memberVars, keyVars, requestVars>>
\* The process dies, and a removal may have done the half of its work.
Crash ==
    /\ Restart /\ KeysCrash /\ SessionsRestart
    /\ job' = [p \in MemberCalls |-> Free]
    /\ UNCHANGED <<removed, overlap, revived>>

Request(p) ==
    \/ \E s \in Sids : ComeByCookie(p, s)
    \/ \E b \in Background, k \in Keys, g \in 1..MaxGen, role \in KeyRoles :
          ComeByKey(p, b, k, g, role)
    \/ Bootstrap(p) \/ Register(p) \/ Finish(p)
    \/ \E k \in Keys : Mint(p, k)
    \/ \E u \in Users : Delete(p, u)
    \/ Unlist(p) \/ SweepOfKeys(p) \/ SweepOfSessions(p) \/ Answer(p)
AccessNext ==
    \/ \E p \in MemberCalls : Request(p)
    \/ \E b \in Background, s \in Sids : TouchLater(b, s) \/ \E u \in Users : SignIn(b, s, u)
    \/ \E s \in Savers : SaveKeys(s)
    \/ \E c \in Clerks : SaveSessions(c)
    \/ \E s \in Sids : Rejected(s)
    \/ Crash
AccessSpec == AccessInit /\ [][AccessNext]_accessVars

-----------------------------------------------------------------------------
(* Properties *)

\* Every variable stays in its type.
AccessTypeOK ==
    /\ MemberTypeOK /\ KeysTypeOK /\ SessionsTypeOK
    /\ job \in [MemberCalls -> [step : {"free", "cookie", "register", "route", "mint", "delete",
                                        "keys", "swept", "sessions"},
                                user : Users \cup {Nil}]]
    /\ removed \subseteq Users /\ overlap \in BOOLEAN /\ revived \in BOOLEAN

\* features.md: removing a member "revokes every API key and active session that
\* member owned in the same operation".  Once a removal is answered the user is no
\* member, owns no live key and has no session on file that is let in, unless the
\* removal overlapped with another request, or a session that is no longer on file
\* has brought someone back.
OffboardedIsOut ==
    ~overlap /\ ~revived => \A u \in removed :
        /\ registry[u] = Absent
        /\ OwnKeys(u) = {}
        /\ \A s \in Sids : LetIn(s) /\ cookies[s] = u => sessions[s] = Nil
=============================================================================
