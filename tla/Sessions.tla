------------------------------ MODULE Sessions ------------------------------
(***************************************************************************)
(* The session registry (sessions.json) beside the cookie sessions that    *)
(* @fastify/session keeps in memory.                                       *)
(*                                                                         *)
(* The preHandler asks isRevoked about the session of every request: a     *)
(* session on file with revokedAt is refused and destroyed, any other one, *)
(* a session that is not on file included, is let in.  A revoked record is *)
(* kept for a day, then the next login drops it.  Every function rewrites  *)
(* the whole file, by a rename.                                            *)
(***************************************************************************)
EXTENDS AccessClock, FiniteSets

CONSTANTS
    Sids,         \* session ids
    Clerks,       \* calls and background touches alive at once
    HardCap,      \* MAX_SESSIONS_PER_USER
    PolicyCaps,   \* values of maxConcurrentSessions, 0 for none
    Retention     \* REVOKED_RETENTION_MS

VARIABLES
    sessions,     \* sessions.json
    cookies,      \* sessions alive in memory: their user, or Nil
    sids,         \* ids not yet given out; they are random
    clerk,        \* the file each call is about to write
    revokedAt,    \* history: when an answered call first said it revoked a session
    shed,         \* history: sessions the hard cap has dropped from the file
    sessionsLost  \* history: a write has replaced a change its file did not have

sessionHistory == <<revokedAt, shed, sessionsLost>>
sessionVars == <<sessions, cookies, sids, clerk, sessionHistory>>

Active == Never   \* no revokedAt

ASSUME SessionsAssumption ==
    /\ Retention \in Nat /\ HardCap \in Nat \ {0}
    /\ PolicyCaps \subseteq Nat
    /\ IsFiniteSet(Sids) /\ Nil \notin Sids

Session(user, seen, revoked) == [user |-> user, seen |-> seen, revoked |-> revoked]
SessionType == [user : Users, seen : 0..MaxClock, revoked : 0..Active]
ASSUME NoSessionAssumption == Nil \notin SessionType

IsActive(f, s) == f[s] # Nil /\ f[s].revoked = Active
ActiveOf(f, u) == {s \in Sids : IsActive(f, s) /\ f[s].user = u}
Revoke(f, ss)  == [s \in Sids |-> IF s \in ss THEN [f[s] EXCEPT !.revoked = clock] ELSE f[s]]
Drop(f, ss)    == [s \in Sids |-> IF s \in ss THEN Nil ELSE f[s]]

\* pruneExpired
\* (mutant) drops a revoked record at once
PrunedAtOnce(f) == Drop(f, {s \in Sids : f[s] # Nil /\ f[s].revoked # Active})
Pruned(f) == Drop(f, {s \in Sids : f[s] # Nil /\ f[s].revoked # Active
                                    /\ f[s].revoked + Retention < clock})

\* The least recently seen of a user's sessions, so many that cap - 1 are left.
Oldest(f, u, n, out) ==
    /\ out \subseteq ActiveOf(f, u)
    /\ Cardinality(out) = n
    /\ \A s \in out, t \in ActiveOf(f, u) \ out : f[s].seen <= f[t].seen
OverCap(f, u, cap) ==
    LET n == Cardinality(ActiveOf(f, u)) IN IF n >= cap THEN n - cap + 1 ELSE 0

\* What recordLogin writes: a policy cap revokes the sessions over it, the hard
\* cap drops them from the file.
LoggedIn(f, s, u, policy, out) ==
    LET g == IF policy \in 1..HardCap THEN Revoke(f, out) ELSE Drop(f, out)
    IN  [g EXCEPT ![s] = Session(u, clock, Active)]
Cap(policy) == IF policy \in 1..HardCap THEN policy ELSE HardCap

-----------------------------------------------------------------------------
(* Writing the file *)

\* over: the sessions that are revoked once the call is answered, as of at; login:
\* its session.
Clerk(pc, file, over, at, login, stale) ==
    [pc |-> pc, file |-> file, over |-> over, at |-> at, login |-> login, stale |-> stale]
NoClerk == Clerk("idle", Nil, {}, 0, Nil, FALSE)

CAt(c, pc) == clerk[c].pc = pc
WillFile(c, file, over, login) ==
    clerk' = [clerk EXCEPT ![c] = Clerk("write", file, over, clock, login, FALSE)]

AfterWrite(c) ==
    [d \in Clerks |-> IF d = c THEN NoClerk
                      ELSE IF ~CAt(d, "write") \/ clerk[c].file = sessions THEN clerk[d]
                      ELSE Clerk("write", clerk[d].file, clerk[d].over, clerk[d].at,
                                 clerk[d].login, TRUE)]

WriteSessions(c) ==
    /\ CAt(c, "write")
    /\ sessions' = clerk[c].file
    /\ clerk' = AfterWrite(c)
    /\ cookies' = IF clerk[c].login = Nil THEN cookies
                  ELSE [cookies EXCEPT ![clerk[c].login] = clerk[c].file[clerk[c].login].user]
    /\ revokedAt' = [s \in Sids |-> IF s \in clerk[c].over /\ revokedAt[s] = Active
                                    THEN clerk[c].at ELSE revokedAt[s]]
    /\ sessionsLost' = (sessionsLost \/ (clerk[c].stale /\ clerk[c].file # sessions))
    /\ UNCHANGED <<clock, sids, shed>>

-----------------------------------------------------------------------------
(* The functions of sessions.ts *)

SessionInit ==
    /\ sessions = [s \in Sids |-> Nil]
    /\ cookies = [s \in Sids |-> Nil]
    /\ sids = Sids
    /\ clerk = [c \in Clerks |-> NoClerk]
    /\ revokedAt = [s \in Sids |-> Active]
    /\ shed = {}
    /\ sessionsLost = FALSE

\* recordLogin; the browser gets its cookie with the answer.
Login(c, s, u, policy) ==
    /\ CAt(c, "idle")
    /\ s \in sids
    /\ sids' = sids \ {s}
    /\ \E out \in SUBSET Sids :
          /\ Oldest(Pruned(sessions), u, OverCap(Pruned(sessions), u, Cap(policy)), out)
          /\ WillFile(c, LoggedIn(Pruned(sessions), s, u, policy, out),
                      IF policy \in 1..HardCap THEN out ELSE {}, s)
          /\ shed' = IF policy \in 1..HardCap THEN shed ELSE shed \cup out
    /\ UNCHANGED <<clock, sessions, cookies, revokedAt, sessionsLost>>

\* isRevoked, on every request with a cookie.
IsRevoked(s) == sessions[s] # Nil /\ sessions[s].revoked # Active
Refuse(s) ==
    /\ cookies[s] # Nil
    /\ IsRevoked(s)
    /\ cookies' = [cookies EXCEPT ![s] = Nil]
    /\ UNCHANGED <<clock, sessions, sids, clerk, sessionHistory>>
LetIn(s) == cookies[s] # Nil /\ ~IsRevoked(s)

\* touch, in the background; it writes once a minute at most.
Touch(c, s) ==
    /\ CAt(c, "idle")
    /\ LetIn(s) /\ IsActive(sessions, s)
    /\ sessions[s].seen < clock
    /\ WillFile(c, [sessions EXCEPT ![s].seen = clock], {}, Nil)
    /\ UNCHANGED <<clock, sessions, cookies, sids, sessionHistory>>

\* revokeById and revokeBySid, which the lifetime policy calls too.
RevokeSession(c, s) ==
    /\ CAt(c, "idle")
    /\ IsActive(sessions, s)
    /\ WillFile(c, Revoke(sessions, {s}), {s}, Nil)
    /\ UNCHANGED <<clock, sessions, cookies, sids, sessionHistory>>

\* revokeAllForUser; except is the caller's own session, or Nil.
RevokeAll(c, u, except) ==
    /\ CAt(c, "idle")
    /\ ActiveOf(sessions, u) \ {except} # {}
    /\ WillFile(c, Revoke(sessions, ActiveOf(sessions, u) \ {except}),
                {s \in Sids : cookies[s] = u} \ {except}, Nil)
    /\ UNCHANGED <<clock, sessions, cookies, sids, sessionHistory>>

\* removeBySid, then the cookie's session is destroyed.
Logout(c, s) ==
    /\ CAt(c, "idle")
    /\ LetIn(s)
    /\ cookies' = [cookies EXCEPT ![s] = Nil]
    /\ IF sessions[s] = Nil THEN UNCHANGED clerk
       ELSE WillFile(c, Drop(sessions, {s}), {}, Nil)
    /\ UNCHANGED <<clock, sessions, sids, sessionHistory>>

\* The process dies, and the sessions in its memory with it.
SessionsRestart ==
    /\ cookies' = [s \in Sids |-> Nil]
    /\ clerk' = [c \in Clerks |-> NoClerk]
    /\ UNCHANGED <<clock, sessions, sids, sessionHistory>>

SessionNext ==
    \/ \E c \in Clerks : WriteSessions(c)
    \/ \E c \in Clerks, s \in Sids :
          \/ \E u \in Users, policy \in PolicyCaps : Login(c, s, u, policy)
          \/ Touch(c, s) \/ RevokeSession(c, s) \/ Logout(c, s)
    \/ \E c \in Clerks, u \in Users, except \in Sids \cup {Nil} : RevokeAll(c, u, except)
    \/ \E s \in Sids : Refuse(s)
    \/ SessionsRestart
    \/ Tick /\ UNCHANGED sessionVars
SessionSpec == clock = 0 /\ SessionInit /\ [][SessionNext]_<<clock, sessionVars>>

-----------------------------------------------------------------------------
(* Properties *)

Files == [Sids -> SessionType \cup {Nil}]

FileVersions == {sessions} \cup {clerk[c].file : c \in {d \in Clerks : CAt(d, "write")}}

\* Every variable stays in its type.  Logins that overlap each count on a copy of
\* their own, but no version of the file ever has more than HardCap active
\* sessions of one user (sessions.ts: the cap keeps the file bounded).
SessionsTypeOK ==
    /\ clock \in 0..MaxClock
    /\ sessions \in Files
    /\ \A f \in FileVersions, u \in Users : Cardinality(ActiveOf(f, u)) <= HardCap
    /\ cookies \in [Sids -> Users \cup {Nil}]
    /\ sids \subseteq Sids
    /\ clerk \in [Clerks -> [pc : {"idle", "write"}, file : Files \cup {Nil},
                             over : SUBSET Sids, at : 0..MaxClock,
                             login : Sids \cup {Nil}, stale : BOOLEAN]]
    /\ revokedAt \in [Sids -> 0..Active]
    /\ shed \subseteq Sids
    /\ sessionsLost \in BOOLEAN

\* features.md: "the next request from that session id is rejected with 401
\* session revoked".  It is for as long as the record is kept, unless a write with a
\* file from before the revocation has replaced it, or the hard cap had dropped the
\* session from the file, and with it from the reach of every revocation.
RevokedSessionFailsForADay ==
    ~sessionsLost => \A s \in Sids \ shed :
        revokedAt[s] # Active /\ clock <= revokedAt[s] + Retention => ~LetIn(s)
=============================================================================
