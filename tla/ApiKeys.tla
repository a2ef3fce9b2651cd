------------------------------- MODULE ApiKeys ------------------------------
(***************************************************************************)
(* The API keys (api-keys.json).                                           *)
(*                                                                         *)
(* Every function loads the whole array and, if it changes a key, saves    *)
(* the whole array.  saveKeys writes the file in place: it is empty        *)
(* between the truncation and the write, and a load then throws.  The      *)
(* array that verifySecret has read is saved in the background, after the  *)
(* request has been let in.                                                *)
(*                                                                         *)
(* A secret of key k is its number: 1 at issue, one more at each rotation. *)
(***************************************************************************)
EXTENDS AccessClock

CONSTANTS
    Keys,      \* key ids
    Savers,    \* calls and background saves alive at once
    Grace,     \* graceMs of a rotation
    Ttl,       \* ttlMs of a key, or 0 for none
    MaxGen     \* bound: secrets a key ever gets

ASSUME KeysAssumption ==
    {Grace, Ttl} \subseteq Nat /\ MaxGen \in Nat \ {0}

VARIABLES
    keys,      \* the array last written to api-keys.json
    keyFile,   \* "whole", "empty" while it is saved, or "garbled"
    keyIds,    \* ids not yet given out
    saver,     \* the array each call is about to save
    ends,      \* history: when each secret was promised to be over, by answered calls
    keysLost   \* history: a save has replaced a change its array did not have

keyVars == <<keys, keyFile, keyIds, saver, ends, keysLost>>

Key(user, gen, old, oldUntil, revoked, from, until) ==
    [user |-> user, gen |-> gen, old |-> old, oldUntil |-> oldUntil,
     revoked |-> revoked, from |-> from, until |-> until]

KeyType == [user : Users, gen : 1..MaxGen, old : 0..MaxGen, oldUntil : 0..(Never + Grace),
            revoked : BOOLEAN, from : 0..MaxClock, until : 0..(Never + Ttl)]
ASSUME NoKeyAssumption == Nil \notin KeyType

Live(k) == keys[k] # Nil /\ ~keys[k].revoked /\ clock <= keys[k].until
Readable == keyFile = "whole"

\* The hash that matches: the current one, else the previous one in its grace.
Matches(r, g) == r.gen = g \/ (r.old = g /\ r.oldUntil > clock)

Revoked(r)  == [r EXCEPT !.revoked = TRUE]
Rotated(r)  == [r EXCEPT !.gen = @ + 1, !.old = IF Grace > 0 THEN r.gen ELSE 0,
                         !.oldUntil = clock + Grace]

-----------------------------------------------------------------------------
(* saveKeys *)

\* over: the secrets that are over once the call is answered, from at on.
Saver(pc, array, over, at, stale) ==
    [pc |-> pc, array |-> array, over |-> over, at |-> at, stale |-> stale]
NoSave == Saver("idle", Nil, {}, 0, FALSE)

KAt(s, pc) == saver[s].pc = pc
WillSave(s, array, over, at) ==
    saver' = [saver EXCEPT ![s] = Saver("save", array, over, at, FALSE)]
SecretsOf(ks) == ks \X (1..MaxGen)

Truncate(s) ==
    /\ KAt(s, "save")
    /\ keyFile' = "empty"
    /\ saver' = [saver EXCEPT ![s].pc = "fill"]
    /\ UNCHANGED <<clock, keys, keyIds, ends, keysLost>>

\* Every other array in hand has been read before this one was written.
AfterFill(s) ==
    [t \in Savers |-> IF t = s THEN NoSave
                      ELSE IF KAt(t, "idle") \/ saver[s].array = keys THEN saver[t]
                      ELSE Saver(saver[t].pc, saver[t].array, saver[t].over, saver[t].at, TRUE)]

\* Where another save has been at work the file may end in the rest of a longer array.
Fill(s) ==
    /\ KAt(s, "fill")
    /\ keys' = saver[s].array
    /\ \/ keyFile' = "whole"
       \/ keyFile # "empty" /\ keyFile' = "garbled"
    /\ saver' = AfterFill(s)
    /\ ends' = [x \in SecretsOf(Keys) |->
                   IF x \in saver[s].over /\ saver[s].at < ends[x] THEN saver[s].at ELSE ends[x]]
    /\ keysLost' = (keysLost \/ (saver[s].stale /\ saver[s].array # keys))
    /\ UNCHANGED <<clock, keyIds>>

-----------------------------------------------------------------------------
(* The functions of api-keys.ts *)

KeyInit ==
    /\ keys = [k \in Keys |-> Nil]
    /\ keyFile = "whole"
    /\ keyIds = Keys
    /\ saver = [s \in Savers |-> NoSave]
    /\ ends = [x \in SecretsOf(Keys) |-> Never + Grace]
    /\ keysLost = FALSE

\* issueKey refuses a key that expires before it is active.
IssueKey(s, k, u, from) ==
    LET until == IF Ttl = 0 THEN Never ELSE clock + Ttl IN
    /\ KAt(s, "idle") /\ Readable
    /\ k \in keyIds
    /\ from < until
    /\ keyIds' = keyIds \ {k}
    /\ WillSave(s, [keys EXCEPT ![k] = Key(u, 1, 0, 0, FALSE, from, until)], {}, 0)
    /\ UNCHANGED <<clock, keys, keyFile, ends, keysLost>>

\* revokeKey, of a key that is not revoked yet.
RevokeKey(s, k) ==
    /\ KAt(s, "idle") /\ Readable
    /\ keys[k] # Nil /\ ~keys[k].revoked
    /\ WillSave(s, [keys EXCEPT ![k] = Revoked(@)], SecretsOf({k}), clock)
    /\ UNCHANGED <<clock, keys, keyFile, keyIds, ends, keysLost>>

\* rotateKey, setKeyNotBefore
RotateKey(s, k) ==
    /\ KAt(s, "idle") /\ Readable
    /\ Live(k)
    /\ keys[k].gen < MaxGen
    /\ WillSave(s, [keys EXCEPT ![k] = Rotated(@)], {<<k, keys[k].gen>>}, clock + Grace)
    /\ UNCHANGED <<clock, keys, keyFile, keyIds, ends, keysLost>>
ScheduleKey(s, k, from) ==
    /\ KAt(s, "idle") /\ Readable
    /\ Live(k)
    /\ from < keys[k].until
    /\ WillSave(s, [keys EXCEPT ![k].from = from], {}, 0)
    /\ UNCHANGED <<clock, keys, keyFile, keyIds, ends, keysLost>>

\* revokeKeysWhere: every live key of one user.
OwnKeys(u) == {k \in Keys : keys[k] # Nil /\ keys[k].user = u /\ ~keys[k].revoked}
SweptKeys(u) == [k \in Keys |-> IF k \in OwnKeys(u) THEN Revoked(keys[k]) ELSE keys[k]]
SweepKeys(s, u) ==
    /\ KAt(s, "idle") /\ Readable
    /\ OwnKeys(u) # {}
    /\ WillSave(s, SweptKeys(u), SecretsOf(OwnKeys(u)), clock)
    /\ UNCHANGED <<clock, keys, keyFile, keyIds, ends, keysLost>>

\* (mutant) verifySecret without the check of revokedAt
AcceptsRevoked(k, g) == keys[k] # Nil /\ clock <= keys[k].until /\ Matches(keys[k], g)
\* verifySecret
Accepts(k, g) == Live(k) /\ Matches(keys[k], g)

\* The preHandler lets a secret in: verifySecret, then the check of notBefore.
UseKey(s, k, g) ==
    /\ KAt(s, "idle") /\ Readable
    /\ Accepts(k, g)
    /\ keys[k].from <= clock
    /\ WillSave(s, keys, {}, 0)
    /\ UNCHANGED <<clock, keys, keyFile, keyIds, ends, keysLost>>

\* The process dies: a save in progress leaves the file as it is.
KeysCrash ==
    /\ saver' = [s \in Savers |-> NoSave]
    /\ UNCHANGED <<clock, keys, keyFile, keyIds, ends, keysLost>>

KeyNext ==
    \/ \E s \in Savers : Truncate(s) \/ Fill(s)
    \/ \E s \in Savers, k \in Keys :
          \/ \E u \in Users, from \in 0..MaxClock : IssueKey(s, k, u, from)
          \/ \E from \in 0..MaxClock : ScheduleKey(s, k, from)
          \/ \E g \in 1..MaxGen : UseKey(s, k, g)
          \/ RevokeKey(s, k) \/ RotateKey(s, k)
    \/ \E s \in Savers, u \in Users : SweepKeys(s, u)
    \/ KeysCrash
    \/ Tick /\ UNCHANGED keyVars
KeySpec == clock = 0 /\ KeyInit /\ [][KeyNext]_<<clock, keyVars>>

-----------------------------------------------------------------------------
(* Properties *)

Arrays == [Keys -> KeyType \cup {Nil}]

\* Every variable stays in its type.
KeysTypeOK ==
    /\ clock \in 0..MaxClock
    /\ keys \in Arrays
    /\ keyFile \in {"whole", "empty", "garbled"}
    /\ keyIds \subseteq Keys
    /\ saver \in [Savers -> [pc : {"idle", "save", "fill"}, array : Arrays \cup {Nil},
                             over : SUBSET SecretsOf(Keys), at : 0..(Never + Grace),
                             stale : BOOLEAN]]
    /\ ends \in [SecretsOf(Keys) -> 0..(Never + Grace)]
    /\ keysLost \in BOOLEAN

\* api-keys.ts: after a rotation "a leaked old secret stops working quickly", and a
\* revoked key at once.  Whatever calls came in between, no secret is accepted
\* that an answered revocation or rotation has ended, unless a save with an
\* array from before has replaced that change.
EndedSecretsFail ==
    ~keysLost => \A k \in Keys, g \in 1..MaxGen : clock >= ends[<<k, g>>] => ~Accepts(k, g)
=============================================================================
