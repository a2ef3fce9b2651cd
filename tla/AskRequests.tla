----------------------------- MODULE AskRequests -----------------------------
(***************************************************************************)
(* POST /v1/ask behind the Idempotency-Key middleware.                     *)
(*                                                                         *)
(* A preHandler looks the key up in idempotency.json: a live record is     *)
(* replayed, or is a conflict when the body differs.  Otherwise the        *)
(* handler answers, from AnswerCache or by retrieval and the model, and an *)
(* onSend hook records a 2xx answer before it is sent.  The record is a    *)
(* read and a write of the whole file with nothing held in between.  A     *)
(* request without a key skips both hooks and is not modelled: it does     *)
(* nothing to the cache that a request with a key does not do.             *)
(***************************************************************************)
EXTENDS AnswerCache, FiniteSets

CONSTANTS
    Calls,       \* requests alive at once
    Keys,        \* (actor, Idempotency-Key) pairs
    Queries,     \* request bodies: [question, filter]
    MaxEntries,  \* MAX_ENTRIES
    KeyTtl,      \* IDEMPOTENCY_TTL_MS
    Nil

ASSUME RegistryAssumption == {MaxEntries, KeyTtl} \subseteq Nat \ {0} /\ Nil \notin Keys

VARIABLES
    registry,   \* idempotency.json: records in the order they were pushed
    call,       \* each request's place, or Nil
    copy,       \* the registry each request has read to record its answer
    promised,   \* history: when each key's latest record was made
    dropped,    \* history: keys whose live record the cap has pushed out
    clobbered   \* history: a write has replaced a registry its writer had not read

registryVars == <<registry, copy, promised, dropped, clobbered>>
vars == <<now, call, cacheVars, registryVars>>

Request(key, query, at, v, answer, step) ==
    [key |-> key, query |-> query, at |-> at, version |-> v, answer |-> answer, step |-> step]
Record(key, query, answer, createdAt) ==
    [key |-> key, query |-> query, answer |-> answer, createdAt |-> createdAt]

At(c, step) == call[c] # Nil /\ call[c].step = step
Move(c, at, v, answer, step) ==
    call' = [call EXCEPT ![c] = Request(@.key, @.query, at, v, answer, step)]
Return(c) == call' = [call EXCEPT ![c] = Nil]

Live(r, t) == t < r.createdAt + KeyTtl

\* pruneAndCap.  Records are pushed in the order of createdAt, so the oldest are
\* first; the n-th that is kept is the one with n of them up to it.
Alive(entries, t) == {i \in DOMAIN entries : Live(entries[i], t)}
Kept(entries, t) ==
    {i \in Alive(entries, t) : Cardinality({j \in Alive(entries, t) : j > i}) < MaxEntries}
UpTo(places, i) == {j \in places : j <= i}
Pruned(entries, t) ==
    LET kept == Kept(entries, t) IN
    [n \in 1..Cardinality(kept) |->
        entries[CHOOSE i \in kept : Cardinality(UpTo(kept, i)) = n]]

Init ==
    /\ CacheInit
    /\ call = [c \in Calls |-> Nil]
    /\ copy = [c \in Calls |-> Nil]
    /\ registry = <<>>
    /\ promised = [k \in Keys |-> Nil]
    /\ dropped = {}
    /\ clobbered = FALSE

-----------------------------------------------------------------------------
(* The middleware's lookup.                                                *)

Arrive(c) ==
    /\ call[c] = Nil
    /\ \E key \in Keys, query \in Queries :
        call' = [call EXCEPT ![c] = Request(key, query, now, 0, 0, "lookup")]
    /\ UNCHANGED <<now, cacheVars, registryVars>>

\* (mutant) a record with another body is no match
MatchesBody(k) == {r \in ToSet(registry) : r.key = k.key /\ Live(r, k.at) /\ r.query = k.query}

\* The record that request k finds, aged from the request's arrival
Matches(k) == {r \in ToSet(registry) : r.key = k.key /\ Live(r, k.at)}

\* A match ends the request, with a replay or with a 409.
Lookup(c) ==
    /\ At(c, "lookup")
    /\ IF Matches(call[c]) = {} THEN Move(c, 0, 0, 0, "handler") ELSE Return(c)
    /\ UNCHANGED <<now, cacheVars, registryVars>>

-----------------------------------------------------------------------------
(* The handler.                                                            *)

AskCache(c) ==
    /\ At(c, "handler")
    /\ LET key == CacheKey(call[c].query, version) IN
        /\ Get(key)
        /\ \/ Served(key) = {} /\ Move(c, 0, version, 0, "retrieve")
           \/ \E e \in Served(key) : Move(c, 0, 0, e.answer, "respond")
    /\ UNCHANGED <<now, version, corpus, floor, repeated, registryVars>>

Retrieve(c) ==
    /\ At(c, "retrieve")
    /\ Move(c, 0, call[c].version, corpus, "answer")
    /\ UNCHANGED <<now, cacheVars, registryVars>>

\* (mutant) the answer is stored under the version of the moment
StoreAnswerNow(c) ==
    /\ At(c, "answer")
    /\ Set(CacheKey(call[c].query, version), call[c].answer)
    /\ Move(c, 0, 0, call[c].answer, "respond")
    /\ UNCHANGED <<now, version, corpus, floor, repeated, registryVars>>

\* The model has answered and the gates let the answer through.
StoreAnswer(c) ==
    /\ At(c, "answer")
    /\ Set(CacheKey(call[c].query, call[c].version), call[c].answer)
    /\ Move(c, 0, 0, call[c].answer, "respond")
    /\ UNCHANGED <<now, version, corpus, floor, repeated, registryVars>>

\* A gate refuses before or after, or the model fails: not a 2xx, so not recorded.
Refuse(c) ==
    /\ At(c, "handler") \/ At(c, "answer")
    /\ Return(c)
    /\ UNCHANGED <<now, cacheVars, registryVars>>

-----------------------------------------------------------------------------
(* onSend: record, then send.                                              *)

\* The records that keep request k from recording, expired ones included
Duplicates(k) == {r \in ToSet(registry) : r.key = k.key}

ReadRegistry(c) ==
    /\ At(c, "respond")
    /\ IF Duplicates(call[c]) # {}
       THEN /\ Return(c)
            /\ UNCHANGED copy
       ELSE /\ copy' = [copy EXCEPT ![c] = registry]
            /\ Move(c, now, 0, call[c].answer, "save")
    /\ UNCHANGED <<now, cacheVars, registry, promised, dropped, clobbered>>

\* The registry request k writes, having read l
Pushed(k, l) == Append(l, Record(k.key, k.query, k.answer, k.at))
Written(k, l) == Pruned(Pushed(k, l), k.at)

\* The keys of the live records of l that the cap leaves no room for
PushedOut(k, l) ==
    {Pushed(k, l)[i].key : i \in Alive(Pushed(k, l), k.at) \ Kept(Pushed(k, l), k.at)}

SaveRegistry(c) ==
    /\ At(c, "save")
    /\ registry' = Written(call[c], copy[c])
    /\ promised' = [promised EXCEPT ![call[c].key] = call[c].at]
    /\ dropped' = (dropped \union PushedOut(call[c], copy[c])) \ {call[c].key}
    /\ clobbered' = (clobbered \/ copy[c] # registry)
    /\ copy' = [copy EXCEPT ![c] = Nil]
    /\ Return(c)
    /\ UNCHANGED <<now, cacheVars>>

\* A failed write is logged and the answer sent all the same.
SaveFails(c) ==
    /\ At(c, "save")
    /\ copy' = [copy EXCEPT ![c] = Nil]
    /\ Return(c)
    /\ UNCHANGED <<now, cacheVars, registry, promised, dropped, clobbered>>

-----------------------------------------------------------------------------
Tick ==
    /\ now < MaxTime
    /\ now' = now + 1
    /\ UNCHANGED <<call, cacheVars, registryVars>>

\* The process starts again: the cache is empty and the version is the new start time.
Restart ==
    /\ call' = [c \in Calls |-> Nil]
    /\ copy' = [c \in Calls |-> Nil]
    /\ Bump
    /\ UNCHANGED <<registry, promised, dropped, clobbered>>

Corpus == (Reindex \/ Bump \/ ClearCache) /\ UNCHANGED <<call, registryVars>>

Serve(c) ==
    \/ Arrive(c) \/ Lookup(c)
    \/ AskCache(c) \/ Retrieve(c) \/ StoreAnswer(c) \/ Refuse(c)
    \/ ReadRegistry(c) \/ SaveRegistry(c) \/ SaveFails(c)

Next == Tick \/ Restart \/ Corpus \/ \E c \in Calls : Serve(c)

Spec == Init /\ [][Next]_vars

-----------------------------------------------------------------------------
Records == [key : Keys, query : Queries, answer : 0..MaxCorpus, createdAt : 0..MaxTime]

\* The type invariant; neither store outgrows its cap.
TypeOK ==
    /\ now \in 0..MaxTime /\ version \in 0..MaxTime
    /\ floor \in 0..corpus /\ corpus \in 0..MaxCorpus
    /\ \A e \in ToSet(cache) : e.answer \in 0..MaxCorpus /\ e.storedAt \in 0..MaxTime
    /\ Len(cache) <= CacheMax
    /\ ToSet(registry) \subseteq Records
    /\ Len(registry) <= MaxEntries
    /\ \A c \in Calls : copy[c] # Nil => ToSet(copy[c]) \subseteq Records
    /\ \A c \in Calls : call[c] # Nil =>
         call[c] \in [key : Keys, query : Queries, at : 0..MaxTime,
                      version : 0..MaxTime, answer : 0..MaxCorpus,
                      step : {"lookup", "handler", "retrieve", "answer", "respond", "save"}]

\* A cached answer that can still be found was read from an index that held all
\* the last ingest, compact or forget had done, however long the model took and
\* whatever finished meanwhile (answer-cache.ts:6-10).  Two bumps in one
\* millisecond share a version, and then it need not be.
CacheIsCurrent ==
    ~repeated => \A e \in ToSet(cache) : e.key[2] = version => e.answer >= floor

\* While a record lives, its key has no other answer to replay (idempotency.ts:151);
\* and once a request has recorded its answer, no request that looks the same key
\* up within KeyTtl runs, whatever its body (features.md:929).  Unless overlapping
\* writes replaced one another or the cap pushed the record out.
KeyHasOneAnswer ==
    [][/\ \A r \in ToSet(registry) :
            Live(r, now) => clobbered' \/ \A s \in ToSet(registry') : s.key = r.key => s = r
       /\ \A c \in Calls :
            At(c, "lookup") /\ At(c, "handler")' /\ promised[call[c].key] # Nil
              /\ now < promised[call[c].key] + KeyTtl
            => clobbered \/ call[c].key \in dropped]_vars
=============================================================================
