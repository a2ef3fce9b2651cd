----------------------------- MODULE AnswerCache -----------------------------
(***************************************************************************)
(* The in-memory cache of answers in front of retrieval, and the corpus    *)
(* version its keys carry.                                                 *)
(*                                                                         *)
(* The version is the clock at the last bump.  Ingest, compact and forget  *)
(* bump it and clear the cache when they are done; the file watcher        *)
(* re-indexes and does neither.  The corpus is a generation number: what   *)
(* retrieval reads is the generation at that moment.                       *)
(***************************************************************************)
EXTENDS Naturals, SequencesExt

CONSTANTS
    CacheMax,    \* maxEntries
    AnswerTtl,   \* ttlMs
    MaxTime,     \* bound: the clock
    MaxCorpus    \* bound: changes of the index

ASSUME CacheAssumption == {CacheMax, AnswerTtl} \subseteq Nat \ {0} /\ {MaxTime, MaxCorpus} \subseteq Nat

VARIABLES
    now,       \* Date.now()
    cache,     \* the Map: entries, least recently used first
    version,   \* corpusVersion.value
    corpus,    \* generation of the index
    floor,     \* history: the generation at the last bump
    repeated   \* history: the last bump fell in the millisecond of the one before

cacheVars == <<cache, version, corpus, floor, repeated>>

\* The key leaves out the tag filters and the token budget of the query.
CacheKey(query, v) == <<query.question, v>>
Entry(key, answer, storedAt) == [key |-> key, answer |-> answer, storedAt |-> storedAt]

\* The Map has one entry under a key at most: its place, and the Map without it
PlaceOf(key) == CHOOSE i \in DOMAIN cache : cache[i].key = key
Without(key) ==
    IF \E i \in DOMAIN cache : cache[i].key = key THEN RemoveAt(cache, PlaceOf(key)) ELSE cache

CacheInit ==
    /\ now = 0 /\ version = 0
    /\ cache = <<>>
    /\ corpus = 0 /\ floor = 0
    /\ repeated = FALSE

\* The entries under the key that are young enough to be served
Served(key) == {e \in ToSet(cache) : e.key = key /\ now - e.storedAt <= AnswerTtl}

\* A hit moves its entry to the young end; a miss drops an expired one.
Get(key) ==
    cache' = IF Served(key) = {} THEN Without(key) ELSE Append(Without(key), cache[PlaceOf(key)])

\* (mutant) one entry too many is kept
SetPastCap(key, answer) ==
    LET filled == Append(Without(key), Entry(key, answer, now)) IN
    cache' = IF Len(filled) > CacheMax + 1 THEN Tail(filled) ELSE filled

\* The new entry goes to the young end, and the oldest makes room.
Set(key, answer) ==
    LET filled == Append(Without(key), Entry(key, answer, now)) IN
    cache' = IF Len(filled) > CacheMax THEN Tail(filled) ELSE filled

-----------------------------------------------------------------------------
\* A watcher, or an operation that has not finished, changes the index.
Reindex ==
    /\ corpus < MaxCorpus
    /\ corpus' = corpus + 1
    /\ UNCHANGED <<now, cache, version, floor, repeated>>

\* An ingest, compact or forget is done.
Bump ==
    /\ version' = now
    /\ cache' = <<>>
    /\ floor' = corpus
    /\ repeated' = (now = version)
    /\ UNCHANGED <<now, corpus>>

\* POST /v1/ask/cache/clear
ClearCache ==
    /\ cache # <<>>
    /\ cache' = <<>>
    /\ UNCHANGED <<now, version, corpus, floor, repeated>>
=============================================================================
