-------------------------- MODULE AskRequests_proofs --------------------------
(***************************************************************************)
(* Proofs about AskRequests, for any number of requests, keys and queries, *)
(* any size of the cache and any bounds: an answer that can be found in    *)
(* the cache was read from an index that held what the last bump made      *)
(* final, the cache and the registry keep their types and their sizes, and *)
(* a key that has been given an answer replays that one.                   *)
(*                                                                         *)
(* The cache alone does not say how old its answers are: one enters it     *)
(* long after its version and its sources were read.  Inv therefore        *)
(* follows both through the request: a version is never above that of the  *)
(* moment, and an answer under that version was read after the bump that   *)
(* gave it.  Nor does the registry say what a request will write over it:  *)
(* RegInv follows the copy the request has read, and the records that were *)
(* promised.                                                               *)
(***************************************************************************)
EXTENDS AskRequests, SequenceTheorems, FiniteSetTheorems, WellFoundedInduction, TLAPS

ClockInv ==
    /\ now \in Nat /\ version \in Nat /\ version <= now
    /\ corpus \in Nat /\ floor \in Nat /\ floor <= corpus
    /\ repeated \in BOOLEAN
    /\ \E T : cache \in Seq(T)

\* The version and answer, of an entry or a request, are no older than they say.
Sound(v, answer) ==
    /\ v \in Nat /\ v <= version
    /\ answer \in Nat
    /\ ~repeated /\ v = version => answer >= floor

CacheInv ==
    /\ \A i \in DOMAIN cache : Sound(cache[i].key[2], cache[i].answer)
    /\ Len(cache) <= CacheMax

CallInv ==
    \A c \in Calls :
        /\ At(c, "retrieve") => call[c].version \in Nat /\ call[c].version <= version
        /\ At(c, "answer") => Sound(call[c].version, call[c].answer)

CallType == \E T : call \in [Calls -> T]

Inv == ClockInv /\ CacheInv /\ CallInv /\ CallType

-----------------------------------------------------------------------------
(* The cache                                                               *)

LEMMA Assumptions == CacheMax \in Nat /\ CacheMax >= 1
  BY CacheAssumption

\* One position less, and nothing that was not there.
LEMMA Removed ==
    ASSUME NEW T, NEW q \in Seq(T), NEW i \in DOMAIN q
    PROVE  /\ RemoveAt(q, i) \in Seq(T) /\ Len(RemoveAt(q, i)) = Len(q) - 1
           /\ \A j \in DOMAIN RemoveAt(q, i) : \E k \in DOMAIN q : RemoveAt(q, i)[j] = q[k]
  <1>1. Len(q) \in Nat /\ i \in 1..Len(q) /\ DOMAIN q = 1..Len(q)
    OBVIOUS
  <1> DEFINE a == SubSeq(q, 1, i - 1)
             b == SubSeq(q, i + 1, Len(q))
  <1>2. /\ a \in Seq(T) /\ Len(a) = i - 1
        /\ \A j \in 1..(i - 1) : a[j] = q[j]
    BY <1>1
  <1>3. /\ b \in Seq(T) /\ Len(b) = Len(q) - i
        /\ \A j \in 1..(Len(q) - i) : b[j] = q[i + j]
    BY <1>1
  <1> HIDE DEF a, b
  <1>4. /\ a \o b \in Seq(T) /\ Len(a \o b) = Len(q) - 1
        /\ \A j \in 1..(Len(q) - 1) : (a \o b)[j] = IF j <= i - 1 THEN a[j] ELSE b[j - (i - 1)]
    <2>1. /\ a \o b \in Seq(T) /\ Len(a \o b) = Len(a) + Len(b)
          /\ \A j \in 1..(Len(a) + Len(b)) :
               (a \o b)[j] = IF j <= Len(a) THEN a[j] ELSE b[j - Len(a)]
      BY <1>2, <1>3, ConcatProperties
    <2>2. Len(a) + Len(b) = Len(q) - 1
      BY <1>1, <1>2, <1>3
    <2> QED
      BY <1>2, <2>1, <2>2
  <1> DEFINE r == a \o b
  <1>5. /\ r \in Seq(T) /\ Len(r) = Len(q) - 1
        /\ \A j \in 1..(Len(q) - 1) : r[j] = IF j <= i - 1 THEN a[j] ELSE b[j - (i - 1)]
    BY <1>4
  <1>6. r = RemoveAt(q, i)
    BY DEF RemoveAt, a, b
  <1> HIDE DEF r
  <1>7. DOMAIN r = 1..(Len(q) - 1)
    BY <1>1, <1>5
  <1>8. ASSUME NEW j \in 1..(Len(q) - 1)
        PROVE  \E k \in DOMAIN q : r[j] = q[k]
    <2>1. CASE j <= i - 1
      <3>1. j \in 1..(i - 1) /\ j \in DOMAIN q
        BY <1>1, <2>1
      <3>2. r[j] = a[j]
        BY <1>5, <2>1
      <3>3. a[j] = q[j]
        BY <1>2, <3>1
      <3> QED
        BY <3>1, <3>2, <3>3
    <2>2. CASE ~(j <= i - 1)
      <3>1. j - (i - 1) \in 1..(Len(q) - i) /\ i + (j - (i - 1)) \in DOMAIN q
        BY <1>1, <2>2
      <3> QED
        BY <1>3, <1>5, <2>2, <3>1
    <2> QED
      BY <2>1, <2>2
  <1> QED
    BY <1>5, <1>6, <1>7, <1>8

\* The Map without a key holds nothing that it did not hold.
LEMMA WithoutKey ==
    ASSUME NEW T, cache \in Seq(T), NEW key
    PROVE  /\ Without(key) \in Seq(T) /\ Len(Without(key)) \in Nat
           /\ Len(Without(key)) <= Len(cache)
           /\ (\E i \in DOMAIN cache : cache[i].key = key) =>
                PlaceOf(key) \in DOMAIN cache /\ Len(Without(key)) = Len(cache) - 1
           /\ \A j \in DOMAIN Without(key) : \E k \in DOMAIN cache : Without(key)[j] = cache[k]
  <1>1. CASE \E i \in DOMAIN cache : cache[i].key = key
    <2>1. PlaceOf(key) \in DOMAIN cache
      BY <1>1 DEF PlaceOf
    <2>2. Without(key) = RemoveAt(cache, PlaceOf(key))
      BY <1>1 DEF Without
    <2> HIDE DEF PlaceOf
    <2> QED
      BY <2>1, <2>2, Removed
  <1>2. CASE ~ \E i \in DOMAIN cache : cache[i].key = key
    BY <1>2 DEF Without
  <1> QED
    BY <1>1, <1>2

LEMMA Appended ==
    ASSUME NEW T, NEW q \in Seq(T), NEW e \in T
    PROVE  /\ Append(q, e) \in Seq(T) /\ Len(Append(q, e)) = Len(q) + 1
           /\ DOMAIN Append(q, e) = 1..(Len(q) + 1) /\ DOMAIN q = 1..Len(q)
           /\ \A j \in DOMAIN Append(q, e) :
                Append(q, e)[j] = e \/ (\E k \in DOMAIN q : Append(q, e)[j] = q[k])
  OBVIOUS

LEMMA Shorter ==
    ASSUME NEW T, NEW q \in Seq(T), q # <<>>
    PROVE  /\ Tail(q) \in Seq(T) /\ Len(Tail(q)) = Len(q) - 1
           /\ \A j \in DOMAIN Tail(q) : \E k \in DOMAIN q : Tail(q)[j] = q[k]
  OBVIOUS

\* A get keeps what the cache holds, or part of it.
LEMMA GetKeeps ==
    ASSUME ClockInv, CacheInv, NEW key, Get(key)
    PROVE  /\ \E T : cache' \in Seq(T)
           /\ Len(cache') <= CacheMax
           /\ \A j \in DOMAIN cache' : \E k \in DOMAIN cache : cache'[j] = cache[k]
  <1>1. PICK T : cache \in Seq(T)
    BY DEF ClockInv
  <1>2. Len(cache) \in Nat /\ Len(cache) <= CacheMax /\ CacheMax \in Nat
    BY <1>1, Assumptions DEF CacheInv
  <1>3. CASE Served(key) = {}
    <2>1. cache' = Without(key)
      BY <1>3 DEF Get
    <2> QED
      BY <1>1, <1>2, <2>1, WithoutKey
  <1>4. CASE Served(key) # {}
    <2>1. \E i \in DOMAIN cache : cache[i].key = key
      BY <1>4 DEF Served, ToSet
    <2>2. /\ PlaceOf(key) \in DOMAIN cache /\ Len(Without(key)) = Len(cache) - 1
          /\ Without(key) \in Seq(T)
          /\ \A j \in DOMAIN Without(key) : \E k \in DOMAIN cache : Without(key)[j] = cache[k]
      BY <1>1, <2>1, WithoutKey
    <2> DEFINE w == Without(key)
               e == cache[PlaceOf(key)]
    <2>3. cache' = Append(w, e) /\ e \in T
      BY <1>1, <1>4, <2>2 DEF Get
    <2> HIDE DEF w, e
    <2>4. w \in Seq(T)
      BY <2>2 DEF w
    <2>5. /\ cache' \in Seq(T) /\ Len(cache') = Len(w) + 1
          /\ \A j \in DOMAIN cache' : cache'[j] = e \/ (\E k \in DOMAIN w : cache'[j] = w[k])
      BY <2>3, <2>4, Appended
    <2>6. Len(cache') <= CacheMax
      BY <1>2, <2>2, <2>5 DEF w
    <2>7. \A j \in DOMAIN cache' : \E k \in DOMAIN cache : cache'[j] = cache[k]
      BY <2>2, <2>5 DEF w, e
    <2> QED
      BY <2>5, <2>6, <2>7
  <1> QED
    BY <1>3, <1>4

\* A set adds its entry, and keeps what the cache holds or part of it.
LEMMA SetKeeps ==
    ASSUME ClockInv, CacheInv, NEW key, NEW answer, Set(key, answer)
    PROVE  /\ \E T : cache' \in Seq(T)
           /\ Len(cache') <= CacheMax
           /\ \A j \in DOMAIN cache' :
                \/ cache'[j] = Entry(key, answer, now)
                \/ \E k \in DOMAIN cache : cache'[j] = cache[k]
  <1>1. PICK T0 : cache \in Seq(T0)
    BY DEF ClockInv
  <1> DEFINE e == Entry(key, answer, now)
             T == T0 \cup {e}
             w == Without(key)
             filled == Append(w, e)
  <1>2. cache \in Seq(T) /\ e \in T
    BY <1>1
  <1> HIDE DEF e, T
  <1>3. /\ w \in Seq(T) /\ Len(w) \in Nat /\ Len(w) <= Len(cache)
        /\ \A j \in DOMAIN w : \E k \in DOMAIN cache : w[j] = cache[k]
    BY <1>2, WithoutKey
  <1>4. Len(w) <= CacheMax /\ CacheMax \in Nat /\ CacheMax >= 1
    <2>1. Len(cache) \in Nat /\ Len(cache) <= CacheMax
      BY <1>2 DEF CacheInv
    <2> QED
      BY <1>3, <2>1, Assumptions
  <1>5. cache' = IF Len(filled) > CacheMax THEN Tail(filled) ELSE filled
    BY DEF Set, e
  <1> HIDE DEF w
  <1>6. /\ filled \in Seq(T) /\ Len(filled) = Len(w) + 1
        /\ \A j \in DOMAIN filled : filled[j] = e \/ (\E k \in DOMAIN w : filled[j] = w[k])
    BY <1>2, <1>3, Appended
  <1> HIDE DEF filled
  <1>7. \A j \in DOMAIN filled : filled[j] = e \/ (\E k \in DOMAIN cache : filled[j] = cache[k])
    BY <1>3, <1>6
  <1>8. CASE Len(filled) > CacheMax
    <2>1. filled # <<>> /\ cache' = Tail(filled)
      BY <1>3, <1>5, <1>6, <1>8
    <2>2. /\ cache' \in Seq(T) /\ Len(cache') = Len(filled) - 1
          /\ \A j \in DOMAIN cache' : \E k \in DOMAIN filled : cache'[j] = filled[k]
      BY <1>6, <2>1, Shorter
    <2>3. Len(cache') <= CacheMax
      BY <1>3, <1>4, <1>6, <2>2
    <2> QED
      BY <1>7, <2>2, <2>3 DEF e
  <1>9. CASE ~(Len(filled) > CacheMax)
    <2>1. cache' = filled /\ Len(filled) <= CacheMax
      BY <1>3, <1>4, <1>5, <1>6, <1>9
    <2> QED
      BY <1>6, <1>7, <2>1 DEF e
  <1> QED
    BY <1>8, <1>9

-----------------------------------------------------------------------------
(* The requests                                                            *)

LEMMA Fields ==
    ASSUME NEW k, NEW q, NEW a, NEW v, NEW r, NEW s
    PROVE  LET R == Request(k, q, a, v, r, s) IN
           R.step = s /\ R.version = v /\ R.answer = r
  BY DEF Request

LEMMA EntryFields ==
    ASSUME NEW query, NEW v, NEW answer, NEW t
    PROVE  /\ CacheKey(query, v)[2] = v
           /\ Entry(CacheKey(query, v), answer, t).key = CacheKey(query, v)
           /\ Entry(CacheKey(query, v), answer, t).answer = answer
  BY DEF CacheKey, Entry

\* A request that moves keeps the others where they are.
LEMMA Moved ==
    ASSUME CallType, NEW c \in Calls, NEW a, NEW v, NEW r, NEW s, Move(c, a, v, r, s)
    PROVE  /\ CallType'
           /\ call'[c].step = s /\ call'[c].version = v /\ call'[c].answer = r
           /\ \A d \in Calls \ {c} : call'[d] = call[d]
  <1>1. PICK T : call \in [Calls -> T]
    BY DEF CallType
  <1> DEFINE R == Request(call[c].key, call[c].query, a, v, r, s)
  <1>2. call' = [call EXCEPT ![c] = R]
    BY DEF Move
  <1>3. R.step = s /\ R.version = v /\ R.answer = r
    BY Fields
  <1> HIDE DEF R
  <1>4. call' \in [Calls -> T \cup {R}] /\ call'[c] = R /\ (\A d \in Calls \ {c} : call'[d] = call[d])
    BY <1>1, <1>2
  <1> QED
    BY <1>3, <1>4 DEF CallType

LEMMA Returned ==
    ASSUME CallType, NEW c \in Calls, Return(c)
    PROVE  CallType' /\ call'[c] = Nil /\ (\A d \in Calls \ {c} : call'[d] = call[d])
  <1>1. PICK T : call \in [Calls -> T]
    BY DEF CallType
  <1>2. /\ call' \in [Calls -> T \cup {Nil}] /\ call'[c] = Nil
        /\ \A d \in Calls \ {c} : call'[d] = call[d]
    BY <1>1 DEF Return
  <1> QED
    BY <1>2 DEF CallType

\* While version and floor stay, so does what is sound.
LEMMA StillSound ==
    ASSUME UNCHANGED <<version, floor, repeated>>, NEW v, NEW a
    PROVE  Sound(v, a)' <=> Sound(v, a)
  BY DEF Sound

\* The other requests say what they said.
LEMMA OthersKeep ==
    ASSUME CallInv, UNCHANGED <<version, floor, repeated>>, NEW d \in Calls, call'[d] = call[d]
    PROVE  /\ At(d, "retrieve")' => call'[d].version \in Nat /\ call'[d].version <= version'
           /\ At(d, "answer")' => Sound(call[d].version, call[d].answer)'
  BY DEF CallInv, At, Sound

-----------------------------------------------------------------------------
(* The steps                                                               *)

\* The clock, the corpus and the cache as they were, and one request moved or gone.
QuietMove(c) ==
    /\ UNCHANGED <<now, cache, version, corpus, floor, repeated>>
    /\ CallType'
    /\ \A d \in Calls \ {c} : call'[d] = call[d]
    /\ At(c, "retrieve")' => call'[c].version \in Nat /\ call'[c].version <= version'
    /\ At(c, "answer")' => Sound(call[c].version, call[c].answer)'

LEMMA QuietMoves ==
    ASSUME Inv, NEW c \in Calls, QuietMove(c)
    PROVE  Inv'
  <1>1. ClockInv' /\ CacheInv'
    BY DEF Inv, QuietMove, ClockInv, CacheInv, Sound
  <1>2. UNCHANGED <<version, floor, repeated>> /\ CallInv
    BY DEF Inv, QuietMove
  <1>3. CallInv'
    <2>1. SUFFICES ASSUME NEW d \in Calls
                   PROVE  /\ At(d, "retrieve")' => call'[d].version \in Nat /\ call'[d].version <= version'
                          /\ At(d, "answer")' => Sound(call[d].version, call[d].answer)'
      BY DEF CallInv
    <2>2. CASE d = c
      BY <2>2 DEF QuietMove
    <2>3. CASE d # c
      <3>1. call'[d] = call[d]
        BY <2>3 DEF QuietMove
      <3> QED
        BY <1>2, <3>1, OthersKeep
    <2> QED
      BY <2>2, <2>3
  <1> QED
    BY <1>1, <1>3 DEF Inv, QuietMove

LEMMA GoneIsQuiet ==
    ASSUME Inv, NEW c \in Calls, Return(c),
           UNCHANGED <<now, cache, version, corpus, floor, repeated>>
    PROVE  QuietMove(c)
  BY Returned DEF Inv, QuietMove, At

LEMMA MoveIsQuiet ==
    ASSUME Inv, NEW c \in Calls, NEW a, NEW v, NEW r, NEW s, Move(c, a, v, r, s),
           UNCHANGED <<now, cache, version, corpus, floor, repeated>>,
           s = "retrieve" => v \in Nat /\ v <= version,
           s = "answer" => Sound(v, r)
    PROVE  QuietMove(c)
  <1>1. /\ CallType'
        /\ call'[c].step = s /\ call'[c].version = v /\ call'[c].answer = r
        /\ \A d \in Calls \ {c} : call'[d] = call[d]
    BY Moved DEF Inv
  <1>2. Sound(v, r)' <=> Sound(v, r)
    BY StillSound
  <1> QED
    BY <1>1, <1>2 DEF QuietMove, At, Sound

\* What the registry does is nothing to the cache.
LEMMA RegistrySteps ==
    ASSUME Inv, NEW c \in Calls,
           Arrive(c) \/ Lookup(c) \/ Refuse(c) \/ ReadRegistry(c) \/ SaveRegistry(c) \/ SaveFails(c)
    PROVE  Inv'
  <1>1. UNCHANGED <<now, cache, version, corpus, floor, repeated>>
    BY DEF Arrive, Lookup, Refuse, ReadRegistry, SaveRegistry, SaveFails, cacheVars
  <1>2. CASE Return(c)
    BY <1>1, <1>2, GoneIsQuiet, QuietMoves
  <1>3. CASE \E a, r, s : Move(c, a, 0, r, s) /\ s \notin {"retrieve", "answer"}
    <2>1. PICK a, r, s : Move(c, a, 0, r, s) /\ s \notin {"retrieve", "answer"}
      BY <1>3
    <2>2. QuietMove(c)
      BY <1>1, <2>1, MoveIsQuiet
    <2> QED
      BY <2>2, QuietMoves
  <1>4. CASE Arrive(c)
    <2>1. PICK key, query : call' = [call EXCEPT ![c] = Request(key, query, now, 0, 0, "lookup")]
      BY <1>4 DEF Arrive
    <2>2. PICK T : call \in [Calls -> T]
      BY DEF Inv, CallType
    <2> DEFINE R == Request(key, query, now, 0, 0, "lookup")
    <2>3. R.step = "lookup"
      BY DEF Request
    <2> HIDE DEF R
    <2>4. /\ call' \in [Calls -> T \cup {R}] /\ call'[c] = R
          /\ \A d \in Calls \ {c} : call'[d] = call[d]
      BY <2>1, <2>2 DEF R
    <2>5. QuietMove(c)
      BY <1>1, <2>3, <2>4 DEF QuietMove, CallType, At
    <2> QED
      BY <2>5, QuietMoves
  <1>5. \/ Return(c)
        \/ \E a, r, s : Move(c, a, 0, r, s) /\ s \notin {"retrieve", "answer"}
        \/ Arrive(c)
    <2>1. CASE Lookup(c)
      BY <2>1 DEF Lookup
    <2>2. CASE ReadRegistry(c)
      BY <2>2 DEF ReadRegistry
    <2> QED
      BY <2>1, <2>2 DEF Refuse, SaveRegistry, SaveFails
  <1> QED
    BY <1>2, <1>3, <1>4, <1>5

LEMMA RetrieveStep ==
    ASSUME Inv, NEW c \in Calls, Retrieve(c)
    PROVE  Inv'
  <1>1. /\ At(c, "retrieve") /\ Move(c, 0, call[c].version, corpus, "answer")
        /\ UNCHANGED <<now, cache, version, corpus, floor, repeated>>
    BY DEF Retrieve, cacheVars
  <1>2. Sound(call[c].version, corpus)
    BY <1>1 DEF Inv, CallInv, ClockInv, Sound
  <1>3. QuietMove(c)
    BY <1>1, <1>2, MoveIsQuiet
  <1> QED
    BY <1>3, QuietMoves

\* A hit or a miss: the cache may shrink, and the request takes the version along.
LEMMA AskCacheStep ==
    ASSUME Inv, NEW c \in Calls, AskCache(c)
    PROVE  Inv'
  <1>1. PICK key : Get(key)
    BY DEF AskCache
  <1>2. UNCHANGED <<now, version, corpus, floor, repeated>>
    BY DEF AskCache
  <1>3. ClockInv' /\ CacheInv'
    <2>1. /\ \E T : cache' \in Seq(T)
          /\ Len(cache') <= CacheMax
          /\ \A j \in DOMAIN cache' : \E k \in DOMAIN cache : cache'[j] = cache[k]
      BY <1>1, GetKeeps DEF Inv
    <2> QED
      BY <1>2, <2>1 DEF Inv, ClockInv, CacheInv, Sound
  <1>4. \E v, r, s : /\ Move(c, 0, v, r, s) /\ s # "answer"
                     /\ s = "retrieve" => v = version
    BY DEF AskCache
  <1>5. PICK v, r, s : /\ Move(c, 0, v, r, s) /\ s # "answer"
                       /\ s = "retrieve" => v = version
    BY <1>4
  <1>6. /\ CallType'
        /\ call'[c].step = s /\ call'[c].version = v
        /\ \A d \in Calls \ {c} : call'[d] = call[d]
    BY <1>5, Moved DEF Inv
  <1>7. CallInv'
    <2>1. SUFFICES ASSUME NEW d \in Calls
                   PROVE  /\ At(d, "retrieve")' => call'[d].version \in Nat /\ call'[d].version <= version'
                          /\ At(d, "answer")' => Sound(call[d].version, call[d].answer)'
      BY DEF CallInv
    <2>2. CASE d = c
      BY <1>2, <1>5, <1>6, <2>2 DEF At, Inv, ClockInv
    <2>3. CASE d # c
      BY <1>2, <1>6, <2>3, OthersKeep DEF Inv
    <2> QED
      BY <2>2, <2>3
  <1> QED
    BY <1>3, <1>6, <1>7 DEF Inv

\* The answer goes in under the version it was read for.
LEMMA StoreStep ==
    ASSUME Inv, NEW c \in Calls, StoreAnswer(c)
    PROVE  Inv'
  <1> DEFINE v == call[c].version
             a == call[c].answer
             key == CacheKey(call[c].query, v)
             e == Entry(key, a, now)
  <1>1. /\ At(c, "answer") /\ Set(key, a) /\ Move(c, 0, 0, a, "respond")
        /\ UNCHANGED <<now, version, corpus, floor, repeated>>
    BY DEF StoreAnswer
  <1>2. Sound(v, a)
    BY <1>1 DEF Inv, CallInv
  <1>3. e.key[2] = v /\ e.answer = a
    BY EntryFields
  <1> HIDE DEF v, a, key, e
  <1>4. /\ \E T : cache' \in Seq(T)
        /\ Len(cache') <= CacheMax
        /\ \A j \in DOMAIN cache' :
             cache'[j] = e \/ (\E k \in DOMAIN cache : cache'[j] = cache[k])
    BY <1>1, SetKeeps DEF Inv, e
  <1>5. \A i \in DOMAIN cache' : Sound(cache'[i].key[2], cache'[i].answer)
    BY <1>2, <1>3, <1>4 DEF Inv, CacheInv
  <1>6. ClockInv' /\ CacheInv'
    BY <1>1, <1>4, <1>5 DEF Inv, ClockInv, CacheInv, Sound
  <1>7. /\ CallType' /\ call'[c].step = "respond"
        /\ \A d \in Calls \ {c} : call'[d] = call[d]
    BY <1>1, Moved DEF Inv
  <1>8. CallInv'
    <2>1. SUFFICES ASSUME NEW d \in Calls
                   PROVE  /\ At(d, "retrieve")' => call'[d].version \in Nat /\ call'[d].version <= version'
                          /\ At(d, "answer")' => Sound(call[d].version, call[d].answer)'
      BY DEF CallInv
    <2>2. CASE d = c
      BY <1>7, <2>2 DEF At
    <2>3. CASE d # c
      BY <1>1, <1>7, <2>3, OthersKeep DEF Inv
    <2> QED
      BY <2>2, <2>3
  <1> QED
    BY <1>6, <1>7, <1>8 DEF Inv

\* A bump in a later millisecond leaves nothing under its version.
LEMMA Bumped ==
    ASSUME Inv, Bump
    PROVE  ClockInv' /\ CacheInv' /\ (\A w, x : Sound(w, x) => Sound(w, x)')
  <1>1. /\ version' = now /\ cache' = <<>> /\ floor' = corpus
        /\ repeated' = (now = version) /\ UNCHANGED <<now, corpus>>
    BY DEF Bump
  <1>2. /\ now \in Nat /\ version \in Nat /\ version <= now /\ corpus \in Nat
    BY DEF Inv, ClockInv
  <1>3. cache' \in Seq({}) /\ DOMAIN cache' = {} /\ Len(cache') = 0
    BY <1>1
  <1>4. ClockInv'
    BY <1>1, <1>2, <1>3 DEF ClockInv
  <1>5. CacheInv'
    BY <1>3, Assumptions DEF CacheInv
  <1>6. ASSUME NEW w, NEW x, Sound(w, x) PROVE Sound(w, x)'
    <2>1. w \in Nat /\ w <= version /\ x \in Nat
      BY <1>6 DEF Sound
    <2>2. ~(~repeated' /\ w = version')
      <3>1. now = version => repeated'
        BY <1>1
      <3>2. w = version' => now = version
        BY <1>1, <1>2, <2>1
      <3> QED
        BY <3>1, <3>2
    <2>3. w <= version'
      BY <1>1, <1>2, <2>1
    <2> QED
      BY <2>1, <2>2, <2>3 DEF Sound
  <1> QED
    BY <1>4, <1>5, <1>6

\* The clock moves on, or the index does.
LEMMA QuietAll ==
    ASSUME Inv, ClockInv', UNCHANGED <<call, cache, version, floor, repeated>>
    PROVE  Inv'
  <1>1. CacheInv'
    BY DEF Inv, CacheInv, Sound
  <1>2. CallInv'
    <2>1. SUFFICES ASSUME NEW d \in Calls
                   PROVE  /\ At(d, "retrieve")' => call'[d].version \in Nat /\ call'[d].version <= version'
                          /\ At(d, "answer")' => Sound(call[d].version, call[d].answer)'
      BY DEF CallInv
    <2> QED
      BY OthersKeep DEF Inv
  <1> QED
    BY <1>1, <1>2 DEF Inv, CallType

LEMMA CorpusSteps ==
    ASSUME Inv, Tick \/ Restart \/ Corpus
    PROVE  Inv'
  <1>1. CASE Tick
    <2>1. now' = now + 1 /\ UNCHANGED <<call, cache, version, corpus, floor, repeated>>
      BY <1>1 DEF Tick, cacheVars
    <2>2. ClockInv'
      BY <2>1 DEF Inv, ClockInv
    <2> QED
      BY <2>1, <2>2, QuietAll
  <1>2. CASE Restart
    <2>1. call' = [c \in Calls |-> Nil] /\ Bump
      BY <1>2 DEF Restart
    <2>2. call' \in [Calls -> {Nil}] /\ (\A c \in Calls : call'[c] = Nil)
      BY <2>1
    <2>3. CallInv' /\ CallType'
      BY <2>2 DEF CallInv, CallType, At
    <2> QED
      BY <2>1, <2>3, Bumped DEF Inv
  <1>3. CASE Reindex /\ UNCHANGED call
    <2>1. corpus' = corpus + 1 /\ UNCHANGED <<now, call, cache, version, floor, repeated>>
      BY <1>3 DEF Reindex
    <2>2. ClockInv'
      BY <2>1 DEF Inv, ClockInv
    <2> QED
      BY <2>1, <2>2, QuietAll
  <1>4. CASE Bump /\ UNCHANGED call
    <2>1. /\ ClockInv' /\ CacheInv' /\ (\A w, x : Sound(w, x) => Sound(w, x)')
      BY <1>4, Bumped
    <2>2. version' \in Nat /\ version \in Nat /\ version <= version'
      BY <1>4 DEF Bump, Inv, ClockInv
    <2>3. CallInv' /\ CallType'
      <3>1. SUFFICES ASSUME NEW d \in Calls
                     PROVE  /\ At(d, "retrieve")' => call'[d].version \in Nat /\ call'[d].version <= version'
                            /\ At(d, "answer")' => Sound(call[d].version, call[d].answer)'
        BY <1>4 DEF CallInv, CallType, Inv
      <3>2. /\ At(d, "retrieve") => call[d].version \in Nat /\ call[d].version <= version
            /\ At(d, "answer") => Sound(call[d].version, call[d].answer)
            /\ call' = call
        BY <1>4 DEF Inv, CallInv
      <3>3. At(d, "retrieve")' => call'[d].version \in Nat /\ call'[d].version <= version'
        BY <2>2, <3>2 DEF At
      <3>4. ASSUME At(d, "answer")' PROVE Sound(call[d].version, call[d].answer)'
        <4>1. Sound(call[d].version, call[d].answer)
          BY <3>2, <3>4 DEF At
        <4> DEFINE w == call[d].version
                   x == call[d].answer
        <4>2. call'[d].version = w /\ call'[d].answer = x
          BY <3>2
        <4> HIDE DEF w, x
        <4>3. w \in Nat /\ w <= version /\ x \in Nat
          BY <4>1 DEF Sound, w, x
        <4>4. version' = now /\ now \in Nat /\ version \in Nat /\ version <= now
          BY <1>4 DEF Bump, Inv, ClockInv
        <4>5. now = version => repeated'
          BY <1>4 DEF Bump
        <4>6. (w = version' => now = version) /\ w <= version'
          BY <4>3, <4>4
        <4>7. ~(~repeated' /\ w = version')
          BY <4>5, <4>6
        <4> QED
          BY <4>2, <4>3, <4>6, <4>7 DEF Sound
      <3> QED
        BY <3>3, <3>4
    <2> QED
      BY <2>1, <2>3 DEF Inv
  <1>5. CASE ClearCache /\ UNCHANGED call
    <2>1. cache' = <<>> /\ UNCHANGED <<now, call, version, corpus, floor, repeated>>
      BY <1>5 DEF ClearCache
    <2>2. cache' \in Seq({}) /\ DOMAIN cache' = {} /\ Len(cache') = 0
      BY <2>1
    <2>3. CacheInv'
      BY <2>2, Assumptions DEF CacheInv
    <2> QED
      <3>1. ClockInv'
        BY <2>1 DEF Inv, ClockInv
      <3>2. CallType' /\ CallInv'
        BY <2>1 DEF Inv, CallInv, CallType, Sound, At
      <3> QED
        BY <2>3, <3>1, <3>2 DEF Inv
  <1> QED
    BY <1>1, <1>2, <1>3, <1>4, <1>5 DEF Corpus

-----------------------------------------------------------------------------
LEMMA Starts == Init => Inv
  <1>1. ASSUME Init PROVE Inv
    <2>1. /\ now = 0 /\ version = 0 /\ cache = <<>> /\ corpus = 0 /\ floor = 0 /\ repeated = FALSE
          /\ call = [c \in Calls |-> Nil]
      BY <1>1 DEF Init, CacheInit
    <2>2. cache \in Seq({}) /\ DOMAIN cache = {} /\ Len(cache) = 0
      BY <2>1
    <2>3. call \in [Calls -> {Nil}] /\ (\A c \in Calls : call[c] = Nil)
      BY <2>1
    <2>4. ClockInv
      <3>1. /\ now \in Nat /\ version \in Nat /\ version <= now
            /\ corpus \in Nat /\ floor \in Nat /\ floor <= corpus
        BY <2>1
      <3>2. repeated \in BOOLEAN
        BY <2>1
      <3> QED
        BY <2>2, <3>1, <3>2 DEF ClockInv
    <2>5. CacheInv
      BY <2>2, Assumptions DEF CacheInv
    <2> QED
      BY <2>3, <2>4, <2>5 DEF Inv, CallInv, CallType, At
  <1> QED
    BY <1>1

LEMMA Steps == Inv /\ [Next]_vars => Inv'
  <1>1. SUFFICES ASSUME Inv, [Next]_vars PROVE Inv'
    OBVIOUS
  <1>2. CASE Tick \/ Restart \/ Corpus
    BY <1>1, <1>2, CorpusSteps
  <1>3. ASSUME NEW c \in Calls, Serve(c) PROVE Inv'
    BY <1>1, <1>3, RegistrySteps, RetrieveStep, AskCacheStep, StoreStep DEF Serve
  <1>4. CASE UNCHANGED vars
    <2>1. UNCHANGED <<now, call, cache, version, corpus, floor, repeated>>
      BY <1>4 DEF vars, cacheVars
    <2>2. ClockInv'
      BY <1>1, <2>1 DEF Inv, ClockInv
    <2> QED
      BY <1>1, <2>1, <2>2, QuietAll
  <1> QED
    BY <1>1, <1>2, <1>3, <1>4 DEF Next

LEMMA Invariant == Spec => []Inv
  BY Starts, Steps, PTL DEF Spec

\* Whatever ingests, retrievals, slow models, expiries and restarts interleave,
\* an answer that can be found in the cache is no older than the last ingest,
\* compact or forget that finished (answer-cache.ts:6-10).
THEOREM CacheStaysCurrent == Spec => []CacheIsCurrent
  <1>1. Inv => CacheIsCurrent
    BY DEF Inv, CacheInv, CacheIsCurrent, Sound, ToSet
  <1> QED
    BY Invariant, <1>1, PTL

\* The cache never holds more than maxEntries answers.
THEOREM CacheKeepsItsSize == Spec => [](Len(cache) <= CacheMax)
  <1>1. Inv => Len(cache) <= CacheMax
    BY DEF Inv, CacheInv
  <1> QED
    BY Invariant, <1>1, PTL

-----------------------------------------------------------------------------
(* The registry's file: what pruneAndCap keeps                             *)

LEMMA RegistryNumbers == MaxEntries \in Nat /\ MaxEntries >= 1 /\ KeyTtl \in Nat /\ KeyTtl >= 1
  BY RegistryAssumption

LEMMA UpToIsFinite ==
    ASSUME NEW n \in Nat, NEW b \in SUBSET (1..n), NEW i
    PROVE  /\ IsFiniteSet(b) /\ Cardinality(b) \in Nat
           /\ UpTo(b, i) \subseteq b /\ IsFiniteSet(UpTo(b, i))
           /\ Cardinality(UpTo(b, i)) \in Nat /\ Cardinality(UpTo(b, i)) <= Cardinality(b)
  <1>1. IsFiniteSet(1..n)
    BY FS_Interval
  <1>2. UpTo(b, i) \subseteq b
    BY DEF UpTo
  <1>3. IsFiniteSet(b)
    BY <1>1, FS_Subset
  <1>4. IsFiniteSet(UpTo(b, i)) /\ Cardinality(UpTo(b, i)) <= Cardinality(b)
    BY <1>2, <1>3, FS_Subset
  <1> QED BY <1>2, <1>3, <1>4, FS_CardinalityType

\* Two places of a set have as many of the set up to them only if they are one.
LEMMA UpToTellsApart ==
    ASSUME NEW n \in Nat, NEW b \in SUBSET (1..n), NEW i \in b, NEW j \in b,
           Cardinality(UpTo(b, i)) = Cardinality(UpTo(b, j))
    PROVE  i = j
  <1>1. ASSUME NEW k \in b, NEW l \in b, k <= l,
               Cardinality(UpTo(b, k)) = Cardinality(UpTo(b, l))
        PROVE  k = l
    <2>1. UpTo(b, k) \subseteq UpTo(b, l)
      <3>1. \A x \in b : x \in 1..n
        OBVIOUS
      <3>2. \A x \in b : x <= k => x <= l
        BY <3>1, <1>1
      <3> QED BY <3>2 DEF UpTo
    <2>2. l \in UpTo(b, l) /\ (l \in UpTo(b, k) => l <= k)
      BY DEF UpTo
    <2>3. UpTo(b, l) = UpTo(b, k)
      BY <1>1, <2>1, UpToIsFinite, FS_Subset
    <2> QED BY <1>1, <2>2, <2>3
  <1> QED BY <1>1

\* Counted this way, the places of a set are numbered from 1 to their number.
LEMMA UpToNumbers ==
    ASSUME NEW n \in Nat, NEW b \in SUBSET (1..n)
    PROVE  /\ \A i \in b : Cardinality(UpTo(b, i)) \in 1..Cardinality(b)
           /\ \A k \in 1..Cardinality(b) : \E i \in b : Cardinality(UpTo(b, i)) = k
  <1> DEFINE T == 1..Cardinality(b)
             f == [i \in b |-> Cardinality(UpTo(b, i))]
  <1>1. IsFiniteSet(b) /\ Cardinality(b) \in Nat
    BY UpToIsFinite
  <1>2. IsFiniteSet(T) /\ Cardinality(T) = Cardinality(b)
    BY <1>1, FS_Interval
  <1>3. ASSUME NEW i \in b PROVE Cardinality(UpTo(b, i)) \in T
    <2>1. i \in UpTo(b, i)
      BY DEF UpTo
    <2>2. /\ IsFiniteSet(UpTo(b, i)) /\ Cardinality(UpTo(b, i)) \in Nat
          /\ Cardinality(UpTo(b, i)) <= Cardinality(b)
      BY UpToIsFinite
    <2>3. Cardinality(UpTo(b, i)) # 0
      BY <2>1, <2>2, FS_EmptySet
    <2> QED BY <1>1, <2>2, <2>3
  <1>4. f \in [b -> T]
    BY <1>3
  <1>5. \A i, j \in b : f[i] = f[j] => i = j
    BY UpToTellsApart
  <1> HIDE DEF f
  <1>6. f \in Surjection(b, T)
    <2> HIDE DEF T
    <2>1. f \in Injection(b, T)
      BY <1>4, <1>5 DEF Injection, IsInjective
    <2> QED BY <1>1, <1>2, <2>1, FS_Injection
  <1>7. \A k \in T : \E i \in b : f[i] = k
    BY <1>6 DEF Surjection
  <1> QED BY <1>3, <1>7 DEF f

\* The first place of a set of places
LEMMA FirstPlace ==
    ASSUME NEW n \in Nat, NEW b \in SUBSET (1..n), b # {}
    PROVE  \E i \in b : \A j \in b : i <= j
  <1>1. b \subseteq Nat
    OBVIOUS
  <1>2. PICK m \in b : \A k \in b : ~(<<k, m>> \in OpToRel(<, Nat))
    BY <1>1, NatLessThanWellFounded, WFMin
  <1>3. \A j \in b : ~(j < m)
    BY <1>1, <1>2 DEF OpToRel
  <1> QED BY <1>1, <1>3

LEMMA KeptIsCapped ==
    ASSUME NEW n \in Nat, NEW s, DOMAIN s = 1..n, NEW t
    PROVE  /\ Kept(s, t) \in SUBSET (1..n)
           /\ Cardinality(Kept(s, t)) \in Nat /\ Cardinality(Kept(s, t)) <= MaxEntries
  <1> DEFINE a == Alive(s, t)
             b == Kept(s, t)
  <1>1. a \in SUBSET (1..n) /\ b \in SUBSET (1..n)
    BY DEF Alive, Kept
  <1>2. IsFiniteSet(a) /\ IsFiniteSet(b) /\ Cardinality(b) \in Nat
    BY <1>1, UpToIsFinite
  <1>3. CASE b = {}
    BY <1>1, <1>3, FS_EmptySet, RegistryNumbers
  <1>4. CASE b # {}
    <2>1. PICK i \in b : \A j \in b : i <= j
      BY <1>1, <1>4, FirstPlace
    <2> DEFINE later == {j \in a : j > i}
    <2>2. Cardinality(later) < MaxEntries
      BY <2>1 DEF Kept
    <2>3. b \ {i} \subseteq later
      <3>1. \A j \in b : j \in a /\ j \in Nat /\ i \in Nat
        BY <1>1 DEF Kept
      <3> QED BY <2>1, <3>1
    <2>4. later \subseteq a
      OBVIOUS
    <2> HIDE DEF a, b, later
    <2>5. IsFiniteSet(later) /\ Cardinality(later) \in Nat
      BY <1>2, <2>4, FS_Subset, FS_CardinalityType
    <2>6. Cardinality(b \ {i}) <= Cardinality(later) /\ Cardinality(b \ {i}) = Cardinality(b) - 1
      BY <1>2, <2>1, <2>3, <2>5, FS_Subset, FS_RemoveElement
    <2>7. Cardinality(b) <= MaxEntries
      BY <1>2, <2>2, <2>5, <2>6, RegistryNumbers
    <2> QED BY <1>1, <1>2, <2>7 DEF b
  <1> QED BY <1>3, <1>4

LEMMA FunctionIsSeq ==
    ASSUME NEW n \in Nat, NEW S, NEW f \in [1..n -> S]
    PROVE  f \in Seq(S) /\ Len(f) = n /\ DOMAIN f = 1..n
  OBVIOUS

\* pruneAndCap returns the records it keeps, no other, and no more than MAX_ENTRIES.
LEMMA PrunedKeeps ==
    ASSUME NEW S, NEW s \in Seq(S), NEW t
    PROVE  /\ Pruned(s, t) \in Seq(S) /\ Len(Pruned(s, t)) <= MaxEntries
           /\ \A k \in DOMAIN Pruned(s, t) : \E i \in Kept(s, t) : Pruned(s, t)[k] = s[i]
           /\ \A i \in Kept(s, t) : \E k \in DOMAIN Pruned(s, t) : Pruned(s, t)[k] = s[i]
  <1> DEFINE b == Kept(s, t)
             at(k) == CHOOSE i \in b : Cardinality(UpTo(b, i)) = k
             new == [k \in 1..Cardinality(b) |-> s[at(k)]]
  <1>1. PICK n \in Nat : DOMAIN s = 1..n
    OBVIOUS
  <1>2. /\ b \in SUBSET (1..n) /\ Cardinality(b) \in Nat
        /\ Cardinality(b) <= MaxEntries
    BY <1>1, KeptIsCapped
  <1>3. Pruned(s, t) = new
    BY DEF Pruned
  <1>4. ASSUME NEW k \in 1..Cardinality(b)
        PROVE  at(k) \in b /\ at(k) \in DOMAIN s
    <2>1. \E i \in b : Cardinality(UpTo(b, i)) = k
      BY <1>2, UpToNumbers
    <2> QED BY <1>1, <1>2, <2>1
  <1>5. new \in [1..Cardinality(b) -> S]
    BY <1>4
  <1>6. new \in Seq(S) /\ Len(new) = Cardinality(b) /\ DOMAIN new = 1..Cardinality(b)
    <2> HIDE DEF new
    <2> QED BY <1>2, <1>5, FunctionIsSeq
  <1>7. ASSUME NEW i \in b
        PROVE  \E k \in DOMAIN new : new[k] = s[i]
    <2> DEFINE k == Cardinality(UpTo(b, i))
    <2>1. k \in 1..Cardinality(b)
      BY <1>2, UpToNumbers
    <2>2. \A j \in b : Cardinality(UpTo(b, j)) = k => j = i
      BY <1>2, UpToTellsApart
    <2>3. at(k) = i
      BY <2>2
    <2> QED BY <1>6, <2>1, <2>3
  <1>8. \A k \in DOMAIN new : \E i \in b : new[k] = s[i]
    BY <1>4, <1>6
  <1> HIDE DEF new
  <1> QED BY <1>2, <1>3, <1>6, <1>7, <1>8

-----------------------------------------------------------------------------
(* Types                                                                   *)

Places == {"lookup", "handler", "retrieve", "answer", "respond", "save"}
CallRecords == [key : Keys, query : Queries, at : 0..MaxTime,
                version : 0..MaxTime, answer : 0..MaxCorpus, step : Places]
EntryOK(e) == e.answer \in 0..MaxCorpus /\ e.storedAt \in 0..MaxTime

NumbersOK ==
    /\ now \in 0..MaxTime /\ version \in 0..MaxTime
    /\ floor \in 0..corpus /\ corpus \in 0..MaxCorpus
    /\ \A i \in DOMAIN cache : EntryOK(cache[i])
RegistryOK ==
    /\ registry \in Seq(Records) /\ Len(registry) <= MaxEntries
    /\ copy \in [Calls -> Seq(Records) \cup {Nil}]
    /\ promised \in [Keys -> (0..MaxTime) \cup {Nil}]
    /\ dropped \in SUBSET Keys /\ clobbered \in BOOLEAN
CallsOK == call \in [Calls -> CallRecords \cup {Nil}]
\* A request that saves has read the registry.
SavesACopy == \A c \in Calls : At(c, "save") => copy[c] \in Seq(Records)

AskTypes == NumbersOK /\ RegistryOK /\ CallsOK /\ SavesACopy

LEMMA Bounds == MaxTime \in Nat /\ MaxCorpus \in Nat /\ 0 \in 0..MaxTime /\ 0 \in 0..MaxCorpus
  BY CacheAssumption

LEMMA RequestIs ==
    ASSUME NEW k, NEW q, NEW a, NEW v, NEW r, NEW s
    PROVE  /\ Request(k, q, a, v, r, s).key = k /\ Request(k, q, a, v, r, s).query = q
           /\ Request(k, q, a, v, r, s).at = a /\ Request(k, q, a, v, r, s).version = v
           /\ Request(k, q, a, v, r, s).answer = r /\ Request(k, q, a, v, r, s).step = s
  BY DEF Request

LEMMA RecordIs ==
    ASSUME NEW k, NEW q, NEW r, NEW t
    PROVE  /\ Record(k, q, r, t).key = k /\ Record(k, q, r, t).createdAt = t
  BY DEF Record

LEMMA RequestType ==
    ASSUME NEW k \in Keys, NEW q \in Queries, NEW a \in 0..MaxTime, NEW v \in 0..MaxTime,
           NEW r \in 0..MaxCorpus, NEW s \in Places
    PROVE  Request(k, q, a, v, r, s) \in CallRecords
  BY DEF Request, CallRecords

LEMMA CallFields ==
    ASSUME NEW k \in CallRecords
    PROVE  /\ k.key \in Keys /\ k.query \in Queries /\ k.at \in 0..MaxTime
           /\ k.version \in 0..MaxTime /\ k.answer \in 0..MaxCorpus
  BY DEF CallRecords

LEMMA RecordType ==
    ASSUME NEW k \in CallRecords
    PROVE  Record(k.key, k.query, k.answer, k.at) \in Records
  BY DEF Record, Records, CallRecords

LEMMA AtIsACall ==
    ASSUME CallsOK, NEW c \in Calls, NEW s, At(c, s)
    PROVE  call[c] \in CallRecords /\ call[c].step = s
  BY DEF CallsOK, At

\* What a request's move, its return and its arrival do to the requests
LEMMA MoveTo ==
    ASSUME CallsOK, NEW c \in Calls, call[c] \in CallRecords,
           NEW a \in 0..MaxTime, NEW v \in 0..MaxTime, NEW r \in 0..MaxCorpus, NEW s \in Places,
           Move(c, a, v, r, s)
    PROVE  /\ CallsOK'
           /\ call'[c] = Request(call[c].key, call[c].query, a, v, r, s)
           /\ \A d \in Calls \ {c} : call'[d] = call[d]
  <1> DEFINE R == Request(call[c].key, call[c].query, a, v, r, s)
  <1>1. call' = [call EXCEPT ![c] = R]
    BY DEF Move
  <1>2. R \in CallRecords
    BY RequestType, CallFields
  <1> HIDE DEF R
  <1>3. CallsOK' /\ call'[c] = R /\ \A d \in Calls \ {c} : call'[d] = call[d]
    BY <1>1, <1>2 DEF CallsOK
  <1> QED BY <1>3 DEF R

LEMMA ReturnTo ==
    ASSUME CallsOK, NEW c \in Calls, Return(c)
    PROVE  CallsOK' /\ call'[c] = Nil /\ \A d \in Calls \ {c} : call'[d] = call[d]
  BY DEF CallsOK, Return

LEMMA ArriveTo ==
    ASSUME CallsOK, NumbersOK, NEW c \in Calls, Arrive(c)
    PROVE  /\ CallsOK'
           /\ call'[c].at = now /\ call'[c].step = "lookup"
           /\ \A d \in Calls \ {c} : call'[d] = call[d]
  <1>1. PICK key \in Keys, query \in Queries :
          call' = [call EXCEPT ![c] = Request(key, query, now, 0, 0, "lookup")]
    BY DEF Arrive
  <1> DEFINE R == Request(key, query, now, 0, 0, "lookup")
  <1>2. R \in CallRecords
    BY Bounds, RequestType DEF NumbersOK, Places
  <1>3. R.at = now /\ R.step = "lookup"
    BY RequestIs
  <1> HIDE DEF R
  <1>4. call' = [call EXCEPT ![c] = R]
    BY <1>1 DEF R
  <1>5. CallsOK' /\ call'[c] = R /\ \A d \in Calls \ {c} : call'[d] = call[d]
    BY <1>2, <1>4 DEF CallsOK
  <1> QED BY <1>3, <1>5

\* Where a request goes: away, or to a step that is not the save.
Goes(c) ==
    /\ CallsOK'
    /\ ~At(c, "save")'
    /\ \A d \in Calls \ {c} : call'[d] = call[d]

LEMMA GoesOn ==
    ASSUME RegistryOK, SavesACopy, NEW c \in Calls, Goes(c), UNCHANGED registryVars
    PROVE  RegistryOK' /\ SavesACopy' /\ CallsOK'
  BY DEF RegistryOK, SavesACopy, Goes, At, registryVars

LEMMA ReturnGoes ==
    ASSUME CallsOK, NEW c \in Calls, Return(c)
    PROVE  Goes(c)
  BY ReturnTo DEF Goes, At

LEMMA MoveGoes ==
    ASSUME CallsOK, NEW c \in Calls, call[c] \in CallRecords,
           NEW a \in 0..MaxTime, NEW v \in 0..MaxTime, NEW r \in 0..MaxCorpus,
           NEW s \in Places \ {"save"}, Move(c, a, v, r, s)
    PROVE  Goes(c)
  <1>1. /\ CallsOK' /\ \A d \in Calls \ {c} : call'[d] = call[d]
        /\ call'[c] = Request(call[c].key, call[c].query, a, v, r, s)
    BY MoveTo
  <1>2. call'[c].step = s
    BY <1>1, RequestIs
  <1> QED BY <1>1, <1>2 DEF Goes, At

\* The cache and the numbers, while the clock and the corpus stay.
LEMMA CacheEntriesStay ==
    ASSUME NumbersOK, UNCHANGED <<now, version, corpus, floor>>,
           \A j \in DOMAIN cache' :
             EntryOK(cache'[j]) \/ \E k \in DOMAIN cache : cache'[j] = cache[k]
    PROVE  NumbersOK'
  BY DEF NumbersOK, EntryOK

LEMMA HandlerTypes ==
    ASSUME Inv, AskTypes, NEW c \in Calls, AskCache(c) \/ Retrieve(c) \/ StoreAnswer(c)
    PROVE  AskTypes'
  <1>1. NumbersOK /\ RegistryOK /\ CallsOK /\ SavesACopy /\ ClockInv /\ CacheInv
    BY DEF AskTypes, Inv
  <1>2. CASE AskCache(c)
    <2> DEFINE key == CacheKey(call[c].query, version)
    <2>1. /\ At(c, "handler") /\ Get(key) /\ UNCHANGED registryVars
          /\ UNCHANGED <<now, version, corpus, floor>>
          /\ \/ Move(c, 0, version, 0, "retrieve")
             \/ \E e \in Served(key) : Move(c, 0, 0, e.answer, "respond")
      BY <1>2 DEF AskCache, registryVars
    <2> HIDE DEF key
    <2>2. NumbersOK'
      BY <1>1, <2>1, GetKeeps, CacheEntriesStay
    <2>3. call[c] \in CallRecords
      BY <1>1, <2>1, AtIsACall
    <2>4. \A e \in Served(key) : e.answer \in 0..MaxCorpus
      BY <1>1 DEF Served, ToSet, NumbersOK, EntryOK
    <2>5. Goes(c)
      BY <1>1, <2>1, <2>3, <2>4, Bounds, MoveGoes DEF Places, NumbersOK
    <2> QED BY <1>1, <2>1, <2>2, <2>5, GoesOn DEF AskTypes
  <1>3. CASE Retrieve(c)
    <2>1. /\ At(c, "retrieve") /\ Move(c, 0, call[c].version, corpus, "answer")
          /\ UNCHANGED <<now, cache, version, corpus, floor>> /\ UNCHANGED registryVars
      BY <1>3 DEF Retrieve, cacheVars
    <2>2. call[c] \in CallRecords
      BY <1>1, <2>1, AtIsACall
    <2>3. Goes(c)
      BY <1>1, <2>1, <2>2, Bounds, CallFields, MoveGoes DEF Places, NumbersOK
    <2>4. NumbersOK'
      BY <1>1, <2>1 DEF NumbersOK
    <2> QED BY <1>1, <2>1, <2>3, <2>4, GoesOn DEF AskTypes
  <1>4. CASE StoreAnswer(c)
    <2> DEFINE key == CacheKey(call[c].query, call[c].version)
               answer == call[c].answer
    <2>1. /\ At(c, "answer") /\ Set(key, answer) /\ Move(c, 0, 0, answer, "respond")
          /\ UNCHANGED <<now, version, corpus, floor>> /\ UNCHANGED registryVars
      BY <1>4 DEF StoreAnswer, registryVars
    <2>2. call[c] \in CallRecords
      BY <1>1, <2>1, AtIsACall
    <2>3. answer \in 0..MaxCorpus
      BY <2>2, CallFields
    <2> HIDE DEF key, answer
    <2>4. EntryOK(Entry(key, answer, now))
      BY <1>1, <2>3 DEF EntryOK, Entry, NumbersOK
    <2>5. NumbersOK'
      BY <1>1, <2>1, <2>4, SetKeeps, CacheEntriesStay
    <2>6. Goes(c)
      BY <1>1, <2>1, <2>2, <2>3, Bounds, MoveGoes DEF Places
    <2> QED BY <1>1, <2>1, <2>5, <2>6, GoesOn DEF AskTypes
  <1> QED BY <1>2, <1>3, <1>4

LEMMA MiddlewareTypes ==
    ASSUME AskTypes, NEW c \in Calls,
           Arrive(c) \/ Lookup(c) \/ Refuse(c) \/ ReadRegistry(c) \/ SaveRegistry(c) \/ SaveFails(c)
    PROVE  AskTypes'
  <1>1. NumbersOK /\ RegistryOK /\ CallsOK /\ SavesACopy
    BY DEF AskTypes
  <1>2. NumbersOK'
    <2> UNCHANGED <<now, cache, version, corpus, floor>>
      BY DEF Arrive, Lookup, Refuse, ReadRegistry, SaveRegistry, SaveFails, cacheVars
    <2> QED BY <1>1 DEF NumbersOK
  <1>3. CASE Arrive(c)
    <2>1. Goes(c) /\ UNCHANGED registryVars
      BY <1>1, <1>3, ArriveTo DEF Goes, At, Arrive
    <2> QED BY <1>1, <1>2, <2>1, GoesOn DEF AskTypes
  <1>4. CASE Lookup(c)
    <2>1. call[c] \in CallRecords
      BY <1>1, <1>4, AtIsACall DEF Lookup
    <2>2. Goes(c) /\ UNCHANGED registryVars
      BY <1>1, <1>4, <2>1, Bounds, MoveGoes, ReturnGoes DEF Lookup, Places
    <2> QED BY <1>1, <1>2, <2>2, GoesOn DEF AskTypes
  <1>5. CASE Refuse(c)
    BY <1>1, <1>2, <1>5, ReturnGoes, GoesOn DEF Refuse, AskTypes
  <1>6. CASE ReadRegistry(c)
    <2>1. call[c] \in CallRecords
      BY <1>1, <1>6, AtIsACall DEF ReadRegistry
    <2>2. UNCHANGED <<registry, promised, dropped, clobbered>>
      BY <1>6 DEF ReadRegistry
    <2>3. CASE Duplicates(call[c]) # {}
      <3>1. UNCHANGED registryVars /\ Return(c)
        BY <1>6, <2>2, <2>3 DEF ReadRegistry, registryVars
      <3> QED BY <1>1, <1>2, <3>1, ReturnGoes, GoesOn DEF AskTypes
    <2>4. CASE Duplicates(call[c]) = {}
      <3>1. /\ copy' = [copy EXCEPT ![c] = registry]
            /\ Move(c, now, 0, call[c].answer, "save")
        BY <1>6, <2>4 DEF ReadRegistry
      <3>2. CallsOK' /\ \A d \in Calls \ {c} : call'[d] = call[d]
        BY <1>1, <2>1, <3>1, Bounds, CallFields, MoveTo DEF NumbersOK, Places
      <3>3. /\ copy' \in [Calls -> Seq(Records) \cup {Nil}] /\ copy'[c] \in Seq(Records)
            /\ \A d \in Calls \ {c} : copy'[d] = copy[d]
        BY <1>1, <3>1 DEF RegistryOK
      <3>4. SavesACopy'
        BY <1>1, <3>2, <3>3 DEF SavesACopy, At
      <3> QED BY <1>1, <1>2, <2>2, <3>2, <3>3, <3>4 DEF AskTypes, RegistryOK
    <2> QED BY <2>3, <2>4
  <1>7. CASE SaveRegistry(c)
    <2>1. /\ At(c, "save") /\ Return(c) /\ registry' = Written(call[c], copy[c])
          /\ promised' = [promised EXCEPT ![call[c].key] = call[c].at]
          /\ dropped' = (dropped \union PushedOut(call[c], copy[c])) \ {call[c].key}
          /\ clobbered' = (clobbered \/ copy[c] # registry)
          /\ copy' = [copy EXCEPT ![c] = Nil]
      BY <1>7 DEF SaveRegistry
    <2>2. call[c] \in CallRecords /\ copy[c] \in Seq(Records)
      BY <1>1, <2>1, AtIsACall DEF SavesACopy
    <2> DEFINE l == Pushed(call[c], copy[c])
               t == call[c].at
    <2>3. l \in Seq(Records)
      BY <2>2, RecordType, Appended DEF Pushed
    <2>4. registry' = Pruned(l, t)
      BY <2>1 DEF Written
    <2>5. PushedOut(call[c], copy[c]) \subseteq Keys
      <3>1. Alive(l, t) \subseteq DOMAIN l
        BY DEF Alive
      <3>2. \A i \in DOMAIN l : l[i].key \in Keys
        <4> HIDE DEF l
        <4>1. \A i \in DOMAIN l : l[i] \in Records
          BY <2>3
        <4> QED BY <4>1 DEF Records
      <3>3. PushedOut(call[c], copy[c]) = {l[i].key : i \in Alive(l, t) \ Kept(l, t)}
        BY DEF PushedOut
      <3> HIDE DEF l, t
      <3> QED BY <3>1, <3>2, <3>3
    <2> HIDE DEF l, t
    <2>6. registry' \in Seq(Records) /\ Len(registry') <= MaxEntries
      BY <2>3, <2>4, PrunedKeeps
    <2>7. /\ promised' \in [Keys -> (0..MaxTime) \cup {Nil}] /\ dropped' \in SUBSET Keys
          /\ copy' \in [Calls -> Seq(Records) \cup {Nil}] /\ clobbered' \in BOOLEAN
      BY <1>1, <2>1, <2>2, <2>5, CallFields DEF RegistryOK
    <2>8. CallsOK' /\ call'[c] = Nil /\ \A d \in Calls \ {c} : call'[d] = call[d]
      BY <1>1, <2>1, ReturnTo
    <2>9. \A d \in Calls \ {c} : copy'[d] = copy[d]
      BY <1>1, <2>1 DEF RegistryOK
    <2>10. SavesACopy'
      BY <1>1, <2>8, <2>9 DEF SavesACopy, At
    <2> QED BY <1>2, <2>6, <2>7, <2>8, <2>10 DEF AskTypes, RegistryOK
  <1>8. CASE SaveFails(c)
    <2>1. /\ Return(c) /\ copy' = [copy EXCEPT ![c] = Nil]
          /\ UNCHANGED <<registry, promised, dropped, clobbered>>
      BY <1>8 DEF SaveFails
    <2>2. CallsOK' /\ call'[c] = Nil /\ \A d \in Calls \ {c} : call'[d] = call[d]
      BY <1>1, <2>1, ReturnTo
    <2>3. /\ copy' \in [Calls -> Seq(Records) \cup {Nil}]
          /\ \A d \in Calls \ {c} : copy'[d] = copy[d]
      BY <1>1, <2>1 DEF RegistryOK
    <2>4. SavesACopy'
      BY <1>1, <2>2, <2>3 DEF SavesACopy, At
    <2> QED BY <1>1, <1>2, <2>1, <2>2, <2>3, <2>4 DEF AskTypes, RegistryOK
  <1> QED BY <1>3, <1>4, <1>5, <1>6, <1>7, <1>8

LEMMA EmptyCache == ASSUME NumbersOK, cache' = <<>> PROVE \A i \in DOMAIN cache' : EntryOK(cache'[i])
  OBVIOUS

LEMMA OtherTypes ==
    ASSUME AskTypes, Tick \/ Restart \/ Corpus
    PROVE  AskTypes'
  <1>1. NumbersOK /\ RegistryOK /\ CallsOK /\ SavesACopy
    BY DEF AskTypes
  <1>3. CASE Tick
    <2>1. NumbersOK'
      BY <1>1, <1>3, Bounds DEF NumbersOK, EntryOK, Tick, cacheVars
    <2> QED BY <1>1, <1>3, <2>1 DEF AskTypes, Tick, RegistryOK, CallsOK, SavesACopy, At, registryVars
  <1>4. ASSUME Bump PROVE NumbersOK'
    <2>1. \A i \in DOMAIN cache' : EntryOK(cache'[i])
      BY <1>1, <1>4, EmptyCache DEF Bump
    <2> QED BY <1>1, <1>4, <2>1, Bounds DEF NumbersOK, Bump
  <1>5. CASE Restart
    <2>1. /\ call' = [c \in Calls |-> Nil] /\ copy' = [c \in Calls |-> Nil]
          /\ UNCHANGED <<registry, promised, dropped, clobbered>>
      BY <1>5 DEF Restart
    <2>2. CallsOK' /\ SavesACopy'
      BY <2>1 DEF CallsOK, SavesACopy, At
    <2>3. RegistryOK'
      BY <1>1, <2>1 DEF RegistryOK
    <2> QED BY <1>4, <1>5, <2>2, <2>3 DEF AskTypes, Restart
  <1>6. CASE Corpus
    <2>1. NumbersOK'
      <3>1. CASE Reindex
        BY <1>1, <3>1, Bounds DEF NumbersOK, EntryOK, Reindex
      <3>2. CASE ClearCache
        <4>1. \A i \in DOMAIN cache' : EntryOK(cache'[i])
          BY <1>1, <3>2, EmptyCache DEF ClearCache
        <4> QED BY <1>1, <3>2, <4>1 DEF NumbersOK, ClearCache
      <3> QED BY <1>4, <1>6, <3>1, <3>2 DEF Corpus
    <2> QED BY <1>1, <1>6, <2>1 DEF AskTypes, Corpus, RegistryOK, CallsOK, SavesACopy, At, registryVars
  <1> QED BY <1>3, <1>5, <1>6

LEMMA TypesStart == Init => AskTypes
  <1> SUFFICES ASSUME Init PROVE AskTypes
    OBVIOUS
  <1>1. NumbersOK
    BY Bounds DEF Init, CacheInit, NumbersOK
  <1>2. <<>> \in Seq(Records) /\ Len(<<>>) <= MaxEntries
    BY RegistryNumbers
  <1>3. RegistryOK /\ CallsOK /\ SavesACopy
    BY <1>2 DEF Init, RegistryOK, CallsOK, SavesACopy, At
  <1> QED BY <1>1, <1>3 DEF AskTypes

LEMMA TypesStep == Inv /\ AskTypes /\ [Next]_vars => AskTypes'
  <1>1. ASSUME AskTypes, UNCHANGED vars PROVE AskTypes'
    BY <1>1 DEF AskTypes, NumbersOK, RegistryOK, CallsOK, SavesACopy, At, EntryOK,
                vars, cacheVars, registryVars
  <1>2. ASSUME Inv, AskTypes, NEW c \in Calls, Serve(c) PROVE AskTypes'
    BY <1>2, HandlerTypes, MiddlewareTypes DEF Serve
  <1> QED BY <1>1, <1>2, OtherTypes DEF Next

\* Every variable keeps its type, and neither the cache nor the registry outgrows
\* its cap, through every request, save, restart and change of the corpus.
THEOREM RequestTypesHold == Spec => []TypeOK
  <1>1. Inv /\ AskTypes => TypeOK
    <2> SUFFICES ASSUME Inv, AskTypes PROVE TypeOK
      OBVIOUS
    <2>1. NumbersOK /\ RegistryOK /\ CallsOK /\ Len(cache) <= CacheMax
      BY DEF AskTypes, Inv, CacheInv
    <2>2. \A e \in ToSet(cache) : e.answer \in 0..MaxCorpus /\ e.storedAt \in 0..MaxTime
      BY <2>1 DEF NumbersOK, EntryOK, ToSet
    <2>3. \A s \in Seq(Records) : ToSet(s) \subseteq Records
      BY DEF ToSet
    <2>4. ToSet(registry) \subseteq Records /\ \A c \in Calls : copy[c] # Nil => ToSet(copy[c]) \subseteq Records
      BY <2>1, <2>3 DEF RegistryOK
    <2>5. \A c \in Calls : call[c] # Nil => call[c] \in CallRecords
      BY <2>1 DEF CallsOK
    <2> QED BY <2>1, <2>2, <2>4, <2>5 DEF TypeOK, NumbersOK, RegistryOK, CallRecords, Places
  <1> QED BY <1>1, Invariant, TypesStart, TypesStep, PTL DEF Spec

-----------------------------------------------------------------------------
(* One answer under a key                                                  *)

\* The records of a registry: one under a key, none under it, the one made then.
NoTwins(l) == \A i, j \in DOMAIN l : l[i].key = l[j].key => l[i] = l[j]
Lacks(l, k) == \A i \in DOMAIN l : l[i].key # k
Holds(l, k, t) == \E i \in DOMAIN l : l[i].key = k /\ l[i].createdAt = t

\* A record that was promised, that has not expired and that the cap has let be
Owed(k) == promised[k] # Nil /\ k \notin dropped /\ now < promised[k] + KeyTtl

\* What a request saves is new to the registry it has read.
SavesNews == \A c \in Calls : At(c, "save") => NoTwins(copy[c]) /\ Lacks(copy[c], call[c].key)
ArrivedBefore == \A c \in Calls : call[c] # Nil => call[c].at <= now
PromisesKept == clobbered \/ \A k \in Keys : Owed(k) => Holds(registry, k, promised[k])

RegInv == NoTwins(registry) /\ SavesNews /\ ArrivedBefore /\ PromisesKept

LEMMA PrunedRecords ==
    \A s \in Seq(Records) : \A t :
      /\ \A k \in DOMAIN Pruned(s, t) : \E i \in Kept(s, t) : Pruned(s, t)[k] = s[i]
      /\ \A i \in Kept(s, t) : \E k \in DOMAIN Pruned(s, t) : Pruned(s, t)[k] = s[i]
  BY PrunedKeeps

\* What record makes of the registry it has read
LEMMA WhatIsWritten ==
    ASSUME NEW k \in CallRecords, NEW l \in Seq(Records), NoTwins(l), Lacks(l, k.key)
    PROVE  /\ NoTwins(Written(k, l)) /\ Holds(Written(k, l), k.key, k.at)
           /\ \A n \in DOMAIN Written(k, l) :
                \/ Written(k, l)[n].key = k.key
                \/ \E i \in DOMAIN l : Written(k, l)[n] = l[i]
           /\ \A i \in DOMAIN l :
                Live(l[i], k.at) /\ l[i].key \notin PushedOut(k, l)
                => Holds(Written(k, l), l[i].key, l[i].createdAt)
  <1> DEFINE new == Record(k.key, k.query, k.answer, k.at)
             p == Pushed(k, l)
             w == Written(k, l)
             t == k.at
  <1>1. new \in Records /\ new.key = k.key /\ new.createdAt = k.at
    BY RecordType, RecordIs
  <1>2. t \in Nat
    BY CallFields, Bounds
  <1>3. p = Append(l, new)
    BY DEF Pushed
  <1> HIDE DEF new
  <1>4. /\ p \in Seq(Records)
        /\ DOMAIN l = 1..Len(l) /\ DOMAIN p = 1..(Len(l) + 1) /\ Len(l) \in Nat
        /\ p[Len(l) + 1] = new
        /\ \A i \in DOMAIN l : p[i] = l[i]
    BY <1>1, <1>3
  <1>5. w = Pruned(p, t)
    BY DEF Written
  <1>6. PushedOut(k, l) = {p[i].key : i \in Alive(p, t) \ Kept(p, t)}
    BY DEF PushedOut
  <1> HIDE DEF p, w, t
  <1>7. /\ \A n \in DOMAIN w : \E i \in Kept(p, t) : w[n] = p[i]
        /\ \A i \in Kept(p, t) : \E n \in DOMAIN w : w[n] = p[i]
    <2>1. p \in Seq(Records)
      BY <1>4
    <2>2. /\ \A n \in DOMAIN Pruned(p, t) : \E i \in Kept(p, t) : Pruned(p, t)[n] = p[i]
          /\ \A i \in Kept(p, t) : \E n \in DOMAIN Pruned(p, t) : Pruned(p, t)[n] = p[i]
      BY <2>1, PrunedRecords
    <2> QED BY <1>5, <2>2
  <1>8. Kept(p, t) \subseteq DOMAIN p
    BY DEF Kept, Alive
  <1>9. \A n \in DOMAIN w : w[n] = new \/ \E i \in DOMAIN l : w[n] = l[i]
    <2> TAKE n \in DOMAIN w
    <2>1. PICK i \in DOMAIN p : w[n] = p[i]
      BY <1>7, <1>8
    <2>2. i \in DOMAIN l \/ i = Len(l) + 1
      BY <1>4
    <2> QED BY <1>4, <2>1, <2>2
  <1>10. NoTwins(w)
    <2> SUFFICES ASSUME NEW m \in DOMAIN w, NEW n \in DOMAIN w, w[m].key = w[n].key
                 PROVE  w[m] = w[n]
      BY DEF NoTwins
    <2> QED BY <1>1, <1>9 DEF NoTwins, Lacks
  <1>11. Holds(w, k.key, k.at)
    <2> DEFINE i == Len(l) + 1
    <2>1. i \in DOMAIN p /\ \A j \in DOMAIN p : ~(j > i)
      BY <1>4
    <2>2. i \in Alive(p, t)
      BY <1>1, <1>2, <1>4, <2>1, RegistryNumbers DEF Alive, Live, t
    <2>3. {j \in Alive(p, t) : j > i} = {}
      BY <2>1 DEF Alive
    <2>4. i \in Kept(p, t)
      <3> HIDE DEF i
      <3>1. Cardinality({}) < MaxEntries
        BY FS_EmptySet, RegistryNumbers
      <3>2. Cardinality({j \in Alive(p, t) : j > i}) < MaxEntries
        BY <2>3, <3>1
      <3> QED BY <2>2, <3>2, Zenon DEF Kept
    <2> QED BY <1>1, <1>4, <1>7, <2>4 DEF Holds
  <1>12. ASSUME NEW i \in DOMAIN l, Live(l[i], t), l[i].key \notin PushedOut(k, l)
         PROVE  Holds(w, l[i].key, l[i].createdAt)
    <2>1. i \in DOMAIN p /\ p[i] = l[i]
      BY <1>4
    <2>2. i \in Alive(p, t)
      BY <1>12, <2>1 DEF Alive
    <2>3. i \in Kept(p, t)
      BY <1>6, <1>12, <2>1, <2>2
    <2> QED BY <1>7, <2>1, <2>3 DEF Holds
  <1>13. /\ NoTwins(w) /\ Holds(w, k.key, k.at)
         /\ \A n \in DOMAIN w : w[n].key = k.key \/ \E i \in DOMAIN l : w[n] = l[i]
         /\ \A i \in DOMAIN l :
              Live(l[i], k.at) /\ l[i].key \notin PushedOut(k, l)
              => Holds(w, l[i].key, l[i].createdAt)
    BY <1>1, <1>9, <1>10, <1>11, <1>12 DEF t
  <1> QED BY <1>13 DEF w

\* The clock and the registry stay, and a request moves to a step before the save.
Passes(c) == Goes(c) /\ (call'[c] # Nil => call'[c].at <= now) /\ UNCHANGED <<now, registryVars>>

LEMMA PassingKeeps ==
    ASSUME RegInv, NEW c \in Calls, Passes(c)
    PROVE  RegInv'
  <1>1. /\ ~At(c, "save")' /\ \A d \in Calls \ {c} : call'[d] = call[d]
        /\ UNCHANGED <<now, registry, copy, promised, dropped, clobbered>>
        /\ call'[c] # Nil => call'[c].at <= now
    BY DEF Passes, Goes, registryVars
  <1>2. NoTwins(registry)' /\ PromisesKept'
    BY <1>1 DEF RegInv, NoTwins, PromisesKept, Owed, Holds
  <1>3. ArrivedBefore'
    BY <1>1 DEF RegInv, ArrivedBefore
  <1>4. SavesNews'
    <2> SUFFICES ASSUME NEW d \in Calls, At(d, "save")'
                 PROVE  NoTwins(copy[d])' /\ Lacks(copy[d], call[d].key)'
      BY DEF SavesNews
    <2>1. call'[d] = call[d] /\ At(d, "save") /\ copy' = copy
      BY <1>1 DEF At
    <2>2. NoTwins(copy[d]) /\ Lacks(copy[d], call[d].key)
      BY <2>1 DEF RegInv, SavesNews
    <2> QED BY <2>1, <2>2 DEF NoTwins, Lacks
  <1> QED BY <1>2, <1>3, <1>4 DEF RegInv

LEMMA ReturnPasses ==
    ASSUME CallsOK, NEW c \in Calls, Return(c), UNCHANGED <<now, registryVars>>
    PROVE  Passes(c)
  BY ReturnTo, ReturnGoes DEF Passes

LEMMA MovePasses ==
    ASSUME CallsOK, NumbersOK, NEW c \in Calls, call[c] \in CallRecords,
           NEW v \in 0..MaxTime, NEW r \in 0..MaxCorpus,
           NEW s \in Places \ {"save"}, Move(c, 0, v, r, s), UNCHANGED <<now, registryVars>>
    PROVE  Passes(c)
  <1>1. call'[c] = Request(call[c].key, call[c].query, 0, v, r, s)
    BY Bounds, MoveTo
  <1>2. call'[c].at <= now
    BY <1>1, RequestIs, Bounds DEF NumbersOK
  <1> QED BY <1>2, Bounds, MoveGoes DEF Passes

\* Of the request that records, all but the two writes.
LEMMA EarlierPasses ==
    ASSUME AskTypes, NEW c \in Calls,
           \/ Arrive(c) \/ Lookup(c) \/ AskCache(c) \/ Retrieve(c) \/ StoreAnswer(c) \/ Refuse(c)
    PROVE  Passes(c)
  <1>1. NumbersOK /\ RegistryOK /\ CallsOK
    BY DEF AskTypes
  <1>2. UNCHANGED <<now, registryVars>>
    BY DEF Arrive, Lookup, AskCache, Retrieve, StoreAnswer, Refuse, Get, Set, registryVars
  <1>3. CASE Arrive(c)
    <2>1. call'[c].at = now /\ Goes(c)
      BY <1>1, <1>3, ArriveTo DEF Goes, At
    <2> QED BY <1>1, <1>2, <2>1, Bounds DEF Passes, NumbersOK
  <1>4. CASE Lookup(c)
    <2>1. call[c] \in CallRecords
      BY <1>1, <1>4, AtIsACall DEF Lookup
    <2> QED BY <1>1, <1>2, <1>4, <2>1, Bounds, MovePasses, ReturnPasses DEF Lookup, Places
  <1>5. CASE AskCache(c)
    <2> DEFINE key == CacheKey(call[c].query, version)
    <2>1. /\ At(c, "handler")
          /\ \/ Move(c, 0, version, 0, "retrieve")
             \/ \E e \in Served(key) : Move(c, 0, 0, e.answer, "respond")
      BY <1>5 DEF AskCache
    <2> HIDE DEF key
    <2>2. \A e \in Served(key) : e.answer \in 0..MaxCorpus
      BY <1>1 DEF Served, ToSet, NumbersOK, EntryOK
    <2>3. call[c] \in CallRecords
      BY <1>1, <2>1, AtIsACall
    <2> QED BY <1>1, <1>2, <2>1, <2>2, <2>3, Bounds, MovePasses DEF Places, NumbersOK
  <1>6. CASE Retrieve(c)
    <2>1. At(c, "retrieve") /\ Move(c, 0, call[c].version, corpus, "answer")
      BY <1>6 DEF Retrieve
    <2>2. call[c] \in CallRecords
      BY <1>1, <2>1, AtIsACall
    <2> QED BY <1>1, <1>2, <2>1, <2>2, CallFields, MovePasses DEF Places, NumbersOK
  <1>7. CASE StoreAnswer(c)
    <2>1. At(c, "answer") /\ Move(c, 0, 0, call[c].answer, "respond")
      BY <1>7 DEF StoreAnswer
    <2>2. call[c] \in CallRecords
      BY <1>1, <2>1, AtIsACall
    <2> QED BY <1>1, <1>2, <2>1, <2>2, Bounds, CallFields, MovePasses DEF Places
  <1>8. CASE Refuse(c)
    BY <1>1, <1>2, <1>8, ReturnPasses DEF Refuse
  <1> QED BY <1>3, <1>4, <1>5, <1>6, <1>7, <1>8

LEMMA ReadKeeps ==
    ASSUME AskTypes, RegInv, NEW c \in Calls, ReadRegistry(c)
    PROVE  RegInv'
  <1>1. NumbersOK /\ RegistryOK /\ CallsOK
    BY DEF AskTypes
  <1>2. call[c] \in CallRecords
    BY <1>1, AtIsACall DEF ReadRegistry
  <1>3. UNCHANGED <<now, registry, promised, dropped, clobbered>>
    BY DEF ReadRegistry
  <1>4. CASE Duplicates(call[c]) # {}
    BY <1>1, <1>4, ReturnPasses, PassingKeeps DEF ReadRegistry, registryVars
  <1>5. CASE Duplicates(call[c]) = {}
    <2>1. copy' = [copy EXCEPT ![c] = registry] /\ Move(c, now, 0, call[c].answer, "save")
      BY <1>5 DEF ReadRegistry
    <2>2. /\ call'[c] = Request(call[c].key, call[c].query, now, 0, call[c].answer, "save")
          /\ \A d \in Calls \ {c} : call'[d] = call[d]
      BY <1>1, <1>2, <2>1, Bounds, CallFields, MoveTo DEF NumbersOK, Places
    <2>3. call'[c].key = call[c].key /\ call'[c].at = now
      BY <2>2, RequestIs
    <2>4. copy'[c] = registry /\ \A d \in Calls \ {c} : copy'[d] = copy[d]
      BY <1>1, <2>1 DEF RegistryOK
    <2>5. Lacks(registry, call[c].key)
      BY <1>5 DEF Duplicates, ToSet, Lacks
    <2>6. ASSUME NEW d \in Calls, At(d, "save")'
          PROVE  NoTwins(copy[d])' /\ Lacks(copy[d], call[d].key)'
      <3>1. CASE d = c
        BY <2>3, <2>4, <2>5, <3>1 DEF RegInv, NoTwins, Lacks
      <3>2. CASE d # c
        <4>1. call'[d] = call[d] /\ copy'[d] = copy[d] /\ At(d, "save")
          BY <2>2, <2>4, <2>6, <3>2 DEF At
        <4>2. NoTwins(copy[d]) /\ Lacks(copy[d], call[d].key)
          BY <4>1 DEF RegInv, SavesNews
        <4> QED BY <4>1, <4>2 DEF NoTwins, Lacks
      <3> QED BY <3>1, <3>2
    <2>7. ArrivedBefore'
      <3>1. now <= now
        BY <1>1, Bounds DEF NumbersOK
      <3> QED BY <1>3, <2>2, <2>3, <3>1 DEF RegInv, ArrivedBefore
    <2>8. NoTwins(registry)' /\ PromisesKept'
      BY <1>3 DEF RegInv, NoTwins, PromisesKept, Owed, Holds
    <2> QED BY <2>6, <2>7, <2>8 DEF RegInv, SavesNews
  <1> QED BY <1>4, <1>5

\* The copy of the one that ends is dropped, and the others keep theirs.
LEMMA SaverGoes ==
    ASSUME AskTypes, RegInv, NEW c \in Calls, Return(c), now' = now,
           copy' = [copy EXCEPT ![c] = Nil]
    PROVE  SavesNews' /\ ArrivedBefore'
  <1>1. RegistryOK /\ CallsOK
    BY DEF AskTypes
  <1>2. call'[c] = Nil /\ \A d \in Calls \ {c} : call'[d] = call[d] /\ copy'[d] = copy[d]
    BY <1>1, ReturnTo DEF RegistryOK
  <1>3. ArrivedBefore'
    BY <1>2 DEF RegInv, ArrivedBefore
  <1>4. ASSUME NEW d \in Calls, At(d, "save")'
        PROVE  NoTwins(copy[d])' /\ Lacks(copy[d], call[d].key)'
    <2>1. call'[d] = call[d] /\ copy'[d] = copy[d] /\ At(d, "save")
      BY <1>2, <1>4 DEF At
    <2>2. NoTwins(copy[d]) /\ Lacks(copy[d], call[d].key)
      BY <2>1 DEF RegInv, SavesNews
    <2> QED BY <2>1, <2>2 DEF NoTwins, Lacks
  <1> QED BY <1>3, <1>4 DEF SavesNews

LEMMA FailKeeps ==
    ASSUME AskTypes, RegInv, NEW c \in Calls, SaveFails(c)
    PROVE  RegInv'
  <1>1. /\ Return(c) /\ copy' = [copy EXCEPT ![c] = Nil]
        /\ UNCHANGED <<now, registry, promised, dropped, clobbered>>
    BY DEF SaveFails
  <1>2. NoTwins(registry)' /\ PromisesKept'
    BY <1>1 DEF RegInv, NoTwins, PromisesKept, Owed, Holds
  <1> QED BY <1>1, <1>2, SaverGoes DEF RegInv

LEMMA SaveKeeps ==
    ASSUME AskTypes, RegInv, NEW c \in Calls, SaveRegistry(c)
    PROVE  RegInv'
  <1> DEFINE k == call[c]
             l == copy[c]
  <1>1. NumbersOK /\ RegistryOK /\ CallsOK /\ SavesACopy
    BY DEF AskTypes
  <1>2. /\ At(c, "save") /\ Return(c) /\ registry' = Written(k, l)
        /\ promised' = [promised EXCEPT ![k.key] = k.at]
        /\ dropped' = (dropped \union PushedOut(k, l)) \ {k.key}
        /\ clobbered' = (clobbered \/ l # registry)
        /\ copy' = [copy EXCEPT ![c] = Nil] /\ now' = now
    BY DEF SaveRegistry
  <1>3. k \in CallRecords /\ l \in Seq(Records)
    BY <1>1, <1>2, AtIsACall DEF SavesACopy
  <1>4. NoTwins(l) /\ Lacks(l, k.key) /\ k.at <= now
    BY <1>2 DEF RegInv, SavesNews, ArrivedBefore, At
  <1>5. SavesNews' /\ ArrivedBefore'
    BY <1>2, SaverGoes
  <1> HIDE DEF k, l
  <1>6. /\ NoTwins(registry') /\ Holds(registry', k.key, k.at)
        /\ \A i \in DOMAIN l :
             Live(l[i], k.at) /\ l[i].key \notin PushedOut(k, l)
             => Holds(registry', l[i].key, l[i].createdAt)
    BY <1>2, <1>3, <1>4, WhatIsWritten
  <1>7. ASSUME ~clobbered', NEW m \in Keys, Owed(m)'
        PROVE  Holds(registry', m, promised'[m])
    <2>1. k.key \in Keys /\ k.at \in Nat /\ now \in Nat
      BY <1>1, <1>3, CallFields, Bounds DEF NumbersOK
    <2>2. ~clobbered /\ l = registry
      BY <1>2, <1>7
    <2>3. CASE m = k.key
      <3>1. promised'[m] = k.at
        BY <1>1, <1>2, <2>1, <2>3 DEF RegistryOK
      <3> QED BY <1>6, <2>3, <3>1
    <2>4. CASE m # k.key
      <3>1. promised'[m] = promised[m] /\ promised[m] \in (0..MaxTime) \cup {Nil}
        BY <1>1, <1>2, <2>4 DEF RegistryOK
      <3>2. /\ promised[m] # Nil /\ now < promised[m] + KeyTtl
            /\ m \notin dropped /\ m \notin PushedOut(k, l)
        BY <1>2, <1>7, <2>4, <3>1 DEF Owed
      <3>3. PICK i \in DOMAIN registry :
              registry[i].key = m /\ registry[i].createdAt = promised[m]
        BY <2>2, <3>2 DEF RegInv, PromisesKept, Owed, Holds
      <3>4. promised[m] \in Nat
        BY <3>1, <3>2, Bounds
      <3>5. Live(l[i], k.at)
        BY <1>4, <2>1, <2>2, <3>2, <3>3, <3>4, RegistryNumbers DEF Live
      <3> QED BY <1>6, <2>2, <3>1, <3>2, <3>3, <3>5
    <2> QED BY <2>3, <2>4
  <1>8. PromisesKept'
    BY <1>7 DEF PromisesKept, Holds
  <1>9. NoTwins(registry)'
    BY <1>6 DEF NoTwins
  <1> QED BY <1>5, <1>8, <1>9 DEF RegInv

LEMMA OthersKeepTheRegistry ==
    ASSUME AskTypes, RegInv, Tick \/ Restart \/ Corpus
    PROVE  RegInv'
  <1>1. NumbersOK /\ RegistryOK /\ CallsOK /\ now \in Nat
    BY Bounds DEF AskTypes, NumbersOK
  <1>2. CASE Tick
    <2>1. UNCHANGED <<call, registry, copy, promised, dropped, clobbered>> /\ now' = now + 1
      BY <1>2 DEF Tick, registryVars
    <2>2. NoTwins(registry)' /\ SavesNews'
      BY <2>1 DEF RegInv, SavesNews, NoTwins, Lacks, At
    <2>3. ArrivedBefore'
      <3>1. \A c \in Calls : call[c] # Nil => call[c].at \in Nat
        BY <1>1, CallFields, Bounds DEF CallsOK
      <3> QED BY <1>1, <2>1, <3>1 DEF RegInv, ArrivedBefore
    <2>4. \A k \in Keys : Owed(k)' => Owed(k)
      <3> SUFFICES ASSUME NEW k \in Keys, Owed(k)' PROVE Owed(k)
        OBVIOUS
      <3>1. promised[k] # Nil /\ k \notin dropped /\ now + 1 < promised[k] + KeyTtl
        BY <2>1 DEF Owed
      <3>2. promised[k] \in Nat
        BY <1>1, <3>1, Bounds DEF RegistryOK
      <3>3. now < promised[k] + KeyTtl
        BY <1>1, <3>1, <3>2, RegistryNumbers
      <3> QED BY <3>1, <3>3 DEF Owed
    <2>5. PromisesKept'
      BY <2>1, <2>4 DEF RegInv, PromisesKept, Holds
    <2> QED BY <2>2, <2>3, <2>5 DEF RegInv
  <1>3. CASE Restart
    <2>1. /\ call' = [c \in Calls |-> Nil]
          /\ UNCHANGED <<now, registry, promised, dropped, clobbered>>
      BY <1>3 DEF Restart, Bump
    <2>2. SavesNews' /\ ArrivedBefore'
      BY <2>1 DEF SavesNews, ArrivedBefore, At
    <2>3. NoTwins(registry)' /\ PromisesKept'
      BY <2>1 DEF RegInv, NoTwins, PromisesKept, Owed, Holds
    <2> QED BY <2>2, <2>3 DEF RegInv
  <1>4. CASE Corpus
    <2>1. UNCHANGED <<now, call, registry, copy, promised, dropped, clobbered>>
      BY <1>4 DEF Corpus, Reindex, Bump, ClearCache, registryVars
    <2> QED BY <2>1 DEF RegInv, NoTwins, Lacks, SavesNews, ArrivedBefore, At, PromisesKept, Owed, Holds
  <1> QED BY <1>2, <1>3, <1>4

LEMMA RegStart == Init => RegInv
  <1> SUFFICES ASSUME Init PROVE RegInv
    OBVIOUS
  <1>1. NoTwins(registry)
    BY DEF Init, NoTwins
  <1>2. SavesNews /\ ArrivedBefore /\ PromisesKept
    BY DEF Init, SavesNews, ArrivedBefore, At, PromisesKept, Owed
  <1> QED BY <1>1, <1>2 DEF RegInv

LEMMA RegStep == AskTypes /\ RegInv /\ [Next]_vars => RegInv'
  <1>1. ASSUME RegInv, UNCHANGED vars PROVE RegInv'
    BY <1>1 DEF RegInv, NoTwins, Lacks, SavesNews, ArrivedBefore, At, PromisesKept, Owed, Holds,
                vars, registryVars
  <1>2. ASSUME AskTypes, RegInv, NEW c \in Calls, Serve(c) PROVE RegInv'
    BY <1>2, EarlierPasses, PassingKeeps, ReadKeeps, FailKeeps, SaveKeeps DEF Serve
  <1> QED BY <1>1, <1>2, OthersKeepTheRegistry DEF Next

\* A step leaves a key one answer, unless it loses another request's write.
LEMMA AnswerStays ==
    ASSUME AskTypes, RegInv, Next, ~clobbered', NEW r \in ToSet(registry),
           NEW s \in ToSet(registry'), s.key = r.key
    PROVE  s = r
  <1>1. CASE UNCHANGED registry
    BY <1>1 DEF RegInv, NoTwins, ToSet
  <1>2. ASSUME NEW c \in Calls, SaveRegistry(c) PROVE s = r
    <2>1. /\ At(c, "save") /\ registry' = Written(call[c], copy[c])
          /\ clobbered' = (clobbered \/ copy[c] # registry)
      BY <1>2 DEF SaveRegistry
    <2>2. call[c] \in CallRecords /\ copy[c] \in Seq(Records)
      BY <2>1, AtIsACall DEF AskTypes, SavesACopy
    <2>3. NoTwins(registry) /\ copy[c] = registry /\ Lacks(registry, call[c].key)
      BY <2>1 DEF RegInv, SavesNews
    <2>4. s.key = call[c].key \/ s \in ToSet(registry)
      BY <2>1, <2>2, <2>3, WhatIsWritten DEF ToSet
    <2> QED BY <2>3, <2>4 DEF NoTwins, Lacks, ToSet
  <1>3. ASSUME NEW c \in Calls, Serve(c), ~SaveRegistry(c) PROVE UNCHANGED registry
    BY <1>3 DEF Serve, Arrive, Lookup, AskCache, Retrieve, StoreAnswer, Refuse, ReadRegistry,
                SaveFails, registryVars
  <1>4. Tick \/ Restart \/ Corpus => UNCHANGED registry
    BY DEF Tick, Restart, Corpus, registryVars
  <1> QED BY <1>1, <1>2, <1>3, <1>4 DEF Next

\* A request that a record answers does not run.
LEMMA NoSecondRun ==
    ASSUME AskTypes, RegInv, Next, NEW c \in Calls, At(c, "lookup"), At(c, "handler")',
           promised[call[c].key] # Nil, now < promised[call[c].key] + KeyTtl
    PROVE  clobbered \/ call[c].key \in dropped
  <1>1. NumbersOK /\ RegistryOK /\ CallsOK
    BY DEF AskTypes
  <1>2. call[c] \in CallRecords /\ call[c].step = "lookup" /\ call[c] # Nil
    BY <1>1, AtIsACall DEF At
  <1>3. call'[c] # Nil /\ call'[c].step = "handler" /\ call'[c] # call[c]
    BY <1>2 DEF At
  <1>4. Lookup(c)
    <2>1. ~(Tick \/ Restart \/ Corpus)
      BY <1>3 DEF Tick, Restart, Corpus
    <2>2. PICK d \in Calls : Serve(d)
      BY <2>1 DEF Next
    <2>3. d = c
      <3>1. CASE SaveRegistry(d) \/ SaveFails(d)
        BY <1>1, <1>3, <3>1, ReturnTo DEF SaveRegistry, SaveFails
      <3>2. CASE ReadRegistry(d)
        <4>1. call[d] \in CallRecords
          BY <1>1, <3>2, AtIsACall DEF ReadRegistry
        <4>2. \A e \in Calls \ {d} : call'[e] = call[e]
          BY <1>1, <3>2, <4>1, ReturnTo, MoveTo, CallFields, Bounds DEF ReadRegistry, NumbersOK, Places
        <4> QED BY <1>3, <4>2
      <3>3. CASE Passes(d)
        BY <1>3, <3>3 DEF Passes, Goes
      <3> QED BY <2>2, <3>1, <3>2, <3>3, EarlierPasses DEF Serve
    <2>4. ~(Arrive(c) \/ AskCache(c) \/ Retrieve(c) \/ StoreAnswer(c) \/ Refuse(c)
            \/ ReadRegistry(c) \/ SaveRegistry(c) \/ SaveFails(c))
      BY <1>2 DEF At, Arrive, AskCache, Retrieve, StoreAnswer, Refuse, ReadRegistry,
                  SaveRegistry, SaveFails
    <2> QED BY <2>2, <2>3, <2>4 DEF Serve
  <1>5. Matches(call[c]) = {}
    BY <1>1, <1>3, <1>4, ReturnTo DEF Lookup
  <1>6. SUFFICES ASSUME ~clobbered, call[c].key \notin dropped PROVE FALSE
    OBVIOUS
  <1>7. call[c].key \in Keys /\ call[c].at \in Nat /\ now \in Nat /\ call[c].at <= now
    BY <1>1, <1>2, CallFields, Bounds DEF NumbersOK, RegInv, ArrivedBefore
  <1>8. PICK i \in DOMAIN registry :
          registry[i].key = call[c].key /\ registry[i].createdAt = promised[call[c].key]
    BY <1>6, <1>7 DEF RegInv, PromisesKept, Owed, Holds
  <1>9. promised[call[c].key] \in Nat
    BY <1>1, <1>7, Bounds DEF RegistryOK
  <1>10. Live(registry[i], call[c].at)
    BY <1>7, <1>8, <1>9, RegistryNumbers DEF Live
  <1> QED BY <1>5, <1>8, <1>10 DEF Matches, ToSet

\* Unless two requests that record at once lose one of their writes, or the cap
\* has pushed the record out: the record a retry finds is the one the key was given,
\* and once an answer is recorded no request under the key runs until it expires.
THEOREM KeysReplayOneAnswer == Spec => KeyHasOneAnswer
  <1>1. AskTypes /\ RegInv /\ [Next]_vars =>
        [/\ \A r \in ToSet(registry) :
              Live(r, now) => clobbered' \/ \A s \in ToSet(registry') : s.key = r.key => s = r
         /\ \A c \in Calls :
              At(c, "lookup") /\ At(c, "handler")' /\ promised[call[c].key] # Nil
                /\ now < promised[call[c].key] + KeyTtl
              => clobbered \/ call[c].key \in dropped]_vars
    BY AnswerStays, NoSecondRun
  <1> QED
    BY <1>1, Invariant, TypesStart, TypesStep, RegStart, RegStep, PTL DEF Spec, KeyHasOneAnswer
=============================================================================
