---------------------------- MODULE Answers_proofs ----------------------------
(***************************************************************************)
(* Proofs about AnswerStream, for any number of providers and bodies of    *)
(* any length: what the client is sent is one provider's answer, whole     *)
(* once "done" is sent, and the generator never sleeps on a queue that     *)
(* holds something or on a body that is over.  And about AskQuota, for any *)
(* members, calls, batches and limits: what the month's calls cost beyond  *)
(* a limit is what calls that overlap cost.  And about Ranking, for any    *)
(* chunks, scores, weights and budgets: the order of the legs, the         *)
(* explanation and the prompt.                                             *)
(*                                                                         *)
(* The stream's invariant says what stands in the queue.  While the body   *)
(* goes on it continues what was sent, delta by delta.  Once the end has   *)
(* been seen there is a first chunk that is done: what is before it        *)
(* continues what was sent, and the chunk closes the answer.  The meter's  *)
(* invariant is told with it, below, and the ranking's likewise.           *)
(***************************************************************************)
EXTENDS AnswerStream, AskQuota, Ranking, FiniteSetTheorems, WellFoundedInduction, TLAPS

Chunks == [n : {0} \cup Places, done : BOOLEAN]

\* A queue q after s deltas sent, of w deltas said: the body goes on.
Open(q, s, w) ==
    /\ \A i \in 1..Len(q) : q[i] = Chunk(s + i, FALSE)
    /\ w = s + Len(q)
\* The chunk at d closes the answer, with a last delta or without one.
Closed(q, s, w) ==
    \E d \in 1..Len(q) :
        /\ \A i \in 1..(d - 1) : q[i] = Chunk(s + i, FALSE)
        /\ \/ q[d] = Chunk(0, TRUE) /\ w = s + d - 1
           \/ q[d] = Chunk(s + d, TRUE) /\ w = s + d

Before == {"gate", "retrieve", "connect"}

\* Where the call is and what it has sent so far.
PlaceInv ==
    /\ pc \in Before => sent = <<>>
    /\ pc # "over" => history = <<>>
    /\ last = "done" => pc \in {"record", "over"} /\ Len(sent) = said
    /\ \A i \in DOMAIN sent : sent[i] = Delta(prov, i)
    /\ history \in {<<>>, <<sent>>}

\* What the queue holds.
QueueInv ==
    pc = "read" =>
        /\ body = "open" => said <= MaxDeltas
        /\ ~finished => body = "open" /\ Open(queue, Len(sent), said)
        /\ finished => Closed(queue, Len(sent), said)

TypeInv ==
    /\ pc \in {"gate", "retrieve", "connect", "read", "record", "over"}
    /\ prov \in 1..Providers /\ said \in {0} \cup Places
    /\ body \in {"open", "ended"}
    /\ finished \in BOOLEAN /\ waiting \in BOOLEAN /\ woken \in BOOLEAN
    /\ queue \in Seq(Chunks)
    /\ sent \in Seq(Deltas)
    /\ last \in {NoEvent, "refused", "error", "withheld", "sources", "done"}

Inv == TypeInv /\ PlaceInv /\ QueueInv /\ NoReaderSleeps

-----------------------------------------------------------------------------
(* Sequences                                                               *)

LEMMA HeadAndTail ==
    ASSUME NEW S, NEW q \in Seq(S), q # <<>>
    PROVE  /\ Head(q) = q[1] /\ q[1] \in S /\ Len(q) \in Nat /\ Len(q) >= 1
           /\ Tail(q) \in Seq(S) /\ Len(Tail(q)) = Len(q) - 1
           /\ \A i \in 1..(Len(q) - 1) : Tail(q)[i] = q[i + 1]
  OBVIOUS

LEMMA Appended ==
    ASSUME NEW S, NEW q \in Seq(S), NEW e \in S
    PROVE  /\ Append(q, e) \in Seq(S) /\ Len(Append(q, e)) = Len(q) + 1 /\ Len(q) \in Nat
           /\ Append(q, e)[Len(q) + 1] = e
           /\ \A i \in 1..Len(q) : Append(q, e)[i] = q[i]
  OBVIOUS

LEMMA ChunkFields ==
    ASSUME NEW n, NEW d
    PROVE  /\ Chunk(n, d).n = n /\ Chunk(n, d).done = d
           /\ n \in {0} \cup Places /\ d \in BOOLEAN => Chunk(n, d) \in Chunks
  BY DEF Chunk, Chunks

LEMMA OpenGrows ==
    ASSUME NEW q \in Seq(Chunks), NEW s \in Nat, NEW w \in Nat, Open(q, s, w),
           NEW e \in Chunks
    PROVE  /\ e = Chunk(w + 1, FALSE) => Open(Append(q, e), s, w + 1)
           /\ e = Chunk(0, TRUE) => Closed(Append(q, e), s, w)
           /\ e = Chunk(w + 1, TRUE) => Closed(Append(q, e), s, w + 1)
  <1> DEFINE r == Append(q, e)
             d == Len(q) + 1
  <1>1. /\ Len(r) = d /\ Len(q) \in Nat /\ r[d] = e
        /\ \A i \in 1..Len(q) : r[i] = q[i]
    BY Appended
  <1>2. w = s + Len(q) /\ (\A i \in 1..Len(q) : q[i] = Chunk(s + i, FALSE))
    BY DEF Open
  <1> HIDE DEF r
  <1>3. d - 1 = Len(q) /\ (\A i \in 1..(d - 1) : r[i] = Chunk(s + i, FALSE))
    <2>1. d - 1 = Len(q)
      BY <1>1
    <2> QED
      BY <1>1, <1>2, <2>1
  <1>4. w + 1 = s + d /\ w = s + d - 1 /\ d \in 1..Len(r)
    BY <1>1, <1>2
  <1>5. ASSUME e = Chunk(w + 1, FALSE) PROVE Open(r, s, w + 1)
    <2>1. \A i \in 1..Len(r) : r[i] = Chunk(s + i, FALSE)
      <3>1. TAKE i \in 1..Len(r)
      <3>2. CASE i = d
        <4>1. r[i] = Chunk(w + 1, FALSE)
          BY <1>1, <1>5, <3>2
        <4> QED
          BY <1>4, <3>2, <4>1
      <3>3. CASE i # d
        <4>1. i \in 1..(d - 1)
          BY <1>1, <3>3
        <4> QED
          BY <1>3, <4>1
      <3> QED
        BY <3>2, <3>3
    <2> QED
      BY <1>1, <1>4, <2>1 DEF Open
  <1> HIDE DEF d
  <1>6. ASSUME e = Chunk(0, TRUE) PROVE Closed(r, s, w)
    BY <1>1, <1>3, <1>4, <1>6 DEF Closed
  <1>7. ASSUME e = Chunk(w + 1, TRUE) PROVE Closed(r, s, w + 1)
    BY <1>1, <1>3, <1>4, <1>7 DEF Closed
  <1> QED
    BY <1>5, <1>6, <1>7 DEF r

LEMMA ClosedGrows ==
    ASSUME NEW q \in Seq(Chunks), NEW s \in Nat, NEW w \in Nat, Closed(q, s, w),
           NEW e \in Chunks
    PROVE  Closed(Append(q, e), s, w)
  <1>1. PICK d \in 1..Len(q) :
            /\ \A i \in 1..(d - 1) : q[i] = Chunk(s + i, FALSE)
            /\ \/ q[d] = Chunk(0, TRUE) /\ w = s + d - 1
               \/ q[d] = Chunk(s + d, TRUE) /\ w = s + d
    BY DEF Closed
  <1> DEFINE r == Append(q, e)
  <1>2. Len(r) = Len(q) + 1 /\ Len(q) \in Nat /\ (\A i \in 1..Len(q) : r[i] = q[i])
    BY Appended
  <1> HIDE DEF r
  <1>3. d \in 1..Len(r) /\ r[d] = q[d] /\ (\A i \in 1..(d - 1) : r[i] = q[i])
    BY <1>2
  <1>4. Closed(r, s, w)
    BY <1>1, <1>3 DEF Closed
  <1> QED
    BY <1>4 DEF r

LEMMA OpenTaken ==
    ASSUME NEW q \in Seq(Chunks), NEW s \in Nat, NEW w \in Nat, Open(q, s, w), q # <<>>
    PROVE  q[1] = Chunk(s + 1, FALSE) /\ Open(Tail(q), s + 1, w)
  <1> DEFINE r == Tail(q)
  <1>1. /\ Len(q) \in Nat /\ Len(q) >= 1 /\ Len(r) = Len(q) - 1
        /\ \A i \in 1..(Len(q) - 1) : r[i] = q[i + 1]
    BY HeadAndTail
  <1>2. w = s + Len(q) /\ (\A i \in 1..Len(q) : q[i] = Chunk(s + i, FALSE))
    BY DEF Open
  <1> HIDE DEF r
  <1>3. \A i \in 1..Len(r) : r[i] = Chunk(s + 1 + i, FALSE)
    <2>1. TAKE i \in 1..Len(r)
    <2>2. i + 1 \in 1..Len(q) /\ s + (i + 1) = s + 1 + i /\ r[i] = q[i + 1]
      BY <1>1
    <2> QED
      BY <1>2, <2>2
  <1>4. w = s + 1 + Len(r) /\ 1 \in 1..Len(q)
    BY <1>1, <1>2
  <1> QED
    BY <1>2, <1>3, <1>4 DEF Open, r

LEMMA ClosedTaken ==
    ASSUME NEW q \in Seq(Chunks), NEW s \in Nat, NEW w \in Nat, Closed(q, s, w)
    PROVE  /\ q # <<>>
           /\ \/ q[1] = Chunk(s + 1, FALSE) /\ Closed(Tail(q), s + 1, w)
              \/ q[1] = Chunk(0, TRUE) /\ w = s
              \/ q[1] = Chunk(s + 1, TRUE) /\ w = s + 1
  <1>1. PICK d \in 1..Len(q) :
            /\ \A i \in 1..(d - 1) : q[i] = Chunk(s + i, FALSE)
            /\ \/ q[d] = Chunk(0, TRUE) /\ w = s + d - 1
               \/ q[d] = Chunk(s + d, TRUE) /\ w = s + d
    BY DEF Closed
  <1>2. q # <<>>
    OBVIOUS
  <1>3. CASE d = 1
    <2>1. s + d - 1 = s /\ s + d = s + 1
      BY <1>3
    <2>2. \/ q[1] = Chunk(0, TRUE) /\ w = s
          \/ q[1] = Chunk(s + 1, TRUE) /\ w = s + 1
      BY <1>1, <1>3, <2>1
    <2> QED
      BY <1>2, <2>2
  <1>4. CASE d # 1
    <2> DEFINE r == Tail(q)
               e == d - 1
    <2>1. /\ Len(q) \in Nat /\ Len(q) >= 1 /\ Len(r) = Len(q) - 1
          /\ \A i \in 1..(Len(q) - 1) : r[i] = q[i + 1]
      BY <1>2, HeadAndTail
    <2> HIDE DEF r
    <2>2. e \in 1..Len(r) /\ e \in Nat /\ d = e + 1 /\ r[e] = q[d] /\ 1 \in 1..(d - 1)
      BY <1>4, <2>1
    <2>3. \A i \in 1..(e - 1) : r[i] = Chunk(s + 1 + i, FALSE)
      <3>1. TAKE i \in 1..(e - 1)
      <3>2. i \in 1..(Len(q) - 1) /\ i + 1 \in 1..(d - 1)
        BY <2>1, <2>2
      <3>3. s + (i + 1) = s + 1 + i
        BY <3>2
      <3>4. r[i] = q[i + 1]
        BY <2>1, <3>2
      <3> QED
        BY <1>1, <3>2, <3>3, <3>4
    <2>4. s + d = s + 1 + e /\ s + d - 1 = s + 1 + e - 1
      BY <2>2
    <2>5. Closed(r, s + 1, w)
      <3> HIDE DEF e
      <3>1. \/ r[e] = Chunk(0, TRUE) /\ w = s + 1 + e - 1
            \/ r[e] = Chunk(s + 1 + e, TRUE) /\ w = s + 1 + e
        BY <1>1, <2>2, <2>4
      <3> QED
        BY <2>2, <2>3, <3>1 DEF Closed
    <2> QED
      BY <1>1, <1>2, <2>2, <2>5 DEF r
  <1> QED
    BY <1>3, <1>4

-----------------------------------------------------------------------------
(* The steps                                                               *)

LEMMA Starts == StreamInit => Inv
  <1>1. ASSUME StreamInit PROVE Inv
    <2>1. <<>> \in Seq(Chunks) /\ <<>> \in Seq(Deltas)
      OBVIOUS
    <2>2. TypeInv
      <3>1. 1 \in 1..Providers
        BY StreamAssumption
      <3> QED
        BY <1>1, <2>1, <3>1 DEF StreamInit, TypeInv, NoEvent
    <2>3. PlaceInv
      <3>1. sent = <<>> /\ DOMAIN sent = {} /\ history = <<>>
        BY <1>1 DEF StreamInit
      <3> QED
        BY <1>1, <3>1 DEF StreamInit, PlaceInv, NoEvent
    <2> QED
      BY <1>1, <2>2, <2>3 DEF StreamInit, Inv, QueueInv, NoReaderSleeps
  <1> QED
    BY <1>1

\* Up to the first answer nothing is read.
LEMMA ConnectSteps ==
    ASSUME Inv,
           CheckModel \/ RetrieveAndScan \/ ProviderFails \/ ProviderAnswers
             \/ RecordAnswer \/ Over \/ UNCHANGED streamVars
    PROVE  Inv'
  <1> USE DEF Inv, TypeInv, PlaceInv, QueueInv, NoReaderSleeps, bodyVars, GoOn, NoEvent, Before
  <1>1. CASE CheckModel \/ RetrieveAndScan
    BY <1>1 DEF CheckModel, RetrieveAndScan
  <1>2. CASE ProviderFails
    <2>1. sent = <<>> /\ sent' = <<>> /\ DOMAIN sent' = {}
      BY <1>2 DEF ProviderFails
    <2>2. prov' \in 1..Providers
      BY <1>2, StreamAssumption DEF ProviderFails
    <2> QED
      BY <1>2, <2>1, <2>2 DEF ProviderFails
  <1>3. CASE ProviderAnswers
    <2>1. queue' = <<>> /\ queue' \in Seq(Chunks) /\ Len(queue') = 0 /\ DOMAIN queue' = {}
      BY <1>3 DEF ProviderAnswers
    <2>2. sent = <<>> /\ sent' = <<>> /\ Len(sent') = 0 /\ DOMAIN sent' = {}
      BY <1>3 DEF ProviderAnswers
    <2>3. TypeInv'
      BY <1>3, <2>1, <2>2 DEF ProviderAnswers
    <2>4. PlaceInv'
      BY <1>3, <2>2 DEF ProviderAnswers
    <2>5. QueueInv'
      BY <1>3, <2>1, <2>2, StreamAssumption DEF ProviderAnswers, Open
    <2> QED
      BY <1>3, <2>1, <2>3, <2>4, <2>5 DEF ProviderAnswers
  <1>4. CASE RecordAnswer
    <2>1. history' \in {<<>>, <<sent>>} /\ sent' = sent
      BY <1>4 DEF RecordAnswer
    <2> QED
      BY <1>4, <2>1 DEF RecordAnswer
  <1>5. CASE Over \/ UNCHANGED streamVars
    <2>1. UNCHANGED streamVars
      BY <1>5 DEF Over
    <2> QED
      BY <2>1 DEF streamVars
  <1> QED
    BY <1>1, <1>2, <1>3, <1>4, <1>5

\* A chunk read from the body goes to the end of the queue.
LEMMA FeedSteps ==
    ASSUME Inv, ReadDelta \/ ReadDone \/ BodyEnds \/ BodyFails
    PROVE  Inv'
  <1>1. /\ queue \in Seq(Chunks) /\ sent \in Seq(Deltas) /\ Len(sent) \in Nat
        /\ said \in Nat /\ said <= MaxDeltas /\ MaxDeltas \in Nat
        /\ pc = "read" /\ body = "open" /\ finished \in BOOLEAN /\ waiting \in BOOLEAN
    <2>1. Feeding
      BY DEF ReadDelta, ReadDone, BodyEnds, BodyFails
    <2>2. /\ queue \in Seq(Chunks) /\ sent \in Seq(Deltas) /\ Len(sent) \in Nat
          /\ said \in {0} \cup Places /\ finished \in BOOLEAN /\ waiting \in BOOLEAN
      BY DEF Inv, TypeInv
    <2>3. said \in Nat /\ MaxDeltas \in Nat
      BY <2>2, StreamAssumption DEF Places
    <2>4. pc = "read" /\ body = "open" /\ said <= MaxDeltas
      BY <2>1 DEF Feeding, Inv, QueueInv
    <2> QED
      BY <2>2, <2>3, <2>4
  <1>2. /\ woken' = waiting
        /\ UNCHANGED <<pc, prov, waiting, sent, last, history>>
    BY DEF ReadDelta, ReadDone, BodyEnds, BodyFails
  <1>3. /\ 0 \in {0} \cup Places /\ said \in {0} \cup Places /\ said + 1 \in {0} \cup Places
        /\ Chunk(0, TRUE) \in Chunks /\ Chunk(said + 1, TRUE) \in Chunks
        /\ Chunk(said + 1, FALSE) \in Chunks
    <2>1. /\ 0 \in {0} \cup Places /\ said \in {0} \cup Places /\ said + 1 \in {0} \cup Places
      BY <1>1 DEF Places
    <2> QED
      BY <2>1, ChunkFields
  <1>4. /\ ~finished => Open(queue, Len(sent), said)
        /\ finished => Closed(queue, Len(sent), said)
    BY <1>1 DEF Inv, QueueInv
  <1>5. /\ queue' \in Seq(Chunks) /\ said' \in {0} \cup Places
        /\ body' \in {"open", "ended"} /\ finished' \in BOOLEAN
        /\ body' = "open" => said' <= MaxDeltas
        /\ ~finished' => body' = "open" /\ Open(queue', Len(sent), said')
        /\ finished' => Closed(queue', Len(sent), said')
    <2>1. CASE ReadDelta
      <3>1. /\ queue' = Append(queue, Chunk(said + 1, FALSE)) /\ said' = said + 1
            /\ ~finished /\ said < MaxDeltas /\ UNCHANGED <<body, finished>>
        BY <2>1 DEF ReadDelta, Push
      <3>4. said' \in {0} \cup Places /\ said' <= MaxDeltas /\ body' = "open"
            /\ finished' \in BOOLEAN /\ ~finished'
        BY <1>1, <1>3, <3>1
      <3>2. queue' \in Seq(Chunks)
        BY <1>1, <1>3, <3>1, Appended
      <3>3. Open(queue', Len(sent), said')
        BY <1>1, <1>3, <1>4, <3>1, OpenGrows
      <3> QED
        BY <3>2, <3>3, <3>4
    <2>2. CASE ReadDone
      <3>1. /\ queue' = Append(queue, Chunk(0, TRUE)) /\ said' = said
            /\ ~finished /\ finished' /\ finished' \in BOOLEAN /\ UNCHANGED body
        BY <2>2 DEF ReadDone, Push
      <3>2. queue' \in Seq(Chunks)
        BY <1>1, <1>3, <3>1, Appended
      <3>3. Closed(queue', Len(sent), said')
        BY <1>1, <1>3, <1>4, <3>1, OpenGrows
      <3> QED
        BY <1>1, <1>3, <3>1, <3>2, <3>3
    <2>3. CASE BodyEnds
      <3>1. /\ queue' = Append(queue, Chunk(0, TRUE)) /\ said' = said
            /\ finished' /\ finished' \in BOOLEAN /\ body' = "ended"
        BY <2>3 DEF BodyEnds, Push
      <3>2. queue' \in Seq(Chunks)
        BY <1>1, <1>3, <3>1, Appended
      <3>3. Closed(queue', Len(sent), said')
        BY <1>1, <1>3, <1>4, <3>1, OpenGrows, ClosedGrows
      <3> QED
        BY <1>1, <1>3, <3>1, <3>2, <3>3
    <2>4. CASE BodyFails
      <3>1. /\ queue' = Append(queue, Chunk(said + 1, TRUE))
            /\ said' = IF finished THEN said ELSE said + 1
            /\ finished' /\ finished' \in BOOLEAN /\ body' = "ended"
        BY <2>4 DEF BodyFails, Push
      <3>2. queue' \in Seq(Chunks)
        BY <1>1, <1>3, <3>1, Appended
      <3>3. CASE finished
        <4>1. Closed(queue', Len(sent), said)
          BY <1>1, <1>3, <1>4, <3>1, <3>3, ClosedGrows
        <4> QED
          BY <1>1, <1>3, <3>1, <3>2, <3>3, <4>1
      <3>4. CASE ~finished
        <4>1. Closed(queue', Len(sent), said + 1)
          BY <1>1, <1>3, <1>4, <3>1, <3>4, OpenGrows
        <4> QED
          BY <1>1, <1>3, <3>1, <3>2, <3>4, <4>1
      <3> QED
        BY <3>3, <3>4
    <2> QED
      BY <2>1, <2>2, <2>3, <2>4
  <1>6. TypeInv'
    BY <1>1, <1>2, <1>5 DEF Inv, TypeInv
  <1>7. PlaceInv'
    BY <1>1, <1>2 DEF Inv, PlaceInv
  <1>8. QueueInv'
    BY <1>1, <1>2, <1>5 DEF QueueInv
  <1>9. NoReaderSleeps'
    BY <1>1, <1>2 DEF NoReaderSleeps
  <1> QED
    BY <1>6, <1>7, <1>8, <1>9 DEF Inv

\* What is taken from the queue is the next delta, until the chunk that closes the answer.
LEMMA TakeStep ==
    ASSUME Inv, TakeChunk
    PROVE  Inv'
  <1>1. /\ queue \in Seq(Chunks) /\ sent \in Seq(Deltas) /\ said \in Nat /\ prov \in 1..Providers
        /\ Len(sent) \in Nat /\ pc = "read" /\ queue # <<>> /\ finished \in BOOLEAN
    BY StreamAssumption DEF Inv, TypeInv, Places, TakeChunk, Reading
  <1>2. /\ Head(queue) = queue[1] /\ queue[1] \in Chunks
        /\ queue' = Tail(queue) /\ queue' \in Seq(Chunks)
    BY <1>1, HeadAndTail DEF TakeChunk
  <1>3. /\ UNCHANGED <<prov, body, finished, said, history>>
        /\ waiting' = FALSE /\ woken' = FALSE
        /\ queue[1].done => pc' = "record" /\ last' = "done"
        /\ ~queue[1].done => UNCHANGED <<pc, last>>
        /\ queue[1].n = 0 => sent' = sent
        /\ queue[1].n # 0 => sent' = Append(sent, Delta(prov, queue[1].n))
    BY <1>2 DEF TakeChunk, GoOn
  <1>4. \/ /\ queue[1] = Chunk(Len(sent) + 1, FALSE)
           /\ ~finished => body = "open" /\ Open(queue', Len(sent) + 1, said)
           /\ finished => Closed(queue', Len(sent) + 1, said)
        \/ queue[1] = Chunk(0, TRUE) /\ said = Len(sent)
        \/ queue[1] = Chunk(Len(sent) + 1, TRUE) /\ said = Len(sent) + 1
    <2>1. CASE finished
      <3>1. Closed(queue, Len(sent), said)
        BY <1>1, <2>1 DEF Inv, QueueInv
      <3> QED
        BY <1>1, <1>2, <2>1, <3>1, ClosedTaken
    <2>2. CASE ~finished
      <3>1. Open(queue, Len(sent), said) /\ body = "open"
        BY <1>1, <2>2 DEF Inv, QueueInv
      <3> QED
        BY <1>1, <1>2, <2>2, <3>1, OpenTaken
    <2> QED
      BY <2>1, <2>2
  <1>5. \/ queue[1].n = 0 /\ queue[1].done /\ said = Len(sent)
        \/ queue[1].n = Len(sent) + 1 /\ queue[1].done /\ said = Len(sent) + 1
        \/ /\ queue[1].n = Len(sent) + 1 /\ ~queue[1].done
           /\ ~finished => body = "open" /\ Open(queue', Len(sent) + 1, said)
           /\ finished => Closed(queue', Len(sent) + 1, said)
    <2>1. CASE queue[1] = Chunk(0, TRUE) /\ said = Len(sent)
      BY <2>1 DEF Chunk
    <2>2. CASE queue[1] = Chunk(Len(sent) + 1, TRUE) /\ said = Len(sent) + 1
      BY <2>2 DEF Chunk
    <2>3. CASE /\ queue[1] = Chunk(Len(sent) + 1, FALSE)
               /\ ~finished => body = "open" /\ Open(queue', Len(sent) + 1, said)
               /\ finished => Closed(queue', Len(sent) + 1, said)
      <3>1. queue[1].n = Len(sent) + 1 /\ queue[1].done = FALSE
        BY <2>3 DEF Chunk
      <3> QED
        BY <2>3, <3>1
    <2> QED
      BY <1>4, <2>1, <2>2, <2>3
  <1>6. /\ sent' \in Seq(Deltas)
        /\ \A i \in DOMAIN sent' : sent'[i] = Delta(prov, i)
        /\ queue[1].n = 0 => Len(sent') = Len(sent)
        /\ queue[1].n # 0 => Len(sent') = Len(sent) + 1
    <2>0. \A i \in DOMAIN sent : sent[i] = Delta(prov, i)
      BY DEF Inv, PlaceInv
    <2>1. CASE queue[1].n = 0
      BY <1>1, <1>3, <2>0, <2>1
    <2>2. CASE queue[1].n # 0
      <3>1. queue[1].n = Len(sent) + 1 /\ queue[1].n \in Places
        BY <1>2, <1>5, <2>2 DEF Chunks
      <3>2. Delta(prov, Len(sent) + 1) \in Deltas
        BY <1>1, <3>1 DEF Delta, Deltas
      <3> DEFINE e == Delta(prov, Len(sent) + 1)
      <3>3. sent' = Append(sent, e)
        BY <1>3, <2>2, <3>1
      <3>4. /\ sent' \in Seq(Deltas) /\ Len(sent') = Len(sent) + 1
            /\ sent'[Len(sent) + 1] = e /\ (\A i \in 1..Len(sent) : sent'[i] = sent[i])
        BY <1>1, <3>2, <3>3, Appended
      <3>5. DOMAIN sent' = 1..(Len(sent) + 1) /\ DOMAIN sent = 1..Len(sent)
        BY <1>1, <3>4
      <3>6. \A i \in DOMAIN sent' : sent'[i] = Delta(prov, i)
        <4>1. TAKE i \in DOMAIN sent'
        <4>2. CASE i = Len(sent) + 1
          BY <3>4, <4>2
        <4>3. CASE i # Len(sent) + 1
          <5>1. i \in 1..Len(sent)
            BY <1>1, <3>5, <4>3
          <5> QED
            BY <2>0, <3>4, <3>5, <5>1
        <4> QED
          BY <4>2, <4>3
      <3> QED
        BY <2>2, <3>4, <3>6
    <2> QED
      BY <2>1, <2>2
  <1>7. TypeInv'
    BY <1>2, <1>3, <1>6 DEF Inv, TypeInv
  <1>8. PlaceInv'
    <2>1. history' = <<>> /\ last # "done"
      BY <1>1, <1>3 DEF Inv, PlaceInv
    <2>2. pc' # "over" /\ pc' \notin Before
      BY <1>1, <1>3 DEF Before
    <2>3. last' = "done" => pc' \in {"record", "over"} /\ Len(sent') = said'
      <3>1. CASE queue[1].done
        <4>1. Len(sent') = said
          BY <1>1, <1>5, <1>6, <3>1
        <4> QED
          BY <1>3, <3>1, <4>1
      <3>2. CASE ~queue[1].done
        BY <1>3, <2>1, <3>2
      <3> QED
        BY <3>1, <3>2
    <2> QED
      BY <1>3, <1>6, <2>1, <2>2, <2>3 DEF PlaceInv
  <1>9. QueueInv'
    <2>1. CASE queue[1].done
      BY <1>3, <2>1 DEF QueueInv
    <2>2. CASE ~queue[1].done
      <3>1. queue[1].n = Len(sent) + 1 /\ queue[1].n # 0
        BY <1>1, <1>5, <2>2
      <3>2. /\ Len(sent') = Len(sent) + 1
            /\ ~finished' => body' = "open" /\ Open(queue', Len(sent'), said')
            /\ finished' => Closed(queue', Len(sent'), said')
        BY <1>3, <1>5, <1>6, <2>2, <3>1
      <3>3. body' = "open" => said' <= MaxDeltas
        BY <1>1, <1>3 DEF Inv, QueueInv
      <3> QED
        BY <3>2, <3>3 DEF QueueInv
    <2> QED
      BY <2>1, <2>2
  <1>10. NoReaderSleeps'
    BY <1>3 DEF NoReaderSleeps
  <1> QED
    BY <1>7, <1>8, <1>9, <1>10 DEF Inv

\* The generator finds the queue empty only while the body goes on.
LEMMA WaitStep ==
    ASSUME Inv, WaitOrEnd
    PROVE  Inv'
  <1>1. /\ pc = "read" /\ queue = <<>> /\ queue \in Seq(Chunks)
        /\ Len(sent) \in Nat /\ said \in Nat /\ finished \in BOOLEAN
    BY StreamAssumption DEF Inv, TypeInv, Places, WaitOrEnd, Reading
  <1>2. ~finished
    BY <1>1, ClosedTaken DEF Inv, QueueInv
  <1>3. /\ waiting' = TRUE /\ woken' = FALSE
        /\ UNCHANGED <<pc, last, prov, body, queue, finished, said, sent, history>>
    BY <1>2 DEF WaitOrEnd
  <1>4. TypeInv'
    BY <1>3 DEF Inv, TypeInv
  <1>5. PlaceInv'
    BY <1>3 DEF Inv, PlaceInv
  <1>6. QueueInv'
    BY <1>3 DEF Inv, QueueInv
  <1>7. NoReaderSleeps'
    BY <1>1, <1>2, <1>3 DEF NoReaderSleeps
  <1> QED
    BY <1>4, <1>5, <1>6, <1>7 DEF Inv

-----------------------------------------------------------------------------
\* The invariant holds in every state of the specification.
LEMMA StreamInvariant == StreamSpec => []Inv
  <1>1. Inv /\ [StreamNext]_streamVars => Inv'
    BY ConnectSteps, FeedSteps, TakeStep, WaitStep DEF StreamNext
  <1> QED
    BY Starts, <1>1, PTL DEF StreamSpec

\* The client reads one provider's answer from its first delta, without a gap
\* or a repetition, and all of it once it is told "done"; what is recorded is
\* what it read.
THEOREM StreamIsOneVoice == StreamSpec => []OneVoice
  <1>1. Inv => OneVoice
    BY DEF Inv, PlaceInv, OneVoice
  <1> QED
    BY StreamInvariant, <1>1, PTL

\* No wake-up is lost between the reader of the body and the generator.
THEOREM StreamNeverSleeps == StreamSpec => []NoReaderSleeps
  <1>1. Inv => NoReaderSleeps
    BY DEF Inv
  <1> QED
    BY StreamInvariant, <1>1, PTL

\* Every variable keeps its type.
THEOREM StreamTypes == StreamSpec => []StreamTypeOK
  <1>1. Inv => StreamTypeOK
    <2>1. ASSUME Inv PROVE history \in Seq(Seq(Deltas))
      <3>1. sent \in Seq(Deltas) /\ (history = <<>> \/ history = <<sent>>)
        BY <2>1 DEF Inv, TypeInv, PlaceInv
      <3> DEFINE S == Seq(Deltas)
      <3> HIDE DEF S
      <3>2. sent \in S
        BY <3>1 DEF S
      <3>3. <<>> \in Seq(S) /\ <<sent>> \in Seq(S)
        BY <3>2
      <3> QED
        BY <3>1, <3>3 DEF S
    <2> QED
      BY <2>1 DEF Inv, TypeInv, StreamTypeOK, Chunks
  <1> QED
    BY StreamInvariant, <1>1, PTL

-----------------------------------------------------------------------------
(* The meter.  A call is pending for a month while it may still append to  *)
(* that month's meter with no further check against the month's limit: its *)
(* answer or its line is under way, or it will be checked against a month  *)
(* that is over.  For a member it is pending as soon as it has read a      *)
(* meter that leaves room for it.  What is used then leaves room for the   *)
(* dearest batch beside the calls that are not pending, or for the cost of *)
(* one of those that are.                                                  *)

\* What the calls cost, and the room that calls which are not pending leave
Costs == [c \in QuotaCalls |-> IF qcall[c] = NoCall THEN 0 ELSE qcall[c].units]
Spare(P) == MaxBatch * (Cardinality(QuotaCalls) - Cardinality(P))
Within(used, P, w, cost) ==
    \/ used + MaxBatch <= w + Spare(P)
    \/ \E c \in P : used + cost[c] <= w + Spare(P)

Pending(m) ==
    {c \in QuotaCalls :
        \/ QAt(c, "append") /\ qcall[c].period = m
        \/ m = month /\ QAt(c, "running") /\ qcall[c].units # 0
        \/ m = month /\ (QAt(c, "mine") \/ QAt(c, "workspace")) /\ qcall[c].period # m}
\* Of the calls of member u: those, and those that pass with a limit up to w
PendingOf(m, u, w) ==
    {c \in QuotaCalls :
        \/ c \in Pending(m) /\ qcall[c].member = u
        \/ /\ m = month /\ QAt(c, "workspace") /\ qcall[c].period = m /\ qcall[c].member = u
           /\ qcall[c].limits.member <= w
           /\ qcall[c].mine + qcall[c].units <= qcall[c].limits.member}

AllWithin(m) ==
    widest[m] # Unlimited => Within(metered[m].all, Pending(m), widest[m], Costs)
OwnWithin(m, u) ==
    \A w \in Nat :
        w >= widestOf[m][u] => Within(metered[m].of[u], PendingOf(m, u, w), w, Costs)
\* A month that has not come has cost nothing.
NotYet(m) == m > month => metered[m].all = 0 /\ \A u \in Members : metered[m].of[u] = 0

MeterInv ==
    \A m \in Months : AllWithin(m) /\ NotYet(m) /\ \A u \in Members : OwnWithin(m, u)

-----------------------------------------------------------------------------
(* Arithmetic of the room                                                  *)

\* The largest of a finite set: the one with the fewest above it.
LEMMA LargestOf ==
    ASSUME NEW S \in SUBSET Int, IsFiniteSet(S), S # {}
    PROVE  \E x \in S : \A y \in S : y <= x
  <1> DEFINE Above(x) == {y \in S : y > x}
             D == {Cardinality(Above(x)) : x \in S}
  <1>1. \A x \in S : IsFiniteSet(Above(x)) /\ Cardinality(Above(x)) \in Nat
    BY FS_Subset, FS_CardinalityType
  <1>2. D \subseteq Nat /\ D # {}
    BY <1>1
  <1> HIDE DEF D
  <1>3. PICK m \in D : \A k \in D : ~(<<k, m>> \in OpToRel(<, Nat))
    BY <1>2, NatLessThanWellFounded, WFMin
  <1>4. m \in Nat /\ \A k \in D : ~(k < m)
    BY <1>2, <1>3 DEF OpToRel
  <1>5. PICK x \in S : m = Cardinality(Above(x))
    BY DEF D
  <1>6. ASSUME NEW y \in S, y > x PROVE FALSE
    <2>1. Above(y) \subseteq Above(x)
      <3>1. \A z \in S : z \in Int /\ y \in Int /\ x \in Int
        OBVIOUS
      <3>2. \A z \in S : z > y => z > x
        BY <1>6, <3>1
      <3> QED BY <3>2
    <2>2. y \in Above(x) /\ y \notin Above(y)
      BY <1>6
    <2>3. Cardinality(Above(y)) \in D
      BY DEF D
    <2>4. /\ IsFiniteSet(Above(x)) /\ Cardinality(Above(x)) \in Nat
          /\ IsFiniteSet(Above(y)) /\ Cardinality(Above(y)) \in Nat
      BY <1>1
    <2> HIDE DEF Above
    <2>5. Cardinality(Above(y)) <= Cardinality(Above(x))
      BY <2>1, <2>4, FS_Subset
    <2>6. Cardinality(Above(y)) = Cardinality(Above(x))
      BY <1>4, <1>5, <2>3, <2>4, <2>5
    <2>7. Above(y) = Above(x)
      BY <2>1, <2>4, <2>6, FS_Subset
    <2> QED BY <2>2, <2>7
  <1> QED BY <1>6

LEMMA Largest ==
    /\ MaxBatch \in Nat \ {0}
    /\ \A n \in BatchSizes : n \in Nat /\ n <= MaxBatch
  <1>1. BatchSizes \in SUBSET (Nat \ {0}) /\ IsFiniteSet(BatchSizes) /\ BatchSizes # {}
    BY QuotaAssumption
  <1>2. \E x \in BatchSizes : \A y \in BatchSizes : x >= y
    BY <1>1, LargestOf
  <1>3. MaxBatch \in BatchSizes /\ \A y \in BatchSizes : MaxBatch >= y
    BY <1>2 DEF MaxBatch, Max
  <1> QED BY <1>1, <1>3

LEMMA CallsAreFinite ==
    ASSUME NEW P \in SUBSET QuotaCalls
    PROVE  /\ IsFiniteSet(P) /\ Cardinality(P) \in Nat
           /\ Cardinality(QuotaCalls) \in Nat /\ Cardinality(P) <= Cardinality(QuotaCalls)
  BY QuotaAssumption, FS_Subset, FS_CardinalityType

LEMMA Products ==
    ASSUME NEW a \in Nat, NEW k \in Nat, NEW l \in Nat
    PROVE  /\ a * k \in Nat /\ a * (k + 1) = a * k + a
           /\ a * (k + l) = a * k + a * l
  OBVIOUS

LEMMA SpareIsRoom ==
    ASSUME NEW P \in SUBSET QuotaCalls
    PROVE  /\ Spare(P) \in Nat
           /\ \A Q \in SUBSET P : Spare(Q) \in Nat /\ Spare(Q) >= Spare(P)
           /\ \A d \in P : Spare(P \ {d}) = Spare(P) + MaxBatch
  <1> DEFINE n == Cardinality(QuotaCalls)
             p == Cardinality(P)
  <1>1. n \in Nat /\ p \in Nat /\ p <= n /\ IsFiniteSet(P)
    BY CallsAreFinite
  <1>2. MaxBatch \in Nat
    BY Largest
  <1> HIDE DEF n, p
  <1>3. n - p \in Nat
    BY <1>1
  <1>4. Spare(P) = MaxBatch * (n - p)
    BY DEF Spare, n, p
  <1>5. Spare(P) \in Nat
    BY <1>2, <1>3, <1>4, Products
  <1>6. ASSUME NEW Q \in SUBSET P PROVE Spare(Q) \in Nat /\ Spare(Q) >= Spare(P)
    <2> DEFINE q == Cardinality(Q)
    <2>1. q \in Nat /\ q <= p
      BY <1>1, FS_Subset, FS_CardinalityType DEF p
    <2>2. Spare(Q) = MaxBatch * (n - q)
      BY DEF Spare, n
    <2> HIDE DEF q
    <2>3. p - q \in Nat /\ n - q = (n - p) + (p - q)
      BY <1>1, <2>1
    <2> DEFINE a == n - p
               b == p - q
    <2> HIDE DEF a, b
    <2>4. a \in Nat /\ b \in Nat /\ Spare(P) = MaxBatch * a /\ Spare(Q) = MaxBatch * (a + b)
      BY <1>3, <1>4, <2>2, <2>3 DEF a, b
    <2>5. MaxBatch * (a + b) = MaxBatch * a + MaxBatch * b /\ MaxBatch * b \in Nat
      BY <1>2, <2>4, Products
    <2> QED BY <1>5, <2>4, <2>5
  <1>7. ASSUME NEW d \in P PROVE Spare(P \ {d}) = Spare(P) + MaxBatch
    <2>1. Cardinality(P \ {d}) = p - 1
      BY <1>1, FS_RemoveElement DEF p
    <2>2. Spare(P \ {d}) = MaxBatch * ((n - p) + 1)
      <3>1. n - (p - 1) = (n - p) + 1
        BY <1>1
      <3> QED BY <2>1, <3>1 DEF Spare, n
    <2> DEFINE a == n - p
    <2> HIDE DEF a
    <2>3. a \in Nat /\ Spare(P) = MaxBatch * a /\ Spare(P \ {d}) = MaxBatch * (a + 1)
      BY <1>3, <1>4, <2>2 DEF a
    <2> QED BY <1>2, <2>3, Products
  <1> QED BY <1>5, <1>6, <1>7

CostsOK(cost) == \A c \in QuotaCalls : cost[c] \in 0..MaxBatch

\* Fewer are pending, and the limit is wider.
LEMMA FewerPending ==
    ASSUME NEW used \in Nat, NEW P \in SUBSET QuotaCalls, NEW Q \in SUBSET P,
           NEW w \in Nat, NEW v \in Nat, w <= v, NEW cost, NEW next,
           CostsOK(cost), \A c \in Q : next[c] = cost[c], Within(used, P, w, cost)
    PROVE  Within(used, Q, v, next)
  <1>1. Spare(P) \in Nat /\ Spare(Q) \in Nat /\ Spare(Q) >= Spare(P) /\ MaxBatch \in Nat
    BY SpareIsRoom, Largest
  <1>2. CASE used + MaxBatch <= w + Spare(P)
    <2>1. used + MaxBatch <= v + Spare(Q)
      BY <1>1, <1>2
    <2> QED BY <2>1 DEF Within
  <1>3. ASSUME NEW c \in P, used + cost[c] <= w + Spare(P) PROVE Within(used, Q, v, next)
    <2>1. cost[c] \in Nat
      BY Largest DEF CostsOK
    <2>2. CASE c \in Q
      <3>1. used + next[c] <= v + Spare(Q)
        BY <1>1, <1>3, <2>1, <2>2
      <3> QED BY <2>2, <3>1 DEF Within
    <2>3. CASE c \notin Q
      <3>1. Spare(P \ {c}) = Spare(P) + MaxBatch
        BY SpareIsRoom
      <3>2. Q \in SUBSET (P \ {c}) /\ P \ {c} \in SUBSET QuotaCalls
        BY <2>3
      <3>3. Spare(Q) >= Spare(P \ {c})
        BY <3>2, SpareIsRoom
      <3>4. used + MaxBatch <= v + Spare(Q)
        BY <1>1, <1>3, <2>1, <3>1, <3>3
      <3> QED BY <3>4 DEF Within
    <2> QED BY <2>2, <2>3
  <1> QED BY <1>2, <1>3 DEF Within

\* A pending call appends what it costs.
LEMMA PendingAppends ==
    ASSUME NEW used \in Nat, NEW P \in SUBSET QuotaCalls, NEW d \in P, NEW w \in Nat,
           NEW cost, CostsOK(cost), Within(used, P, w, cost)
    PROVE  Within(used + cost[d], P \ {d}, w, cost)
  <1>1. /\ Spare(P) \in Nat /\ MaxBatch \in Nat /\ Spare(P \ {d}) = Spare(P) + MaxBatch
        /\ cost[d] \in 0..MaxBatch
    BY SpareIsRoom, Largest DEF CostsOK
  <1>2. CASE used + MaxBatch <= w + Spare(P)
    <2>1. (used + cost[d]) + MaxBatch <= w + Spare(P \ {d})
      BY <1>1, <1>2
    <2> QED BY <2>1 DEF Within
  <1>3. ASSUME NEW c \in P, used + cost[c] <= w + Spare(P)
        PROVE  Within(used + cost[d], P \ {d}, w, cost)
    <2>1. cost[c] \in 0..MaxBatch
      BY DEF CostsOK
    <2>2. CASE c = d
      <3>1. (used + cost[d]) + MaxBatch <= w + Spare(P \ {d})
        BY <1>1, <1>3, <2>2
      <3> QED BY <3>1 DEF Within
    <2>3. CASE c # d
      <3>1. (used + cost[d]) + cost[c] <= w + Spare(P \ {d})
        BY <1>1, <1>3, <2>1
      <3> QED BY <2>3, <3>1 DEF Within
    <2> QED BY <2>2, <2>3
  <1> QED BY <1>2, <1>3 DEF Within

\* A call whose cost the limit has room for becomes pending.
LEMMA PendingFits ==
    ASSUME NEW used \in Nat, NEW P \in SUBSET QuotaCalls, NEW d \in P, NEW w \in Nat,
           NEW cost, CostsOK(cost), used + cost[d] <= w
    PROVE  Within(used, P, w, cost)
  <1>1. Spare(P) \in Nat /\ cost[d] \in Nat
    BY SpareIsRoom, Largest DEF CostsOK
  <1>2. used + cost[d] <= w + Spare(P)
    BY <1>1
  <1> QED BY <1>2 DEF Within

LEMMA NothingUsed ==
    ASSUME NEW P \in SUBSET QuotaCalls, NEW w \in Nat, w >= MaxBatch, NEW cost
    PROVE  Within(0, P, w, cost)
  <1>1. Spare(P) \in Nat /\ MaxBatch \in Nat
    BY SpareIsRoom, Largest
  <1>2. 0 + MaxBatch <= w + Spare(P)
    BY <1>1
  <1> QED BY <1>2 DEF Within

\* What the property says of it
LEMMA WithinIsBounded ==
    ASSUME NEW used \in Nat, NEW P \in SUBSET QuotaCalls, NEW w \in Nat, NEW cost,
           CostsOK(cost), Within(used, P, w, cost)
    PROVE  used <= w + MaxBatch * (Cardinality(QuotaCalls) - 1)
  <1> DEFINE n == Cardinality(QuotaCalls)
             p == Cardinality(P)
  <1>1. n \in Nat /\ n # 0 /\ p \in Nat /\ p <= n
    BY CallsAreFinite, QuotaAssumption, FS_EmptySet
  <1>2. MaxBatch \in Nat
    BY Largest
  <1> DEFINE a == n - 1
  <1>3. a \in Nat /\ n = a + 1
    BY <1>1
  <1>4. Spare(P) <= MaxBatch * a + MaxBatch
    <2>1. Spare({}) = MaxBatch * n
      BY <1>1, FS_EmptySet DEF Spare
    <2>2. MaxBatch * n = MaxBatch * a + MaxBatch
      <3> HIDE DEF n, a
      <3> QED BY <1>2, <1>3, Products
    <2>3. Spare({}) >= Spare(P)
      BY SpareIsRoom
    <2> QED BY <2>1, <2>2, <2>3
  <1>5. MaxBatch * a \in Nat /\ Spare(P) \in Nat
    BY <1>2, <1>3, SpareIsRoom, Products
  <1>6. ASSUME P # {} PROVE Spare(P) <= MaxBatch * a
    <2>1. PICK d \in P : TRUE
      BY <1>6
    <2>2. Spare(P \ {d}) = Spare(P) + MaxBatch /\ Spare({}) >= Spare(P \ {d})
      <3>1. P \ {d} \in SUBSET QuotaCalls /\ {} \in SUBSET (P \ {d})
        OBVIOUS
      <3> QED BY <3>1, SpareIsRoom
    <2>3. Spare({}) = MaxBatch * n /\ MaxBatch * n = MaxBatch * a + MaxBatch
      <3>1. Spare({}) = MaxBatch * n
        BY <1>1, FS_EmptySet DEF Spare
      <3> HIDE DEF n, a
      <3> QED BY <1>2, <1>3, <3>1, Products
    <2> HIDE DEF n, a
    <2> QED BY <1>2, <1>5, <2>2, <2>3
  <1> HIDE DEF n, a
  <1>7. CASE used + MaxBatch <= w + Spare(P)
    <2>1. used <= w + MaxBatch * a
      BY <1>2, <1>4, <1>5, <1>7
    <2> QED BY <2>1 DEF n, a
  <1>8. CASE \E c \in P : used + cost[c] <= w + Spare(P)
    <2>1. PICK c \in P : used + cost[c] <= w + Spare(P)
      BY <1>8
    <2>2. cost[c] \in Nat
      BY Largest DEF CostsOK
    <2>3. used <= w + MaxBatch * a
      BY <1>5, <1>6, <2>1, <2>2
    <2> QED BY <2>3 DEF n, a
  <1> QED BY <1>7, <1>8 DEF Within

-----------------------------------------------------------------------------
(* Types of the meter                                                      *)

QSteps == {"policy", "mine", "workspace", "running", "append"}
OwnLimits == Limits \cup {DefaultLimit}
\* What a call takes from the policy, where a member always has a limit
Gates == [workspace : OwnLimits \cup {Unlimited}, member : OwnLimits]
QRecords == [member : Members, units : {0} \cup BatchSizes, limits : Gates \cup {NoCall},
             period : Months, mine : Nat, step : QSteps]
PutRecords == [next : Policies, step : {"open", "write"}]

CallOK(k, t) ==
    k \in QRecords /\ k.period <= t /\ (k.step \in {"mine", "workspace"} => k.limits \in Gates)

PolicyTypes ==
    /\ policy \in Policies \cup {Truncated}
    /\ put \in [Puts -> PutRecords \cup {NoCall}]
CallTypes ==
    /\ qcall \in [QuotaCalls -> QRecords \cup {NoCall}]
    /\ \A c \in QuotaCalls : qcall[c] # NoCall => CallOK(qcall[c], month)
MeterTypes ==
    /\ month \in Months /\ cutShort \in BOOLEAN
    /\ metered \in [Months -> [all : Nat, of : [Members -> 0..MaxUnits]]]
    /\ widest \in [Months -> Nat \cup {Unlimited}]
    /\ widestOf \in [Months -> [Members -> Nat]]
    /\ \A m \in Months : widest[m] # Unlimited => widest[m] >= MaxBatch
    /\ \A m \in Months : \A u \in Members : widestOf[m][u] >= MaxBatch

QuotaTypes == PolicyTypes /\ CallTypes /\ MeterTypes

LEMMA LimitsAreNumbers == OwnLimits \subseteq Nat /\ Unlimited \notin OwnLimits /\ DefaultLimit \in OwnLimits
  BY QuotaAssumption DEF OwnLimits

LEMMA Numbers == MaxMonth \in Nat /\ MaxUnits \in Nat /\ 0 \in Months /\ Months \subseteq Nat
  BY QuotaAssumption DEF Months

LEMMA WiderOf ==
    ASSUME NEW a \in Nat, NEW b \in Nat
    PROVE  Wider(a, b) \in Nat /\ Wider(a, b) >= a /\ Wider(a, b) >= b
  <1>1. Unlimited # a /\ Unlimited # b
    BY QuotaAssumption
  <1>2. Wider(a, b) = Max({a, b})
    BY <1>1 DEF Wider
  <1>3. \E x \in {a, b} : \A y \in {a, b} : x >= y
    OBVIOUS
  <1>4. Max({a, b}) \in {a, b} /\ \A y \in {a, b} : Max({a, b}) >= y
    BY <1>3 DEF Max
  <1> QED BY <1>2, <1>4

LEMMA WiderUnlimited ==
    ASSUME NEW a, NEW b, a = Unlimited \/ b = Unlimited
    PROVE  Wider(a, b) = Unlimited
  BY DEF Wider

LEMMA QCallIs ==
    ASSUME NEW u, NEW n, NEW l, NEW p, NEW e, NEW s
    PROVE  /\ QCall(u, n, l, p, e, s).member = u /\ QCall(u, n, l, p, e, s).units = n
           /\ QCall(u, n, l, p, e, s).limits = l /\ QCall(u, n, l, p, e, s).period = p
           /\ QCall(u, n, l, p, e, s).mine = e /\ QCall(u, n, l, p, e, s).step = s
  BY DEF QCall

LEMMA QCallType ==
    ASSUME NEW u \in Members, NEW n \in {0} \cup BatchSizes, NEW l \in Gates \cup {NoCall},
           NEW p \in Months, NEW e \in Nat, NEW s \in QSteps
    PROVE  QCall(u, n, l, p, e, s) \in QRecords
  BY DEF QCall, QRecords

LEMMA QFields ==
    ASSUME NEW k \in QRecords
    PROVE  /\ k.member \in Members /\ k.units \in {0} \cup BatchSizes
           /\ k.limits \in Gates \cup {NoCall} /\ k.period \in Months /\ k.mine \in Nat
           /\ k.step \in QSteps /\ k.units \in Nat /\ k.units <= MaxBatch
  <1>1. /\ k.member \in Members /\ k.units \in {0} \cup BatchSizes
        /\ k.limits \in Gates \cup {NoCall} /\ k.period \in Months /\ k.mine \in Nat
        /\ k.step \in QSteps
    BY DEF QRecords
  <1>2. k.units \in Nat /\ k.units <= MaxBatch
    BY <1>1, Largest
  <1> QED BY <1>1, <1>2

LEMMA QAtIs ==
    ASSUME CallTypes, NEW c \in QuotaCalls, NEW s, QAt(c, s)
    PROVE  qcall[c] # NoCall /\ qcall[c] \in QRecords /\ qcall[c].step = s /\ CallOK(qcall[c], month)
  BY DEF CallTypes, QAt

LEMMA CostsAreOK == CallTypes => CostsOK(Costs)
  <1> SUFFICES ASSUME CallTypes, NEW c \in QuotaCalls PROVE Costs[c] \in 0..MaxBatch
    BY DEF CostsOK
  <1>1. CASE qcall[c] = NoCall
    BY <1>1, Largest DEF Costs
  <1>2. CASE qcall[c] # NoCall
    <2>1. qcall[c].units \in Nat /\ qcall[c].units <= MaxBatch
      BY <1>2, QFields DEF CallTypes, CallOK
    <2> QED BY <1>2, <2>1, Largest DEF Costs
  <1> QED BY <1>1, <1>2

LEMMA CostsAreOKThen == CallTypes' => CostsOK(Costs)'
  <1> SUFFICES ASSUME CallTypes', NEW c \in QuotaCalls PROVE Costs'[c] \in 0..MaxBatch
    BY DEF CostsOK
  <1>1. CASE qcall'[c] = NoCall
    BY <1>1, Largest DEF Costs
  <1>2. CASE qcall'[c] # NoCall
    <2>1. qcall'[c].units \in Nat /\ qcall'[c].units <= MaxBatch
      BY <1>2, QFields DEF CallTypes, CallOK
    <2> QED BY <1>2, <2>1, Largest DEF Costs
  <1> QED BY <1>1, <1>2

\* One call moves or goes, and the others stay.
Others(c) == \A d \in QuotaCalls \ {c} : qcall'[d] = qcall[d]

LEMMA QMoves ==
    ASSUME QuotaTypes, month' = month, NEW c \in QuotaCalls, qcall[c] \in QRecords,
           NEW l \in Gates \cup {NoCall}, NEW p \in Months, p <= month, NEW e \in Nat,
           NEW s \in QSteps, s \in {"mine", "workspace"} => l \in Gates, QMove(c, l, p, e, s)
    PROVE  /\ CallTypes' /\ Others(c)
           /\ qcall'[c] = QCall(qcall[c].member, qcall[c].units, l, p, e, s)
  <1> DEFINE R == QCall(qcall[c].member, qcall[c].units, l, p, e, s)
  <1>1. qcall' = [qcall EXCEPT ![c] = R]
    BY DEF QMove
  <1>2. R \in QRecords
    BY QFields, QCallType
  <1>3. R.period = p /\ R.step = s /\ R.limits = l
    BY QCallIs
  <1>4. CallOK(R, month)
    BY <1>2, <1>3 DEF CallOK
  <1> HIDE DEF R
  <1>5. /\ qcall' \in [QuotaCalls -> QRecords \cup {NoCall}] /\ qcall'[c] = R
        /\ \A d \in QuotaCalls \ {c} : qcall'[d] = qcall[d]
    BY <1>1, <1>2 DEF QuotaTypes, CallTypes
  <1>6. \A d \in QuotaCalls : qcall'[d] # NoCall => CallOK(qcall'[d], month')
    BY <1>4, <1>5 DEF QuotaTypes, CallTypes
  <1> QED BY <1>5, <1>6 DEF R, CallTypes, Others

LEMMA QReturns ==
    ASSUME QuotaTypes, month' = month, NEW c \in QuotaCalls, QReturn(c)
    PROVE  CallTypes' /\ Others(c) /\ qcall'[c] = NoCall
  <1>1. /\ qcall' \in [QuotaCalls -> QRecords \cup {NoCall}] /\ qcall'[c] = NoCall
        /\ \A d \in QuotaCalls \ {c} : qcall'[d] = qcall[d]
    BY DEF QuotaTypes, CallTypes, QReturn
  <1>2. \A d \in QuotaCalls : qcall'[d] # NoCall => CallOK(qcall'[d], month')
    BY <1>1 DEF QuotaTypes, CallTypes
  <1> QED BY <1>1, <1>2 DEF CallTypes, Others

LEMMA QBegins ==
    ASSUME QuotaTypes, month' = month, NEW c \in QuotaCalls, NEW u \in Members,
           NEW n \in {0} \cup BatchSizes, NEW s \in {"policy", "running"},
           qcall' = [qcall EXCEPT ![c] = QCall(u, n, NoCall, 0, 0, s)]
    PROVE  /\ CallTypes' /\ Others(c)
           /\ qcall'[c] = QCall(u, n, NoCall, 0, 0, s)
  <1> DEFINE R == QCall(u, n, NoCall, 0, 0, s)
  <1>1. R \in QRecords
    BY Numbers, QCallType DEF QSteps
  <1>2. R.period = 0 /\ R.step = s
    BY QCallIs
  <1>3. CallOK(R, month)
    BY <1>1, <1>2, Numbers DEF CallOK, QuotaTypes, MeterTypes
  <1> HIDE DEF R
  <1>4. /\ qcall' \in [QuotaCalls -> QRecords \cup {NoCall}] /\ qcall'[c] = R
        /\ \A d \in QuotaCalls \ {c} : qcall'[d] = qcall[d]
    BY <1>1 DEF QuotaTypes, CallTypes, R
  <1>5. \A d \in QuotaCalls : qcall'[d] # NoCall => CallOK(qcall'[d], month')
    BY <1>3, <1>4 DEF QuotaTypes, CallTypes
  <1> QED BY <1>4, <1>5 DEF R, CallTypes, Others

-----------------------------------------------------------------------------
(* Steps after which no more is pending                                    *)

\* Call c is pending after the step only if it was before, at the same cost.
Calm(c) ==
    /\ \A m \in Months : c \in Pending(m)' => c \in Pending(m)
    /\ \A m \in Months, u \in Members, w \in Nat :
         c \in PendingOf(m, u, w)' => c \in PendingOf(m, u, w)
    /\ qcall[c] # NoCall /\ qcall'[c] # NoCall => Costs'[c] = Costs[c]

LEMMA OtherCalls ==
    ASSUME NEW c \in QuotaCalls, Others(c), month' = month, NEW d \in QuotaCalls \ {c}, NEW m
    PROVE  /\ d \in Pending(m)' <=> d \in Pending(m)
           /\ \A u, w : d \in PendingOf(m, u, w)' <=> d \in PendingOf(m, u, w)
           /\ Costs'[d] = Costs[d]
  <1>1. qcall'[d] = qcall[d] /\ \A s : QAt(d, s)' <=> QAt(d, s)
    BY DEF Others, QAt
  <1>2. d \in Pending(m)' <=> d \in Pending(m)
    BY <1>1 DEF Pending
  <1>3. \A u, w : d \in PendingOf(m, u, w)' <=> d \in PendingOf(m, u, w)
    BY <1>1, <1>2 DEF PendingOf
  <1> QED BY <1>1, <1>2, <1>3 DEF Costs

LEMMA PendingIsCalled ==
    ASSUME NEW m
    PROVE  /\ Pending(m) \in SUBSET QuotaCalls
           /\ \A u, w : PendingOf(m, u, w) \in SUBSET QuotaCalls
           /\ \A c \in Pending(m) : qcall[c] # NoCall
           /\ \A u, w : \A c \in PendingOf(m, u, w) : qcall[c] # NoCall
  BY DEF Pending, PendingOf, QAt

\* One month, of the workspace and of a member: fewer are pending, the limit no narrower.
LEMMA AllKeeps ==
    ASSUME QuotaTypes, MeterTypes', NEW m \in Months, AllWithin(m),
           Pending(m)' \subseteq Pending(m), \A d \in Pending(m)' : Costs'[d] = Costs[d],
           metered'[m].all = metered[m].all,
           widest'[m] # Unlimited => widest[m] # Unlimited /\ widest[m] <= widest'[m]
    PROVE  AllWithin(m)'
  <1> SUFFICES ASSUME widest'[m] # Unlimited
               PROVE  Within(metered'[m].all, Pending(m)', widest'[m], Costs')
    BY DEF AllWithin, Within, Spare
  <1> DEFINE used == metered[m].all
             P == Pending(m)
             Q == Pending(m)'
             w == widest[m]
             v == widest'[m]
             old == Costs
             new == Costs'
  <1>1. used \in Nat /\ w \in Nat /\ v \in Nat /\ w <= v
    BY DEF QuotaTypes, MeterTypes
  <1>2. P \in SUBSET QuotaCalls /\ CostsOK(old) /\ Within(used, P, w, old)
    BY PendingIsCalled, CostsAreOK DEF QuotaTypes, AllWithin
  <1>3. Q \in SUBSET P /\ \A d \in Q : new[d] = old[d]
    OBVIOUS
  <1>4. metered'[m].all = used
    OBVIOUS
  <1> HIDE DEF used, P, Q, w, v, old, new
  <1>5. Within(used, Q, v, new)
    BY <1>1, <1>2, <1>3, FewerPending
  <1> QED BY <1>4, <1>5 DEF Q, v, new

LEMMA OwnKeepsAt ==
    ASSUME QuotaTypes, MeterTypes', NEW m \in Months, NEW u \in Members, OwnWithin(m, u),
           metered'[m].of[u] = metered[m].of[u],
           widestOf[m][u] <= widestOf'[m][u],
           NEW w \in Nat, w >= widestOf'[m][u],
           PendingOf(m, u, w)' \subseteq PendingOf(m, u, w),
           \A d \in PendingOf(m, u, w)' : Costs'[d] = Costs[d]
    PROVE  Within(metered'[m].of[u], PendingOf(m, u, w)', w, Costs')
  <1> DEFINE used == metered[m].of[u]
             P == PendingOf(m, u, w)
             Q == PendingOf(m, u, w)'
             old == Costs
             new == Costs'
  <1>1. used \in Nat /\ widestOf[m][u] \in Nat /\ widestOf'[m][u] \in Nat
    <2>1. metered[m] \in [all : Nat, of : [Members -> 0..MaxUnits]]
      BY DEF QuotaTypes, MeterTypes
    <2>2. used \in 0..MaxUnits
      BY <2>1
    <2>3. widestOf[m] \in [Members -> Nat] /\ widestOf'[m] \in [Members -> Nat]
      BY DEF QuotaTypes, MeterTypes
    <2> QED BY <2>2, <2>3, Numbers
  <1>2. w >= widestOf[m][u]
    BY <1>1
  <1>3. P \in SUBSET QuotaCalls /\ CostsOK(old) /\ Within(used, P, w, old)
    BY <1>2, PendingIsCalled, CostsAreOK DEF QuotaTypes, OwnWithin
  <1>4. Q \in SUBSET P /\ \A d \in Q : new[d] = old[d]
    OBVIOUS
  <1>5. metered'[m].of[u] = used
    OBVIOUS
  <1> HIDE DEF used, P, Q, old, new
  <1>6. w <= w
    OBVIOUS
  <1>7. Within(used, Q, w, new)
    BY <1>1, <1>3, <1>4, <1>6, FewerPending
  <1> QED BY <1>5, <1>7 DEF Q, new

LEMMA OwnKeeps ==
    ASSUME QuotaTypes, MeterTypes', NEW m \in Months, NEW u \in Members, OwnWithin(m, u),
           metered'[m].of[u] = metered[m].of[u],
           widestOf[m][u] <= widestOf'[m][u],
           \A w \in Nat : w >= widestOf'[m][u] =>
             /\ PendingOf(m, u, w)' \subseteq PendingOf(m, u, w)
             /\ \A d \in PendingOf(m, u, w)' : Costs'[d] = Costs[d]
    PROVE  OwnWithin(m, u)'
  <1>1. \A w \in Nat : w >= widestOf'[m][u] =>
          Within(metered'[m].of[u], PendingOf(m, u, w)', w, Costs')
    BY OwnKeepsAt
  <1> QED BY <1>1 DEF OwnWithin, Within, Spare

\* One whose cost the limit leaves room for is among those that are pending.
LEMMA OwnFits ==
    ASSUME CallTypes', MeterTypes', NEW m \in Months, NEW u \in Members, NEW w \in Nat,
           NEW c \in PendingOf(m, u, w)', metered'[m].of[u] + Costs'[c] <= w
    PROVE  Within(metered'[m].of[u], PendingOf(m, u, w)', w, Costs')
  <1> DEFINE used == metered'[m].of[u]
             P == PendingOf(m, u, w)'
             cost == Costs'
  <1>1. used \in Nat
    <2>1. metered'[m] \in [all : Nat, of : [Members -> 0..MaxUnits]]
      BY DEF MeterTypes
    <2>2. used \in 0..MaxUnits
      BY <2>1
    <2> QED BY <2>2, Numbers
  <1>2. P \in SUBSET QuotaCalls
    BY DEF PendingOf
  <1>3. CostsOK(cost)
    <2>1. CostsOK(Costs)'
      BY CostsAreOKThen
    <2> QED BY <2>1 DEF CostsOK
  <1> HIDE DEF used, P, cost
  <1> QED BY <1>1, <1>2, <1>3, PendingFits DEF used, P, cost

\* Who is pending after a calm step, and at what cost
LEMMA CalmPending ==
    ASSUME NEW c \in QuotaCalls, Others(c), month' = month, Calm(c), NEW m \in Months
    PROVE  /\ Pending(m)' \subseteq Pending(m)
           /\ \A d \in Pending(m)' : Costs'[d] = Costs[d]
           /\ \A u \in Members, w \in Nat :
                /\ PendingOf(m, u, w)' \subseteq PendingOf(m, u, w)
                /\ \A d \in PendingOf(m, u, w)' : Costs'[d] = Costs[d]
  <1>1. /\ \A d \in Pending(m)' : d \in QuotaCalls /\ qcall'[d] # NoCall
        /\ \A u, w : \A d \in PendingOf(m, u, w)' : d \in QuotaCalls /\ qcall'[d] # NoCall
    BY DEF Pending, PendingOf, QAt
  <1>2. ASSUME NEW d \in Pending(m)' PROVE d \in Pending(m) /\ Costs'[d] = Costs[d]
    <2>1. CASE d = c
      <3>1. c \in Pending(m)
        BY <1>2, <2>1 DEF Calm
      <3> QED BY <1>1, <1>2, <2>1, <3>1, PendingIsCalled DEF Calm
    <2>2. CASE d # c
      BY <1>1, <1>2, <2>2, OtherCalls
    <2> QED BY <2>1, <2>2
  <1>3. ASSUME NEW u \in Members, NEW w \in Nat, NEW d \in PendingOf(m, u, w)'
        PROVE  d \in PendingOf(m, u, w) /\ Costs'[d] = Costs[d]
    <2>1. CASE d = c
      <3>1. c \in PendingOf(m, u, w)
        BY <1>3, <2>1 DEF Calm
      <3> QED BY <1>1, <1>3, <2>1, <3>1, PendingIsCalled DEF Calm
    <2>2. CASE d # c
      BY <1>1, <1>3, <2>2, OtherCalls
    <2> QED BY <2>1, <2>2
  <1> QED BY <1>2, <1>3

LEMMA CalmKeeps ==
    ASSUME QuotaTypes, MeterTypes', MeterInv, NEW c \in QuotaCalls, Others(c), Calm(c),
           UNCHANGED <<month, metered, widest, widestOf>>
    PROVE  MeterInv'
  <1> SUFFICES ASSUME NEW m \in Months
               PROVE  /\ AllWithin(m)' /\ NotYet(m)'
                      /\ \A u \in Members : OwnWithin(m, u)'
    BY DEF MeterInv
  <1>1. /\ Pending(m)' \subseteq Pending(m) /\ \A d \in Pending(m)' : Costs'[d] = Costs[d]
        /\ \A u \in Members, w \in Nat :
             /\ PendingOf(m, u, w)' \subseteq PendingOf(m, u, w)
             /\ \A d \in PendingOf(m, u, w)' : Costs'[d] = Costs[d]
    BY CalmPending
  <1>2. AllWithin(m) /\ NotYet(m) /\ \A u \in Members : OwnWithin(m, u)
    BY DEF MeterInv
  <1>3. widest[m] # Unlimited => widest[m] <= widest[m]
    BY DEF QuotaTypes, MeterTypes
  <1>4. AllWithin(m)'
    BY <1>1, <1>2, <1>3, AllKeeps
  <1>5. ASSUME NEW u \in Members PROVE OwnWithin(m, u)'
    <2>1. widestOf[m][u] <= widestOf'[m][u]
      BY DEF QuotaTypes, MeterTypes
    <2> QED BY <1>1, <1>2, <2>1, OwnKeeps
  <1>6. NotYet(m)'
    BY <1>2 DEF NotYet
  <1> QED BY <1>4, <1>5, <1>6

\* Nothing of a month that costs nothing yet is beyond a limit.
LEMMA UnusedIsWithin ==
    ASSUME MeterTypes', NEW m \in Months,
           metered'[m].all = 0, \A u \in Members : metered'[m].of[u] = 0
    PROVE  AllWithin(m)' /\ \A u \in Members : OwnWithin(m, u)'
  <1>1. Pending(m)' \in SUBSET QuotaCalls /\ \A u, w : PendingOf(m, u, w)' \in SUBSET QuotaCalls
    BY DEF Pending, PendingOf
  <1>2. widest'[m] # Unlimited => widest'[m] \in Nat /\ widest'[m] >= MaxBatch
    BY DEF MeterTypes
  <1>3. AllWithin(m)'
    <2> SUFFICES ASSUME widest'[m] # Unlimited
                 PROVE  Within(metered'[m].all, Pending(m)', widest'[m], Costs')
      BY DEF AllWithin, Within, Spare
    <2> DEFINE P == Pending(m)'
               w == widest'[m]
               cost == Costs'
    <2>1. P \in SUBSET QuotaCalls /\ w \in Nat /\ w >= MaxBatch
      BY <1>1, <1>2
    <2> HIDE DEF P, w, cost
    <2>2. Within(0, P, w, cost)
      BY <2>1, NothingUsed
    <2> QED BY <2>2 DEF P, w, cost
  <1>4. ASSUME NEW u \in Members, NEW w \in Nat, w >= widestOf'[m][u]
        PROVE  Within(metered'[m].of[u], PendingOf(m, u, w)', w, Costs')
    <2> DEFINE P == PendingOf(m, u, w)'
               cost == Costs'
    <2>1. widestOf'[m][u] \in Nat /\ widestOf'[m][u] >= MaxBatch
      BY DEF MeterTypes
    <2>2. P \in SUBSET QuotaCalls /\ w >= MaxBatch
      BY <1>1, <1>4, <2>1, Largest
    <2> HIDE DEF P, cost
    <2>3. Within(0, P, w, cost)
      BY <2>2, NothingUsed
    <2> QED BY <2>3 DEF P, cost
  <1>5. \A u \in Members : OwnWithin(m, u)'
    BY <1>4 DEF OwnWithin, Within, Spare
  <1> QED BY <1>3, <1>5

-----------------------------------------------------------------------------
(* The steps of the meter                                                  *)

MeterVars == <<month, metered, widest, widestOf>>

LEMMA MeterTypesStay ==
    ASSUME MeterTypes, UNCHANGED MeterVars, cutShort' \in BOOLEAN
    PROVE  MeterTypes'
  BY DEF MeterTypes, MeterVars

\* A call that is gone, or at a step that is not counted, is not pending.
LEMMA GoneIsCalm ==
    ASSUME NEW c \in QuotaCalls, qcall'[c] = NoCall
    PROVE  Calm(c)
  BY DEF Calm, Pending, PendingOf, QAt

LEMMA BeginIsCalm ==
    ASSUME QuotaTypes, NEW c \in QuotaCalls, BeginCall(c) \/ BeginStream(c)
    PROVE  CallTypes' /\ Others(c) /\ Calm(c)
  <1>1. month' = month /\ qcall[c] = NoCall
    BY DEF BeginCall, BeginStream
  <1>2. PICK u \in Members, n \in {0} \cup BatchSizes, s \in {"policy", "running"} :
          /\ qcall' = [qcall EXCEPT ![c] = QCall(u, n, NoCall, 0, 0, s)]
          /\ s = "policy" \/ n = 0
    <2>1. CASE BeginCall(c)
      BY <2>1 DEF BeginCall
    <2>2. CASE BeginStream(c)
      BY <2>2 DEF BeginStream
    <2> QED BY <2>1, <2>2
  <1>3. CallTypes' /\ Others(c) /\ qcall'[c] = QCall(u, n, NoCall, 0, 0, s)
    BY <1>1, <1>2, QBegins
  <1>4. qcall'[c].units = n /\ qcall'[c].step = s
    BY <1>3, QCallIs
  <1>5. \A m, x, w : c \notin Pending(m)' /\ c \notin PendingOf(m, x, w)'
    BY <1>2, <1>4 DEF Pending, PendingOf, QAt
  <1> QED BY <1>1, <1>3, <1>5 DEF Calm

LEMMA PolicyIsCalm ==
    ASSUME QuotaTypes, NEW c \in QuotaCalls, ReadQuotaPolicy(c)
    PROVE  CallTypes' /\ Others(c) /\ Calm(c)
  <1>1. month' = month /\ month \in Months /\ month <= month
    BY Numbers DEF ReadQuotaPolicy, QuotaTypes, MeterTypes
  <1>2. qcall[c] \in QRecords /\ qcall[c] # NoCall
    BY QAtIs DEF ReadQuotaPolicy, QuotaTypes
  <1>3. CASE policy = Truncated
    BY <1>1, <1>3, QReturns, GoneIsCalm DEF ReadQuotaPolicy
  <1>4. CASE policy # Truncated
    <2> DEFINE l == Policy(policy.workspace, MemberLimit(policy))
    <2>1. l \in Gates
      <3>1. policy \in Policies
        BY <1>4 DEF QuotaTypes, PolicyTypes
      <3>2. policy.workspace \in OwnLimits \cup {Unlimited} /\ MemberLimit(policy) \in OwnLimits
        BY <3>1, LimitsAreNumbers DEF Policies, OwnLimits, MemberLimit
      <3> QED BY <3>2 DEF Policy, Gates
    <2>2. QMove(c, l, month, 0, "mine")
      BY <1>4 DEF ReadQuotaPolicy
    <2> HIDE DEF l
    <2>3. /\ CallTypes' /\ Others(c)
          /\ qcall'[c] = QCall(qcall[c].member, qcall[c].units, l, month, 0, "mine")
      BY <1>1, <1>2, <2>1, <2>2, QMoves DEF QSteps
    <2>4. /\ qcall'[c].units = qcall[c].units /\ qcall'[c].step = "mine"
          /\ qcall'[c].period = month
      BY <2>3, QCallIs
    <2>5. \A m, x, w : c \notin Pending(m)' /\ c \notin PendingOf(m, x, w)'
      BY <1>1, <2>4 DEF Pending, PendingOf, QAt
    <2> QED BY <1>2, <2>3, <2>4, <2>5 DEF Calm, Costs
  <1> QED BY <1>3, <1>4

LEMMA AnsweredIsCalm ==
    ASSUME QuotaTypes, NEW c \in QuotaCalls, Answered(c)
    PROVE  CallTypes' /\ Others(c) /\ Calm(c)
  <1>1. month' = month /\ month \in Months /\ month <= month /\ QAt(c, "running")
    BY Numbers DEF Answered, QuotaTypes, MeterTypes
  <1>2. qcall[c] \in QRecords /\ qcall[c] # NoCall
    BY <1>1, QAtIs DEF QuotaTypes
  <1>3. CASE qcall[c].units = 0
    BY <1>1, <1>3, QReturns, GoneIsCalm DEF Answered
  <1>4. CASE qcall[c].units # 0
    <2>1. QMove(c, NoCall, month, 0, "append")
      BY <1>4 DEF Answered
    <2>2. /\ CallTypes' /\ Others(c)
          /\ qcall'[c] = QCall(qcall[c].member, qcall[c].units, NoCall, month, 0, "append")
      BY <1>1, <1>2, <2>1, QMoves DEF QSteps
    <2>3. /\ qcall'[c].units = qcall[c].units /\ qcall'[c].step = "append"
          /\ qcall'[c].period = month /\ qcall'[c].member = qcall[c].member
      BY <2>2, QCallIs
    <2>4. \A m : c \in Pending(m)' => m = month
      BY <1>1, <2>3 DEF Pending, QAt
    <2>5. c \in Pending(month)
      BY <1>1, <1>4 DEF Pending
    <2>6. \A m, x, w : c \in PendingOf(m, x, w)' => c \in Pending(m)' /\ x = qcall[c].member
      BY <2>3 DEF PendingOf, QAt
    <2>7. \A m, x, w : c \in PendingOf(m, x, w)' => c \in PendingOf(m, x, w)
      BY <2>4, <2>5, <2>6 DEF PendingOf
    <2> QED BY <1>2, <2>2, <2>3, <2>4, <2>5, <2>7 DEF Calm, Costs
  <1> QED BY <1>3, <1>4

LEMMA EndIsCalm ==
    ASSUME QuotaTypes, NEW c \in QuotaCalls, month' = month, QReturn(c)
    PROVE  CallTypes' /\ Others(c) /\ Calm(c)
  BY QReturns, GoneIsCalm

\* The one who has read the meter is pending for a limit that leaves room.
LEMMA ReadMineKeeps ==
    ASSUME QuotaTypes, MeterInv, NEW c \in QuotaCalls, ReadMine(c), MeterTypes'
    PROVE  CallTypes' /\ MeterInv'
  <1> DEFINE k == qcall[c]
             e == metered[k.period].of[k.member]
  <1>1. UNCHANGED <<month, metered, widest, widestOf>> /\ QAt(c, "mine")
    BY DEF ReadMine
  <1>2. k \in QRecords /\ k # NoCall /\ k.step = "mine" /\ k.period <= month /\ k.limits \in Gates
    BY <1>1, QAtIs DEF QuotaTypes, CallOK
  <1>3. k.period \in Months /\ k.member \in Members /\ k.units \in Nat
    BY <1>2, QFields
  <1>4. e \in Nat
    <2>1. metered[k.period] \in [all : Nat, of : [Members -> 0..MaxUnits]]
      BY <1>3 DEF QuotaTypes, MeterTypes
    <2>2. e \in 0..MaxUnits
      BY <1>3, <2>1
    <2> QED BY <2>2, Numbers
  <1>5. QMove(c, k.limits, k.period, e, "workspace")
    BY DEF ReadMine
  <1> HIDE DEF e
  <1>6. /\ CallTypes' /\ Others(c)
        /\ qcall'[c] = QCall(k.member, k.units, k.limits, k.period, e, "workspace")
    BY <1>1, <1>2, <1>3, <1>4, <1>5, QMoves DEF QSteps
  <1>7. /\ qcall'[c].member = k.member /\ qcall'[c].units = k.units /\ qcall'[c].limits = k.limits
        /\ qcall'[c].period = k.period /\ qcall'[c].mine = e /\ qcall'[c].step = "workspace"
    BY <1>6, QCallIs
  <1>8. CASE qcall'[c] = NoCall
    BY <1>1, <1>6, <1>8, GoneIsCalm, CalmKeeps
  <1>9. CASE qcall'[c] # NoCall
    <2>1. Costs'[c] = Costs[c] /\ Costs'[c] = k.units
      BY <1>2, <1>7, <1>9 DEF Costs
    <2> SUFFICES ASSUME NEW m \in Months
                 PROVE  /\ AllWithin(m)' /\ NotYet(m)'
                        /\ \A u \in Members : OwnWithin(m, u)'
      BY <1>6 DEF MeterInv
    <2>2. AllWithin(m) /\ NotYet(m) /\ \A u \in Members : OwnWithin(m, u)
      BY DEF MeterInv
    <2>3. c \in Pending(m)' => c \in Pending(m)
      BY <1>1, <1>2, <1>7 DEF Pending, QAt
    <2>4. \A d \in Pending(m)' : d \in Pending(m) /\ Costs'[d] = Costs[d]
      <3> TAKE d \in Pending(m)'
      <3>1. d \in QuotaCalls
        BY DEF Pending
      <3> QED BY <1>1, <1>6, <2>1, <2>3, <3>1, OtherCalls
    <2>5. widest[m] # Unlimited => widest[m] <= widest'[m]
      BY <1>1 DEF QuotaTypes, MeterTypes
    <2>6. AllWithin(m)'
      BY <1>1, <2>2, <2>4, <2>5, AllKeeps
    <2>7. NotYet(m)'
      BY <1>1, <2>2 DEF NotYet
    <2>8. ASSUME NEW u \in Members, NEW w \in Nat, w >= widestOf'[m][u]
          PROVE  Within(metered'[m].of[u], PendingOf(m, u, w)', w, Costs')
      <3>1. CASE c \in PendingOf(m, u, w)' => c \in PendingOf(m, u, w)
        <4>1. \A d \in PendingOf(m, u, w)' : d \in PendingOf(m, u, w) /\ Costs'[d] = Costs[d]
          <5> TAKE d \in PendingOf(m, u, w)'
          <5>1. d \in QuotaCalls
            BY DEF PendingOf
          <5> QED BY <1>1, <1>6, <2>1, <3>1, <5>1, OtherCalls
        <4>2. widestOf[m][u] <= widestOf'[m][u]
          BY <1>1 DEF QuotaTypes, MeterTypes
        <4> QED BY <1>1, <2>2, <2>8, <4>1, <4>2, OwnKeepsAt
      <3>2. CASE c \in PendingOf(m, u, w)' /\ c \notin PendingOf(m, u, w)
        <4>1. c \notin Pending(m)'
          BY <1>7, <2>3, <3>2 DEF PendingOf
        <4>2. k.period = m /\ k.member = u /\ k.limits.member <= w
              /\ e + k.units <= k.limits.member
          BY <1>7, <3>2, <4>1 DEF PendingOf
        <4>3. k.limits.member \in Nat
          BY <1>2, LimitsAreNumbers DEF Gates
        <4>4. metered'[m].of[u] = e
          BY <1>1, <4>2 DEF e
        <4>5. e + k.units <= w
          BY <1>3, <1>4, <4>2, <4>3
        <4> QED BY <1>6, <2>1, <3>2, <4>4, <4>5, OwnFits
      <3> QED BY <3>1, <3>2
    <2>9. \A u \in Members : OwnWithin(m, u)'
      BY <2>8 DEF OwnWithin, Within, Spare
    <2> QED BY <2>6, <2>7, <2>9
  <1> QED BY <1>6, <1>8, <1>9

\* What the gate lets through had room, or was pending already.
LEMMA AdmitKeeps ==
    ASSUME QuotaTypes, MeterInv, NEW c \in QuotaCalls, Admit(c)
    PROVE  CallTypes' /\ MeterTypes' /\ MeterInv'
  <1> DEFINE k == qcall[c]
             p == k.period
  <1>1. UNCHANGED <<month, metered, cutShort>> /\ QAt(c, "workspace")
    BY DEF Admit
  <1>2. k \in QRecords /\ k # NoCall /\ k.step = "workspace" /\ p <= month /\ k.limits \in Gates
    BY <1>1, QAtIs DEF QuotaTypes, CallOK
  <1>3. p \in Months /\ k.member \in Members /\ k.units \in Nat /\ k.mine \in Nat
    BY <1>2, QFields
  <1>4. /\ k.limits.member \in Nat /\ k.limits.member # Unlimited
        /\ k.limits.workspace \in Nat \cup {Unlimited}
    BY <1>2, LimitsAreNumbers DEF Gates
  <1> DEFINE fits == /\ Fits(metered[p].all, k.units, k.limits.workspace)
                     /\ Fits(k.mine, k.units, k.limits.member)
  <1>5. CASE ~fits
    <2>1. QReturn(c) /\ UNCHANGED <<month, metered, widest, widestOf, cutShort>>
      BY <1>5 DEF Admit
    <2>2. CallTypes' /\ Others(c) /\ Calm(c)
      BY <2>1, EndIsCalm
    <2>3. MeterTypes'
      BY <2>1, MeterTypesStay DEF MeterVars, QuotaTypes, MeterTypes
    <2> QED BY <2>1, <2>2, <2>3, CalmKeeps
  <1>6. CASE fits
    <2>1. /\ QMove(c, NoCall, 0, 0, "running")
          /\ widest' = [widest EXCEPT ![p] = Wider(@, k.limits.workspace)]
          /\ widestOf' = [widestOf EXCEPT ![p][k.member] = Wider(@, k.limits.member)]
      BY <1>6 DEF Admit
    <2>2. k.limits.workspace # Unlimited => metered[p].all + k.units <= k.limits.workspace
      BY <1>6 DEF Fits
    <2>3. k.mine + k.units <= k.limits.member
      BY <1>4, <1>6 DEF Fits
    <2> HIDE DEF fits
    <2>4. CallTypes' /\ Others(c) /\ qcall'[c] = QCall(k.member, k.units, NoCall, 0, 0, "running")
      <3>1. 0 \in Months /\ 0 <= month /\ 0 \in Nat
        BY Numbers DEF QuotaTypes, MeterTypes
      <3> QED BY <1>1, <1>2, <2>1, <3>1, QMoves DEF QSteps
    <2>5. /\ qcall'[c].member = k.member /\ qcall'[c].units = k.units
          /\ qcall'[c].step = "running"
      BY <2>4, QCallIs
    <2>6. /\ \A m \in Months \ {p} : widest'[m] = widest[m] /\ widestOf'[m] = widestOf[m]
          /\ widest'[p] = Wider(widest[p], k.limits.workspace)
          /\ \A u \in Members \ {k.member} : widestOf'[p][u] = widestOf[p][u]
          /\ widestOf'[p][k.member] = Wider(widestOf[p][k.member], k.limits.member)
      BY <1>3, <2>1 DEF QuotaTypes, MeterTypes
    <2>7. /\ widest[p] \in Nat \cup {Unlimited} /\ widestOf[p] \in [Members -> Nat]
          /\ widestOf[p][k.member] \in Nat
      BY <1>3 DEF QuotaTypes, MeterTypes
    <2>8. /\ widestOf'[p][k.member] \in Nat
          /\ widestOf'[p][k.member] >= widestOf[p][k.member]
          /\ widestOf'[p][k.member] >= k.limits.member
      BY <1>4, <2>6, <2>7, WiderOf
    <2>9. /\ widest'[p] \in Nat \cup {Unlimited}
          /\ widest'[p] # Unlimited =>
               /\ widest[p] # Unlimited /\ k.limits.workspace # Unlimited
               /\ widest'[p] >= widest[p] /\ widest'[p] >= k.limits.workspace
      <3>1. CASE widest[p] = Unlimited \/ k.limits.workspace = Unlimited
        BY <2>6, <3>1, WiderUnlimited
      <3>2. CASE widest[p] \in Nat /\ k.limits.workspace \in Nat
        BY <2>6, <3>2, WiderOf, QuotaAssumption
      <3> QED BY <1>4, <2>7, <3>1, <3>2
    <2>10. MeterTypes'
      <3> DEFINE wide == Wider(widest[p], k.limits.workspace)
                 own == Wider(widestOf[p][k.member], k.limits.member)
      <3>1. wide \in Nat \cup {Unlimited} /\ own \in Nat
        BY <2>6, <2>8, <2>9
      <3>2. /\ widest' = [widest EXCEPT ![p] = wide]
            /\ widestOf' = [widestOf EXCEPT ![p][k.member] = own]
        BY <2>1
      <3> HIDE DEF wide, own
      <3>3. /\ widest' \in [Months -> Nat \cup {Unlimited}]
            /\ widestOf' \in [Months -> [Members -> Nat]]
        BY <3>1, <3>2 DEF QuotaTypes, MeterTypes
      <3>4. \A m \in Months : widest'[m] # Unlimited => widest'[m] >= MaxBatch
        <4> SUFFICES ASSUME NEW m \in Months, widest'[m] # Unlimited PROVE widest'[m] >= MaxBatch
          OBVIOUS
        <4>1. widest[m] # Unlimited => widest[m] \in Nat /\ widest[m] >= MaxBatch
          BY DEF QuotaTypes, MeterTypes
        <4>2. widest'[m] \in Nat \cup {Unlimited} /\ MaxBatch \in Nat
          BY <3>3, Largest
        <4> QED BY <2>6, <2>9, <4>1, <4>2
      <3>5. \A m \in Months : \A u \in Members : widestOf'[m][u] >= MaxBatch
        <4> TAKE m \in Months
        <4> TAKE u \in Members
        <4>1. widestOf[m][u] \in Nat /\ widestOf[m][u] >= MaxBatch /\ MaxBatch \in Nat
          BY Largest DEF QuotaTypes, MeterTypes
        <4>2. CASE m = p /\ u = k.member
          BY <2>7, <2>8, <4>1, <4>2
        <4>3. CASE ~(m = p /\ u = k.member)
          BY <2>6, <4>1, <4>3
        <4> QED BY <4>2, <4>3
      <3> QED BY <1>1, <3>3, <3>4, <3>5 DEF QuotaTypes, MeterTypes
    <2> SUFFICES ASSUME NEW m \in Months
                 PROVE  /\ AllWithin(m)' /\ NotYet(m)'
                        /\ \A u \in Members : OwnWithin(m, u)'
      BY <2>4, <2>10 DEF MeterInv
    <2>11. AllWithin(m) /\ NotYet(m) /\ \A u \in Members : OwnWithin(m, u)
      BY DEF MeterInv
    <2>12. qcall'[c] # NoCall => Costs'[c] = Costs[c] /\ Costs'[c] = k.units
      BY <1>2, <2>5 DEF Costs
    <2>13. c \in Pending(m)' => m = month
      BY <1>1, <2>5 DEF Pending, QAt
    <2>14. m # p /\ c \in Pending(m)' => c \in Pending(m)
      BY <1>1, <1>2, <2>13 DEF Pending, QAt
    <2>15. \A u, w : c \in PendingOf(m, u, w)' => c \in Pending(m)' /\ u = k.member
      BY <2>5 DEF PendingOf, QAt
    <2>16. (c \in Pending(m)' => c \in Pending(m)) =>
             \A d \in Pending(m)' : d \in Pending(m) /\ Costs'[d] = Costs[d]
      <3> SUFFICES ASSUME c \in Pending(m)' => c \in Pending(m), NEW d \in Pending(m)'
                   PROVE  d \in Pending(m) /\ Costs'[d] = Costs[d]
        OBVIOUS
      <3>1. d \in QuotaCalls /\ qcall'[d] # NoCall
        BY DEF Pending, QAt
      <3> QED BY <1>1, <2>4, <2>12, <3>1, OtherCalls
    <2>17. AllWithin(m)'
      <3>1. CASE c \in Pending(m)' => c \in Pending(m)
        <4>1. widest'[m] # Unlimited => widest[m] # Unlimited /\ widest[m] <= widest'[m]
          <5>1. widest[m] # Unlimited => widest[m] <= widest[m]
            BY DEF QuotaTypes, MeterTypes
          <5>2. CASE m = p
            BY <2>7, <2>9, <5>2
          <5> QED BY <2>6, <5>1, <5>2
        <4> QED BY <1>1, <2>10, <2>11, <2>16, <3>1, <4>1, AllKeeps
      <3>2. CASE c \in Pending(m)' /\ c \notin Pending(m)
        <4>1. m = p
          BY <2>14, <3>2
        <4> SUFFICES ASSUME widest'[m] # Unlimited
                     PROVE  Within(metered'[m].all, Pending(m)', widest'[m], Costs')
          BY DEF AllWithin, Within, Spare
        <4>2. qcall'[c] # NoCall
          BY <3>2 DEF Pending, QAt
        <4> DEFINE used == metered'[m].all
                   P == Pending(m)'
                   w == widest'[m]
                   cost == Costs'
        <4>3. used \in Nat /\ used = metered[p].all
          <5>1. metered[p] \in [all : Nat, of : [Members -> 0..MaxUnits]]
            BY <1>3 DEF QuotaTypes, MeterTypes
          <5> QED BY <1>1, <4>1, <5>1
        <4>4. w \in Nat /\ w >= k.limits.workspace /\ k.limits.workspace \in Nat
              /\ used + k.units <= k.limits.workspace
          BY <1>4, <2>2, <2>9, <4>1, <4>3
        <4>5. cost[c] = k.units
          BY <2>12, <4>2
        <4>6. P \in SUBSET QuotaCalls /\ c \in P
          BY <3>2 DEF Pending
        <4>7. CostsOK(cost)
          <5>1. CostsOK(Costs)'
            BY <2>4, CostsAreOKThen
          <5> QED BY <5>1 DEF CostsOK
        <4> HIDE DEF used, P, w, cost
        <4>8. used + cost[c] <= w
          BY <1>3, <4>3, <4>4, <4>5
        <4>9. Within(used, P, w, cost)
          BY <4>3, <4>4, <4>6, <4>7, <4>8, PendingFits
        <4> QED BY <4>9 DEF used, P, w, cost
      <3> QED BY <3>1, <3>2
    <2>18. NotYet(m)'
      BY <1>1, <2>11 DEF NotYet
    <2>19. ASSUME NEW u \in Members PROVE OwnWithin(m, u)'
      <3>1. widestOf[m][u] <= widestOf'[m][u]
        <4>1. widestOf[m][u] \in Nat
          BY DEF QuotaTypes, MeterTypes
        <4>2. CASE m = p /\ u = k.member
          BY <2>7, <2>8, <4>2
        <4>3. CASE ~(m = p /\ u = k.member)
          BY <2>6, <4>1, <4>3
        <4> QED BY <4>2, <4>3
      <3>2. ASSUME NEW w \in Nat, w >= widestOf'[m][u], c \in PendingOf(m, u, w)'
            PROVE  c \in PendingOf(m, u, w)
        <4>1. c \in Pending(m)' /\ u = k.member /\ m = month
          BY <2>13, <2>15, <3>2
        <4>2. CASE m # p
          BY <2>14, <4>1, <4>2 DEF PendingOf
        <4>3. CASE m = p
          <5>1. k.limits.member <= w
            BY <1>4, <2>8, <3>2, <4>1, <4>3
          <5> QED BY <1>1, <2>3, <4>1, <4>3, <5>1 DEF PendingOf
        <4> QED BY <4>2, <4>3
      <3>3. \A w \in Nat : w >= widestOf'[m][u] =>
              /\ PendingOf(m, u, w)' \subseteq PendingOf(m, u, w)
              /\ \A d \in PendingOf(m, u, w)' : Costs'[d] = Costs[d]
        <4> SUFFICES ASSUME NEW w \in Nat, w >= widestOf'[m][u], NEW d \in PendingOf(m, u, w)'
                     PROVE  d \in PendingOf(m, u, w) /\ Costs'[d] = Costs[d]
          OBVIOUS
        <4>1. d \in QuotaCalls /\ qcall'[d] # NoCall
          BY DEF PendingOf, Pending, QAt
        <4> QED BY <1>1, <2>4, <2>12, <3>2, <4>1, OtherCalls
      <3> QED BY <1>1, <2>10, <2>11, <3>1, <3>3, OwnKeeps
    <2> QED BY <2>17, <2>18, <2>19
  <1> QED BY <1>5, <1>6

\* A line appended is that of a call that was pending.
LEMMA AppendKeeps ==
    ASSUME QuotaTypes, MeterInv, NEW c \in QuotaCalls, AppendUsage(c)
    PROVE  CallTypes' /\ MeterTypes' /\ MeterInv'
  <1> DEFINE k == qcall[c]
             p == k.period
             x == k.member
             n == k.units
  <1>1. UNCHANGED <<month, widest, widestOf>> /\ QAt(c, "append") /\ cutShort' = FALSE /\ QReturn(c)
    BY DEF AppendUsage
  <1>2. k \in QRecords /\ k # NoCall /\ k.step = "append" /\ p <= month
    BY <1>1, QAtIs DEF QuotaTypes, CallOK
  <1>3. p \in Months /\ x \in Members /\ n \in Nat
    BY <1>2, QFields
  <1>4. CallTypes' /\ Others(c) /\ Calm(c) /\ qcall'[c] = NoCall
    BY <1>1, EndIsCalm, QReturns
  <1>5. CASE metered' = metered
    <2>1. MeterTypes'
      BY <1>1, <1>5, MeterTypesStay DEF MeterVars, QuotaTypes
    <2> QED BY <1>1, <1>4, <1>5, <2>1, CalmKeeps
  <1>6. CASE metered' # metered
    <2> DEFINE all == metered[p].all + n
               own == metered[p].of[x] + n
               line == [all |-> all, of |-> [metered[p].of EXCEPT ![x] = own]]
    <2>1. metered' = [metered EXCEPT ![p] = line] /\ own <= MaxUnits
      BY <1>6 DEF AppendUsage
    <2>2. metered[p] \in [all : Nat, of : [Members -> 0..MaxUnits]]
      BY <1>3 DEF QuotaTypes, MeterTypes
    <2>3. metered[p].all \in Nat /\ metered[p].of \in [Members -> 0..MaxUnits]
      BY <2>2
    <2>4. metered[p].of[x] \in 0..MaxUnits /\ metered[p].of[x] \in Nat
      BY <1>3, <2>3, Numbers
    <2>5. all \in Nat /\ own \in 0..MaxUnits
      <3>1. all \in Nat /\ own \in Nat
        BY <1>3, <2>3, <2>4
      <3> HIDE DEF all, own
      <3> QED BY <2>1, <3>1, Numbers
    <2> HIDE DEF all, own
    <2>7. line \in [all : Nat, of : [Members -> 0..MaxUnits]]
      BY <1>3, <2>3, <2>5
    <2>8. /\ line.all = all /\ line.of[x] = own
          /\ \A u \in Members \ {x} : line.of[u] = metered[p].of[u]
      BY <1>3, <2>3
    <2> HIDE DEF line
    <2>9. /\ metered' \in [Months -> [all : Nat, of : [Members -> 0..MaxUnits]]]
          /\ metered'[p] = line /\ \A m \in Months \ {p} : metered'[m] = metered[m]
      BY <1>3, <2>1, <2>7 DEF QuotaTypes, MeterTypes
    <2>10. MeterTypes'
      BY <1>1, <2>9 DEF QuotaTypes, MeterTypes
    <2> SUFFICES ASSUME NEW m \in Months
                 PROVE  /\ AllWithin(m)' /\ NotYet(m)'
                        /\ \A u \in Members : OwnWithin(m, u)'
      BY <1>4, <2>10 DEF MeterInv
    <2>11. AllWithin(m) /\ NotYet(m) /\ \A u \in Members : OwnWithin(m, u)
      BY DEF MeterInv
    <2>12. /\ Pending(m)' \subseteq Pending(m) /\ \A d \in Pending(m)' : Costs'[d] = Costs[d]
           /\ \A u \in Members, w \in Nat :
                /\ PendingOf(m, u, w)' \subseteq PendingOf(m, u, w)
                /\ \A d \in PendingOf(m, u, w)' : Costs'[d] = Costs[d]
      BY <1>1, <1>4, CalmPending
    <2>13. Costs[c] = n /\ CostsOK(Costs)
      BY <1>2, CostsAreOK DEF Costs, QuotaTypes
    <2>14. c \notin Pending(m)' /\ \A u, w : c \notin PendingOf(m, u, w)'
      BY <1>4 DEF Pending, PendingOf, QAt
    <2>15. NotYet(m)'
      <3>1. month \in Nat /\ p \in Nat
        BY <1>3, Numbers DEF QuotaTypes, MeterTypes
      <3> QED BY <1>1, <1>2, <2>9, <2>11, <3>1 DEF NotYet
    <2>16. AllWithin(m)'
      <3>1. widest[m] # Unlimited => widest[m] <= widest[m]
        BY DEF QuotaTypes, MeterTypes
      <3>2. CASE m # p
        BY <1>1, <2>9, <2>10, <2>11, <2>12, <3>1, <3>2, AllKeeps
      <3>3. CASE m = p
        <4> SUFFICES ASSUME widest'[m] # Unlimited
                     PROVE  Within(metered'[m].all, Pending(m)', widest'[m], Costs')
          BY DEF AllWithin, Within, Spare
        <4> DEFINE used == metered[m].all
                   P == Pending(m)
                   Q == Pending(m)'
                   w == widest[m]
                   old == Costs
                   new == Costs'
        <4>1. used \in Nat /\ metered'[m].all = used + n
          BY <2>3, <2>8, <2>9, <3>3 DEF all
        <4>2. w \in Nat /\ w <= w /\ widest'[m] = w
          BY <1>1 DEF QuotaTypes, MeterTypes
        <4>3. P \in SUBSET QuotaCalls /\ c \in P /\ Within(used, P, w, old) /\ old[c] = n
          BY <1>1, <2>11, <2>13, <3>3 DEF AllWithin, Pending
        <4>4. Q \in SUBSET (P \ {c}) /\ \A d \in Q : new[d] = old[d]
          BY <2>12, <2>14
        <4>5. CostsOK(old)
          BY <2>13
        <4> HIDE DEF used, P, Q, w, old, new, k, p, x, n
        <4>6. used + n \in Nat
          BY <1>3, <4>1
        <4>7. Within(used + n, P \ {c}, w, old)
          <5>1. Within(used + old[c], P \ {c}, w, old)
            BY <4>1, <4>2, <4>3, <4>5, PendingAppends
          <5> QED BY <4>3, <5>1
        <4>8. P \ {c} \in SUBSET QuotaCalls
          BY <4>3
        <4>9. Within(used + n, Q, w, new)
          BY <4>2, <4>4, <4>5, <4>6, <4>7, <4>8, FewerPending
        <4> QED BY <4>1, <4>2, <4>9 DEF Q, new
      <3> QED BY <3>2, <3>3
    <2>17. ASSUME NEW u \in Members PROVE OwnWithin(m, u)'
      <3>1. widestOf[m][u] <= widestOf'[m][u] /\ widestOf'[m][u] = widestOf[m][u]
        BY <1>1 DEF QuotaTypes, MeterTypes
      <3>2. CASE ~(m = p /\ u = x)
        <4>1. metered'[m].of[u] = metered[m].of[u]
          BY <2>8, <2>9, <3>2
        <4> QED BY <2>10, <2>11, <2>12, <3>1, <4>1, OwnKeeps
      <3>3. CASE m = p /\ u = x
        <4> SUFFICES ASSUME NEW w \in Nat, w >= widestOf'[m][u]
                     PROVE  Within(metered'[m].of[u], PendingOf(m, u, w)', w, Costs')
          BY DEF OwnWithin, Within, Spare
        <4> DEFINE used == metered[m].of[u]
                   P == PendingOf(m, u, w)
                   Q == PendingOf(m, u, w)'
                   old == Costs
                   new == Costs'
        <4>1. used \in Nat /\ metered'[m].of[u] = used + n
          BY <2>4, <2>8, <2>9, <3>3 DEF own
        <4>2. w >= widestOf[m][u] /\ w <= w
          BY <3>1
        <4>3. P \in SUBSET QuotaCalls /\ c \in P /\ Within(used, P, w, old) /\ old[c] = n
          <5>1. c \in Pending(m)
            BY <1>1, <3>3 DEF Pending
          <5> QED BY <2>11, <2>13, <3>3, <4>2, <5>1 DEF OwnWithin, PendingOf
        <4>4. Q \in SUBSET (P \ {c}) /\ \A d \in Q : new[d] = old[d]
          BY <2>12, <2>14
        <4>5. CostsOK(old)
          BY <2>13
        <4> HIDE DEF used, P, Q, old, new, k, p, x, n
        <4>6. used + n \in Nat
          BY <1>3, <4>1
        <4>7. Within(used + n, P \ {c}, w, old)
          <5>1. Within(used + old[c], P \ {c}, w, old)
            BY <4>1, <4>2, <4>3, <4>5, PendingAppends
          <5> QED BY <4>3, <5>1
        <4>8. P \ {c} \in SUBSET QuotaCalls
          BY <4>3
        <4>9. Within(used + n, Q, w, new)
          BY <4>2, <4>4, <4>5, <4>6, <4>7, <4>8, FewerPending
        <4> QED BY <4>1, <4>9 DEF Q, new
      <3> QED BY <3>2, <3>3
    <2> QED BY <2>15, <2>16, <2>17
  <1> QED BY <1>5, <1>6

\* What is under way when the month turns is pending for the next one.
LEMMA MonthTurns ==
    ASSUME QuotaTypes, MeterInv, NextMonth
    PROVE  QuotaTypes' /\ MeterInv'
  <1>1. /\ month' = month + 1 /\ month < MaxMonth
        /\ UNCHANGED <<policy, put, metered, cutShort, qcall, widest, widestOf>>
    BY DEF NextMonth
  <1>2. month \in Nat /\ month' \in Months /\ Months \subseteq Nat
    BY <1>1, Numbers DEF QuotaTypes, MeterTypes, Months
  <1>3. PolicyTypes' /\ MeterTypes'
    BY <1>1, <1>2 DEF QuotaTypes, PolicyTypes, MeterTypes
  <1>4. CallTypes'
    <2>1. \A t \in Nat : t <= month => t <= month'
      BY <1>1, <1>2
    <2>2. \A c \in QuotaCalls : qcall[c] # NoCall => CallOK(qcall[c], month')
      BY <1>2, <2>1, QFields DEF QuotaTypes, CallTypes, CallOK
    <2> QED BY <1>1, <2>2 DEF QuotaTypes, CallTypes
  <1> SUFFICES ASSUME NEW m \in Months
               PROVE  /\ AllWithin(m)' /\ NotYet(m)'
                      /\ \A u \in Members : OwnWithin(m, u)'
    BY <1>3, <1>4 DEF QuotaTypes, MeterInv
  <1>5. AllWithin(m) /\ NotYet(m) /\ \A u \in Members : OwnWithin(m, u)
    BY DEF MeterInv
  <1>6. NotYet(m)'
    <2>1. m > month' => m > month
      BY <1>1, <1>2
    <2> QED BY <1>1, <1>5, <2>1 DEF NotYet
  <1>7. CASE m > month
    <2>1. metered'[m].all = 0 /\ \A u \in Members : metered'[m].of[u] = 0
      BY <1>1, <1>5, <1>7 DEF NotYet
    <2> QED BY <1>3, <1>6, <2>1, UnusedIsWithin
  <1>8. CASE ~(m > month)
    <2>1. m # month'
      BY <1>1, <1>2, <1>8
    <2>2. \A c, s : QAt(c, s)' <=> QAt(c, s)
      BY <1>1 DEF QAt
    <2>3. Pending(m)' \subseteq Pending(m)
      BY <1>1, <2>1, <2>2 DEF Pending
    <2>4. \A u, w : PendingOf(m, u, w)' \subseteq PendingOf(m, u, w)
      BY <1>1, <2>1, <2>2, <2>3 DEF PendingOf
    <2>5. Costs' = Costs
      BY <1>1 DEF Costs
    <2>6. widest[m] # Unlimited => widest[m] <= widest'[m]
      BY <1>1 DEF QuotaTypes, MeterTypes
    <2>7. \A u \in Members : widestOf[m][u] <= widestOf'[m][u]
      BY <1>1 DEF QuotaTypes, MeterTypes
    <2>8. AllWithin(m)'
      BY <1>1, <1>3, <1>5, <2>3, <2>5, <2>6, AllKeeps
    <2>9. \A u \in Members : OwnWithin(m, u)'
      BY <1>1, <1>3, <1>5, <2>4, <2>5, <2>7, OwnKeeps
    <2> QED BY <1>6, <2>8, <2>9
  <1> QED BY <1>7, <1>8

\* A crash leaves nothing pending.
LEMMA CrashKeeps ==
    ASSUME QuotaTypes, MeterInv, QuotaCrash
    PROVE  QuotaTypes' /\ MeterInv'
  <1>1. /\ qcall' = [c \in QuotaCalls |-> NoCall] /\ put' = [o \in Puts |-> NoCall]
        /\ UNCHANGED <<policy, metered, month, widest, widestOf>>
        /\ cutShort' \in {cutShort, TRUE}
    BY DEF QuotaCrash
  <1>2. PolicyTypes' /\ MeterTypes' /\ CallTypes'
    BY <1>1 DEF QuotaTypes, PolicyTypes, MeterTypes, CallTypes
  <1> SUFFICES ASSUME NEW m \in Months
               PROVE  /\ AllWithin(m)' /\ NotYet(m)'
                      /\ \A u \in Members : OwnWithin(m, u)'
    BY <1>2 DEF QuotaTypes, MeterInv
  <1>3. AllWithin(m) /\ NotYet(m) /\ \A u \in Members : OwnWithin(m, u)
    BY DEF MeterInv
  <1>4. \A c \in QuotaCalls : qcall'[c] = NoCall
    BY <1>1
  <1>5. (\A c : c \notin Pending(m)') /\ \A u, w : \A c : c \notin PendingOf(m, u, w)'
    BY <1>4 DEF Pending, PendingOf, QAt
  <1>6. widest[m] # Unlimited => widest[m] <= widest'[m]
    BY <1>1 DEF QuotaTypes, MeterTypes
  <1>7. \A u \in Members : widestOf[m][u] <= widestOf'[m][u]
    BY <1>1 DEF QuotaTypes, MeterTypes
  <1>8. AllWithin(m)'
    BY <1>1, <1>2, <1>3, <1>5, <1>6, AllKeeps
  <1>9. \A u \in Members : OwnWithin(m, u)'
    BY <1>1, <1>2, <1>3, <1>5, <1>7, OwnKeeps
  <1>10. NotYet(m)'
    BY <1>1, <1>3 DEF NotYet
  <1> QED BY <1>8, <1>9, <1>10

\* Whatever else happens, calls and meter stay as they are.
LEMMA SameMeter ==
    ASSUME MeterInv, CallTypes, MeterTypes, UNCHANGED <<metered, cutShort, month, qcall, widest, widestOf>>
    PROVE  MeterInv' /\ CallTypes' /\ MeterTypes'
  <1>1. CallTypes' /\ MeterTypes'
    BY DEF CallTypes, MeterTypes
  <1>2. \A c, s : QAt(c, s)' <=> QAt(c, s)
    BY DEF QAt
  <1>3. Costs' = Costs
    BY DEF Costs
  <1>4. \A m : Pending(m)' = Pending(m)
    BY <1>2 DEF Pending
  <1>5. \A m, u, w : PendingOf(m, u, w)' = PendingOf(m, u, w)
    BY <1>2, <1>4 DEF PendingOf
  <1>6. \A m : (AllWithin(m) => AllWithin(m)') /\ (NotYet(m) => NotYet(m)')
    BY <1>3, <1>4 DEF AllWithin, NotYet, Within, Spare
  <1>7. \A m, u : OwnWithin(m, u) => OwnWithin(m, u)'
    BY <1>3, <1>5 DEF OwnWithin, Within, Spare
  <1> QED BY <1>1, <1>6, <1>7 DEF MeterInv

LEMMA PutKeeps ==
    ASSUME QuotaTypes, MeterInv, NEW o \in Puts, PutStep(o)
    PROVE  QuotaTypes' /\ MeterInv'
  <1>1. UNCHANGED <<metered, cutShort, month, qcall, widest, widestOf>>
    BY DEF PutStep, ReadPut, OpenPut, WritePut
  <1>2. MeterInv' /\ CallTypes' /\ MeterTypes'
    BY <1>1, SameMeter DEF QuotaTypes
  <1>3. PolicyTypes'
    <2>1. CASE ReadPut(o)
      <3>1. PICK w, m \in Limits \cup {Unlimited, Keep} :
              put' = [put EXCEPT ![o] =
                [next |-> Policy(IF w = Keep THEN policy.workspace ELSE w,
                                 IF m = Keep THEN policy.member ELSE m),
                 step |-> "open"]]
        BY <2>1 DEF ReadPut
      <3> DEFINE next == Policy(IF w = Keep THEN policy.workspace ELSE w,
                                IF m = Keep THEN policy.member ELSE m)
                 R == [next |-> next, step |-> "open"]
      <3>2. policy \in Policies /\ policy' = policy
        BY <2>1 DEF ReadPut, QuotaTypes, PolicyTypes
      <3>3. next \in Policies
        BY <3>2 DEF Policy, Policies
      <3> HIDE DEF next
      <3>4. R \in PutRecords
        BY <3>3 DEF PutRecords
      <3>5. put' = [put EXCEPT ![o] = R]
        BY <3>1 DEF next
      <3> HIDE DEF R
      <3> QED BY <3>2, <3>4, <3>5 DEF QuotaTypes, PolicyTypes
    <2>2. CASE OpenPut(o)
      <3>1. /\ put[o] # NoCall /\ policy' = Truncated
            /\ put' = [put EXCEPT ![o].step = "write"]
        BY <2>2 DEF OpenPut
      <3>2. put[o] \in PutRecords
        BY <3>1 DEF QuotaTypes, PolicyTypes
      <3> DEFINE R == [put[o] EXCEPT !.step = "write"]
      <3>3. R \in PutRecords /\ put' = [put EXCEPT ![o] = R]
        BY <3>1, <3>2 DEF PutRecords
      <3> HIDE DEF R
      <3> QED BY <3>1, <3>3 DEF QuotaTypes, PolicyTypes
    <2>3. CASE WritePut(o)
      <3>1. /\ put[o] # NoCall /\ policy' = put[o].next
            /\ put' = [put EXCEPT ![o] = NoCall]
        BY <2>3 DEF WritePut
      <3>2. put[o] \in PutRecords
        BY <3>1 DEF QuotaTypes, PolicyTypes
      <3>3. policy' \in Policies
        BY <3>1, <3>2 DEF PutRecords
      <3> QED BY <3>1, <3>3 DEF QuotaTypes, PolicyTypes
    <2> QED BY <2>1, <2>2, <2>3 DEF PutStep
  <1> QED BY <1>2, <1>3 DEF QuotaTypes

LEMMA CallKeeps ==
    ASSUME QuotaTypes, MeterInv, NEW c \in QuotaCalls, QuotaStep(c)
    PROVE  QuotaTypes' /\ MeterInv'
  <1>1. UNCHANGED <<policy, put>> /\ PolicyTypes'
    BY DEF QuotaStep, BeginCall, BeginStream, ReadQuotaPolicy, ReadMine, Admit, Answered,
           NotMetered, AppendUsage, AppendUsageFails, QuotaTypes, PolicyTypes
  <1>2. CASE AppendUsage(c) \/ Admit(c)
    BY <1>1, <1>2, AppendKeeps, AdmitKeeps DEF QuotaTypes
  <1>3. CASE ~(AppendUsage(c) \/ Admit(c))
    <2>1. UNCHANGED MeterVars /\ cutShort' \in {cutShort, TRUE}
      BY <1>3 DEF QuotaStep, BeginCall, BeginStream, ReadQuotaPolicy, ReadMine, Answered,
             NotMetered, AppendUsageFails, MeterVars
    <2>2. MeterTypes'
      BY <2>1, MeterTypesStay DEF QuotaTypes, MeterTypes
    <2>3. CASE ReadMine(c)
      BY <1>1, <2>2, <2>3, ReadMineKeeps DEF QuotaTypes
    <2>4. CASE ~ReadMine(c)
      <3>1. CallTypes' /\ Others(c) /\ Calm(c)
        <4>1. CASE NotMetered(c) \/ AppendUsageFails(c)
          BY <2>1, <4>1, EndIsCalm DEF NotMetered, AppendUsageFails, MeterVars
        <4> QED BY <1>3, <2>4, <4>1, BeginIsCalm, PolicyIsCalm, AnsweredIsCalm DEF QuotaStep
      <3>2. MeterInv'
        BY <2>1, <2>2, <3>1, CalmKeeps DEF MeterVars
      <3> QED BY <1>1, <2>2, <3>1, <3>2 DEF QuotaTypes
    <2> QED BY <2>3, <2>4
  <1> QED BY <1>2, <1>3

LEMMA MeterStarts == QuotaInit => QuotaTypes /\ MeterInv
  <1> SUFFICES ASSUME QuotaInit PROVE QuotaTypes /\ MeterInv
    OBVIOUS
  <1>1. Defaults \in Policies
    BY DEF Defaults, Policy, Policies
  <1>2. PolicyTypes /\ CallTypes
    BY <1>1 DEF QuotaInit, PolicyTypes, CallTypes
  <1>3. MeterTypes
    <2>1. MaxBatch \in Nat /\ MaxBatch >= MaxBatch /\ 0 \in 0..MaxUnits
      BY Largest, Numbers
    <2> HIDE DEF Months
    <2> QED BY <2>1, Numbers DEF QuotaInit, MeterTypes
  <1>4. \A m \in Months : NotYet(m) /\ AllWithin(m) /\ \A u \in Members : OwnWithin(m, u)
    <2> TAKE m \in Months
    <2>1. metered[m].all = 0 /\ \A u \in Members : metered[m].of[u] = 0
      BY DEF QuotaInit
    <2>2. AllWithin(m)
      <3>1. widest[m] = MaxBatch /\ MaxBatch \in Nat /\ MaxBatch >= MaxBatch
        BY Largest DEF QuotaInit
      <3> QED BY <2>1, <3>1, NothingUsed, PendingIsCalled DEF AllWithin
    <2>3. ASSUME NEW u \in Members PROVE OwnWithin(m, u)
      <3>1. widestOf[m][u] = MaxBatch
        BY DEF QuotaInit
      <3> QED BY <2>1, <3>1, NothingUsed, PendingIsCalled DEF OwnWithin
    <2> QED BY <2>1, <2>2, <2>3 DEF NotYet
  <1> QED BY <1>2, <1>3, <1>4 DEF QuotaTypes, MeterInv

LEMMA MeterSteps == QuotaTypes /\ MeterInv /\ [QuotaNext]_quotaVars => QuotaTypes' /\ MeterInv'
  <1>1. ASSUME QuotaTypes, MeterInv, UNCHANGED quotaVars PROVE QuotaTypes' /\ MeterInv'
    <2>1. UNCHANGED <<metered, cutShort, month, qcall, widest, widestOf>> /\ UNCHANGED <<policy, put>>
      BY <1>1 DEF quotaVars
    <2>2. MeterInv' /\ CallTypes' /\ MeterTypes'
      BY <1>1, <2>1, SameMeter DEF QuotaTypes
    <2> QED BY <1>1, <2>1, <2>2 DEF QuotaTypes, PolicyTypes
  <1> QED BY <1>1, CallKeeps, PutKeeps, MonthTurns, CrashKeeps DEF QuotaNext

\* The policy, the calls and the meter keep their types.
THEOREM QuotaTypesHold == QuotaSpec => []QuotaTypeOK
  <1>1. QuotaTypes => QuotaTypeOK
    <2> SUFFICES ASSUME QuotaTypes PROVE QuotaTypeOK
      OBVIOUS
    <2>1. \A o \in Puts : put[o] # NoCall => put[o].next \in Policies
      BY DEF QuotaTypes, PolicyTypes, PutRecords
    <2>2. ASSUME NEW c \in QuotaCalls, qcall[c] # NoCall
          PROVE  /\ qcall[c].step \in {"policy", "mine", "workspace", "running", "append"}
                 /\ qcall[c].limits \in Policies \cup {NoCall} /\ qcall[c].period \in Months
      <3>1. qcall[c] \in QRecords
        BY <2>2 DEF QuotaTypes, CallTypes
      <3>2. Gates \subseteq Policies
        BY DEF Gates, Policies, OwnLimits
      <3> QED BY <3>1, <3>2, QFields DEF QSteps
    <2> QED BY <2>1, <2>2 DEF QuotaTypes, PolicyTypes, MeterTypes, QuotaTypeOK
  <1> QED BY <1>1, MeterStarts, MeterSteps, PTL DEF QuotaSpec

\* Whatever calls overlap, whatever the owner sets meanwhile, whichever month a
\* call began in and wherever recordings fail or are lost: a month's meter passes
\* the widest limit a call was admitted under by what the calls beside one cost at
\* the most, for the workspace and for each member.
THEOREM MetersStayBounded == QuotaSpec => []MetersAreBounded
  <1>1. QuotaTypes /\ MeterInv => MetersAreBounded
    <2> SUFFICES ASSUME QuotaTypes, MeterInv, NEW m \in Months
                 PROVE  LET beside == MaxBatch * (Cardinality(QuotaCalls) - 1) IN
                        /\ widest[m] = Unlimited \/ metered[m].all <= widest[m] + beside
                        /\ \A u \in Members : metered[m].of[u] <= widestOf[m][u] + beside
      BY DEF MetersAreBounded
    <2>1. AllWithin(m) /\ \A u \in Members : OwnWithin(m, u)
      BY DEF MeterInv
    <2>2. metered[m] \in [all : Nat, of : [Members -> 0..MaxUnits]]
      BY DEF QuotaTypes, MeterTypes
    <2>3. CostsOK(Costs)
      BY CostsAreOK DEF QuotaTypes
    <2>4. ASSUME widest[m] # Unlimited
          PROVE  metered[m].all <= widest[m] + MaxBatch * (Cardinality(QuotaCalls) - 1)
      <3>1. metered[m].all \in Nat /\ widest[m] \in Nat
        BY <2>2, <2>4 DEF QuotaTypes, MeterTypes
      <3> QED BY <2>1, <2>3, <2>4, <3>1, PendingIsCalled, WithinIsBounded DEF AllWithin
    <2>5. ASSUME NEW u \in Members
          PROVE  metered[m].of[u] <= widestOf[m][u] + MaxBatch * (Cardinality(QuotaCalls) - 1)
      <3>1. metered[m].of[u] \in 0..MaxUnits /\ widestOf[m][u] \in Nat
        BY <2>2 DEF QuotaTypes, MeterTypes
      <3>2. metered[m].of[u] \in Nat /\ widestOf[m][u] >= widestOf[m][u]
        BY <3>1, Numbers
      <3>3. Within(metered[m].of[u], PendingOf(m, u, widestOf[m][u]), widestOf[m][u], Costs)
        BY <2>1, <3>1, <3>2 DEF OwnWithin
      <3> QED BY <2>3, <3>1, <3>2, <3>3, PendingIsCalled, WithinIsBounded
    <2> QED BY <2>4, <2>5
  <1> QED BY <1>1, MeterStarts, MeterSteps, PTL DEF QuotaSpec

-----------------------------------------------------------------------------
(***************************************************************************)
(* The ranking.  SortBy puts each chunk where the number of chunks that do *)
(* not come after it says (Rank).  These numbers are the first ones, each  *)
(* of them once, so nothing is lost or doubled by sorting, and where no    *)
(* two scores are equal the list that is sorted does not matter.  What the *)
(* code's loops make, the picks of MMR and the sums of the packing, exists *)
(* up to any length: else there were a least length for which it does not. *)
(***************************************************************************)

\* y stands no later than x in the order SortBy makes of s.
Precedes(s, scores, y, x) ==
    \/ y = x
    \/ scores[y] > scores[x]
    \/ scores[y] = scores[x] /\ PlaceIn(s, y) < PlaceIn(s, x)
UpTo(s, T, scores, x) == {y \in T : Precedes(s, scores, y, x)}
Rank(s, T, scores, x) == Cardinality(UpTo(s, T, scores, x))

LEMMA PlacesIn ==
    ASSUME NEW s \in Seq(Passages), NEW x \in ToSet(s)
    PROVE  /\ PlaceIn(s, x) \in DOMAIN s /\ PlaceIn(s, x) \in Nat /\ s[PlaceIn(s, x)] = x
           /\ x \in Passages
  <1>1. DOMAIN s = 1..Len(s) /\ Len(s) \in Nat /\ \A i \in DOMAIN s : s[i] \in Passages
    OBVIOUS
  <1>2. \E i \in DOMAIN s : s[i] = x
    BY DEF ToSet
  <1>3. PlaceIn(s, x) \in DOMAIN s /\ s[PlaceIn(s, x)] = x
    BY <1>2 DEF PlaceIn
  <1> QED
    BY <1>1, <1>3

LEMMA PrecedesOrders ==
    ASSUME NEW s \in Seq(Passages), NEW scores \in [Passages -> Int],
           NEW x \in ToSet(s), NEW y \in ToSet(s)
    PROVE  /\ Precedes(s, scores, x, x)
           /\ Precedes(s, scores, x, y) \/ Precedes(s, scores, y, x)
           /\ Precedes(s, scores, x, y) /\ Precedes(s, scores, y, x) => x = y
           /\ \A z \in ToSet(s) :
                Precedes(s, scores, x, y) /\ Precedes(s, scores, y, z) => Precedes(s, scores, x, z)
           /\ scores[x] > scores[y] => x # y /\ Precedes(s, scores, x, y)
  <1> DEFINE p(u) == PlaceIn(s, u)
             c(u) == scores[u]
  <1>1. \A u \in ToSet(s) : p(u) \in Int /\ c(u) \in Int
    BY PlacesIn
  <1>2. \A u, v \in ToSet(s) : p(u) = p(v) => u = v
    BY PlacesIn
  <1>3. \A u, v \in ToSet(s) : Precedes(s, scores, u, v) <=>
           u = v \/ c(u) > c(v) \/ (c(u) = c(v) /\ p(u) < p(v))
    BY DEF Precedes
  <1> HIDE DEF p, c
  <1>4. Precedes(s, scores, x, x)
    BY <1>3
  <1>5. Precedes(s, scores, x, y) \/ Precedes(s, scores, y, x)
    BY <1>1, <1>2, <1>3
  <1>6. Precedes(s, scores, x, y) /\ Precedes(s, scores, y, x) => x = y
    BY <1>1, <1>3
  <1>7. ASSUME NEW z \in ToSet(s), Precedes(s, scores, x, y), Precedes(s, scores, y, z)
        PROVE  Precedes(s, scores, x, z)
    BY <1>1, <1>3, <1>7
  <1>8. c(x) > c(y) => x # y /\ Precedes(s, scores, x, y)
    BY <1>1, <1>3
  <1> QED
    BY <1>4, <1>5, <1>6, <1>7, <1>8 DEF c

LEMMA SetIsFinite ==
    ASSUME NEW s \in Seq(Passages), NEW T \in SUBSET ToSet(s)
    PROVE  /\ IsFiniteSet(T) /\ Cardinality(T) \in Nat /\ T \subseteq Passages
  <1>1. T \subseteq Passages /\ IsFiniteSet(Passages)
    BY PlacesIn, PassagesAssumption
  <1> QED
    BY <1>1, FS_Subset, FS_CardinalityType

LEMMA RankGrows ==
    ASSUME NEW s \in Seq(Passages), NEW T \in SUBSET ToSet(s),
           NEW scores \in [Passages -> Int], NEW x \in T
    PROVE  /\ Rank(s, T, scores, x) \in 1..Cardinality(T)
           /\ \A y \in T : x # y /\ Precedes(s, scores, x, y) =>
                Rank(s, T, scores, x) < Rank(s, T, scores, y)
  <1> DEFINE U(y) == UpTo(s, T, scores, y)
  <1>1. IsFiniteSet(T) /\ Cardinality(T) \in Nat
    BY SetIsFinite
  <1>2. \A y \in T : U(y) \in SUBSET T /\ y \in U(y)
    BY PrecedesOrders DEF UpTo
  <1>3. \A y \in T : /\ IsFiniteSet(U(y)) /\ Cardinality(U(y)) \in Nat
                     /\ Cardinality(U(y)) <= Cardinality(T)
    BY <1>1, <1>2, FS_Subset, FS_CardinalityType
  <1>4. U(x) # {} /\ Cardinality(U(x)) # 0
    BY <1>2, <1>3, FS_EmptySet
  <1>5. ASSUME NEW y \in T, x # y, Precedes(s, scores, x, y)
        PROVE  Cardinality(U(x)) < Cardinality(U(y))
    <2>1. U(x) \in SUBSET U(y)
      BY <1>5, PrecedesOrders DEF UpTo
    <2>2. y \in U(y) /\ y \notin U(x)
      BY <1>2, <1>5, PrecedesOrders DEF UpTo
    <2>3. Cardinality(U(x)) <= Cardinality(U(y)) /\ Cardinality(U(x)) # Cardinality(U(y))
      <3> HIDE DEF U
      <3> QED
        BY <2>1, <2>2, <1>3, FS_Subset
    <2> QED
      BY <2>3, <1>3
  <1> HIDE DEF U
  <1>6. Cardinality(U(x)) \in 1..Cardinality(T)
    BY <1>1, <1>3, <1>4
  <1> QED
    BY <1>5, <1>6 DEF U, Rank

LEMMA RankIsTaken ==
    ASSUME NEW s \in Seq(Passages), NEW T \in SUBSET ToSet(s),
           NEW scores \in [Passages -> Int]
    PROVE  /\ \A x, y \in T : Rank(s, T, scores, x) = Rank(s, T, scores, y) => x = y
           /\ \A n \in 1..Cardinality(T) : \E x \in T : Rank(s, T, scores, x) = n
  <1> DEFINE F == [x \in T |-> Rank(s, T, scores, x)]
             N == Cardinality(T)
  <1>1. IsFiniteSet(T) /\ N \in Nat
    BY SetIsFinite
  <1>2. ASSUME NEW x \in T, NEW y \in T, Rank(s, T, scores, x) = Rank(s, T, scores, y)
        PROVE  x = y
    <2>1. Precedes(s, scores, x, y) \/ Precedes(s, scores, y, x)
      BY PrecedesOrders
    <2>2. /\ Rank(s, T, scores, x) \in 1..N /\ Rank(s, T, scores, y) \in 1..N
          /\ x # y /\ Precedes(s, scores, x, y) =>
               Rank(s, T, scores, x) < Rank(s, T, scores, y)
          /\ x # y /\ Precedes(s, scores, y, x) =>
               Rank(s, T, scores, y) < Rank(s, T, scores, x)
      BY RankGrows
    <2> QED
      BY <1>2, <2>1, <2>2
  <1>3. F \in [T -> 1..N]
    BY RankGrows
  <1>4. \A x, y \in T : F[x] = F[y] => x = y
    BY <1>2
  <1>5. F \in Injection(T, 1..N)
    BY <1>3, <1>4 DEF Injection, IsInjective
  <1>6. IsFiniteSet(1..N) /\ Cardinality(1..N) = N
    BY <1>1, FS_Interval
  <1>7. F \in Surjection(T, 1..N)
    <2> HIDE DEF F
    <2> QED
      BY <1>5, <1>6, FS_Injection
  <1>8. \A n \in 1..N : \E x \in T : F[x] = n
    BY <1>7 DEF Surjection
  <1> QED
    BY <1>2, <1>8

\* SortBy makes a list of the members of T, each of them once, and whichever scores more
\* stands before the other.
LEMMA SortPlaces ==
    ASSUME NEW s \in Seq(Passages), NEW T \in SUBSET ToSet(s),
           NEW scores \in [Passages -> Int]
    PROVE  \A x \in T : SortBy(s, T, scores)[Rank(s, T, scores, x)] = x
  <1> DEFINE N == Cardinality(T)
             R(x) == Rank(s, T, scores, x)
             L == [n \in 1..N |-> CHOOSE x \in T : R(x) = n]
  <1>1. L = SortBy(s, T, scores)
    BY DEF SortBy, Rank, UpTo, Precedes
  <1>2. \A x \in T : R(x) \in 1..N
    BY RankGrows
  <1>3. \A x, y \in T : R(x) = R(y) => x = y
    BY RankIsTaken
  <1>4. \A x \in T : L[R(x)] = x
    <2> HIDE DEF N, R
    <2> QED
      BY <1>2, <1>3
  <1> QED
    BY <1>1, <1>4

LEMMA SortIs ==
    ASSUME NEW s \in Seq(Passages), NEW T \in SUBSET ToSet(s),
           NEW scores \in [Passages -> Int]
    PROVE  /\ SortBy(s, T, scores) \in Seq(T) /\ SortBy(s, T, scores) \in Seq(Passages)
           /\ Len(SortBy(s, T, scores)) = Cardinality(T) /\ ToSet(SortBy(s, T, scores)) = T
           /\ \A n \in 1..Cardinality(T) : SortBy(s, T, scores)[n] \in T
           /\ \A m, n \in 1..Cardinality(T) :
                SortBy(s, T, scores)[m] = SortBy(s, T, scores)[n] => m = n
           /\ \A x, y \in T : scores[x] > scores[y] =>
                PlaceIn(SortBy(s, T, scores), x) < PlaceIn(SortBy(s, T, scores), y)
  <1> DEFINE N == Cardinality(T)
             R(x) == Rank(s, T, scores, x)
             L == [n \in 1..N |-> CHOOSE x \in T : R(x) = n]
  <1>1. L = SortBy(s, T, scores)
    BY DEF SortBy, Rank, UpTo, Precedes
  <1>2. N \in Nat /\ T \subseteq Passages
    BY SetIsFinite, Zenon
  <1>3. \A x \in T : R(x) \in 1..N
    BY RankGrows
  <1>4. /\ \A x, y \in T : R(x) = R(y) => x = y
        /\ \A n \in 1..N : \E x \in T : R(x) = n
    <2>1. \A x, y \in T : R(x) = R(y) => x = y
      BY RankIsTaken
    <2>2. \A n \in 1..Cardinality(T) : \E x \in T : R(x) = n
      BY RankIsTaken
    <2> QED
      BY <2>1, <2>2
  <1>5. ASSUME NEW x \in T, NEW y \in T, scores[x] > scores[y] PROVE R(x) < R(y)
    <2>1. x # y /\ Precedes(s, scores, x, y)
      BY <1>5, PrecedesOrders
    <2> QED
      BY <2>1, RankGrows
  <1> HIDE DEF N, R
  <1>6. DOMAIN L = 1..N /\ \A n \in 1..N : L[n] \in T /\ R(L[n]) = n
    <2>1. ASSUME NEW n \in 1..N PROVE L[n] \in T /\ R(L[n]) = n
      <3>1. L[n] = CHOOSE x \in T : R(x) = n
        OBVIOUS
      <3>2. \E x \in T : R(x) = n
        BY <1>4
      <3> HIDE DEF L
      <3> QED
        BY <3>1, <3>2
    <2> QED
      BY <2>1
  <1>7. L \in [1..N -> T]
    <2>1. L = [n \in 1..N |-> L[n]]
      OBVIOUS
    <2> HIDE DEF L
    <2>2. \A n \in 1..N : L[n] \in T
      BY <1>6
    <2> QED
      BY <2>1, <2>2
  <1>8. L \in Seq(T) /\ L \in Seq(Passages) /\ Len(L) = N
    BY <1>2, <1>6, <1>7
  <1>9. \A x \in T : R(x) \in DOMAIN L /\ L[R(x)] = x
    BY <1>3, <1>4, <1>6
  <1> HIDE DEF L
  <1>10. ToSet(L) = T
    BY <1>6, <1>9 DEF ToSet
  <1>11. \A x \in T : PlaceIn(L, x) = R(x)
    BY <1>6, <1>9 DEF PlaceIn
  <1> QED
    BY <1>1, <1>5, <1>6, <1>8, <1>9, <1>10, <1>11 DEF N, R

\* Where no two of T have one score, the order of s does not matter.
LEMMA SortUntied ==
    ASSUME NEW s \in Seq(Passages), NEW t \in Seq(Passages),
           NEW T \in SUBSET ToSet(s), T \in SUBSET ToSet(t),
           NEW scores \in [Passages -> Int],
           \A x, y \in T : x # y => scores[x] # scores[y]
    PROVE  SortBy(s, T, scores) = SortBy(t, T, scores)
  <1> DEFINE N == Cardinality(T)
             K == SortBy(s, T, scores)
             L == SortBy(t, T, scores)
  <1>1. ASSUME NEW x \in T PROVE Rank(s, T, scores, x) = Rank(t, T, scores, x)
    <2>1. \A y \in T : Precedes(s, scores, y, x) <=> Precedes(t, scores, y, x)
      BY DEF Precedes
    <2>2. UpTo(s, T, scores, x) = UpTo(t, T, scores, x)
      BY <2>1 DEF UpTo
    <2> QED
      BY <2>2 DEF Rank
  <1>2. /\ K \in Seq(T) /\ Len(K) = N
        /\ \A x \in T : K[Rank(s, T, scores, x)] = x
    <2>1. K \in Seq(T)
      BY SortIs
    <2>2. Len(K) = Cardinality(T)
      BY SortIs
    <2>3. \A x \in T : K[Rank(s, T, scores, x)] = x
      BY SortPlaces
    <2> QED
      BY <2>1, <2>2, <2>3
  <1>3. /\ L \in Seq(T) /\ Len(L) = N
        /\ \A x \in T : L[Rank(t, T, scores, x)] = x
    <2>1. L \in Seq(T)
      BY SortIs
    <2>2. Len(L) = Cardinality(T)
      BY SortIs
    <2>3. \A x \in T : L[Rank(t, T, scores, x)] = x
      BY SortPlaces
    <2> QED
      BY <2>1, <2>2, <2>3
  <1>4. \A n \in 1..N : \E x \in T : Rank(s, T, scores, x) = n
    BY RankIsTaken
  <1> HIDE DEF K, L, N
  <1>5. \A n \in 1..N : K[n] = L[n]
    BY <1>1, <1>2, <1>3, <1>4
  <1>6. K = L
    BY <1>2, <1>3, <1>5
  <1> QED
    BY <1>6 DEF K, L

-----------------------------------------------------------------------------
(* The legs                                                                *)

Legs == [Passages -> Int]

\* The largest score of a leg, at least 1.
LEMMA TopIsPositive ==
    ASSUME NEW leg \in Legs, NEW x \in Passages
    PROVE  Top(leg) \in Nat /\ Top(leg) >= 1
  <1> DEFINE S == {leg[y] : y \in Passages}
             f == [y \in Passages |-> leg[y]]
  <1>1. f \in Surjection(Passages, S)
    BY DEF Surjection
  <1>2. IsFiniteSet(S)
    <2> HIDE DEF f, S
    <2> QED
      BY <1>1, FS_Surjection, PassagesAssumption
  <1>3. S \in SUBSET Int /\ S # {}
    BY DEF Legs
  <1>4. \E m \in S : \A y \in S : y <= m
    <2> HIDE DEF S
    <2> QED
      BY <1>2, <1>3, LargestOf
  <1>5. \E m \in S : \A y \in S : m >= y
    <2> HIDE DEF S
    <2> QED
      BY <1>3, <1>4
  <1>6. Max(S) \in Int
    <2> HIDE DEF S
    <2> QED
      BY <1>3, <1>5 DEF Max
  <1>7. AtLeast(1, Max(S)) \in Nat /\ AtLeast(1, Max(S)) >= 1
    <2> HIDE DEF S
    <2> QED
      BY <1>6 DEF AtLeast
  <1> QED
    BY <1>7 DEF Top

RankLegs ==
    /\ lex \in [Passages -> Nat] /\ dense \in [Passages -> Nat \cup {-1}]
    /\ alpha \in 0..10

LEMMA ScaleIs ==
    ASSUME RankLegs, NEW x \in Passages
    PROVE  Scale \in Int /\ Scale \div 50 \in Int
  <1>1. lex \in Legs /\ dense \in Legs
    BY DEF RankLegs, Legs
  <1>2. Top(lex) \in Nat /\ Top(dense) \in Nat
    BY <1>1, TopIsPositive
  <1>3. Scale \in Int
    BY <1>2 DEF Scale
  <1> QED
    BY <1>3

LEMMA Weighs ==
    ASSUME NEW w \in Nat, NEW a \in Int, NEW b \in Int
    PROVE  /\ w * a \in Int
           /\ a <= b => w * a <= w * b
           /\ w >= 1 /\ a < b => w * a < w * b
  <1>1. a <= b => w * a <= w * b
    OBVIOUS
  <1>2. w >= 1 /\ a < b => w * a < w * b
    OBVIOUS
  <1> QED
    BY <1>1, <1>2

LEMMA BlendIs ==
    ASSUME RankLegs
    PROVE  /\ Blend \in [Passages -> Int]
           /\ alpha \in 1..9 =>
                \A x, y \in Passages :
                    /\ lex[x] > 0 /\ dense[x] > 0
                    /\ \/ lex[y] = 0 /\ dense[y] <= dense[x]
                       \/ dense[y] <= 0 /\ lex[y] <= lex[x]
                    => Blend[x] > Blend[y]
  <1> DEFINE w == 5 * alpha * Top(lex)
             r == 5 * (10 - alpha) * Top(dense)
             D(x) == AtLeast(0, dense[x])
  <1>1. lex \in Legs /\ dense \in Legs
    BY DEF RankLegs, Legs
  <1>2. \A x \in Passages :
          /\ lex[x] \in Nat /\ D(x) \in Nat /\ dense[x] \in Int
          /\ dense[x] <= 0 => D(x) = 0
          /\ dense[x] >= 0 => D(x) = dense[x]
    BY DEF RankLegs, AtLeast
  <1>3. \A x \in Passages : Blend[x] = w * D(x) + r * lex[x]
    BY DEF Blend
  <1>4. Blend = [x \in Passages |-> Blend[x]]
    BY DEF Blend
  <1>5. ASSUME NEW x \in Passages
        PROVE  /\ w \in Nat /\ r \in Nat
               /\ alpha \in 1..9 => w >= 1 /\ r >= 1
    <2>1. /\ Top(lex) \in Nat /\ Top(lex) >= 1
          /\ Top(dense) \in Nat /\ Top(dense) >= 1
      BY <1>1, TopIsPositive
    <2>2. alpha \in 0..10 /\ 5 * alpha \in Nat /\ 5 * (10 - alpha) \in Nat
      BY DEF RankLegs
    <2>3. w = Top(lex) * (5 * alpha) /\ r = Top(dense) * (5 * (10 - alpha))
      BY <2>1, <2>2
    <2>4. w \in Nat /\ r \in Nat
      BY <2>1, <2>2, <2>3, Weighs
    <2>5. alpha \in 1..9 => w >= 1 /\ r >= 1
      <3>1. alpha \in 1..9 => 0 < 5 * alpha /\ 0 < 5 * (10 - alpha)
        BY <2>2
      <3>2. alpha \in 1..9 => Top(lex) * 0 < w /\ Top(dense) * 0 < r
        BY <2>1, <2>2, <2>3, <3>1, Weighs
      <3> HIDE DEF w, r
      <3> QED
        BY <2>1, <2>4, <3>2
    <2> QED
      BY <2>4, <2>5
  <1> HIDE DEF w, r, D
  <1>6. ASSUME NEW x \in Passages PROVE Blend[x] \in Int
    <2>1. w * D(x) \in Int /\ r * lex[x] \in Int
      BY <1>2, <1>5, Weighs
    <2> QED
      BY <1>3, <2>1
  <1>7. ASSUME NEW x \in Passages, NEW y \in Passages, alpha \in 1..9,
               lex[x] > 0, dense[x] > 0,
               \/ lex[y] = 0 /\ dense[y] <= dense[x]
               \/ dense[y] <= 0 /\ lex[y] <= lex[x]
        PROVE  Blend[x] > Blend[y]
    <2>1. /\ w \in Nat /\ r \in Nat /\ w >= 1 /\ r >= 1
          /\ w * D(x) \in Int /\ w * D(y) \in Int /\ r * lex[x] \in Int /\ r * lex[y] \in Int
      BY <1>2, <1>5, <1>7, Weighs
    <2>2. CASE lex[y] = 0 /\ dense[y] <= dense[x]
      <3>1. D(y) <= D(x) /\ lex[y] < lex[x]
        BY <1>2, <1>7, <2>2
      <3>2. w * D(y) <= w * D(x)
        BY <1>2, <2>1, <3>1, Weighs
      <3>3. r * lex[y] < r * lex[x]
        BY <1>2, <2>1, <3>1, Weighs
      <3> QED
        BY <1>3, <2>1, <3>2, <3>3
    <2>3. CASE dense[y] <= 0 /\ lex[y] <= lex[x]
      <3>1. D(y) < D(x) /\ lex[y] <= lex[x]
        BY <1>2, <1>7, <2>3
      <3>2. w * D(y) < w * D(x) /\ r * lex[y] <= r * lex[x]
        BY <1>2, <2>1, <3>1, Weighs
      <3> QED
        BY <1>3, <2>1, <3>2
    <2> QED
      BY <1>7, <2>2, <2>3
  <1> QED
    BY <1>4, <1>6, <1>7

-----------------------------------------------------------------------------
(* MMR                                                                     *)

\* The first k picks of MMR, each made of those before it.
Extends(s, scores, d, n) == Pick(s, scores, {d[m] : m \in 1..(n - 1)})
PicksUpTo(s, scores, k, d) == d = [n \in 1..k |-> Extends(s, scores, d, n)]

\* The smallest number of a set of naturals.
LEMMA LeastOf ==
    ASSUME NEW S \in SUBSET Nat, S # {}
    PROVE  \E n \in S : \A m \in S : n <= m
  <1>1. PICK n \in S : \A m \in S : ~(<<m, n>> \in OpToRel(<, Nat))
    BY NatLessThanWellFounded, WFMin
  <1>2. \A m \in S : ~(m < n) /\ m \in Nat /\ n \in Nat
    BY <1>1 DEF OpToRel
  <1> QED
    BY <1>2

LEMMA PicksExist ==
    ASSUME NEW s, NEW scores, NEW k \in Nat
    PROVE  \E d : PicksUpTo(s, scores, k, d)
  <1> DEFINE Bad == {n \in Nat : ~\E d : PicksUpTo(s, scores, n, d)}
  <1>1. SUFFICES ASSUME Bad # {} PROVE FALSE
    OBVIOUS
  <1>2. PICK n \in Bad : \A m \in Bad : n <= m
    BY <1>1, LeastOf
  <1>3. n \in Nat
    OBVIOUS
  <1>4. CASE n = 0
    <2>1. PicksUpTo(s, scores, 0, [m \in 1..0 |-> 0])
      BY DEF PicksUpTo
    <2> QED
      BY <1>4, <2>1
  <1>5. CASE n # 0
    <2>1. n - 1 \in Nat /\ n - 1 \notin Bad
      BY <1>2, <1>3, <1>5
    <2>2. PICK d : PicksUpTo(s, scores, n - 1, d)
      BY <2>1
    <2> DEFINE e == [m \in 1..n |-> IF m = n THEN Extends(s, scores, d, n) ELSE d[m]]
    <2>3. ASSUME NEW m \in 1..n PROVE Extends(s, scores, e, m) = Extends(s, scores, d, m)
      <3>1. \A i \in 1..(m - 1) : i \in 1..n /\ i # n /\ e[i] = d[i]
        BY <1>3
      <3> HIDE DEF e
      <3>2. {e[i] : i \in 1..(m - 1)} = {d[i] : i \in 1..(m - 1)}
        BY <3>1
      <3> QED
        BY <3>2 DEF Extends
    <2>4. ASSUME NEW m \in 1..n PROVE e[m] = Extends(s, scores, e, m)
      <3>1. CASE m = n
        BY <2>3, <3>1
      <3>2. CASE m # n
        <4>1. m \in 1..(n - 1)
          BY <1>3, <3>2
        <4>2. d[m] = Extends(s, scores, d, m)
          BY <2>2, <4>1 DEF PicksUpTo
        <4> QED
          BY <2>3, <3>2, <4>2
      <3> QED
        BY <3>1, <3>2
    <2>5. e = [m \in 1..n |-> e[m]]
      OBVIOUS
    <2> HIDE DEF e
    <2>6. PicksUpTo(s, scores, n, e)
      BY <2>4, <2>5 DEF PicksUpTo
    <2> QED
      BY <2>6
  <1> QED
    BY <1>4, <1>5

LEMMA LikenessIs ==
    ASSUME NEW x \in Passages, NEW chosen \in SUBSET Passages
    PROVE  Likeness(x, chosen) \in 0..2
  <1> DEFINE S == {0} \cup {Alike[<<x, y>>] : y \in chosen}
  <1>1. S \subseteq 0..2 /\ 0 \in S
    <2>1. Alike \in [Passages \X Passages -> 0..2]
      BY AlikeAssumption
    <2>2. ASSUME NEW y \in chosen PROVE Alike[<<x, y>>] \in 0..2
      <3>1. <<x, y>> \in Passages \X Passages
        OBVIOUS
      <3> QED
        BY <2>1, <3>1
    <2>3. 0 \in 0..2
      OBVIOUS
    <2> QED
      BY <2>2, <2>3, Zenon
  <1>2. \E m \in S : \A y \in S : m >= y
    <2> HIDE DEF S
    <2>1. CASE 2 \in S
      BY <1>1, <2>1
    <2>2. CASE 2 \notin S /\ 1 \in S
      BY <1>1, <2>2
    <2>3. CASE 2 \notin S /\ 1 \notin S
      BY <1>1, <2>3
    <2> QED
      BY <2>1, <2>2, <2>3
  <1>3. Max(S) \in S
    <2> HIDE DEF S
    <2> QED
      BY <1>2 DEF Max
  <1>4. Max(S) \in 0..2
    <2> HIDE DEF S
    <2> QED
      BY <1>1, <1>3
  <1> QED
    BY <1>4 DEF Likeness

LEMMA MarginalIs ==
    ASSUME RankLegs, NEW scores \in [Passages -> Int], NEW x \in Passages,
           NEW chosen \in SUBSET Passages
    PROVE  Marginal(x, scores, chosen) \in Int
  <1>1. Likeness(x, chosen) \in Int /\ Scale \in Int /\ Lambda \in Int /\ scores[x] \in Int
    <2>1. Likeness(x, chosen) \in Int
      BY LikenessIs
    <2>2. Scale \in Int
      BY ScaleIs
    <2>3. Lambda \in 0..10
      BY RankingAssumption
    <2> QED
      BY <2>1, <2>2, <2>3
  <1>2. \A a, b, c, d \in Int : 2 * a * b - (10 - a) * c * d \in Int
    OBVIOUS
  <1> QED
    BY <1>1, <1>2 DEF Marginal

\* What is picked is of s, and was not chosen before.
LEMMA PickIs ==
    ASSUME RankLegs, NEW s \in Seq(Passages), NEW scores \in [Passages -> Int],
           NEW chosen \in SUBSET Passages, ToSet(s) \ chosen # {}
    PROVE  Pick(s, scores, chosen) \in ToSet(s) \ chosen
  <1> DEFINE T == ToSet(s) \ chosen
             f == IF chosen = {} THEN scores
                  ELSE [x \in Passages |-> Marginal(x, scores, chosen)]
             L == SortBy(s, T, f)
  <1>1. f \in [Passages -> Int]
    BY MarginalIs
  <1>2. IsFiniteSet(T) /\ Cardinality(T) \in Nat /\ Cardinality(T) # 0
    <2>1. IsFiniteSet(T) /\ Cardinality(T) \in Nat
      BY SetIsFinite
    <2> QED
      BY <2>1, FS_EmptySet
  <1>3. 1 \in 1..Cardinality(T)
    BY <1>2
  <1>4. L[1] \in T
    <2>1. T \in SUBSET ToSet(s)
      OBVIOUS
    <2> HIDE DEF T, f
    <2> QED
      BY <1>1, <1>3, <2>1, SortIs
  <1>5. Pick(s, scores, chosen) = L[1]
    BY DEF Pick
  <1> QED
    BY <1>4, <1>5

\* The length MMR gives a list.
Picks(s) == IF TopK < Len(s) THEN TopK ELSE Len(s)

LEMMA DiversifiedIs ==
    ASSUME RankLegs, NEW s \in Seq(Passages), Len(s) = Cardinality(ToSet(s)),
           NEW scores \in [Passages -> Int]
    PROVE  /\ Diversified(s, scores) \in Seq(Passages)
           /\ Len(Diversified(s, scores)) = Picks(s)
           /\ ToSet(Diversified(s, scores)) \subseteq ToSet(s)
           /\ \A m, n \in 1..Picks(s) :
                Diversified(s, scores)[m] = Diversified(s, scores)[n] => m = n
  <1> DEFINE K == Picks(s)
             D == Diversified(s, scores)
             Done(n) == {D[m] : m \in 1..(n - 1)}
  <1>1. K \in Nat /\ K <= Len(s) /\ Len(s) \in Nat
    BY RankingAssumption DEF Picks
  <1>2. D = [n \in 1..K |-> Pick(s, scores, Done(n))]
    <2>1. \E d : d = [n \in 1..K |-> Pick(s, scores, {d[m] : m \in 1..(n - 1)})]
      <3> HIDE DEF K, D
      <3>1. PICK d : PicksUpTo(s, scores, K, d)
        BY <1>1, PicksExist
      <3> QED
        BY <3>1 DEF PicksUpTo, Extends
    <2>2. D = CHOOSE d : d = [n \in 1..K |-> Pick(s, scores, {d[m] : m \in 1..(n - 1)})]
      BY DEF Diversified, Picks
    <2> HIDE DEF D, K
    <2> QED
      BY <2>1, <2>2
  <1> HIDE DEF D, K
  <1>3. ASSUME NEW n \in 1..K, \A m \in 1..(n - 1) : D[m] \in ToSet(s)
        PROVE  D[n] \in ToSet(s) \ Done(n)
    <2> DEFINE f == [m \in 1..(n - 1) |-> D[m]]
    <2>1. f \in Surjection(1..(n - 1), Done(n))
      BY DEF Surjection
    <2>2. IsFiniteSet(1..(n - 1)) /\ Cardinality(1..(n - 1)) = n - 1
      <3> DEFINE k == n - 1
      <3>1. k \in Int /\ 1 \in Int /\ (1 > k => k = 0)
        BY <1>1
      <3> HIDE DEF k
      <3>2. IsFiniteSet(1..k) /\ Cardinality(1..k) = IF 1 > k THEN 0 ELSE k - 1 + 1
        BY <3>1, FS_Interval
      <3>3. Cardinality(1..k) = k
        BY <3>1, <3>2
      <3> QED
        BY <3>2, <3>3 DEF k
    <2>3. IsFiniteSet(Done(n)) /\ Cardinality(Done(n)) <= n - 1
      <3> HIDE DEF f, Done
      <3> QED
        BY <2>1, <2>2, FS_Surjection
    <2>4. ToSet(s) \ Done(n) # {}
      <3>1. SUFFICES ASSUME ToSet(s) \in SUBSET Done(n) PROVE FALSE
        OBVIOUS
      <3>2. Cardinality(ToSet(s)) <= Cardinality(Done(n))
        <4> HIDE DEF Done
        <4> QED
          BY <2>3, <3>1, FS_Subset
      <3>3. Cardinality(Done(n)) \in Nat
        BY <2>3, FS_CardinalityType
      <3> HIDE DEF Done
      <3> QED
        BY <1>1, <2>3, <3>2, <3>3
    <2>5. Done(n) \in SUBSET Passages
      BY <1>3, PlacesIn
    <2>6. D[n] = Pick(s, scores, Done(n))
      BY <1>2
    <2> HIDE DEF Done
    <2> QED
      BY <2>4, <2>5, <2>6, PickIs
  <1>4. \A n \in 1..K : D[n] \in ToSet(s)
    <2> DEFINE Bad == {n \in 1..K : D[n] \notin ToSet(s)}
    <2>1. SUFFICES ASSUME Bad # {} PROVE FALSE
      OBVIOUS
    <2>2. PICK n \in Bad : \A m \in Bad : n <= m
      <3>1. Bad \in SUBSET Nat
        BY <1>1
      <3> HIDE DEF Bad
      <3> QED
        BY <2>1, <3>1, LeastOf
    <2>3. n \in 1..K
      OBVIOUS
    <2>4. \A m \in 1..(n - 1) : D[m] \in ToSet(s)
      <3>1. TAKE m \in 1..(n - 1)
      <3>2. m \in 1..K /\ ~(n <= m)
        BY <1>1, <2>3
      <3> QED
        BY <2>2, <3>2
    <2>5. D[n] \in ToSet(s)
      BY <1>3, <2>3, <2>4
    <2> QED
      BY <2>5
  <1>5. \A n \in 1..K : D[n] \notin Done(n)
    <2>1. TAKE n \in 1..K
    <2>2. \A m \in 1..(n - 1) : D[m] \in ToSet(s)
      BY <1>1, <1>4
    <2> QED
      BY <1>3, <2>2
  <1>6. \A m, n \in 1..K : m < n => D[m] # D[n]
    <2>1. TAKE m, n \in 1..K
    <2>2. HAVE m < n
    <2>3. m \in 1..(n - 1)
      BY <1>1, <2>2
    <2>4. D[m] \in Done(n)
      BY <2>3
    <2> QED
      BY <1>5, <2>4
  <1>7. \A m, n \in 1..K : D[m] = D[n] => m = n
    BY <1>1, <1>6
  <1>8. DOMAIN D = 1..K
    BY <1>2
  <1>9. \A n \in 1..K : D[n] \in Passages
    BY <1>4, PlacesIn
  <1>10. D = [n \in 1..K |-> D[n]]
    BY <1>2
  <1>11. D \in [1..K -> Passages]
    BY <1>9, <1>10
  <1>12. D \in Seq(Passages) /\ Len(D) = K
    BY <1>1, <1>8, <1>11
  <1>13. ToSet(D) \subseteq ToSet(s)
    BY <1>4, <1>8 DEF ToSet
  <1> QED
    BY <1>7, <1>12, <1>13 DEF D, K

-----------------------------------------------------------------------------
(* The prompt                                                              *)

SumsUpTo(s, k, f) == f = [n \in 0..k |-> IF n = 0 THEN 0 ELSE f[n - 1] + Size[s[n]]]

LEMMA SumsExist ==
    ASSUME NEW s, NEW k \in Nat
    PROVE  \E f : SumsUpTo(s, k, f)
  <1> DEFINE Bad == {n \in Nat : ~\E f : SumsUpTo(s, n, f)}
  <1>1. SUFFICES ASSUME Bad # {} PROVE FALSE
    OBVIOUS
  <1>2. PICK n \in Bad : \A m \in Bad : n <= m
    BY <1>1, LeastOf
  <1>3. n \in Nat
    OBVIOUS
  <1>4. CASE n = 0
    <2> DEFINE e == [m \in 0..0 |-> 0]
    <2>1. SumsUpTo(s, 0, e)
      BY DEF SumsUpTo
    <2> QED
      BY <1>4, <2>1
  <1>5. CASE n # 0
    <2>1. n - 1 \in Nat /\ n - 1 \notin Bad
      BY <1>2, <1>3, <1>5
    <2>2. PICK f : SumsUpTo(s, n - 1, f)
      BY <2>1
    <2>3. \A m \in 0..(n - 1) : f[m] = IF m = 0 THEN 0 ELSE f[m - 1] + Size[s[m]]
      BY <2>2 DEF SumsUpTo
    <2> DEFINE e == [m \in 0..n |-> IF m = n THEN f[n - 1] + Size[s[n]] ELSE f[m]]
    <2>4. ASSUME NEW m \in 0..n
          PROVE  e[m] = IF m = 0 THEN 0 ELSE e[m - 1] + Size[s[m]]
      <3>1. CASE m = 0
        <4>1. 0 \in 0..(n - 1) /\ 0 # n
          BY <1>3, <1>5
        <4>2. f[0] = 0
          BY <2>3, <4>1
        <4> QED
          BY <3>1, <4>1, <4>2
      <3>2. CASE m # 0 /\ m # n
        <4>1. m \in 0..(n - 1) /\ m - 1 \in 0..n /\ m - 1 # n
          BY <1>3, <3>2
        <4> QED
          BY <2>3, <3>2, <4>1
      <3>3. CASE m # 0 /\ m = n
        <4>1. n - 1 \in 0..n /\ n - 1 # n
          BY <1>3, <1>5
        <4> QED
          BY <3>3, <4>1
      <3> QED
        BY <3>1, <3>2, <3>3
    <2>5. e = [m \in 0..n |-> e[m]]
      OBVIOUS
    <2> HIDE DEF e
    <2>6. SumsUpTo(s, n, e)
      BY <2>4, <2>5 DEF SumsUpTo
    <2> QED
      BY <2>6
  <1> QED
    BY <1>4, <1>5

\* The tokens of the first n excerpts are a number, none of none, and one excerpt more
\* never makes them fewer.
LEMMA TokensAre ==
    ASSUME NEW s \in Seq(Passages)
    PROVE  /\ Tokens(s)[0] = 0
           /\ \A n \in 0..Len(s) : Tokens(s)[n] \in Nat
           /\ \A n \in 0..(Len(s) - 1) : Tokens(s)[n] <= Tokens(s)[n + 1]
  <1> DEFINE K == Len(s)
             F == Tokens(s)
  <1>1. K \in Nat
    OBVIOUS
  <1>2. F = [n \in 0..K |-> IF n = 0 THEN 0 ELSE F[n - 1] + Size[s[n]]]
    <2>1. \E f : f = [n \in 0..K |-> IF n = 0 THEN 0 ELSE f[n - 1] + Size[s[n]]]
      BY <1>1, SumsExist DEF SumsUpTo
    <2>2. F = CHOOSE f : f = [n \in 0..K |-> IF n = 0 THEN 0 ELSE f[n - 1] + Size[s[n]]]
      BY DEF Tokens
    <2> HIDE DEF F, K
    <2> QED
      BY <2>1, <2>2
  <1>3. \A n \in 1..K : Size[s[n]] \in Nat
    BY PromptAssumption
  <1> HIDE DEF F, K
  <1>4. F[0] = 0 /\ \A n \in 1..K : F[n] = F[n - 1] + Size[s[n]]
    <2>1. 0 \in 0..K /\ \A n \in 1..K : n \in 0..K /\ n # 0
      BY <1>1
    <2>2. \A n \in 0..K : F[n] = IF n = 0 THEN 0 ELSE F[n - 1] + Size[s[n]]
      BY <1>2
    <2> QED
      BY <2>1, <2>2
  <1>5. \A n \in 0..K : F[n] \in Nat
    <2> DEFINE Bad == {n \in 0..K : F[n] \notin Nat}
    <2>1. SUFFICES ASSUME Bad # {} PROVE FALSE
      OBVIOUS
    <2>2. PICK n \in Bad : \A m \in Bad : n <= m
      <3>1. Bad \in SUBSET Nat
        BY <1>1
      <3> HIDE DEF Bad
      <3> QED
        BY <2>1, <3>1, LeastOf
    <2>3. n \in 1..K /\ n - 1 \in 0..K /\ ~(n <= n - 1)
      BY <1>1, <1>4
    <2>4. F[n - 1] \in Nat
      BY <2>2, <2>3
    <2>5. F[n] \in Nat
      BY <1>3, <1>4, <2>3, <2>4
    <2> QED
      BY <2>5
  <1>6. ASSUME NEW n \in 0..(K - 1) PROVE F[n] <= F[n + 1]
    <2>1. n + 1 \in 1..K /\ n + 1 - 1 = n /\ n \in 0..K
      BY <1>1
    <2>2. F[n + 1] = F[n] + Size[s[n + 1]] /\ Size[s[n + 1]] \in Nat /\ F[n] \in Nat
      BY <1>3, <1>4, <1>5, <2>1
    <2> QED
      BY <2>2
  <1> QED
    BY <1>4, <1>5, <1>6 DEF F, K

LEMMA ItemFields ==
    ASSUME NEW n, NEW x, NEW cut
    PROVE  Item(n, x, cut).n = n /\ Item(n, x, cut).chunk = x /\ (cut => Item(n, x, cut).cut)
  BY DEF Item

\* The excerpts of hits that c is made of, under the budget b.
Cites(c, hits, b) ==
    /\ \A i \in DOMAIN c : c[i].n = i /\ c[i].chunk = hits[i]
    /\ hits # <<>> => c # <<>>
    /\ \/ Tokens(hits)[Len(c)] <= b
       \/ Len(c) = 1 /\ c[1].cut
    /\ Len(c) < Len(hits) => Tokens(hits)[Len(c) + 1] > b

LEMMA PackedIs ==
    ASSUME NEW hits \in Seq(Passages), NEW b \in Nat
    PROVE  Cites(Packed(hits, b), hits, b)
  <1> DEFINE K == Len(hits)
             F == Tokens(hits)
             fit == {i \in 0..K : F[i] <= b}
             m == Max(fit)
             C == Packed(hits, b)
  <1>1. K \in Nat
    OBVIOUS
  <1>2. /\ F[0] = 0 /\ (\A n \in 0..K : F[n] \in Nat)
        /\ \A n \in 0..(K - 1) : F[n] <= F[n + 1]
    BY TokensAre
  <1>3. C = IF hits # <<>> /\ m = 0 THEN <<Item(1, hits[1], TRUE)>>
            ELSE [i \in 1..m |-> Item(i, hits[i], FALSE)]
    BY DEF Packed
  <1>4. hits # <<>> => K >= 1
    OBVIOUS
  <1> HIDE DEF C, F, K
  <1>5. m \in fit /\ \A i \in fit : m >= i
    <2>1. fit \in SUBSET (0..K) /\ fit # {}
      BY <1>1, <1>2
    <2>2. IsFiniteSet(fit)
      <3>1. IsFiniteSet(0..K)
        BY <1>1, FS_Interval
      <3> HIDE DEF fit
      <3> QED
        BY <2>1, <3>1, FS_Subset
    <2>3. \E n \in fit : \A i \in fit : i <= n
      <3>1. fit \in SUBSET Int
        BY <1>1, <2>1
      <3> HIDE DEF fit
      <3> QED
        BY <2>1, <2>2, <3>1, LargestOf
    <2>4. \E n \in fit : \A i \in fit : n >= i
      BY <1>1, <2>3
    <2> HIDE DEF fit
    <2> QED
      BY <2>4 DEF Max
  <1>6. m \in 0..K /\ F[m] <= b /\ \A i \in 0..K : i > m => ~(F[i] <= b)
    <2>1. \A i \in 0..K : F[i] <= b => m >= i
      BY <1>5
    <2> HIDE DEF m
    <2> QED
      BY <1>1, <1>5, <2>1
  <1> HIDE DEF m, fit
  <1>7. \A i \in 0..K : i > m => F[i] > b
    BY <1>2, <1>6
  <1>8. CASE hits # <<>> /\ m = 0
    <2>1. C = <<Item(1, hits[1], TRUE)>>
      BY <1>3, <1>8
    <2>2. Len(C) = 1 /\ DOMAIN C = {1} /\ C # <<>> /\ C[1] = Item(1, hits[1], TRUE)
      BY <2>1
    <2>3. C[1].n = 1 /\ C[1].chunk = hits[1] /\ C[1].cut
      BY <2>2 DEF Item
    <2>4. ASSUME Len(C) < K PROVE F[Len(C) + 1] > b
      <3>1. 2 \in 0..K /\ 2 > m
        BY <1>1, <1>8, <2>2, <2>4
      <3> QED
        BY <1>7, <2>2, <3>1
    <2> QED
      BY <2>2, <2>3, <2>4 DEF Cites, F, K, C
  <1>9. CASE ~(hits # <<>> /\ m = 0)
    <2>1. C = [i \in 1..m |-> Item(i, hits[i], FALSE)]
      BY <1>3, <1>9
    <2>2. Len(C) = m /\ DOMAIN C = 1..m
      BY <1>1, <1>6, <2>1
    <2>3. \A i \in DOMAIN C : C[i].n = i /\ C[i].chunk = hits[i]
      BY <2>1, <2>2 DEF Item
    <2>4. hits # <<>> => C # <<>>
      BY <1>6, <1>9, <2>2
    <2>5. ASSUME Len(C) < K PROVE F[Len(C) + 1] > b
      <3>1. m + 1 \in 0..K /\ m + 1 > m
        BY <1>1, <1>6, <2>2, <2>5
      <3> QED
        BY <1>7, <2>2, <3>1
    <2> QED
      BY <1>6, <2>2, <2>3, <2>4, <2>5 DEF Cites, F, K, C
  <1> QED
    BY <1>8, <1>9

-----------------------------------------------------------------------------
(* The ranking                                                             *)

Through == {x \in LexHits \cup DenseHits : OriginOf[x] \in kept}

RankTypes ==
    /\ stage \in {"search", "merged", "reranked", "ranked", "packed"}
    /\ lex \in [Passages -> LexScores] /\ dense \in [Passages -> DenseScores]
    /\ alpha \in Alphas /\ kept \in SUBSET Origins
    /\ score \in [Passages -> Int]
    /\ ranked \in Seq(Passages) /\ explained \in Seq(Passages)

\* Both lists hold what the filter lets through, and are one where no two scores are equal.
ListsInv ==
    /\ stage \in {"search", "merged"} => kept = Origins
    /\ stage = "merged" => score = Blend /\ ranked = SortBy(Union, ToSet(Union), Blend)
    /\ stage = "reranked" =>
         /\ told = score
         /\ Len(ranked) = Cardinality(ToSet(ranked))
         /\ Len(explained) = Cardinality(ToSet(explained))
    /\ stage \in {"reranked", "ranked"} /\ Untied => explained = ranked

\* What is ranked was found by one of the legs and let through by the filter, each chunk
\* once (hybridMerge keys its map by the id), and at most k of them are answered with.
HitsRankOnce ==
    /\ stage # "search" => ToSet(ranked) \subseteq Through
    /\ \A m, n \in DOMAIN ranked : ranked[m] = ranked[n] => m = n
    /\ stage \in {"ranked", "packed"} => Len(ranked) <= TopK

RankInv == RankTypes /\ ListsInv /\ HitsRankOnce /\ CitationsResolve

LEMMA LegsAre == RankTypes => RankLegs
  <1> SUFFICES ASSUME RankTypes PROVE RankLegs
    OBVIOUS
  <1>1. LexScores \subseteq Nat /\ DenseScores \subseteq (Nat \cup {-1}) /\ Alphas \subseteq 0..10
    BY RankingAssumption
  <1>2. lex \in [Passages -> Nat] /\ dense \in [Passages -> Nat \cup {-1}]
    BY <1>1 DEF RankTypes
  <1>3. alpha \in 0..10
    BY <1>1 DEF RankTypes
  <1> QED
    BY <1>2, <1>3 DEF RankLegs

LEMMA InOrderIs ==
    InOrder \in Seq(Passages) /\ ToSet(InOrder) = Passages
  <1> DEFINE N == Cardinality(Passages)
  <1>1. Passages = 1..N /\ N \in Nat
    BY PassagesAssumption, FS_CardinalityType
  <1>2. InOrder = [x \in 1..N |-> x]
    BY DEF InOrder
  <1> HIDE DEF N
  <1>3. InOrder \in [1..N -> Passages] /\ DOMAIN InOrder = 1..N
    BY <1>1, <1>2
  <1>4. InOrder \in Seq(Passages)
    BY <1>1, <1>3
  <1>5. ToSet(InOrder) = Passages
    BY <1>1, <1>2, <1>3 DEF ToSet
  <1> QED
    BY <1>4, <1>5

LEMMA Joined ==
    ASSUME NEW a \in Seq(Passages), NEW b \in Seq(Passages)
    PROVE  a \o b \in Seq(Passages) /\ ToSet(a \o b) = ToSet(a) \cup ToSet(b)
  <1>1. /\ a \o b \in Seq(Passages) /\ Len(a \o b) = Len(a) + Len(b)
        /\ \A i \in 1..Len(a) : (a \o b)[i] = a[i]
        /\ \A i \in 1..Len(b) : (a \o b)[Len(a) + i] = b[i]
        /\ Len(a) \in Nat /\ Len(b) \in Nat
    OBVIOUS
  <1> DEFINE c == a \o b
  <1>2. /\ DOMAIN a = 1..Len(a) /\ DOMAIN b = 1..Len(b)
        /\ DOMAIN c = 1..(Len(a) + Len(b))
    BY <1>1
  <1>3. ASSUME NEW x \in ToSet(c) PROVE x \in ToSet(a) \cup ToSet(b)
    <2>1. PICK i \in DOMAIN c : c[i] = x
      BY DEF ToSet
    <2> HIDE DEF c
    <2>2. CASE i <= Len(a)
      <3>1. i \in DOMAIN a
        BY <1>1, <1>2, <2>2
      <3>2. c[i] = a[i]
        BY <1>1, <1>2, <3>1 DEF c
      <3> QED
        BY <2>1, <3>1, <3>2 DEF ToSet
    <2>3. CASE ~(i <= Len(a))
      <3> DEFINE j == i - Len(a)
      <3>1. j \in DOMAIN b /\ i = Len(a) + j
        BY <1>1, <1>2, <2>3
      <3> HIDE DEF j
      <3>2. c[i] = b[j]
        BY <1>1, <1>2, <3>1 DEF c
      <3> QED
        BY <2>1, <3>1, <3>2 DEF ToSet
    <2> QED
      BY <2>2, <2>3
  <1>4. ASSUME NEW x \in ToSet(a) PROVE x \in ToSet(c)
    <2>1. PICK i \in DOMAIN a : a[i] = x
      BY DEF ToSet
    <2>2. c[i] = x /\ i \in DOMAIN c
      BY <1>1, <1>2, <2>1
    <2> HIDE DEF c
    <2> QED
      BY <2>2 DEF ToSet
  <1>5. ASSUME NEW x \in ToSet(b) PROVE x \in ToSet(c)
    <2>1. PICK i \in DOMAIN b : b[i] = x
      BY DEF ToSet
    <2>2. c[Len(a) + i] = x /\ Len(a) + i \in DOMAIN c
      BY <1>1, <1>2, <2>1
    <2> HIDE DEF c
    <2> QED
      BY <2>2 DEF ToSet
  <1>6. ToSet(c) = ToSet(a) \cup ToSet(b)
    <2> HIDE DEF c
    <2> QED
      BY <1>3, <1>4, <1>5
  <1> QED
    BY <1>1, <1>6

LEMMA UnionIs ==
    ASSUME RankLegs
    PROVE  Union \in Seq(Passages) /\ ToSet(Union) = LexHits \cup DenseHits
  <1> DEFINE more == DenseHits \ LexHits
             a == SortBy(InOrder, LexHits, lex)
             b == SortBy(InOrder, more, dense)
  <1>1. lex \in [Passages -> Int] /\ dense \in [Passages -> Int]
    BY DEF RankLegs
  <1>2. LexHits \in SUBSET ToSet(InOrder) /\ more \in SUBSET ToSet(InOrder)
    BY InOrderIs DEF LexHits, DenseHits
  <1> HIDE DEF more
  <1>3. a \in Seq(Passages) /\ ToSet(a) = LexHits
    BY <1>1, <1>2, InOrderIs, SortIs
  <1>4. b \in Seq(Passages) /\ ToSet(b) = more
    BY <1>1, <1>2, InOrderIs, SortIs
  <1>5. Union = a \o b
    BY DEF Union, more
  <1> HIDE DEF a, b
  <1>6. Union \in Seq(Passages) /\ ToSet(Union) = LexHits \cup more
    BY <1>3, <1>4, <1>5, Joined
  <1> QED
    BY <1>6 DEF more

LEMMA ScoreIs ==
    ASSUME RankLegs, NEW blend \in [Passages -> Int], NEW b \in [Origins -> Boosts],
           NEW r \in [Passages -> Bonuses]
    PROVE  /\ Score(blend, b, r) \in [Passages -> Int]
           /\ ExplainedScore(blend, b, r) = Score(blend, b, r)
  <1>1. Boosts \subseteq Int /\ Bonuses \subseteq Int
    BY RankingAssumption
  <1>2. \A x \in Passages : OriginOf[x] \in Origins
    BY DEF Origins
  <1>3. ASSUME NEW x \in Passages
        PROVE  blend[x] * b[OriginOf[x]] + r[x] * (Scale \div 50) \in Int
    <2>1. blend[x] \in Int /\ b[OriginOf[x]] \in Int /\ r[x] \in Int /\ Scale \div 50 \in Int
      BY <1>1, <1>2, ScaleIs
    <2>2. \A i, j, k, l \in Int : i * j + k * l \in Int
      OBVIOUS
    <2> QED
      BY <2>1, <2>2
  <1>4. Score(blend, b, r)
          = [x \in Passages |-> blend[x] * b[OriginOf[x]] + r[x] * (Scale \div 50)]
    BY DEF Score
  <1>5. Score(blend, b, r) \in [Passages -> Int]
    BY <1>3, <1>4
  <1>6. ExplainedScore(blend, b, r) = Score(blend, b, r)
    BY DEF Score, ExplainedScore
  <1> QED
    BY <1>5, <1>6

LEMMA RankStarts == RankInit => RankInv
  <1> SUFFICES ASSUME RankInit PROVE RankInv
    OBVIOUS
  <1> USE DEF RankInit
  <1>1. RankTypes
    BY DEF RankTypes
  <1>2. ListsInv /\ CitationsResolve
    BY DEF ListsInv, CitationsResolve
  <1>3. HitsRankOnce
    BY DEF HitsRankOnce
  <1> QED
    BY <1>1, <1>2, <1>3 DEF RankInv

\* What an action leaves alone that the legs are made of.
SameLegs == lex' = lex /\ dense' = dense /\ alpha' = alpha

LEMMA LegsStay ==
    ASSUME SameLegs
    PROVE  Blend' = Blend /\ Union' = Union /\ LexHits' = LexHits /\ DenseHits' = DenseHits
  <1>1. Blend' = Blend
    BY DEF SameLegs, Blend, Top
  <1>2. LexHits' = LexHits /\ DenseHits' = DenseHits
    BY DEF SameLegs, LexHits, DenseHits
  <1>3. Union' = Union
    BY <1>2 DEF SameLegs, Union
  <1> QED
    BY <1>1, <1>2, <1>3

LEMMA MergeRanks == RankInv /\ Merge => RankInv'
  <1> SUFFICES ASSUME RankInv, Merge PROVE RankInv'
    OBVIOUS
  <1> DEFINE T == ToSet(Union)
             L == SortBy(Union, T, Blend)
  <1>1. /\ stage' = "merged" /\ score' = Blend /\ ranked' = L
        /\ SameLegs /\ kept' = kept /\ explained' = explained /\ stage = "search"
    BY DEF Merge, SameLegs
  <1>2. RankTypes /\ ListsInv /\ RankLegs
    BY LegsAre DEF RankInv
  <1>3. Blend' = Blend /\ Union' = Union /\ LexHits' = LexHits /\ DenseHits' = DenseHits
    BY <1>1, LegsStay
  <1>4. Blend \in [Passages -> Int] /\ Union \in Seq(Passages)
        /\ T = LexHits \cup DenseHits
    BY <1>2, BlendIs, UnionIs
  <1>5. L \in Seq(Passages) /\ ToSet(L) = T /\ Len(L) = Cardinality(T)
    <2>1. T \in SUBSET ToSet(Union)
      OBVIOUS
    <2>2. L \in Seq(Passages)
      BY <1>4, <2>1, SortIs
    <2>3. ToSet(L) = T /\ Len(L) = Cardinality(T)
      BY <1>4, <2>1, SortIs
    <2> QED
      BY <2>2, <2>3
  <1>6. \A m, n \in 1..Cardinality(T) : L[m] = L[n] => m = n
    BY <1>4, SortIs
  <1>7. kept = Origins
    BY <1>1, <1>2 DEF ListsInv
  <1>8. RankTypes'
    BY <1>1, <1>2, <1>4, <1>5 DEF RankTypes, SameLegs
  <1>9. ListsInv'
    BY <1>1, <1>3, <1>7 DEF ListsInv
  <1>10. HitsRankOnce'
    <2>1. \A x \in LexHits \cup DenseHits : OriginOf[x] \in Origins
      BY DEF LexHits, DenseHits, Origins
    <2>2. Through' = T
      BY <1>1, <1>3, <1>4, <1>7, <2>1 DEF Through
    <2>3. DOMAIN L = 1..Cardinality(T)
      BY <1>5
    <2> HIDE DEF T, L
    <2> QED
      BY <1>1, <1>5, <1>6, <2>2, <2>3 DEF HitsRankOnce
  <1>11. CitationsResolve'
    BY <1>1 DEF CitationsResolve
  <1> QED
    BY <1>8, <1>9, <1>10, <1>11 DEF RankInv

LEMMA RerankRanks == RankInv /\ Rerank => RankInv'
  <1> SUFFICES ASSUME RankInv, Rerank PROVE RankInv'
    OBVIOUS
  <1> DEFINE T == Filtered(ranked, kept')
             U == Filtered(Union, kept')
             L == SortBy(ranked, T, score')
             E == SortBy(Union, U, told')
  <1>1. /\ stage' = "reranked" /\ stage = "merged" /\ SameLegs
        /\ kept' \in SUBSET Origins /\ ranked' = L /\ explained' = E
    BY DEF Rerank, SameLegs
  <1>2. RankTypes /\ ListsInv /\ RankLegs
    BY LegsAre DEF RankInv
  <1>3. /\ Union \in Seq(Passages) /\ ToSet(Union) = LexHits \cup DenseHits
        /\ LexHits' = LexHits /\ DenseHits' = DenseHits
    BY <1>1, <1>2, LegsStay, UnionIs
  <1>4. ranked \in Seq(Passages) /\ ToSet(ranked) = ToSet(Union)
    <2>1. /\ ToSet(Union) \in SUBSET ToSet(Union) /\ Blend \in [Passages -> Int]
          /\ Union \in Seq(Passages)
      BY <1>2, <1>3, BlendIs
    <2>2. ranked = SortBy(Union, ToSet(Union), Blend)
      BY <1>1, <1>2 DEF ListsInv
    <2>3. ranked \in Seq(Passages)
      BY <1>2 DEF RankTypes
    <2>4. ToSet(ranked) = ToSet(Union)
      BY <2>1, <2>2, SortIs
    <2> QED
      BY <2>3, <2>4
  <1>5. score' \in [Passages -> Int] /\ told' = score'
    <2>1. /\ boost' \in [Origins -> Boosts] /\ bonus' \in [Passages -> Bonuses]
          /\ score' = Score(score, boost', bonus')
          /\ told' = ExplainedScore(score, boost', bonus')
      BY DEF Rerank
    <2>2. score \in [Passages -> Int]
      BY <1>2 DEF RankTypes
    <2> QED
      BY <1>2, <2>1, <2>2, ScoreIs
  <1>6. /\ T = U /\ U = Through'
        /\ T \in SUBSET ToSet(ranked) /\ T \in SUBSET ToSet(Union)
    BY <1>3, <1>4 DEF Filtered, Through
  <1> HIDE DEF T, U
  <1>7. L \in Seq(Passages) /\ ToSet(L) = T /\ Len(L) = Cardinality(T)
    BY <1>4, <1>5, <1>6, SortIs
  <1>8. \A m, n \in 1..Cardinality(T) : L[m] = L[n] => m = n
    BY <1>4, <1>5, <1>6, SortIs
  <1>9. E = SortBy(Union, T, score')
    BY <1>5, <1>6
  <1>10. E \in Seq(Passages) /\ ToSet(E) = T /\ Len(E) = Cardinality(T)
    <2>1. Union \in Seq(Passages) /\ T \in SUBSET ToSet(Union)
      BY <1>3, <1>6
    <2>2. E \in Seq(Passages)
      BY <1>5, <1>9, <2>1, SortIs
    <2>3. ToSet(E) = T /\ Len(E) = Cardinality(T)
      BY <1>5, <1>9, <2>1, SortIs
    <2> QED
      BY <2>2, <2>3
  <1>11. ASSUME Untied' PROVE E = L
    <2>1. \A x, y \in T : x # y => score'[x] # score'[y]
      BY <1>6, <1>11 DEF Untied, Through
    <2> QED
      BY <1>3, <1>4, <1>5, <1>6, <1>9, <2>1, SortUntied
  <1> HIDE DEF L, E
  <1>12. RankTypes'
    BY <1>1, <1>2, <1>5, <1>7, <1>10 DEF RankTypes, SameLegs
  <1>13. ListsInv'
    BY <1>1, <1>5, <1>7, <1>10, <1>11 DEF ListsInv
  <1>14. HitsRankOnce'
    <2>1. DOMAIN L = 1..Cardinality(T)
      BY <1>7
    <2> QED
      BY <1>1, <1>6, <1>7, <1>8, <2>1 DEF HitsRankOnce
  <1>15. CitationsResolve'
    BY <1>1 DEF CitationsResolve
  <1> QED
    BY <1>12, <1>13, <1>14, <1>15 DEF RankInv

LEMMA DiversifyRanks == RankInv /\ Diversify => RankInv'
  <1> SUFFICES ASSUME RankInv, Diversify PROVE RankInv'
    OBVIOUS
  <1> DEFINE L == Diversified(ranked, score)
             E == Diversified(explained, told)
             K == Picks(ranked)
  <1>1. /\ stage' = "ranked" /\ stage = "reranked" /\ SameLegs
        /\ kept' = kept /\ score' = score /\ told' = told
        /\ ranked' = L /\ explained' = E
    BY DEF Diversify, SameLegs
  <1>2. RankTypes /\ ListsInv /\ HitsRankOnce /\ RankLegs
    BY LegsAre DEF RankInv
  <1>3. LexHits' = LexHits /\ DenseHits' = DenseHits
    BY <1>1, LegsStay
  <1>4. /\ ranked \in Seq(Passages) /\ explained \in Seq(Passages)
        /\ score \in [Passages -> Int] /\ told = score
        /\ Len(ranked) = Cardinality(ToSet(ranked))
        /\ Len(explained) = Cardinality(ToSet(explained))
    BY <1>1, <1>2 DEF RankTypes, ListsInv
  <1>5. L \in Seq(Passages) /\ Len(L) = K /\ ToSet(L) \subseteq ToSet(ranked)
    BY <1>2, <1>4, DiversifiedIs
  <1>6. \A m, n \in 1..K : L[m] = L[n] => m = n
    BY <1>2, <1>4, DiversifiedIs
  <1>7. E \in Seq(Passages)
    BY <1>2, <1>4, DiversifiedIs
  <1>8. K <= TopK
    BY <1>4, RankingAssumption DEF Picks
  <1>9. Untied' => explained = ranked
    BY <1>1, <1>2, <1>3 DEF ListsInv, Untied
  <1>10. Untied' => E = L
    BY <1>4, <1>9
  <1> HIDE DEF L, E, K
  <1>11. RankTypes'
    BY <1>1, <1>2, <1>5, <1>7 DEF RankTypes, SameLegs
  <1>12. ListsInv'
    BY <1>1, <1>10 DEF ListsInv
  <1>13. HitsRankOnce'
    <2>1. DOMAIN L = 1..K
      BY <1>5
    <2>2. Through' = Through /\ ToSet(ranked) \subseteq Through
      BY <1>1, <1>2, <1>3 DEF Through, HitsRankOnce
    <2> QED
      BY <1>1, <1>5, <1>6, <1>8, <2>1, <2>2 DEF HitsRankOnce
  <1>14. CitationsResolve'
    BY <1>1 DEF CitationsResolve
  <1> QED
    BY <1>11, <1>12, <1>13, <1>14 DEF RankInv

LEMMA PackRanks == RankInv /\ Pack => RankInv'
  <1> SUFFICES ASSUME RankInv, Pack PROVE RankInv'
    OBVIOUS
  <1>1. /\ stage' = "packed" /\ stage = "ranked" /\ SameLegs
        /\ kept' = kept /\ score' = score /\ ranked' = ranked /\ explained' = explained
    BY DEF Pack, SameLegs
  <1>2. PICK b \in Budgets : context' = Packed(ranked, b)
    BY DEF Pack
  <1>3. RankTypes /\ HitsRankOnce
    BY DEF RankInv
  <1>4. LexHits' = LexHits /\ DenseHits' = DenseHits
    BY <1>1, LegsStay
  <1>5. RankTypes'
    BY <1>1, <1>3 DEF RankTypes, SameLegs
  <1>6. ListsInv'
    BY <1>1 DEF ListsInv
  <1>7. HitsRankOnce'
    BY <1>1, <1>3, <1>4 DEF HitsRankOnce, Through
  <1>8. CitationsResolve'
    <2>1. b \in Nat /\ ranked \in Seq(Passages)
      BY <1>3, PromptAssumption DEF RankTypes
    <2>2. Cites(context', ranked, b)
      BY <1>2, <2>1, PackedIs
    <2> QED
      BY <1>1, <2>2 DEF Cites, CitationsResolve
  <1> QED
    BY <1>5, <1>6, <1>7, <1>8 DEF RankInv

LEMMA RankStutters == RankInv /\ UNCHANGED rankVars => RankInv'
  <1> SUFFICES ASSUME RankInv, UNCHANGED rankVars PROVE RankInv'
    OBVIOUS
  <1> USE DEF rankVars
  <1>1. SameLegs /\ kept' = kept /\ stage' = stage /\ score' = score /\ told' = told
        /\ ranked' = ranked /\ explained' = explained /\ context' = context
    BY DEF SameLegs
  <1>2. RankTypes /\ ListsInv /\ HitsRankOnce /\ CitationsResolve
    BY DEF RankInv
  <1>3. Blend' = Blend /\ Union' = Union /\ LexHits' = LexHits /\ DenseHits' = DenseHits
    BY <1>1, LegsStay
  <1>4. RankTypes'
    BY <1>1, <1>2 DEF RankTypes, SameLegs
  <1>5. ListsInv'
    BY <1>1, <1>2, <1>3 DEF ListsInv, Untied
  <1>6. HitsRankOnce'
    BY <1>1, <1>2, <1>3 DEF HitsRankOnce, Through
  <1>7. CitationsResolve'
    BY <1>1, <1>2 DEF CitationsResolve
  <1> QED
    BY <1>4, <1>5, <1>6, <1>7 DEF RankInv

LEMMA RankInvariant == RankSpec => []RankInv
  <1>1. RankInv /\ [RankNext]_rankVars => RankInv'
    BY MergeRanks, RerankRanks, DiversifyRanks, PackRanks, RankStutters DEF RankNext, Answer
  <1> QED
    BY <1>1, RankStarts, PTL DEF RankSpec

\* For any index, scores and weights: a chunk both legs found stands before one that a
\* single leg found, unless that leg prefers the other (hybrid.ts:3-6).
THEOREM BothLegsAlwaysCount == RankSpec => []BothLegsCount
  <1>1. ASSUME RankInv, stage = "merged", alpha \in 1..9,
               NEW x \in ToSet(ranked), NEW y \in ToSet(ranked),
               lex[x] > 0, dense[x] > 0,
               \/ lex[y] = 0 /\ dense[y] <= dense[x]
               \/ dense[y] <= 0 /\ lex[y] <= lex[x]
        PROVE  PlaceIn(ranked, x) < PlaceIn(ranked, y)
    <2>1. RankTypes /\ ListsInv /\ RankLegs
      BY <1>1, LegsAre DEF RankInv
    <2>2. ranked = SortBy(Union, ToSet(Union), Blend)
      BY <1>1, <2>1 DEF ListsInv
    <2>3. /\ Union \in Seq(Passages) /\ ToSet(Union) \in SUBSET ToSet(Union)
          /\ Blend \in [Passages -> Int]
      BY <2>1, UnionIs, BlendIs
    <2>4. ToSet(ranked) = ToSet(Union)
      BY <2>2, <2>3, SortIs
    <2>5. x \in Passages /\ y \in Passages
      BY <2>3, <2>4, PlacesIn
    <2>6. Blend[x] > Blend[y]
      BY <1>1, <2>1, <2>5, BlendIs
    <2>7. \A u, v \in ToSet(Union) : Blend[u] > Blend[v] =>
            PlaceIn(SortBy(Union, ToSet(Union), Blend), u)
              < PlaceIn(SortBy(Union, ToSet(Union), Blend), v)
      BY <2>3, SortIs
    <2> QED
      BY <2>2, <2>4, <2>6, <2>7
  <1>2. RankInv => BothLegsCount
    BY <1>1 DEF BothLegsCount
  <1> QED
    BY <1>2, RankInvariant, PTL

\* Where no two scores are equal /v1/explain shows what /v1/ask ranks (explain.ts:125),
\* whatever the boosts, the bonuses and the filter.
THEOREM ExplanationsAgree == RankSpec => []ExplainAgrees
  <1>1. RankInv => ExplainAgrees
    BY DEF RankInv, ListsInv, ExplainAgrees
  <1> QED
    BY <1>1, RankInvariant, PTL

\* The n-th excerpt of the prompt is that of the n-th source, and the prompt takes all
\* that fits its budget and no more (prompt-context.ts:64-95).
THEOREM CitationsAlwaysResolve == RankSpec => []CitationsResolve
  <1>1. RankInv => CitationsResolve
    BY DEF RankInv
  <1> QED
    BY <1>1, RankInvariant, PTL

\* Nothing is ranked twice, nothing the legs did not find or the filter holds back is
\* ranked at all, and an answer is given from k chunks at most (mmr.ts:26-58).
THEOREM HitsAreRankedOnce == RankSpec => []HitsRankOnce
  <1>1. RankInv => HitsRankOnce
    BY DEF RankInv
  <1> QED
    BY <1>1, RankInvariant, PTL
=============================================================================
