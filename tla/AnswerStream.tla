---------------------------- MODULE AnswerStream ----------------------------
(***************************************************************************)
(* One call of POST /v1/ask/stream: the events a client is sent, the       *)
(* providers that are tried in turn, and the queue between the body of a   *)
(* provider's answer and the generator that reads it.                      *)
(*                                                                         *)
(* A provider throws before its first token only: once its body is read,   *)
(* an error is a last delta with the text of the error.  The body's reader *)
(* runs beside the generator and wakes it when it waits.  A delta is its   *)
(* place in the body, and for the client the provider it is from too; its  *)
(* text says nothing here.                                                 *)
(***************************************************************************)
EXTENDS Naturals, Sequences

CONSTANTS
    Providers,  \* how many there are
    MaxDeltas   \* bound: deltas of one body

ASSUME StreamAssumption == Providers \in Nat \ {0} /\ MaxDeltas \in Nat

VARIABLES
    pc,        \* where the call is
    prov,      \* the provider being tried
    body,      \* the body of its answer: "open", or "ended"
    queue,     \* chunks read from the body
    finished,  \* the reader has seen the end
    waiting,   \* resolveWait # null: the generator awaits the next chunk
    woken,     \* resolveWait has been called
    sent,      \* the deltas the client was sent
    last,      \* the last event it was sent, tokens apart
    history,   \* the answers history.jsonl got
    said       \* history: how many deltas the provider's answer has until its end

streamVars == <<pc, prov, body, queue, finished, waiting, woken, sent, last, history, said>>

NoEvent == "none"
Delta(p, n) == [from |-> p, n |-> n]
\* A chunk with the n-th delta, or with none
Chunk(n, done) == [n |-> n, done |-> done]

StreamInit ==
    /\ pc = "gate" /\ prov = 1
    /\ body = "ended" /\ queue = <<>> /\ finished = FALSE
    /\ waiting = FALSE /\ woken = FALSE
    /\ sent = <<>> /\ last = NoEvent /\ history = <<>> /\ said = 0

bodyVars == <<body, queue, finished, waiting, woken, said>>

\* The call goes on at step, and an event is sent.
GoOn(step, event) == pc' = step /\ last' = event

-----------------------------------------------------------------------------
(* The route and the pipeline up to the model.                             *)

\* The model allowlist, by the identifier of the chain: a 422, or the stream is open.
CheckModel ==
    /\ pc = "gate"
    /\ GoOn("retrieve", NoEvent) \/ GoOn("over", "refused")
    /\ UNCHANGED <<prov, bodyVars, sent, history>>

\* Retrieval throws, or yields the sources.  The scan withholds them, and the
\* loop is left, or sends them.
RetrieveAndScan ==
    /\ pc = "retrieve"
    /\ GoOn("over", "error") \/ GoOn("over", "withheld") \/ GoOn("connect", "sources")
    /\ UNCHANGED <<prov, bodyVars, sent, history>>

\* The request is refused or rejected: the next provider, or the error of the last.
ProviderFails ==
    /\ pc = "connect"
    /\ IF prov < Providers THEN prov' = prov + 1 /\ UNCHANGED <<pc, last>>
       ELSE GoOn("record", "error") /\ UNCHANGED prov
    /\ UNCHANGED <<bodyVars, sent, history>>

ProviderAnswers ==
    /\ pc = "connect"
    /\ pc' = "read" /\ body' = "open"
    /\ queue' = <<>> /\ finished' = FALSE /\ waiting' = FALSE /\ woken' = FALSE
    /\ said' = 0
    /\ UNCHANGED <<prov, sent, last, history>>

-----------------------------------------------------------------------------
(* The reader of the body.                                                 *)

Feeding == pc = "read" /\ body = "open"
Push(chunk) == queue' = Append(queue, chunk)
\* Bound: no delta after the [DONE] event, where none would be taken.
ReadDelta ==
    /\ Feeding /\ said < MaxDeltas /\ ~finished
    /\ said' = said + 1
    /\ Push(Chunk(said', FALSE))
    /\ woken' = waiting
    /\ UNCHANGED <<pc, prov, body, finished, waiting, sent, last, history>>

\* The [DONE] event; the body may go on to its end.
ReadDone ==
    /\ Feeding /\ ~finished
    /\ Push(Chunk(0, TRUE))
    /\ finished' = TRUE
    /\ woken' = waiting
    /\ UNCHANGED <<pc, prov, body, waiting, sent, last, history, said>>

BodyEnds ==
    /\ Feeding
    /\ Push(Chunk(0, TRUE))
    /\ finished' = TRUE /\ body' = "ended"
    /\ woken' = waiting
    /\ UNCHANGED <<pc, prov, waiting, sent, last, history, said>>

\* The error becomes the last delta.
BodyFails ==
    /\ Feeding
    /\ said' = IF finished THEN said ELSE said + 1
    /\ Push(Chunk(said + 1, TRUE))
    /\ finished' = TRUE /\ body' = "ended"
    /\ woken' = waiting
    /\ UNCHANGED <<pc, prov, waiting, sent, last, history>>

-----------------------------------------------------------------------------
(* The generator, and the loops above it that send what it yields.         *)

Reading == pc = "read" /\ (waiting => woken)

\* The next chunk is sent; after one that is done come the citations and "done".
TakeChunk ==
    /\ Reading /\ queue # <<>>
    /\ sent' = IF Head(queue).n = 0 THEN sent ELSE Append(sent, Delta(prov, Head(queue).n))
    /\ queue' = Tail(queue)
    /\ waiting' = FALSE /\ woken' = FALSE
    /\ IF Head(queue).done THEN GoOn("record", "done") ELSE UNCHANGED <<pc, last>>
    /\ UNCHANGED <<prov, body, finished, said, history>>

\* (mutant) the end is looked at before what is still in the queue
WaitOrEndEarly ==
    /\ Reading /\ (queue = <<>> \/ finished)
    /\ IF finished
       THEN waiting' = FALSE /\ GoOn("record", "done")
       ELSE waiting' = TRUE /\ UNCHANGED <<pc, last>>
    /\ woken' = FALSE
    /\ UNCHANGED <<prov, body, queue, finished, said, sent, history>>

\* Nothing to take: the answer is over, or the generator waits.
WaitOrEnd ==
    /\ Reading /\ queue = <<>>
    /\ IF finished
       THEN waiting' = FALSE /\ GoOn("record", "done")
       ELSE waiting' = TRUE /\ UNCHANGED <<pc, last>>
    /\ woken' = FALSE
    /\ UNCHANGED <<prov, body, queue, finished, said, sent, history>>

\* What was sent is recorded, and announced to the webhooks, also after an error;
\* a write that fails is one more event.
RecordAnswer ==
    /\ pc = "record"
    /\ \/ history' = Append(history, sent) /\ GoOn("over", last)
       \/ history' = history /\ GoOn("over", "error")
    /\ UNCHANGED <<prov, bodyVars, sent>>

\* The response has ended.
Over == pc = "over" /\ UNCHANGED streamVars

StreamNext ==
    \/ CheckModel \/ RetrieveAndScan \/ ProviderFails \/ ProviderAnswers
    \/ ReadDelta \/ ReadDone \/ BodyEnds \/ BodyFails
    \/ TakeChunk \/ WaitOrEnd \/ RecordAnswer \/ Over

StreamSpec == StreamInit /\ [][StreamNext]_streamVars

-----------------------------------------------------------------------------
Places == 1..(MaxDeltas + 1)
Deltas == [from : 1..Providers, n : Places]

StreamTypeOK ==
    /\ pc \in {"gate", "retrieve", "connect", "read", "record", "over"}
    /\ prov \in 1..Providers /\ said \in {0} \cup Places
    /\ body \in {"open", "ended"}
    /\ finished \in BOOLEAN /\ waiting \in BOOLEAN /\ woken \in BOOLEAN
    /\ queue \in Seq([n : {0} \cup Places, done : BOOLEAN])
    /\ sent \in Seq(Deltas) /\ history \in Seq(Seq(Deltas))
    /\ last \in {NoEvent, "refused", "error", "withheld", "sources", "done"}

\* The client reads one provider's answer, in order and without a gap, whatever
\* was tried before (fallback.ts:24-29), and all of it once "done" is sent; the
\* same is recorded.
OneVoice ==
    /\ \A i \in DOMAIN sent : sent[i] = Delta(prov, i)
    /\ last = "done" => Len(sent) = said
    /\ history \in {<<>>, <<sent>>}

\* The generator sleeps neither on a body that is over nor on a queue that holds
\* something: a delta that is there is sent (openai-compatible.ts:92-125).
NoReaderSleeps == waiting /\ (finished \/ queue # <<>>) => woken
=============================================================================
