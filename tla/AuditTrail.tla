----------------------------- MODULE AuditTrail -----------------------------
(***************************************************************************)
(* The audit log together with the routes that check it: GET audit/verify, *)
(* POST audit/anchors, GET audit/anchors/verify and GET audit/:id/proof.   *)
(*                                                                         *)
(* Each of them first runs AuditLog.verify, which lists the files and then *)
(* reads them one by one, oldest first, while write() keeps appending and  *)
(* rotating; the anchor check and the proof then walk the files a second   *)
(* time.  One review is active at a time; the record that each route       *)
(* writes about itself is one more write of AuditLog.  Nobody tampers with *)
(* the files here, so every recomputed hash matches.                       *)
(***************************************************************************)
EXTENDS AuditLog, FiniteSetsExt

CONSTANTS
    Purposes,    \* the routes in use
    MaxAnchors   \* bound: anchors ever recorded

ASSUME PurposesAssumption == Purposes \subseteq {"verify", "anchor", "check", "prove"}

VARIABLES
    review,       \* the request that reads the trail
    anchors       \* the anchor file

trailVars == <<vars, review, anchors>>

-----------------------------------------------------------------------------
(* Reading *)

\* The records as the readers meet them: the files from the oldest to the newest,
\* the lines of each in order.  What does not parse is no record.
RecordPlaces(f) == UNION {{i} \X HashesIn(f[i]) : i \in Slots}
NoLater(q, p) == q[1] > p[1] \/ (q[1] = p[1] /\ q[2] <= p[2])
TrailOf(f) ==
    LET places == RecordPlaces(f)
        Place(n) == CHOOSE p \in places : Cardinality({q \in places : NoLater(q, p)}) = n
        RecordAt(p) == f[p[1]][p[2]]
    IN  [n \in 1..Cardinality(places) |-> RecordAt(Place(n))]
Trail == TrailOf(files)

Tally(prev, checked, ok) == [prev |-> prev, checked |-> checked, ok |-> ok]
Fresh == Tally(Genesis, 0, TRUE)

\* (mutant) accepts whatever a record links to
LinksLoosely(tally, lines, a) == lines[a] \in Record
\* verify's loop body: a line that does not parse or does not link ends it.
Links(tally, lines, a) ==
    /\ lines[a] \in Record
    /\ lines[a].prev = IF a = 1 THEN tally.prev ELSE lines[a - 1].id
Check(tally, lines) ==
    LET n == Max({m \in 0..Len(lines) : \A a \in 1..m : Links(tally, lines, a)}) IN
    Tally(IF n = 0 THEN tally.prev ELSE lines[n].id, tally.checked + n, n = Len(lines))

Review(pc, purpose, target, todo, tally, seen) ==
    [pc |-> pc, purpose |-> purpose, target |-> target, todo |-> todo,
     tally |-> tally, seen |-> seen, ok |-> FALSE, moved |-> FALSE]
NoReview == Review("idle", "verify", 0, {}, Fresh, 0)
Reading(pc) == review.pc = pc
Continue(next) == review' = [next EXCEPT !.moved = review.moved]
Decide(ok) ==
    review' = [Review("done", review.purpose, review.target, {}, review.tally, 0)
                 EXCEPT !.ok = ok, !.moved = review.moved]
Oldest(i) == i \in review.todo /\ \A j \in review.todo : j <= i

TrailInit ==
    /\ Init
    /\ review = NoReview
    /\ anchors = <<>>

-----------------------------------------------------------------------------
(* Reviews *)

\* A proof may be asked for any event a client has seen, also a brand new one.
Begin(purpose, target) ==
    /\ Reading("idle")
    /\ purpose = "prove" \/ target = 0
    /\ review' = Review("verify", purpose, target, Present, Fresh, 0)
    /\ UNCHANGED <<vars, anchors>>

VerifyFile ==
    /\ Reading("verify")
    /\ review.tally.ok
    /\ \E i \in review.todo :
          /\ Oldest(i)
          /\ Continue(Review("verify", review.purpose, review.target, review.todo \ {i},
                             Check(review.tally, files[i]), 0))
    /\ UNCHANGED <<vars, anchors>>

Verified == Reading("verify") /\ (review.todo = {} \/ ~review.tally.ok)

AnswerVerify ==
    /\ Verified
    /\ review.purpose = "verify"
    /\ Decide(review.tally.ok)
    /\ UNCHANGED <<vars, anchors>>

\* A broken or empty chain is refused with 409.
RecordAnchor ==
    /\ Verified
    /\ review.purpose = "anchor"
    /\ IF review.tally.ok /\ review.tally.checked > 0
       THEN /\ Len(anchors) < MaxAnchors
            /\ anchors' = Append(anchors, [head |-> review.tally.prev,
                                           checked |-> review.tally.checked])
       ELSE UNCHANGED anchors
    /\ review' = NoReview
    /\ UNCHANGED vars

\* verifyLatest: shorter than the anchor, as long as it, or grown past it.
\* (mutant) compares the head of a chain that has grown past the anchor
CompareAnchorOff ==
    /\ Verified
    /\ review.purpose = "check"
    /\ IF anchors = <<>> THEN Decide(FALSE)
       ELSE LET latest == anchors[Len(anchors)] IN
            CASE review.tally.checked < latest.checked -> Decide(FALSE)
              [] review.tally.checked >= latest.checked ->
                    Decide(review.tally.prev = latest.head)
    /\ UNCHANGED <<vars, anchors>>
CompareAnchor ==
    /\ Verified
    /\ review.purpose = "check"
    /\ IF anchors = <<>> THEN Decide(FALSE)
       ELSE LET latest == anchors[Len(anchors)] IN
            CASE review.tally.checked < latest.checked -> Decide(FALSE)
              [] review.tally.checked = latest.checked ->
                    Decide(review.tally.prev = latest.head)
              [] review.tally.checked > latest.checked ->
                    Continue(Review("walk", "check", latest.checked, Present,
                                    review.tally, 0))
    /\ UNCHANGED <<vars, anchors>>

BeginProof ==
    /\ Verified
    /\ review.purpose = "prove"
    /\ IF review.tally.ok
       THEN Continue(Review("walk", "prove", review.target, Present, review.tally, 0))
       ELSE review' = NoReview
    /\ UNCHANGED <<vars, anchors>>

\* hashAt looks for a position, issueInclusionProof for an id; both count the
\* records of one file after the other.
Ordinal(lines, a) == Cardinality({b \in HashesIn(lines) : b <= a})
Hits(i) ==
    {a \in HashesIn(files[i]) :
        IF review.purpose = "check"
        THEN review.seen + Ordinal(files[i], a) = review.target
        ELSE files[i][a].id = review.target}

\* (mutant) restarts the count at every file
WalkOnUncounted ==
    /\ Reading("walk")
    /\ \E i \in review.todo :
          /\ Oldest(i)
          /\ Hits(i) = {}
          /\ Continue(Review("walk", review.purpose, review.target,
                             review.todo \ {i}, review.tally, 0))
    /\ UNCHANGED <<vars, anchors>>
WalkOn ==
    /\ Reading("walk")
    /\ \E i \in review.todo :
          /\ Oldest(i)
          /\ Hits(i) = {}
          /\ Continue(Review("walk", review.purpose, review.target,
                             review.todo \ {i}, review.tally,
                             review.seen + Cardinality(HashesIn(files[i]))))
    /\ UNCHANGED <<vars, anchors>>

\* No record at the anchored position (null), or no such event (404).
WalkEnds ==
    /\ Reading("walk")
    /\ review.todo = {}
    /\ IF review.purpose = "check" THEN Decide(FALSE) ELSE review' = NoReview
    /\ UNCHANGED <<vars, anchors>>

AnswerCheck ==
    /\ Reading("walk")
    /\ review.purpose = "check"
    /\ \E i \in review.todo : \E a \in Hits(i) :
          /\ Oldest(i)
          /\ Decide(files[i][a].id = anchors[Len(anchors)].head)
    /\ UNCHANGED <<vars, anchors>>

\* The certificate signs the position and the count that verify gave.
IssueProof ==
    /\ Reading("walk")
    /\ review.purpose = "prove"
    /\ \E i \in review.todo : \E a \in Hits(i) :
          /\ Oldest(i)
          /\ review' = [Review("done", "prove", review.target, {}, review.tally,
                               review.seen + Ordinal(files[i], a)) EXCEPT !.moved = review.moved]
    /\ UNCHANGED <<vars, anchors>>

\* The client has its answer.
EndReview ==
    /\ Reading("done")
    /\ review' = NoReview
    /\ UNCHANGED <<vars, anchors>>

\* A write goes on during a review; renaming or unlinking a file disturbs it,
\* and the death of the process ends it.
Moves ==
    \/ \E i \in Slots \ {0} : files'[i] # files[i]
    \/ files[0] # <<>> /\ files'[0] = <<>>
Logging ==
    /\ Next
    /\ \/ /\ ~Restart
          /\ review' = IF Moves /\ ~Reading("idle")
                       THEN [review EXCEPT !.moved = TRUE] ELSE review
       \/ Restart /\ review' = NoReview
    /\ UNCHANGED anchors

Reviewing ==
    \/ \E purpose \in Purposes, target \in 0..MaxRecords : Begin(purpose, target)
    \/ VerifyFile \/ AnswerVerify \/ RecordAnchor \/ CompareAnchor \/ BeginProof
    \/ WalkOn \/ WalkEnds \/ AnswerCheck \/ IssueProof \/ EndReview

TrailNext == Logging \/ Reviewing
TrailSpec == TrailInit /\ [][TrailNext]_trailVars

-----------------------------------------------------------------------------
(* Properties *)

\* The oldest retained record is the first one ever written.
NothingForgotten == Trail # <<>> => Trail[1].prev = Genesis
Answered(purpose) == Reading("done") /\ review.purpose = purpose

\* Until writes overlap or a line is torn, verify reads a trail that grows under
\* it, and as long as no file is renamed meanwhile it answers ok exactly when
\* retention has not dropped the start of the chain.
VerifyIsExact ==
    Undisturbed({"race", "torn"}) /\ Answered("verify") /\ ~review.moved
        => (review.ok <=> NothingForgotten)

\* As long as retention drops nothing either, an anchor names the record that
\* stands at its position in the trail, also when rotations moved the files while
\* verify counted them; and the newest anchor keeps matching the chain that has
\* grown past it, although its check compares the counts of two walks and the
\* place that a third one finds.
AnchorsAreTrue ==
    Undisturbed({"race", "torn"}) /\ KeepFiles > 0 /\ anchors # <<>> /\ NothingForgotten =>
        /\ \A n \in DOMAIN anchors :
              /\ anchors[n].checked \in DOMAIN Trail
              /\ Trail[anchors[n].checked].id = anchors[n].head
        /\ Answered("check") /\ ~review.moved => review.ok

\* A certificate gives the position of its event in the trail.
CertificateIsTrue ==
    Answered("prove") /\ ~review.moved =>
        /\ review.seen \in DOMAIN Trail
        /\ Trail[review.seen].id = review.target

\* Until writes overlap or a line is torn, the log implements the promise of
\* AuditChain: rotations, restarts and the reload of the cached hash are stutters
\* or forget a prefix.
ChainLog == IF Undisturbed({"race", "torn"}) THEN Trail ELSE <<>>
Chain == INSTANCE AuditChain WITH Hashes <- 0..MaxRecords, log <- ChainLog
ImplementsChain == Chain!Spec

\* operations.md on verify: "if `ok=false` ... the on-disk log was tampered
\* with".  Nobody tampers with it here, so a verify that no rotation disturbs
\* must answer ok.
VerifyAccepts == Answered("verify") /\ ~review.moved => review.ok
=============================================================================
