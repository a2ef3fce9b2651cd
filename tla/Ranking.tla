------------------------------- MODULE Ranking -------------------------------
(***************************************************************************)
(* Retrieval: the hits of BM25 and of the dense search are blended,        *)
(* boosted, reranked and diversified, and the best are packed into the     *)
(* prompt; /v1/explain does the same again and reports on it.              *)
(*                                                                         *)
(* A chunk is its place in the index.  Scores are integers: a real score   *)
(* times Scale, which makes every weight of the code whole.  What the      *)
(* legs, the boost and the reranker find in a chunk are inputs, and so is  *)
(* the similarity of two chunks.                                           *)
(***************************************************************************)
EXTENDS Integers, FiniteSets, SequencesExt

CONSTANTS
    Passages,      \* 1..n, in the order BM25 holds them
    OriginOf,      \* [Passages -> paths]
    LexScores,   \* BM25 scores; 0 is no hit
    DenseScores, \* cosines; -1 is no hit, and 0 stands for those below it too
    Alphas,      \* hybridAlpha in tenths
    Boosts,      \* boosts of a path
    Bonuses,     \* what the reranker adds or takes, in fiftieths
    Alike,       \* [Passages \X Passages -> 0..2], the similarity in halves
    Lambda,      \* mmrLambda in tenths
    TopK,           \* k
    Size,        \* [Passages -> tokens of the excerpt]
    Budgets      \* contextTokenBudget

ASSUME PassagesAssumption ==
    IsFiniteSet(Passages) /\ Passages = 1..Cardinality(Passages)
ASSUME AlikeAssumption == Alike \in [Passages \X Passages -> 0..2]
ASSUME PromptAssumption == Size \in [Passages -> Nat] /\ Budgets \subseteq Nat \ {0}
ASSUME RankingAssumption ==
    /\ LexScores \subseteq Nat /\ DenseScores \subseteq (Nat \cup {-1})
    /\ (Alphas \cup {Lambda}) \subseteq 0..10 /\ TopK \in Nat \ {0}
    /\ (Boosts \cup Bonuses) \subseteq Int

VARIABLES
    stage,      \* what has been done
    lex, dense, \* the score of each chunk in each leg
    alpha,
    kept,       \* the paths the tag filter lets through
    boost,      \* [paths -> Boosts]
    bonus,      \* [Passages -> Bonuses]
    score,      \* the score of each chunk so far
    told,       \* the score /v1/explain gives it
    ranked,     \* the ranking so far: chunks, the best first
    explained,  \* what /v1/explain ranks first
    context     \* the excerpts of the prompt

rankVars == <<stage, lex, dense, alpha, kept, boost, bonus, score, told, ranked, explained, context>>

Origins == {OriginOf[x] : x \in Passages}
AtLeast(n, m) == IF n > m THEN n ELSE m
InOrder == [x \in 1..Cardinality(Passages) |-> x]

PlaceIn(s, x) == CHOOSE i \in DOMAIN s : s[i] = x

\* The members T of s by descending score; Array.sort keeps the order of equals.
SortBy(s, T, scores) ==
    LET before(x, y) == \/ scores[x] > scores[y]
                        \/ scores[x] = scores[y] /\ PlaceIn(s, x) < PlaceIn(s, y)
        rank(x) == Cardinality({y \in T : y = x \/ before(y, x)})
    IN [n \in 1..Cardinality(T) |-> CHOOSE x \in T : rank(x) = n]

\* The largest score of a leg, or 1 where all are 0 or less: nothing is divided by 0.
Top(leg) == AtLeast(1, Max({leg[x] : x \in Passages}))
\* The least score of the hits of a leg
Least(leg, hits) == IF hits = {} THEN 0 ELSE Min({leg[x] : x \in hits})
Scale == 50 * Top(lex) * Top(dense)

LexHits == {x \in Passages : lex[x] > 0}
DenseHits == {x \in Passages : dense[x] >= 0}

\* (mutant) each leg between its least and its largest score
BlendMinMax ==
    LET above(leg, x, hits) == IF x \in hits THEN leg[x] - Least(leg, hits) ELSE 0
    IN [x \in Passages |-> 5 * alpha * above(dense, x, DenseHits) * Top(lex)
                           + 5 * (10 - alpha) * above(lex, x, LexHits) * Top(dense)]

\* alpha of the dense score and the rest of the BM25 score, each over the largest of its leg
Blend ==
    LET weight == 5 * alpha * Top(lex)
        rest == 5 * (10 - alpha) * Top(dense)
    IN [x \in Passages |-> weight * AtLeast(0, dense[x]) + rest * lex[x]]

\* The Map of both legs: the BM25 hits in their order, then what only the dense leg has
Union == SortBy(InOrder, LexHits, lex) \o SortBy(InOrder, DenseHits \ LexHits, dense)

Filtered(s, paths) == {x \in ToSet(s) : OriginOf[x] \in paths}

\* The blended score, with the boost of the path and the reranker's bonus
Score(blend, boosts, bonuses) ==
    LET fiftieth == Scale \div 50
    IN [x \in Passages |-> blend[x] * boosts[OriginOf[x]] + bonuses[x] * fiftieth]
\* (mutant) the explanation leaves the boost out
ExplainedScoreUnboosted(blend, boosts, bonuses) ==
    LET fiftieth == Scale \div 50
    IN [x \in Passages |-> blend[x] + bonuses[x] * fiftieth]
\* The same, as the explanation reckons it
ExplainedScore(blend, boosts, bonuses) ==
    LET fiftieth == Scale \div 50
    IN [x \in Passages |-> blend[x] * boosts[OriginOf[x]] + bonuses[x] * fiftieth]

-----------------------------------------------------------------------------
(* MMR.                                                                    *)

\* How like the chosen ones x is, at most
Likeness(x, chosen) == Max({0} \cup {Alike[<<x, y>>] : y \in chosen})
\* lambda of the score less the rest of the likeness, twenty times over
Marginal(x, scores, chosen) ==
    2 * Lambda * scores[x] - (10 - Lambda) * Likeness(x, chosen) * Scale

\* What is left with the largest marginal value, the first of them; to begin with, the
\* one with the largest score
Pick(s, scores, chosen) ==
    SortBy(s, ToSet(s) \ chosen,
           IF chosen = {} THEN scores
           ELSE [x \in Passages |-> Marginal(x, scores, chosen)])[1]

\* One pick after another, up to TopK
Diversified(s, scores) ==
    LET d[n \in 1..(IF TopK < Len(s) THEN TopK ELSE Len(s))] ==
            Pick(s, scores, {d[m] : m \in 1..(n - 1)})
    IN d

-----------------------------------------------------------------------------
(* The prompt.                                                             *)

Item(n, x, cut) == [n |-> n, chunk |-> x, cut |-> cut]
\* The tokens of the first n excerpts of s
Tokens(s) ==
    LET sum[n \in 0..Len(s)] == IF n = 0 THEN 0 ELSE sum[n - 1] + Size[s[n]]
    IN sum

\* (mutant) what does not fit is passed over, and the excerpts are numbered as they come
PackedOver(hits, budget) ==
    LET add(items, x) ==
            IF FoldLeft(LAMBDA sum, i : sum + Size[i.chunk], 0, items) + Size[x] <= budget
            THEN Append(items, Item(Len(items) + 1, x, FALSE)) ELSE items
    IN FoldLeft(add, <<>>, hits)

\* The hits from the first on while they fit, with their place in the ranking; a
\* first one that does not fit is cut to the budget.
Packed(hits, budget) ==
    LET fit == {i \in 0..Len(hits) : Tokens(hits)[i] <= budget}
    IN IF hits # <<>> /\ Max(fit) = 0 THEN <<Item(1, hits[1], TRUE)>>
       ELSE [i \in 1..Max(fit) |-> Item(i, hits[i], FALSE)]

-----------------------------------------------------------------------------
RankInit ==
    /\ stage = "search"
    /\ lex \in [Passages -> LexScores] /\ dense \in [Passages -> DenseScores] /\ alpha \in Alphas
    /\ kept = Origins /\ boost = [p \in Origins |-> 1] /\ bonus = [x \in Passages |-> 0]
    /\ score = [x \in Passages |-> 0] /\ told = score
    /\ ranked = <<>> /\ explained = <<>> /\ context = <<>>

Merge ==
    /\ stage = "search" /\ stage' = "merged"
    /\ score' = Blend
    /\ ranked' = SortBy(Union, ToSet(Union), score')
    /\ UNCHANGED <<lex, dense, alpha, kept, boost, bonus, told, explained, context>>

\* The tag filter, the boosts and the reranker.  The explanation of the query starts
\* from the union of the legs and not from their merge.
Rerank ==
    /\ stage = "merged" /\ stage' = "reranked"
    /\ kept' \in SUBSET Origins /\ boost' \in [Origins -> Boosts] /\ bonus' \in [Passages -> Bonuses]
    /\ score' = Score(score, boost', bonus')
    /\ told' = ExplainedScore(score, boost', bonus')
    /\ ranked' = SortBy(ranked, Filtered(ranked, kept'), score')
    /\ explained' = SortBy(Union, Filtered(Union, kept'), told')
    /\ UNCHANGED <<lex, dense, alpha, context>>

Diversify ==
    /\ stage = "reranked" /\ stage' = "ranked"
    /\ ranked' = Diversified(ranked, score)
    /\ explained' = Diversified(explained, told)
    /\ UNCHANGED <<lex, dense, alpha, kept, boost, bonus, score, told, context>>

\* The sources are the hits, numbered as they are ranked; the prompt holds what fits.
Pack ==
    /\ stage = "ranked" /\ stage' = "packed"
    /\ \E b \in Budgets : context' = Packed(ranked, b)
    /\ UNCHANGED <<lex, dense, alpha, kept, boost, bonus, score, told, ranked, explained>>

Answer == stage = "packed" /\ UNCHANGED rankVars

RankNext == Merge \/ Rerank \/ Diversify \/ Pack \/ Answer

RankSpec == RankInit /\ [][RankNext]_rankVars

-----------------------------------------------------------------------------
\* A chunk both legs found comes before one that a single leg found, unless that
\* leg prefers the other (hybrid.ts:3-6), however low it stands in both.
BothLegsCount ==
    stage = "merged" /\ alpha \in 1..9 =>
        \A x, y \in ToSet(ranked) :
            /\ lex[x] > 0 /\ dense[x] > 0
            /\ \/ lex[y] = 0 /\ dense[y] <= dense[x]
               \/ dense[y] <= 0 /\ lex[y] <= lex[x]
            => PlaceIn(ranked, x) < PlaceIn(ranked, y)

\* No two chunks that are ranked have one score.
Untied ==
    LET hits == {x \in LexHits \cup DenseHits : OriginOf[x] \in kept}
    IN \A x, y \in hits : x # y => score[x] # score[y]

\* What /v1/explain shows is what /v1/ask ranks (explain.ts:125), where no two scores
\* are equal.
ExplainAgrees == stage = "ranked" /\ Untied => explained = ranked

\* (violated) The same, ties included.
ExplainAgreesOnTies == stage = "ranked" => explained = ranked

\* The n-th excerpt of the prompt is that of the n-th source, so [^n] cites what the
\* model was shown (citations.ts:16-28); the prompt keeps to its budget unless it is
\* one cut excerpt, and leaves out no hit that the budget had room for.
CitationsResolve ==
    stage = "packed" =>
        /\ \A i \in DOMAIN context : context[i].n = i /\ context[i].chunk = ranked[i]
        /\ ranked # <<>> => context # <<>>
        /\ \E b \in Budgets :
             /\ \/ Tokens(ranked)[Len(context)] <= b
                \/ Len(context) = 1 /\ context[1].cut
             /\ Len(context) < Len(ranked) => Tokens(ranked)[Len(context) + 1] > b
=============================================================================
