------------------------------ MODULE Scoring ------------------------------
(***************************************************************************)
(* How the benchmarks score: the candidate order of the STALE ranking lane *)
(* and the fixture adapters (benchmark-diagnostic-memory.py), and a query  *)
(* of the Scifact benchmark (benchmark-beir-scifact-ranking.py).  One      *)
(* input is scored in a behaviour; `scored` is that input with its score.  *)
(***************************************************************************)
EXTENDS Naturals, SequencesExt, Functions

CONSTANTS Distractors,   \* the candidates that are neither state nor conflict
          RankedProbes,  \* the probes of a ranking case
          Docs,          \* documents of the corpus
          Cutoff,        \* how many results of a query count (10)
          Unit,          \* what a precision of 1 counts for
          Weights,       \* what a rank counts for in a gain: 1 over log2(rank + 1),
                         \* rounded, so that a later rank never counts for more
          Outputs,       \* what an adapter cell, or a stage, may put out
          MaxFixtures    \* cases of a fixture

ASSUME ScoringAssumption ==
    /\ Cutoff \in Nat \ {0} /\ MaxFixtures \in Nat \ {0}
    /\ Unit \in Nat /\ \A i \in 1..Cutoff : (Unit \div i) \in Nat /\ (Unit \div i) * i = Unit
    /\ Weights \in [1..Cutoff -> Nat]
    /\ \A i, j \in 1..Cutoff : i <= j => Weights[j] <= Weights[i]
    /\ IsFiniteSet(Distractors) /\ IsFiniteSet(Docs)

VARIABLE scored

scoringVars == <<scored>>

Unscored == [lane |-> "none"]

-----------------------------------------------------------------------------
(* The order of a case's candidates.                                        *)

Candidates == {"current", "stale", "conflict"} \union Distractors

Orders == UNION {SetToSeqs(S) : S \in SUBSET Candidates}

\* _ranking_position, 0 for None.
Position(order, k) ==
    IF k \in Range(order) THEN CHOOSE i \in DOMAIN order : order[i] = k ELSE 0

\* A probe of the official set that several candidates answer alike, or repeat, has
\* no sole relevant candidate: it is never scored as relevance.
Contract(copies, leaks) == IF copies > 1 \/ leaks THEN "non_identifiable" ELSE "identifiable"

\* Mutant of Before: a candidate that is missing comes before one that is found.
BeforeIfLess(a, b) == b = 0 \/ a < b

Before(a, b) == a # 0 /\ (b = 0 \/ a < b)

CurrentAt(order) == Position(order, "current")
Safe(order) ==
    /\ CurrentAt(order) \in 1..3
    /\ Before(CurrentAt(order), Position(order, "stale"))
    /\ Before(CurrentAt(order), Position(order, "conflict"))

\* score_ranking_results: the probes that count for each measure.
RankingScore(orders) ==
    [recall  |-> [k \in {1, 3, 5} |-> {p \in RankedProbes : CurrentAt(orders[p]) \in 1..k}],
     ordered |-> {p \in RankedProbes :
                    Before(CurrentAt(orders[p]), Position(orders[p], "stale"))},
     safe    |-> {p \in RankedProbes : Safe(orders[p])}]

\* score_claim_producing_ranking refuses what is not identifiable; otherwise only
\* the order is kept.
ScoreRanking(copies, leaks) ==
    /\ scored = Unscored
    /\ \E orders \in [RankedProbes -> Orders] :
          scored' = [lane |-> "ranking", orders |-> orders,
                     score |-> IF Contract(copies, leaks) = "identifiable"
                               THEN {RankingScore(orders)} ELSE {}]

-----------------------------------------------------------------------------
(* A query of the Scifact benchmark.                                        *)

\* Stands for a result without the marker of a document.
Unmarked == "unmarked"

\* extract_doc_ids: the marked results, in their order.
DocIds(results) ==
    LET marked == {i \in DOMAIN results : results[i] # Unmarked}
        nth(i) == Cardinality({j \in marked : j <= i})
    IN  [n \in 1..Cardinality(marked) |-> results[CHOOSE i \in marked : nth(i) = n]]

First(s, n) == SubSeq(s, 1, IF Len(s) < n THEN Len(s) ELSE n)

Top(ranked) == First(ranked, Cutoff)

\* The ranks at which a relevant document is seen for the first time.
HitRanks(relevant, ranked) ==
    {i \in DOMAIN Top(ranked) : /\ ranked[i] \in DOMAIN relevant
                                /\ \A j \in 1..(i - 1) : ranked[j] # ranked[i]}

\* Every rank divides the unit, so that a precision is exact.
Precision(hits, rank) == hits * (Unit \div rank)

PrecisionSum(relevant, ranked) ==
    LET ranks == HitRanks(relevant, ranked)
    IN  SumFunction([i \in ranks |-> Precision(Cardinality({j \in ranks : j <= i}), i)])

Gain(grade, rank) == (2^grade - 1) * Weights[rank]

\* A document that is found twice counts twice here.
Dcg(relevant, ranked) ==
    SumFunction([i \in {j \in DOMAIN Top(ranked) : ranked[j] \in DOMAIN relevant} |->
                    Gain(relevant[ranked[i]], i)])

\* sorted(relevant.values(), reverse=True): fewer than n grades are above the n-th.
SortedGrade(relevant, n) ==
    CHOOSE g \in Range(relevant) :
        /\ Cardinality({d \in DOMAIN relevant : relevant[d] > g}) < n
        /\ Cardinality({d \in DOMAIN relevant : relevant[d] >= g}) >= n

IdealDcg(relevant) ==
    SumFunction([i \in {n \in 1..Cutoff : n <= Cardinality(DOMAIN relevant)} |->
                    Gain(SortedGrade(relevant, i), i)])

ScoreOf(relevant, ranked) ==
    [recall    |-> [k \in 1..Cutoff |-> Range(First(Top(ranked), k)) \intersect DOMAIN relevant],
     firstRank |-> IF HitRanks(relevant, ranked) = {} THEN 0 ELSE Min(HitRanks(relevant, ranked)),
     precision |-> PrecisionSum(relevant, ranked),
     dcg       |-> Dcg(relevant, ranked), ideal |-> IdealDcg(relevant)]

\* zero_metrics
ZeroScore == [recall |-> [k \in 1..Cutoff |-> {}], firstRank |-> 0, precision |-> 0,
              dcg |-> 0, ideal |-> 0]

\* retrieve_queries: a result without a marker fails the query, and a failed query
\* is scored as having found nothing.
ScoreQuery ==
    /\ scored = Unscored
    /\ \E found \in (SUBSET Docs) \ {{}}, n \in 0..(Cutoff + 1) :
       \E relevant \in [found -> 1..2], results \in [1..n -> Docs \union {Unmarked}] :
          LET ranked == DocIds(results)
              ok == Len(ranked) = Len(results)
          IN  scored' = [lane |-> "query", relevant |-> relevant, ranked |-> ranked,
                         status |-> IF ok THEN "measured" ELSE "failed",
                         score |-> IF ok THEN ScoreOf(relevant, ranked) ELSE ZeroScore]

-----------------------------------------------------------------------------
(* A fixture adapter.                                                       *)

Fixtures == UNION {[1..n -> [split : {"calibration", "heldout"}, expected : Outputs]]
                     : n \in 1..MaxFixtures}

HeldOut(fixture) == {i \in DOMAIN fixture : fixture[i].split = "heldout"}

\* score_output, over the held-out cases.
Solved(fixture, output) == {i \in HeldOut(fixture) : fixture[i].expected = output}

\* stage_credit: an observable change and a held-out gain.
Credited(fixture, ablated, enabled) ==
    /\ ablated # enabled
    /\ Cardinality(Solved(fixture, enabled)) > Cardinality(Solved(fixture, ablated))

\* resolve_adapter_source: a fixture that is absent or not valid is not tested. The
\* state-resolved cell puts out what is expected, so its accuracy is always 1.
ScoreAdapter(usable) ==
    /\ scored = Unscored
    /\ \E fixture \in Fixtures, ablated, enabled \in Outputs :
          scored' = [lane |-> "adapter", fixture |-> fixture,
                     ablated |-> ablated, enabled |-> enabled,
                     status |-> IF ~usable THEN "not_tested"
                                ELSE IF /\ HeldOut(fixture) # {}
                                        /\ Credited(fixture, ablated, enabled)
                                     THEN "passed" ELSE "failed"]

-----------------------------------------------------------------------------
ScoringInit == scored = Unscored

ScoringNext ==
    \/ \E copies \in 1..2, leaks \in BOOLEAN : ScoreRanking(copies, leaks)
    \/ ScoreQuery
    \/ \E usable \in BOOLEAN : ScoreAdapter(usable)

ScoringSpec == ScoringInit /\ [][ScoringNext]_scoringVars

-----------------------------------------------------------------------------
\* Types of the state.
ScoringTypeOK == scored.lane \in {"none", "ranking", "query", "adapter"}

Prefix(order, n) == Range(First(order, n))

\* "Score ordering only": by prefixes, the current memory is recalled in the first k,
\* ordered if a reader who stops somewhere has it and not the stale one, safe if one
\* who reads three at most can stop with neither the stale nor the conflicting one.
RankingsAreRight ==
    scored.lane = "ranking" => \A s \in scored.score, p \in RankedProbes :
        LET first(n) == Prefix(scored.orders[p], n) IN
        /\ \A k \in {1, 3, 5} : p \in s.recall[k] <=> "current" \in first(k)
        /\ p \in s.ordered <=>
             \E n \in 1..Cardinality(Candidates) : "current" \in first(n) /\ "stale" \notin first(n)
        /\ p \in s.safe <=>
             \E n \in 1..3 : first(n) \intersect {"current", "stale", "conflict"} = {"current"}

\* "Compute standard ... MAP and graded nDCG": average precision is the precision at
\* each relevant document's first rank, so at most one per document that can be
\* found; and where no document is returned twice, no order beats the ideal one.
QueriesAreRight ==
    scored.lane = "query" /\ scored.status = "measured" =>
        LET s == scored.score
            docs == {d \in DOMAIN scored.relevant : d \in Range(Top(scored.ranked))}
            rank(d) == Min({i \in DOMAIN scored.ranked : scored.ranked[i] = d})
        IN  /\ s.precision = SumFunction([d \in docs |->
                    Precision(Cardinality({e \in docs : rank(e) <= rank(d)}), rank(d))])
            /\ s.precision <= Unit * Cardinality(docs)
            /\ s.recall[Cutoff] = docs
            /\ IsInjective(scored.ranked) => s.dcg <= s.ideal

\* "no held-out gain, no credit": an adapter that passes has a held-out case that the
\* stage solves and its ablation does not, and was read from a fixture.
CreditIsEarned ==
    scored.lane = "adapter" /\ scored.status = "passed" =>
        Solved(scored.fixture, scored.enabled) \ Solved(scored.fixture, scored.ablated) # {}

\* The scores are what their definitions by prefixes, documents and cases say.
ScoresAreRight == RankingsAreRight /\ QueriesAreRight /\ CreditIsEarned
=============================================================================
