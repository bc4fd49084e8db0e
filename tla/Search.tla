------------------------------- MODULE Search -------------------------------
(***************************************************************************)
(* Hybrid search: RetrievalService.retrieve over a tenant's chunks and     *)
(* ProductSearchService.search over its products, and the note the product *)
(* tool puts on a ranked result.  A row holds what the SQL of each arm     *)
(* sees of it for one query: whether every filter admits it, its cosine    *)
(* distance and its ts_rank_cd under the AND and the OR form.  Rows are    *)
(* numbered as their ids sort.  Ties of an ORDER BY fall either way.       *)
(***************************************************************************)
EXTENDS Integers, Sequences, FiniteSets, SequencesExt, Ordering

NoFloor == -2      \* a floor that is switched off (None)
NoMatch == -1      \* the tsquery does not match the row
NoVector == 9      \* the row has no embedding
RRF_K == 60
Scale == 61 * 62 * 63    \* makes the first three reciprocal ranks whole numbers

Least(a, b) == IF a < b THEN a ELSE b
Greatest(a, b) == IF a < b THEN b ELSE a

\* max(1, min(asked, cap)): a tool's top_k or limit.
Clamped(asked, cap) == Greatest(1, Least(asked, cap))

\* ORDER BY key LIMIT n: every order the database may give, cut to n.
OrderedBy(S, Before(_, _), n) ==
    {SubSeq(s, 1, Least(n, Len(s))) :
        s \in {p \in SetToSeqs(S) :
                 \A i, j \in DOMAIN p : i < j => ~Before(p[j], p[i])}}

-----------------------------------------------------------------------------
(* The two arms. *)

Near(q, r) ==
    /\ q.rows[r].ok
    /\ q.rows[r].dist # NoVector
    /\ q.maxDistance = NoFloor \/ q.rows[r].dist <= q.maxDistance

VectorArm(q) ==
    OrderedBy({r \in DOMAIN q.rows : Near(q, r)},
              LAMBDA r, s : q.rows[r].dist < q.rows[s].dist, q.candidates)

\* ts_rank_cd > 0 keeps a bare negation, which matches at rank 0, out.
AllTerms(q) == {r \in DOMAIN q.rows : q.rows[r].ok /\ q.rows[r].all > 0}
AnyTerm(q) ==
    {r \in DOMAIN q.rows :
        q.rows[r].ok /\ q.rows[r].any > 0 /\ q.rows[r].any >= q.minRank}

\* The OR form only when the AND form found nothing.
KeywordArm(q) ==
    IF AllTerms(q) # {}
      THEN OrderedBy(AllTerms(q), LAMBDA r, s : q.rows[r].all > q.rows[s].all, q.candidates)
      ELSE OrderedBy(AnyTerm(q), LAMBDA r, s : q.rows[r].any > q.rows[s].any, q.candidates)

-----------------------------------------------------------------------------
(* Reciprocal rank fusion. *)

RankIn(list, r) == CHOOSE n \in DOMAIN list : list[n] = r
Share(list, r) == IF r \in ToSet(list) THEN Scale \div (RRF_K + RankIn(list, r)) ELSE 0
\* Mutant of FuseRRF: the best rank counts, not the sum.
FuseBest(v, k) ==
    [r \in ToSet(v) \union ToSet(k) |-> Greatest(Share(v, r), Share(k, r))]

FuseRRF(v, k) == [r \in ToSet(v) \union ToSet(k) |-> Share(v, r) + Share(k, r)]

TopFused(scores, n) ==
    LET order == Ranked(DOMAIN scores,
                   LAMBDA r, s : scores[r] > scores[s] \/ (scores[r] = scores[s] /\ r < s))
    IN SubSeq(order, 1, Least(n, Len(order)))

\* Every answer the service may give: the results in order, and the arms' lists.
Answers(q) ==
    {[list |-> TopFused(FuseRRF(v, k), q.limit), vector |-> v, keyword |-> k] :
        v \in VectorArm(q), k \in KeywordArm(q)}

-----------------------------------------------------------------------------
(* The two callers. *)

\* RetrieveKnowledgeTool over RetrievalService: both floors are set.
KnowledgeQuery(rows, asked, floor) ==
    [rows |-> rows, limit |-> Clamped(asked, 10), candidates |-> 20,
     maxDistance |-> 3, minRank |-> floor]

\* SearchProductsTool over ProductSearchService: both floors may be off.
ProductQuery(rows, asked, distance, floor) ==
    LET limit == Clamped(asked, 20)
    IN [rows |-> rows, limit |-> limit, candidates |-> Greatest(4 * limit, 20),
        maxDistance |-> distance, minRank |-> floor]

-----------------------------------------------------------------------------
(* The note on a ranked product answer. *)

\* _classify_distance_shape: the groups that may lead are those at most twice
\* as large as what they leave behind, and one leads if the gap behind it is at
\* least half of the whole spread.
LeadingSizes(n) == {b \in 1..(n - 1) : b <= 2 * (n - b)}
Leads(d, b) == 2 * (d[b + 1] - d[b]) >= d[Len(d)] - d[1]

DistanceShape(d) ==
    IF d[Len(d)] > d[1] /\ \E b \in LeadingSizes(Len(d)) : Leads(d, b)
      THEN "sharp" ELSE "flat"

MatchShapeNote(q, a) ==
    LET embedded == SelectSeq(a.list, LAMBDA r : r \in ToSet(a.vector))
        d == SortSeq([n \in DOMAIN embedded |-> q.rows[embedded[n]].dist], <)
    IN IF Len(d) < 3 THEN "ambiguous" ELSE DistanceShape(d)

-----------------------------------------------------------------------------
(* The queries explored: three rows, and what a query can be to each. *)

\* <<AND rank, OR rank>> of a row for a query of terms, or of a bare negation,
\* which matches every row that lacks the word, at rank 0.
TermRanks == {<<NoMatch, NoMatch>>, <<NoMatch, 0>>, <<NoMatch, 1>>, <<NoMatch, 2>>, <<2, 2>>}
NegationRanks == {<<NoMatch, NoMatch>>, <<0, 0>>}

RowKinds(ranks) ==
    {[ok |-> TRUE, dist |-> d, all |-> k[1], any |-> k[2]] :
        d \in {1, 2, 4, NoVector}, k \in ranks}
      \union {[ok |-> FALSE, dist |-> 1, all |-> 2, any |-> 2]}

Corpora == [1..3 -> RowKinds(TermRanks)] \union [1..3 -> RowKinds(NegationRanks)]

-----------------------------------------------------------------------------
(* What an answer promises. *)

\* A row may be answered with: admitted by every filter, and near enough or
\* found by a word of the query -- any word only if no row has them all, and
\* then only at the floor.
Relevant(q, r) ==
    /\ q.rows[r].ok
    /\ \/ Near(q, r)
       \/ q.rows[r].all > 0
       \/ /\ ~\E s \in DOMAIN q.rows : q.rows[s].ok /\ q.rows[s].all > 0
          /\ q.rows[r].any > 0 /\ q.rows[r].any >= q.minRank

OnBoth(a, r) == r \in ToSet(a.vector) /\ r \in ToSet(a.keyword)

\* r has a place on both lists and s on one: two signals outweigh the best one.
FoundByMore(a, r, s) ==
    OnBoth(a, r) /\ ~OnBoth(a, s) /\ s \in ToSet(a.vector) \union ToSet(a.keyword)

\* r is ahead of s on both lists.
AheadOnBoth(a, r, s) ==
    /\ OnBoth(a, r) /\ OnBoth(a, s)
    /\ RankIn(a.vector, r) < RankIn(a.vector, s)
    /\ RankIn(a.keyword, r) < RankIn(a.keyword, s)

Precedes(list, r, s) ==
    r \in ToSet(list) /\ (s \in ToSet(list) => RankIn(list, r) < RankIn(list, s))

AnswerIsSound(q, a) ==
    /\ IsInjective(a.list)
    /\ \A r \in ToSet(a.list) : Relevant(q, r)
    /\ Len(a.list) = Least(q.limit, Cardinality({r \in DOMAIN q.rows : Relevant(q, r)}))
    /\ \A r, s \in DOMAIN q.rows :
         FoundByMore(a, r, s) \/ AheadOnBoth(a, r, s)
           => (s \in ToSet(a.list) => Precedes(a.list, r, s))

=============================================================================
