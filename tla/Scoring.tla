------------------------------ MODULE Scoring -------------------------------
(***************************************************************************)
(* What one evaluation case's turn is worth: the deterministic scorers,    *)
(* the judge, whether the case passes, and what the result bills.  The     *)
(* answer is abstracted to the required phrases found in it, a score to    *)
(* the number found out of the number expected, a judge's call to how it   *)
(* went.                                                                   *)
(***************************************************************************)
EXTENDS Naturals, Sequences, FiniteSets, SequencesExt

\* A case, as CaseInput lets one be stored: phrases and ids without repeats,
\* tool names perhaps with some, and at least one expectation.
EvalCases ==
    {c \in [phrases : SUBSET {"p1", "p2"},
            tools : {<<>>, <<"t1">>, <<"t1", "t2">>, <<"t1", "t1">>},
            documents : SUBSET {"d1"}, products : SUBSET {"q1"}, reference : BOOLEAN] :
        \/ c.phrases # {} \/ c.tools # <<>> \/ c.documents # {} \/ c.products # {}
        \/ c.reference}

\* What the turn produced.
Observations ==
    [error : BOOLEAN, said : {{}, {"p1"}, {"p1", "p2"}},
     calls : {{}, {<<"t1", "ok">>}, {<<"t1", "failed">>}, {<<"t1", "ok">>, <<"t2", "ok">>}},
     documents : SUBSET {"d1"}, products : SUBSET {"q1"}]

\* none: a run without a judge.  unavailable: its provider's key is gone.
\* raised: the call failed.  garbled: the verdict does not validate.
Correctness == {"correct", "partially_correct", "incorrect"}
Judges ==
    {[kind |-> k] : k \in {"none", "unavailable", "raised", "garbled"}}
      \union [kind : {"verdict"}, correctness : Correctness, grounded : BOOLEAN]

-----------------------------------------------------------------------------
Scored(found, expected) ==
    [status |-> "scored", found |-> found, of |-> expected, passed |-> found = expected]
ErrorScore == [status |-> "error", passed |-> FALSE]

\* score_required_phrases and _score_recall.
Recall(expected, seen) ==
    Scored(Cardinality(expected \intersect seen), Cardinality(expected))

\* score_tool_selection: a call that failed answered nothing.
Succeeded(o) == {c[1] : c \in {d \in o.calls : d[2] = "ok"}}
ToolSelection(c, o) ==
    Scored(Cardinality({n \in DOMAIN c.tools : c.tools[n] \in Succeeded(o)}), Len(c.tools))

\* Judge.score: halves, so that a partly correct answer counts one of two.
Halves == [correct |-> 2, partially_correct |-> 1, incorrect |-> 0]
JudgeScore(j) ==
    IF j.kind # "verdict" THEN ErrorScore
    ELSE [status |-> "scored", found |-> Halves[j.correctness], of |-> 2,
          passed |-> j.correctness = "correct" /\ j.grounded]

\* Which scorers apply; an errored turn is not scored at all.
Judged(c, o, j) == c.reference /\ ~o.error /\ j.kind # "none"
Applicable(c, o, j) ==
    IF o.error THEN {}
    ELSE {k \in {"phrases", "tools", "documents", "products", "judge"} :
            CASE k = "phrases"   -> c.phrases # {}
              [] k = "tools"     -> c.tools # <<>>
              [] k = "documents" -> c.documents # {}
              [] k = "products"  -> c.products # {}
              [] k = "judge"     -> Judged(c, o, j)}

ScoreOf(c, o, j, k) ==
    CASE k = "phrases"   -> Recall(c.phrases, o.said)
      [] k = "tools"     -> ToolSelection(c, o)
      [] k = "documents" -> Recall(c.documents, o.documents)
      [] k = "products"  -> Recall(c.products, o.products)
      [] k = "judge"     -> JudgeScore(j)

Scores(c, o, j) == [k \in Applicable(c, o, j) |-> ScoreOf(c, o, j, k)]

\* Mutant of CasePassed: nothing failed, so it passed.
CasePassedVacuously(scores, o) ==
    ~o.error /\ \A k \in DOMAIN scores : scores[k].passed

\* case_passed: an empty card is not a pass.
CasePassed(scores, o) ==
    ~o.error /\ DOMAIN scores # {} /\ \A k \in DOMAIN scores : scores[k].passed

-----------------------------------------------------------------------------
(* The bill of a result: the turn's usage and the judge's. *)

Unknown == 99      \* None, which no sum of prices here reaches
\* A usage as reported: none at all, no tokens, or tokens with or without price.
TurnUsages == {"none", "zero", "priced", "unpriced"}

\* A judge call that raised reports no tokens; a garbled verdict was still paid.
JudgeUsage(c, o, j, priced) ==
    IF ~Judged(c, o, j) \/ j.kind = "unavailable" THEN "none"
    ELSE IF j.kind = "raised" THEN "zero"
    ELSE IF priced THEN "priced" ELSE "unpriced"

UsageRows(turn, judge) ==
    {k \in {"turn", "judge"} : (IF k = "turn" THEN turn ELSE judge) \in {"priced", "unpriced"}}

\* estimate_cost prices no tokens at nothing, if it knows the model.
Price(usage, priced) ==
    CASE usage = "none" -> Unknown [] usage = "zero" -> IF priced THEN 0 ELSE Unknown
      [] usage = "priced" -> 1     [] usage = "unpriced" -> Unknown

\* The turn's cost plus the judge's; unknown if either part is.
ResultCost(c, o, j, turn, priced) ==
    LET own == Price(turn, TRUE)
        its == Price(JudgeUsage(c, o, j, priced), priced)
    IN IF own = Unknown THEN Unknown
       ELSE IF ~Judged(c, o, j) THEN own
       ELSE IF its = Unknown THEN Unknown ELSE own + its

-----------------------------------------------------------------------------
(* What a verdict promises. *)

\* Every expectation of the case was measured and met, by a turn that did not
\* fail; an expectation only a judge can measure is left out without one.
Met(c, o, j) ==
    /\ ~o.error
    /\ c.phrases \subseteq o.said /\ ToSet(c.tools) \subseteq Succeeded(o)
    /\ c.documents \subseteq o.documents /\ c.products \subseteq o.products
    /\ c.reference /\ j.kind # "none" =>
         j.kind = "verdict" /\ j.correctness = "correct" /\ j.grounded
    /\ \/ c.phrases # {} \/ c.tools # <<>> \/ c.documents # {} \/ c.products # {}
       \/ j.kind # "none"

VerdictIsEarned(c, o, j) ==
    LET scores == Scores(c, o, j)
    IN /\ CasePassed(scores, o) <=> Met(c, o, j)
       /\ \A k \in DOMAIN scores :
            scores[k].status = "scored" =>
              /\ scores[k].found <= scores[k].of
              /\ scores[k].passed => scores[k].found = scores[k].of

\* A cost that is known is the cost of exactly the usage rows written.
CostIsBilled(c, o, j, turn, priced) ==
    LET cost == ResultCost(c, o, j, turn, priced)
        rows == UsageRows(turn, JudgeUsage(c, o, j, priced))
    IN cost # Unknown => cost = Cardinality(rows)

=============================================================================
