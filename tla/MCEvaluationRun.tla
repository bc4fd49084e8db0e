-------------------------- MODULE MCEvaluationRun --------------------------
EXTENDS EvaluationRun, TLC

\* Runs, cases and workers are only compared for equality.
Symmetry == Permutations(Run) \union Permutations(Case) \union Permutations(Worker)
=============================================================================
