----------------------------- MODULE MCTtlStore -----------------------------
\* A small instance of TtlStore.
EXTENDS TtlStore, TLC

\* Scopes and keys are not interchangeable with values, callers with neither.
Symmetry == Permutations(Callers) \cup Permutations(Scopes)
=============================================================================
