------------------------ MODULE MCDecisionLifecycle ------------------------
\* A small instance of DecisionLifecycle.
EXTENDS DecisionLifecycle, TLC

CONSTANTS p19, p20, p21

Symmetry == Permutations({p20, p21})
=============================================================================
