-------------------------- MODULE MCReconciliation --------------------------
EXTENDS Reconciliation, TLC

\* Runners are interchangeable.
Symmetric == Permutations(Runners)
=============================================================================
