------------------------------ MODULE MCOutbox ------------------------------
EXTENDS Outbox, TLC

\* Messages and workers are interchangeable in the safety runs.
Symmetric == Permutations(Messages) \cup Permutations(Workers)
=============================================================================
