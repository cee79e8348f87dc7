----------------------------- MODULE MCWorkQueue -----------------------------
(* WorkQueue on small instances.                                           *)
EXTENDS WorkQueue, TLC

Symmetry == Permutations(Batches) \cup Permutations(Tokens)

\* The second fault happens only while a single batch is in play.
Explored == faults <= 1 \/ Cardinality({b \in Batches : rows[b].status # "none"}) <= 1
=============================================================================
