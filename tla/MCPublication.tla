---------------------------- MODULE MCPublication ----------------------------
(* Instances of Publication for TLC.                                       *)
EXTENDS Publication, TLC

\* Neither operations, proofs nor workers are told apart.
Symmetry == Permutations(Operations) \cup Permutations(Proofs) \cup Permutations(Workers)
=============================================================================
