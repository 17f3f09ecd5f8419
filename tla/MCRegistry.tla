------------------------------ MODULE MCRegistry ------------------------------
(* Instances of Registry for TLC.                                            *)
EXTENDS Registry, TLC

CONSTANT s1

Symmetry == Permutations(Operators) \cup Permutations(Bootstrapped)

\* A new entry, its approval, and one change more.
ThreeVersions == s1 :> 3

\* Room for two changes of the active declaration.
SixVersions == s1 :> 6
=============================================================================
