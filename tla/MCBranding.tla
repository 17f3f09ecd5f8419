------------------------------ MODULE MCBranding ------------------------------
(* Instances of Branding for TLC.                                            *)
EXTENDS Branding, TLC

Symmetry == Permutations(Documents) \cup Permutations(Editors) \cup Permutations(Publishers)
=============================================================================
