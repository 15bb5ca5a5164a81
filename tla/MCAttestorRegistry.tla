------------------------- MODULE MCAttestorRegistry -------------------------
(* Instances of AttestorRegistry for TLC. *)
EXTENDS AttestorRegistry, TLC

\* Stashes and keys are interchangeable; chains and controllers are ordered.
Symmetry == Permutations(Stashes) \cup Permutations(Keys)
=============================================================================
