--------------------------- MODULE MCAttestationChain ---------------------------
(* Small instances of AttestationChain.                                          *)
EXTENDS AttestationChain, TLC
CONSTANTS MaxHeight, r1, r2

MCHeights == 0..MaxHeight
OneRoot == {r1}
TwoForks == {r1, r2}
ForkSymmetry == Permutations(TwoForks)

\* Operator batches.  The digest of an operator checkpoint is opaque: nothing on
\* chain says which blocks it was folded over.
Opaque(S) == [h \in S |-> <<<<h, r1>>>>]
OperatorBatches == {Opaque({0, 3}), Opaque({2}), Opaque({4})}
==============================================================================
