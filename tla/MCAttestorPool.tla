--------------------------- MODULE MCAttestorPool ---------------------------
(* Instances of the vote pool for TLC. *)
EXTENDS AttestorPool, TLC

CONSTANTS a1, a2, a3, d1, d2

MCPair == {a1, a2}
MCTrio == {a1, a2, a3}
MCGrow == {{a1, a2}, {a1, a2, a3}}
MCPairOnly == {{a1, a2}}
MCDigests == {d1, d2}
MCTwoHeights == {0, 1}
MCTall == 0 .. 3
=============================================================================
