------------------------ MODULE MCAttestationStream -------------------------
(* Instances of the attestation stream for TLC. *)
EXTENDS AttestationStream, TLC
=============================================================================
