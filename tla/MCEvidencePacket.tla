-------------------------- MODULE MCEvidencePacket --------------------------
(* EvidencePacket for TLC: two publication commands and bounds that let one  *)
(* text change and one process be killed.                                    *)
EXTENDS EvidencePacket, TLC
ProcSymmetry == Permutations(Proc)
=============================================================================
