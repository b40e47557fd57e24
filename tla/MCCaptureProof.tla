--------------------------- MODULE MCCaptureProof --------------------------
(* An instance of CaptureProof for TLC. *)
EXTENDS CaptureProof, TLC
CONSTANTS i1
=============================================================================
