----------------------------- MODULE MCLiveRun -----------------------------
(* An instance of LiveRun for TLC. *)
EXTENDS LiveRun, TLC
CONSTANTS r1, r2, c1
=============================================================================
