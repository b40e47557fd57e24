-------------------------- MODULE MCRelayShutdown --------------------------
(* Instances of RelayShutdown for TLC. *)
EXTENDS RelayShutdown, TLC

CONSTANTS w1, w2

WorkSymmetry == Permutations(Work)
=============================================================================
