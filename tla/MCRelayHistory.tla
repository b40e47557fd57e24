--------------------------- MODULE MCRelayHistory ---------------------------
(* Instances of RelayHistory for TLC. *)
EXTENDS RelayHistory, TLC

CONSTANTS r1, r2, c1, c2, a, k

TwoKeys == (r1 :> k) @@ (r2 :> k)
OneBody == (r1 :> a) @@ (r2 :> a)
=============================================================================
