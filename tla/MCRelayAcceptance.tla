------------------------- MODULE MCRelayAcceptance -------------------------
(* Instances of RelayAcceptance for TLC. *)
EXTENDS RelayAcceptance, TLC

CONSTANTS r1, r2, r3, r4, q1, q2, a, b, k

\* A request, its retry and a request that misuses their key.
RetryKeys == (r1 :> k) @@ (r2 :> k) @@ (r3 :> k)
RetryBodies == (r1 :> a) @@ (r2 :> a) @@ (r3 :> b)

\* Two concurrent requests with one key, one without a key, one malformed.
MixedKeys == (r1 :> k) @@ (r2 :> k) @@ (r3 :> NoKey) @@ (r4 :> NoKey)
MixedBodies == (r1 :> a) @@ (r2 :> a) @@ (r3 :> a) @@ (r4 :> Malformed)

PodSymmetry == Permutations(Pod)
=============================================================================
