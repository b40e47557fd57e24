----------------------------- MODULE MCLagPoll -----------------------------
(* Instances of LagPoll for TLC. *)
EXTENDS LagPoll, TLC

CONSTANTS p1, p2

\* Of one partition the first record is no longer retained.
Firsts == (p1 :> 0) @@ (p2 :> 1)
=============================================================================
