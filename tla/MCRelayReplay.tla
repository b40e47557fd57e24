--------------------------- MODULE MCRelayReplay ---------------------------
(* Instances of RelayReplay for TLC. *)
EXTENDS RelayReplay, TLC

CONSTANTS p1, p2

\* A backlog on one partition, the other caught up and without a record in the window.
BacklogLog == (p1 :> <<"old", "new">>) @@ (p2 :> <<"old">>)
BacklogProcessed == (p1 :> 1) @@ (p2 :> 1)
=============================================================================
