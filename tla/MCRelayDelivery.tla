------------------------- MODULE MCRelayDelivery -------------------------
(* Instances of RelayDelivery for TLC. *)
EXTENDS RelayDelivery, TLC

CONSTANTS m1, m2, p1, p2

Event(subs) == [kind |-> "event", subs |-> subs]
Orphan(subs) == [kind |-> "orphan", subs |-> subs]
Poison == [kind |-> "poison", subs |-> {}]
Tenantless == [kind |-> "tenantless", subs |-> {}]

\* One partition, every kind of record, two subscriptions with their own fate.
FanoutLog == [p \in {p1} |-> <<Event({1, 2}), Poison, Orphan({1, 2}), Event({}), Tenantless>>]

\* Two partitions to spread over two members, and to hand over between them.
SpreadLog == (p1 :> <<Orphan({1}), Event({1})>>) @@ (p2 :> <<Poison>>)
=============================================================================
