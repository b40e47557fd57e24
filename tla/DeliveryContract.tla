-------------------------- MODULE DeliveryContract --------------------------
(***************************************************************************)
(* What relay's delivery side promises, without processes, groups or       *)
(* retries: every record owes something to each of its subscribers (or, if *)
(* undecodable, a dead letter), debts are closed in partition order, and   *)
(* an offset is committed only behind records that owe nothing.  Nothing   *)
(* promises that committed offsets only move forward, or that a debt is    *)
(* closed only once.                                                       *)
(***************************************************************************)
EXTENDS Integers

CONSTANTS Partition,
          Owed  \* Owed[p][o+1]: the set of debts of the record at offset o

VARIABLES committed,  \* committed offset of each partition
          closed      \* <<r, s>>: record r's debt to s is closed
cvars == <<committed, closed>>

Closed(r) == \A s \in Owed[r[1]][r[2] + 1] : <<r, s>> \in closed
ClosedBefore(p, n) == \A o \in 0 .. n - 1 : Closed(<<p, o>>)

Init == committed = [p \in Partition |-> 0] /\ closed = {}

\* A subscriber takes the record, or a dead letter is written for it.
Close ==
  \E p \in Partition : \E i \in DOMAIN Owed[p] : \E s \in Owed[p][i] :
    /\ ClosedBefore(p, i - 1)
    /\ closed' = closed \cup {<<<<p, i - 1>>, s>>}
    /\ UNCHANGED committed

\* A finished record is committed, possibly not for the first time.
Commit ==
  \E p \in Partition : \E n \in DOMAIN Owed[p] :
    /\ ClosedBefore(p, n)
    /\ committed' = [committed EXCEPT ![p] = n]
    /\ UNCHANGED closed

Next == Close \/ Commit

Spec == Init /\ [][Next]_cvars
=============================================================================
