------------------------------ MODULE LagPoll ------------------------------
(***************************************************************************)
(* The lag poller (internal/metrics/lag.go): Refresh reads the group's     *)
(* committed offsets, the ends of the partitions and the group's           *)
(* assignment with three calls, while ingest appends and the group         *)
(* commits, rebalances or is reset, and publishes what it makes of them.   *)
(*                                                                         *)
(* The broker is external.  Each call is answered as of one moment; a      *)
(* partition may be missing from its answer.  Retention does not advance.  *)
(***************************************************************************)
EXTENDS Integers, FiniteSets, FiniteSetsExt

CONSTANTS
  Partition,
  First,      \* First[p]: the first offset that is retained
  MaxLast,    \* bound on the offsets
  MaxAdverse, \* bound on missing answers and failed calls
  None

ASSUME PartitionAssumption == IsFiniteSet(Partition) /\ Partition # {}
ASSUME FirstAssumption == First \in [Partition -> Nat]
ASSUME BoundsAssumption ==
  /\ {MaxLast, MaxAdverse} \subseteq Nat /\ \A p \in Partition : First[p] < MaxLast
  /\ None \notin Int

VARIABLES
  last, committed,  \* the broker's: end of each partition, offset or -1 of the group
  group,            \* the broker's: state of the group
  calls,            \* how many of its calls the poll has made
  offsets, bounds, coverage,  \* their answers
  owed, gaps,       \* the backlogs when offsets were read, the ownerless partitions then
  lag, total, unassigned,     \* the gauges
  due,              \* owed and gaps, as of the polls that set them
  adverse

brokerVars == <<last, committed, group>>
readVars == <<offsets, bounds, coverage, owed, gaps>>
gauges == <<lag, total, unassigned, due>>
vars == <<last, committed, group, calls, offsets, bounds, coverage, owed, gaps, lag,
          total, unassigned, due, adverse>>

Unread == [p \in Partition |-> None]

Init ==
  /\ last \in {[p \in Partition |-> First[p] + n] : n \in 0 .. 1}
  /\ committed = [p \in Partition |-> -1]
  /\ group = "Empty"
  /\ calls = 0
  /\ offsets = Unread /\ bounds = Unread /\ coverage = None
  /\ owed = [p \in Partition |-> 0] /\ gaps = 0
  /\ lag = Unread /\ total = None /\ unassigned = None
  /\ due = [lags |-> [p \in Partition |-> 0], total |-> 0, gaps |-> 0]
  /\ adverse = 0

Adversity(n) == adverse + n <= MaxAdverse /\ adverse' = adverse + n

-----------------------------------------------------------------------------
(* The broker, its producers and the group.                                *)

Produce(p) ==
  /\ last[p] < MaxLast
  /\ last' = [last EXCEPT ![p] = @ + 1]
  /\ UNCHANGED <<committed, group, calls, readVars, gauges, adverse>>

\* A commit, forwards or, by a stale owner or a replay, backwards.
CommitOffset(p) ==
  /\ \E o \in First[p] .. last[p] : committed' = [committed EXCEPT ![p] = o]
  /\ UNCHANGED <<last, group, calls, readVars, gauges, adverse>>

\* Members come and go; Rebalancing stands for both phases of it.
ChangeGroup ==
  /\ \E g \in {"Empty", "Rebalancing", "Stable"} :
       /\ g # group /\ (group = "Empty" => g # "Stable")
       /\ group' = g
  /\ UNCHANGED <<last, committed, calls, readVars, gauges, adverse>>

\* Partitions without an owner, and what a DescribeGroups answer shows of them:
\* while new assignments are on their way it may show any of them as such.
Ownerless == IF group = "Empty" THEN Cardinality(Partition) ELSE 0
Described == IF group = "Rebalancing" THEN 0 .. Cardinality(Partition) ELSE {Ownerless}

\* Records the group has not committed.  Without an offset it will start with
\* the first one.
Backlog(p) == last[p] - (IF committed[p] < 0 THEN First[p] ELSE committed[p])

-----------------------------------------------------------------------------
(* Refresh.                                                                *)

\* Mutant: the ends are read before the offsets.
BoundsFirst == <<"bounds", "offsets", "coverage">>

Calls == <<"offsets", "bounds", "coverage">>

Called(c) == calls < 3 /\ Calls[calls + 1] = c /\ calls' = calls + 1

\* An answer for all partitions but some, and not without any.
Answers(f) ==
  {[p \in Partition |-> IF p \in ps THEN f[p] ELSE None] : ps \in (SUBSET Partition) \ {{}}}
Missing(g) == {p \in Partition : g[p] = None}

ReadOffsets ==
  /\ Called("offsets")
  /\ offsets' \in Answers(committed)
  /\ Adversity(Cardinality(Missing(offsets')))
  /\ owed' = [p \in Partition |-> Backlog(p)]
  /\ UNCHANGED <<brokerVars, bounds, coverage, gaps, gauges>>

ReadBounds ==
  /\ Called("bounds")
  /\ bounds' \in Answers(last)
  /\ Adversity(Cardinality(Missing(bounds')))
  /\ UNCHANGED <<brokerVars, offsets, coverage, owed, gaps, gauges>>

\* A group in transition is not evidence: see RefreshFails.
ReadCoverage ==
  /\ Called("coverage") /\ group # "Rebalancing"
  /\ coverage' \in Described /\ gaps' = Ownerless
  /\ UNCHANGED <<brokerVars, offsets, bounds, owed, gauges, adverse>>

NextPoll ==
  /\ calls' = 0 /\ offsets' = Unread /\ bounds' = Unread /\ coverage' = None
  /\ owed' = [p \in Partition |-> 0] /\ gaps' = 0

\* A call fails, or the group is in transition: the gauges hold their values.
RefreshFails ==
  /\ calls < 3
  /\ \/ Calls[calls + 1] = "coverage" /\ group = "Rebalancing" /\ UNCHANGED adverse
     \/ Adversity(1)
  /\ NextPoll
  /\ UNCHANGED <<brokerVars, gauges>>

Readable == {p \in Partition : offsets[p] # None /\ bounds[p] # None}

\* lagFor
LagFor(p) ==
  LET behind == bounds[p] - (IF offsets[p] < 0 THEN First[p] ELSE offsets[p])
  IN IF behind > 0 THEN behind ELSE 0

\* Mutant: the sum is published over what could be read.
PublishWhatIsThere ==
  /\ calls = 3
  /\ lag' = [p \in Partition |-> IF p \in Readable THEN LagFor(p) ELSE lag[p]]
  /\ total' = MapThenSumSet(LagFor, Readable)
  /\ unassigned' = coverage
  /\ due' = [lags |-> [p \in Partition |-> IF p \in Readable THEN owed[p] ELSE due.lags[p]],
             total |-> MapThenSumSet(LAMBDA p : owed[p], Partition),
             gaps |-> gaps]
  /\ NextPoll
  /\ UNCHANGED <<brokerVars, adverse>>

\* Partitions are published each by itself, the total and the assignment only
\* together and complete.
Publish ==
  /\ calls = 3
  /\ lag' = [p \in Partition |-> IF p \in Readable THEN LagFor(p) ELSE lag[p]]
  /\ LET lags == [p \in Partition |-> IF p \in Readable THEN owed[p] ELSE due.lags[p]]
     IN IF Readable = Partition
        THEN /\ total' = MapThenSumSet(LagFor, Partition)
             /\ unassigned' = coverage
             /\ due' = [lags |-> lags, total |-> MapThenSumSet(LAMBDA p : owed[p], Partition),
                        gaps |-> gaps]
        ELSE /\ due' = [due EXCEPT !.lags = lags]
             /\ UNCHANGED <<total, unassigned>>
  /\ NextPoll
  /\ UNCHANGED <<brokerVars, adverse>>

Refresh == ReadOffsets \/ ReadBounds \/ ReadCoverage \/ RefreshFails \/ Publish

Next ==
  \/ \E p \in Partition : Produce(p) \/ CommitOffset(p)
  \/ ChangeGroup
  \/ Refresh

Spec == Init /\ [][Next]_vars
-----------------------------------------------------------------------------
Answer(g) == \A p \in Partition : g[p] = None \/ g[p] \in -1 .. MaxLast

TypeOK ==
  /\ \A p \in Partition :
       /\ last[p] \in First[p] .. MaxLast
       /\ committed[p] \in {-1} \cup First[p] .. last[p]
       /\ bounds[p] = None \/ bounds[p] \in First[p] .. last[p]
       /\ lag[p] = None \/ lag[p] \in Nat
       /\ {owed[p], due.lags[p]} \subseteq Nat
  /\ Answer(offsets)
  /\ group \in {"Empty", "Rebalancing", "Stable"}
  /\ calls \in 0 .. 3
  /\ calls = 3 => coverage # None
  /\ total = None <=> unassigned = None

\* The lag shown for a partition is never smaller than the group's backlog was at
\* a moment of the poll that put it there, whatever was appended, committed or
\* reset while the poll went on.
LagNeverUnderstates == \A p \in Partition : lag[p] # None => lag[p] >= due.lags[p]

\* Nor is the total, whatever the poll could not read.  A total of zero means that
\* at one moment the group had nothing left to do on any partition.
TotalNeverUnderstates == total # None => total >= due.total

\* Partitions are reported without an owner only when they had none.
NoInventedGaps == unassigned # None => unassigned = due.gaps
=============================================================================
