---------------------------- MODULE GaugeProofs ----------------------------
(***************************************************************************)
(* Gauges that are read from the broker in pieces, and what is concluded   *)
(* from them: what the lag poller publishes (LagPoll), for every topic and *)
(* every number of appends, commits and failures, and what a capture that  *)
(* sees only such gauges may take as proven (CaptureProof), for every      *)
(* number of pollers, consumers' redeliveries and events.                  *)
(*                                                                         *)
(* LagPoll: a poll that has read the offsets knows a base for each         *)
(* partition it got; from then on the end only grows, so that end minus    *)
(* base is at least what was owed. The total is a sum over all partitions, *)
(* hence the lemmas on sums. They are proved by induction on subsets, from *)
(* the theorem that the subsets of a finite set are well-founded.          *)
(*                                                                         *)
(* CaptureProof: a poll that began after a cut has seen what was on the    *)
(* log at the cut, and an offset that the group has not left behind; a     *)
(* largest lag of zero is one of every poller, of such a one too.          *)
(***************************************************************************)
EXTENDS LagPoll, CaptureProof, FiniteSetTheorems, WellFoundedInduction, TLAPS

-----------------------------------------------------------------------------
(* Finite sets, their maximum and their sums.                              *)

\* What holds of a set as soon as it holds of its strict subsets holds of every
\* finite set. Good is the set of the subsets of which it holds.
LEMMA SubsetInduction ==
  ASSUME NEW S, IsFiniteSet(S), NEW Good,
         \A T \in SUBSET S : (\A V \in (SUBSET T) \ {T} : V \in Good) => T \in Good
  PROVE  S \in Good
  <1> DEFINE Bad == (SUBSET S) \ Good
             R == StrictSubsetOrdering(S)
  <1> SUFFICES ASSUME S \notin Good PROVE FALSE
    OBVIOUS
  <1>1. IsWellFoundedOn(R, SUBSET S)
    <2>1. FiniteSubsetsOf(S) = SUBSET S
      BY FS_FiniteSubsetsOfFinite
    <2>2. IsWellFoundedOn(R, FiniteSubsetsOf(S))
      BY FS_StrictSubsetOrderingWellFounded
    <2> QED
      BY <2>1, <2>2
  <1>2. Bad \subseteq SUBSET S /\ Bad # {}
    OBVIOUS
  <1> HIDE DEF R, Bad
  <1>3. PICK T \in Bad : \A V \in Bad : ~ (<<V, T>> \in R)
    BY <1>1, <1>2, WFMin
  <1>4. \A V \in (SUBSET T) \ {T} : <<V, T>> \in R /\ V \in SUBSET S
    BY <1>3 DEF R, Bad, StrictSubsetOrdering
  <1>5. \A V \in (SUBSET T) \ {T} : V \in Good
    BY <1>3, <1>4 DEF Bad
  <1> QED
    BY <1>3, <1>5 DEF Bad

\* Max is defined on finite sets that are not empty.
LEMMA MaxOfFinite ==
  ASSUME NEW S, IsFiniteSet(S), S \subseteq Int, S # {}
  PROVE  Max(S) \in S /\ \A y \in S : Max(S) >= y
  <1> DEFINE Good == {T \in SUBSET S : T = {} \/ \E x \in T : \A y \in T : x >= y}
  <1>1. ASSUME NEW T \in SUBSET S, \A V \in (SUBSET T) \ {T} : V \in Good
        PROVE  T \in Good
    <2>1. CASE T = {}
      BY <2>1
    <2>2. CASE T # {}
      <3>1. PICK x \in T : TRUE
        BY <2>2
      <3>2. T \ {x} \in Good
        BY <1>1, <3>1
      <3>3. CASE T \ {x} = {}
        <4>1. \A y \in T : y = x
          BY <3>3
        <4>2. x \in Int
          OBVIOUS
        <4> QED
          BY <4>1, <4>2
      <3>4. CASE T \ {x} # {}
        <4>1. PICK m \in T \ {x} : \A y \in T \ {x} : m >= y
          BY <3>2, <3>4
        <4>2. x \in Int /\ m \in Int /\ \A y \in T : y \in Int
          BY <4>1
        <4>3. CASE m >= x
          BY <4>1, <4>3
        <4>4. CASE ~ (m >= x)
          BY <4>1, <4>2, <4>4
        <4> QED
          BY <4>3, <4>4
      <3> QED
        BY <3>3, <3>4
    <2> QED
      BY <2>1, <2>2
  <1> HIDE DEF Good
  <1>2. S \in Good
    BY <1>1, SubsetInduction
  <1>3. \E x \in S : \A y \in S : x >= y
    BY <1>2 DEF Good
  <1> QED
    BY <1>3 DEF Max

\* MapThenSumSet takes the elements in the order of CHOOSE; Sums says of h that it
\* is the sum of g over each subset of S.
Pick(s) == CHOOSE x \in s : TRUE
Sums(h, g, S) ==
  h = [s \in SUBSET S |-> IF s = {} THEN 0 ELSE g[Pick(s)] + h[s \ {Pick(s)}]]

\* Unfolding at one subset.
LEMMA SumsUnfold ==
  ASSUME NEW h, NEW g, NEW S, Sums(h, g, S), NEW T \in SUBSET S
  PROVE  /\ T = {} => h[T] = 0
         /\ T # {} => /\ Pick(T) \in T
                      /\ h[T] = g[Pick(T)] + h[T \ {Pick(T)}]
                      /\ T \ {Pick(T)} \in (SUBSET T) \ {T}
                      /\ T \ {Pick(T)} \in SUBSET S
  <1>1. h[T] = IF T = {} THEN 0 ELSE g[Pick(T)] + h[T \ {Pick(T)}]
    BY DEF Sums
  <1>2. T # {} => Pick(T) \in T
    BY DEF Pick
  <1> QED
    BY <1>1, <1>2

\* A sum does not depend on the set over whose subsets it was taken.
LEMMA SumsAgree ==
  ASSUME NEW g, NEW h, NEW k, NEW V, NEW W, NEW S, IsFiniteSet(S), S \subseteq V, S \subseteq W,
         Sums(h, g, V), Sums(k, g, W)
  PROVE  h[S] = k[S]
  <1> DEFINE Good == {T \in SUBSET S : h[T] = k[T]}
  <1>1. ASSUME NEW T \in SUBSET S, \A U \in (SUBSET T) \ {T} : U \in Good
        PROVE  T \in Good
    <2>1. T \in SUBSET V /\ T \in SUBSET W
      OBVIOUS
    <2>2. CASE T = {}
      BY <2>1, <2>2, SumsUnfold
    <2>3. CASE T # {}
      <3>1. h[T] = g[Pick(T)] + h[T \ {Pick(T)}] /\ T \ {Pick(T)} \in (SUBSET T) \ {T}
        BY <2>1, <2>3, SumsUnfold
      <3>2. k[T] = g[Pick(T)] + k[T \ {Pick(T)}]
        BY <2>1, <2>3, SumsUnfold
      <3> QED
        BY <1>1, <3>1, <3>2
    <2> QED
      BY <2>2, <2>3
  <1> HIDE DEF Good
  <1>2. S \in Good
    BY <1>1, SubsetInduction
  <1> QED
    BY <1>2 DEF Good

\* The recursion defines a function on the subsets of every finite set.
LEMMA SumsExist ==
  ASSUME NEW g, NEW S, IsFiniteSet(S)
  PROVE  \E h : Sums(h, g, S)
  <1> DEFINE Good == {T \in SUBSET S : \E h : Sums(h, g, T)}
             The(T) == (CHOOSE h : Sums(h, g, T))[T]
             Glued(T) == [s \in SUBSET T |-> IF s = {} THEN 0 ELSE g[Pick(s)] + The(s \ {Pick(s)})]
  <1>1. ASSUME NEW T \in SUBSET S, \A U \in (SUBSET T) \ {T} : U \in Good
        PROVE  T \in Good
    <2>1. ASSUME NEW s \in (SUBSET T) \ {T}
          PROVE  Sums(CHOOSE h : Sums(h, g, s), g, s)
      BY <1>1
    <2>2. ASSUME NEW s \in (SUBSET T) \ {T}
          PROVE  The(s) = IF s = {} THEN 0 ELSE g[Pick(s)] + The(s \ {Pick(s)})
      <3> DEFINE h == CHOOSE h : Sums(h, g, s)
      <3>1. Sums(h, g, s)
        BY <2>1
      <3>2. CASE s = {}
        <4>1. h[s] = 0
          <5> HIDE DEF h
          <5> QED
            BY <3>1, <3>2, SumsUnfold
        <4>2. The(s) = h[s]
          OBVIOUS
        <4> HIDE DEF The, h
        <4> QED
          BY <3>2, <4>1, <4>2
      <3>3. CASE s # {}
        <4> DEFINE r == s \ {Pick(s)}
                   k == CHOOSE k : Sums(k, g, r)
        <4>1. h[s] = g[Pick(s)] + h[r] /\ r \in (SUBSET T) \ {T} /\ r \subseteq s
          <5> HIDE DEF h
          <5> QED
            BY <3>1, <3>3, SumsUnfold
        <4>2. Sums(k, g, r)
          BY <2>1, <4>1
        <4>3. IsFiniteSet(r)
          BY FS_Subset
        <4>4. h[r] = k[r]
          <5> HIDE DEF h, k
          <5> QED
            BY <3>1, <4>1, <4>2, <4>3, SumsAgree
        <4>5. The(s) = h[s] /\ The(r) = k[r]
          OBVIOUS
        <4> HIDE DEF The, h, k
        <4> QED
          BY <3>3, <4>1, <4>4, <4>5
      <3> QED
        BY <3>2, <3>3
    <2>3. Sums(Glued(T), g, T)
      <3>1. ASSUME NEW s \in SUBSET T, s # {}
            PROVE  Glued(T)[s \ {Pick(s)}] = The(s \ {Pick(s)})
        <4>1. Pick(s) \in s
          BY <3>1 DEF Pick
        <4>2. s \ {Pick(s)} \in (SUBSET T) \ {T}
          BY <4>1
        <4> HIDE DEF The
        <4> QED
          BY <2>2, <4>2
      <3> HIDE DEF The
      <3> QED
        BY <3>1 DEF Sums
    <2> QED
      BY <2>3
  <1> HIDE DEF Good
  <1>2. S \in Good
    BY <1>1, SubsetInduction
  <1> QED
    BY <1>2 DEF Good

\* What is smaller everywhere has the smaller sum.
LEMMA SumsMonotone ==
  ASSUME NEW S, IsFiniteSet(S), NEW f, NEW g, NEW h, NEW k, Sums(h, f, S), Sums(k, g, S),
         \A p \in S : f[p] \in Int /\ g[p] \in Int /\ f[p] <= g[p]
  PROVE  h[S] \in Int /\ k[S] \in Int /\ h[S] <= k[S]
  <1> DEFINE Good == {T \in SUBSET S : h[T] \in Int /\ k[T] \in Int /\ h[T] <= k[T]}
  <1>1. ASSUME NEW T \in SUBSET S, \A U \in (SUBSET T) \ {T} : U \in Good
        PROVE  T \in Good
    <2>1. CASE T = {}
      <3>1. h[T] = 0
        BY <2>1, SumsUnfold
      <3>2. k[T] = 0
        BY <2>1, SumsUnfold
      <3> QED
        BY <3>1, <3>2
    <2>2. CASE T # {}
      <3>1. /\ h[T] = f[Pick(T)] + h[T \ {Pick(T)}] /\ T \ {Pick(T)} \in (SUBSET T) \ {T}
            /\ Pick(T) \in S
        BY <2>2, SumsUnfold
      <3>2. k[T] = g[Pick(T)] + k[T \ {Pick(T)}]
        BY <2>2, SumsUnfold
      <3>3. T \ {Pick(T)} \in Good
        BY <1>1, <3>1
      <3> HIDE DEF Pick
      <3> QED
        BY <3>1, <3>2, <3>3
    <2> QED
      BY <2>1, <2>2
  <1> HIDE DEF Good
  <1>2. S \in Good
    BY <1>1, SubsetInduction
  <1> QED
    BY <1>2 DEF Good

-----------------------------------------------------------------------------
(* The lag poller.                                                         *)

\* Where a group with offset o goes on.
Base(p, o) == IF o < 0 THEN First[p] ELSE o

BrokerTypes ==
  /\ last \in [Partition -> Int]
  /\ committed \in [Partition -> Int]

PollTypes ==
  /\ calls \in 0 .. 3
  /\ offsets \in [Partition -> Int \cup {None}]
  /\ bounds \in [Partition -> Int \cup {None}]
  /\ owed \in [Partition -> Int]
  /\ lag \in [Partition -> Int \cup {None}]
  /\ total \in Int \cup {None}
  /\ due = [lags |-> due.lags, total |-> due.total, gaps |-> due.gaps]
  /\ due.lags \in [Partition -> Int]
  /\ due.total \in Int

\* The offsets are read first, and what was owed then is still on the log.
OffsetsRead ==
  /\ calls = 0 => \A p \in Partition : offsets[p] = None /\ bounds[p] = None
  /\ calls = 1 => \A p \in Partition : bounds[p] = None
  /\ \A p \in Partition : offsets[p] # None => owed[p] <= last[p] - Base(p, offsets[p])

\* The ends are read after them.
BoundsRead ==
  \A p \in Partition :
    offsets[p] # None /\ bounds[p] # None => owed[p] <= bounds[p] - Base(p, offsets[p])

CoverageRead == calls = 3 => coverage = gaps

Published == LagNeverUnderstates /\ TotalNeverUnderstates /\ NoInventedGaps

IInv == BrokerTypes /\ PollTypes /\ OffsetsRead /\ BoundsRead /\ CoverageRead
          /\ Published

-----------------------------------------------------------------------------
LEMMA Initially == Init => IInv
  <1> SUFFICES ASSUME Init PROVE IInv
    OBVIOUS
  <1>1. BrokerTypes
    BY FirstAssumption DEF Init, BrokerTypes
  <1>2. PollTypes
    BY DEF Init, PollTypes, Unread
  <1>3. OffsetsRead /\ BoundsRead /\ CoverageRead
    BY DEF Init, OffsetsRead, BoundsRead, CoverageRead, Unread
  <1>4. Published
    BY DEF Init, Published, LagNeverUnderstates,
         TotalNeverUnderstates, NoInventedGaps, Unread
  <1> QED
    BY <1>1, <1>2, <1>3, <1>4 DEF IInv

\* The broker's steps leave the poll alone, and the ends only grow.
LEMMA BrokerMoves ==
  ASSUME IInv, UNCHANGED <<calls, readVars, gauges>>, BrokerTypes',
         \A p \in Partition : last[p] <= last'[p]
  PROVE  IInv'
  <1>1. PollTypes' /\ BoundsRead' /\ CoverageRead' /\ Published'
    BY DEF IInv, PollTypes, BoundsRead, CoverageRead, Published, LagNeverUnderstates,
         TotalNeverUnderstates, NoInventedGaps,
           readVars, gauges, Base
  <1>2. OffsetsRead'
    BY FirstAssumption, BoundsAssumption
    DEF IInv, OffsetsRead, BrokerTypes, PollTypes, readVars, gauges, Base
  <1> QED
    BY <1>1, <1>2 DEF IInv

LEMMA ProducePreserves ==
  ASSUME IInv, NEW p \in Partition, Produce(p)
  PROVE  IInv'
  BY BrokerMoves DEF Produce, IInv, BrokerTypes

LEMMA CommitPreserves ==
  ASSUME IInv, NEW p \in Partition, CommitOffset(p)
  PROVE  IInv'
  <1>1. PICK o \in First[p] .. last[p] : committed' = [committed EXCEPT ![p] = o]
    BY DEF CommitOffset
  <1>2. o \in Int
    BY FirstAssumption DEF IInv, BrokerTypes
  <1> QED
    BY <1>1, <1>2, BrokerMoves DEF CommitOffset, IInv, BrokerTypes

LEMMA GroupPreserves ==
  ASSUME IInv, ChangeGroup
  PROVE  IInv'
  BY BrokerMoves DEF ChangeGroup, IInv, BrokerTypes

-----------------------------------------------------------------------------
LEMMA OffsetsPreserve ==
  ASSUME IInv, ReadOffsets
  PROVE  IInv'
  <1>1. calls = 0 /\ calls' = 1
    BY DEF ReadOffsets, Called, Calls, IInv, PollTypes
  <1>2. PICK ps \in SUBSET Partition :
          offsets' = [p \in Partition |-> IF p \in ps THEN committed[p] ELSE None]
    BY DEF ReadOffsets, Answers
  <1>3. owed' = [p \in Partition |-> Backlog(p)]
    BY DEF ReadOffsets
  <1>4. BrokerTypes' /\ PollTypes'
    BY <1>1, <1>2, <1>3, FirstAssumption
    DEF ReadOffsets, brokerVars, gauges, IInv, BrokerTypes, PollTypes, Backlog
  <1>5. OffsetsRead' /\ BoundsRead'
    <2>1. \A p \in Partition : bounds'[p] = None
      BY <1>1 DEF ReadOffsets, IInv, OffsetsRead
    <2>2. \A p \in Partition : offsets'[p] # None => owed'[p] <= last'[p] - Base(p, offsets'[p])
      BY <1>2, <1>3, FirstAssumption
      DEF ReadOffsets, brokerVars, Backlog, Base, IInv, BrokerTypes
    <2> QED
      BY <1>1, <2>1, <2>2 DEF OffsetsRead, BoundsRead, Base
  <1>6. CoverageRead' /\ Published'
    BY <1>1 DEF ReadOffsets, gauges, IInv, CoverageRead, Published, LagNeverUnderstates,
         TotalNeverUnderstates, NoInventedGaps
  <1> QED
    BY <1>4, <1>5, <1>6 DEF IInv

LEMMA BoundsPreserve ==
  ASSUME IInv, ReadBounds
  PROVE  IInv'
  <1>1. calls = 1 /\ calls' = 2
    BY DEF ReadBounds, Called, Calls, IInv, PollTypes
  <1>2. PICK ps \in SUBSET Partition :
          bounds' = [p \in Partition |-> IF p \in ps THEN last[p] ELSE None]
    BY DEF ReadBounds, Answers
  <1>3. BrokerTypes' /\ PollTypes'
    BY <1>1, <1>2 DEF ReadBounds, brokerVars, gauges, IInv, BrokerTypes, PollTypes
  <1>4. OffsetsRead'
    BY <1>1 DEF ReadBounds, brokerVars, IInv, OffsetsRead, Base
  <1>5. BoundsRead'
    BY <1>2 DEF ReadBounds, IInv, OffsetsRead, BoundsRead, Base
  <1>6. CoverageRead' /\ Published'
    BY <1>1 DEF ReadBounds, gauges, IInv, CoverageRead, Published, LagNeverUnderstates,
         TotalNeverUnderstates, NoInventedGaps
  <1> QED
    BY <1>3, <1>4, <1>5, <1>6 DEF IInv

LEMMA CoveragePreserves ==
  ASSUME IInv, ReadCoverage
  PROVE  IInv'
  <1>1. calls = 2 /\ calls' = 3
    BY DEF ReadCoverage, Called, Calls, IInv, PollTypes
  <1>2. coverage' = gaps'
    BY DEF ReadCoverage, Described
  <1>3. BrokerTypes' /\ PollTypes'
    BY <1>1 DEF ReadCoverage, brokerVars, gauges, IInv, BrokerTypes, PollTypes
  <1>4. OffsetsRead' /\ BoundsRead'
    BY <1>1 DEF ReadCoverage, brokerVars, IInv, OffsetsRead, BoundsRead, Base
  <1>5. CoverageRead' /\ Published'
    BY <1>2 DEF ReadCoverage, gauges, IInv, CoverageRead, Published, LagNeverUnderstates,
         TotalNeverUnderstates, NoInventedGaps
  <1> QED
    BY <1>3, <1>4, <1>5 DEF IInv

\* What is left of a poll when the next one begins.
LEMMA NextPollClears ==
  ASSUME NextPoll
  PROVE  OffsetsRead' /\ BoundsRead' /\ CoverageRead'
  BY DEF NextPoll, OffsetsRead, BoundsRead, CoverageRead, Unread

LEMMA FailurePreserves ==
  ASSUME IInv, RefreshFails
  PROVE  IInv'
  <1>1. NextPoll /\ UNCHANGED <<brokerVars, gauges>>
    BY DEF RefreshFails
  <1>2. BrokerTypes' /\ PollTypes'
    BY <1>1 DEF NextPoll, Unread, brokerVars, gauges, IInv, BrokerTypes, PollTypes
  <1>3. Published'
    BY <1>1 DEF gauges, IInv, Published, LagNeverUnderstates,
         TotalNeverUnderstates, NoInventedGaps
  <1> QED
    BY <1>1, <1>2, <1>3, NextPollClears DEF IInv

LEMMA LagForIsEnough ==
  ASSUME IInv, NEW p \in Readable
  PROVE  LagFor(p) \in Int /\ owed[p] <= LagFor(p)
  BY FirstAssumption, BoundsAssumption
  DEF Readable, LagFor, IInv, BoundsRead, PollTypes, Base

LEMMA TotalIsEnough ==
  ASSUME IInv, Readable = Partition
  PROVE  /\ MapThenSumSet(LagFor, Partition) \in Int
         /\ MapThenSumSet(LAMBDA p : owed[p], Partition) \in Int
         /\ MapThenSumSet(LAMBDA p : owed[p], Partition) <= MapThenSumSet(LagFor, Partition)
  <1> DEFINE lags == [p \in Partition |-> LagFor(p)]
             h == CHOOSE h : Sums(h, owed, Partition)
             k == CHOOSE k : Sums(k, lags, Partition)
  <1>1. /\ MapThenSumSet(LAMBDA p : owed[p], Partition) = h[Partition]
        /\ MapThenSumSet(LagFor, Partition) = k[Partition]
    <2>1. MapThenSumSet(LAMBDA p : owed[p], Partition) = h[Partition]
      BY DEF MapThenSumSet, MapThenFoldSet, Sums, Pick
    <2>2. MapThenSumSet(LagFor, Partition) = k[Partition]
      BY DEF MapThenSumSet, MapThenFoldSet, Sums, Pick
    <2> QED
      BY <2>1, <2>2
  <1>2. Sums(h, owed, Partition) /\ Sums(k, lags, Partition)
    BY PartitionAssumption, SumsExist
  <1>3. \A p \in Partition : owed[p] \in Int /\ lags[p] \in Int /\ owed[p] <= lags[p]
    BY LagForIsEnough DEF IInv, PollTypes
  <1> HIDE DEF lags, h, k
  <1>4. h[Partition] \in Int /\ k[Partition] \in Int /\ h[Partition] <= k[Partition]
    BY <1>2, <1>3, PartitionAssumption, SumsMonotone
  <1> QED
    BY <1>1, <1>4

LEMMA PublishPreserves ==
  ASSUME IInv, Publish
  PROVE  IInv'
  <1> DEFINE lags == [p \in Partition |-> IF p \in Readable THEN owed[p] ELSE due.lags[p]]
             t == MapThenSumSet(LagFor, Partition)
             d == MapThenSumSet(LAMBDA p : owed[p], Partition)
  <1>1. /\ NextPoll /\ UNCHANGED brokerVars
        /\ lag' = [p \in Partition |-> IF p \in Readable THEN LagFor(p) ELSE lag[p]]
    BY DEF Publish
  <1>2. CASE Readable = Partition
    <2>1. /\ total' = t /\ unassigned' = coverage
          /\ due' = [lags |-> lags, total |-> d, gaps |-> gaps]
      BY <1>2, Zenon DEF Publish
    <2>2. t \in Int /\ d \in Int /\ d <= t
      BY <1>2, TotalIsEnough
    <2> HIDE DEF t, d
    <2>3. due'.lags = lags /\ due'.total = d /\ due'.gaps = gaps
      BY <2>1
    <2>4. BrokerTypes' /\ PollTypes'
      BY <1>1, <2>1, <2>2, <2>3, LagForIsEnough
      DEF NextPoll, Unread, brokerVars, IInv, BrokerTypes, PollTypes
    <2>5. LagNeverUnderstates'
      BY <1>1, <2>3, LagForIsEnough DEF IInv, Published, LagNeverUnderstates
    <2>6. TotalNeverUnderstates'
      BY <2>1, <2>2, <2>3 DEF TotalNeverUnderstates
    <2>7. NoInventedGaps'
      BY <2>1, <2>3 DEF Publish, IInv, CoverageRead, NoInventedGaps
    <2> QED
      BY <1>1, <2>4, <2>5, <2>6, <2>7, NextPollClears DEF IInv, Published
  <1>3. CASE Readable # Partition
    <2>1. due' = [due EXCEPT !.lags = lags] /\ total' = total /\ unassigned' = unassigned
      BY <1>3, Zenon DEF Publish
    <2>2. due = [lags |-> due.lags, total |-> due.total, gaps |-> due.gaps]
      BY DEF IInv, PollTypes
    <2>3. due' = [lags |-> lags, total |-> due.total, gaps |-> due.gaps]
      BY <2>1, <2>2
    <2>4. due'.lags = lags /\ due'.total = due.total /\ due'.gaps = due.gaps
      BY <2>3
    <2>5. BrokerTypes' /\ PollTypes'
      BY <1>1, <2>1, <2>3, <2>4, LagForIsEnough
      DEF NextPoll, Unread, brokerVars, IInv, BrokerTypes, PollTypes
    <2>6. Published'
      BY <1>1, <2>1, <2>4, LagForIsEnough
      DEF IInv, Published, LagNeverUnderstates, TotalNeverUnderstates, NoInventedGaps
    <2> QED
      BY <1>1, <2>5, <2>6, NextPollClears DEF IInv
  <1> QED
    BY <1>2, <1>3

LEMMA StutterPreserves ==
  ASSUME IInv, UNCHANGED vars
  PROVE  IInv'
  BY DEF vars, IInv, BrokerTypes, PollTypes, OffsetsRead, BoundsRead, CoverageRead,
         Published, LagNeverUnderstates,
         TotalNeverUnderstates, NoInventedGaps, Base

THEOREM Invariance == Spec => []IInv
  <1>1. IInv /\ [Next]_vars => IInv'
    BY ProducePreserves, CommitPreserves, GroupPreserves, OffsetsPreserve, BoundsPreserve,
       CoveragePreserves, FailurePreserves, PublishPreserves, StutterPreserves
    DEF Next, Refresh
  <1> QED
    BY Initially, <1>1, PTL DEF Spec

\* For every partition the gauge is at least the backlog that the group had at a
\* moment of the poll that set it (LagPoller.Refresh reads offsets before ends).
THEOREM LagIsSound == Spec => []LagNeverUnderstates
  <1>1. IInv => LagNeverUnderstates
    BY DEF IInv, Published
  <1> QED
    BY Invariance, <1>1, PTL

\* The total is published only by a poll that could read every partition, and is
\* then at least the backlog that the group had at the moment at which that poll
\* read the offsets (LagPoller.Refresh, complete).
THEOREM TotalIsSound == Spec => []TotalNeverUnderstates
  <1>1. IInv => TotalNeverUnderstates
    BY DEF IInv, Published
  <1> QED
    BY Invariance, <1>1, PTL

\* The gauge of ownerless partitions is that of a settled group
\* (LagPoller.groupCoverage).
THEOREM GapsAreReal == Spec => []NoInventedGaps
  <1>1. IInv => NoInventedGaps
    BY DEF IInv, Published
  <1> QED
    BY Invariance, <1>1, PTL

\* The types of what the poll holds and shows, in bounds: offsets are on the log,
\* backlogs and lags are natural numbers, and the total is shown if and only if
\* the assignment is.
LEMMA TypesStart == Init => TypeOK
  BY FirstAssumption, BoundsAssumption DEF Init, TypeOK, Answer, Unread

LEMMA BrokerKeepsTypes ==
  ASSUME IInv, TypeOK,
         ChangeGroup \/ \E p \in Partition : Produce(p) \/ CommitOffset(p)
  PROVE  TypeOK'
  <1> USE FirstAssumption, BoundsAssumption
          DEF IInv, BrokerTypes, PollTypes, TypeOK, Answer, readVars, gauges
  <1>1. CASE ChangeGroup
    BY <1>1 DEF ChangeGroup
  <1>2. ASSUME NEW p \in Partition, Produce(p)
        PROVE  TypeOK'
    BY <1>2 DEF Produce
  <1>3. ASSUME NEW p \in Partition, CommitOffset(p)
        PROVE  TypeOK'
    BY <1>3 DEF CommitOffset
  <1> QED
    BY <1>1, <1>2, <1>3

LEMMA ReadsKeepTypes ==
  ASSUME IInv, TypeOK, ReadOffsets \/ ReadBounds \/ ReadCoverage
  PROVE  TypeOK'
  <1> USE FirstAssumption, BoundsAssumption
          DEF IInv, BrokerTypes, PollTypes, TypeOK, Answer, brokerVars, gauges
  <1>1. CASE ReadOffsets
    <2>1. PICK ps \in SUBSET Partition :
            offsets' = [p \in Partition |-> IF p \in ps THEN committed[p] ELSE None]
      BY <1>1 DEF ReadOffsets, Answers
    <2>2. owed' = [p \in Partition |-> Backlog(p)] /\ calls' = 1
      BY <1>1 DEF ReadOffsets, Called, Calls
    <2>3. \A p \in Partition : Backlog(p) \in Nat
      BY DEF Backlog
    <2> QED
      BY <1>1, <2>1, <2>2, <2>3 DEF ReadOffsets
  <1>2. CASE ReadBounds
    <2>1. PICK ps \in SUBSET Partition :
            bounds' = [p \in Partition |-> IF p \in ps THEN last[p] ELSE None]
      BY <1>2 DEF ReadBounds, Answers
    <2>2. calls' = 2
      BY <1>2 DEF ReadBounds, Called, Calls
    <2> QED
      BY <1>2, <2>1, <2>2 DEF ReadBounds
  <1>3. CASE ReadCoverage
    <2>1. coverage' # None
      BY <1>3, PartitionAssumption, FS_CardinalityType DEF ReadCoverage, Described, Ownerless
    <2>2. calls' = 3
      BY <1>3 DEF ReadCoverage, Called, Calls
    <2> QED
      BY <1>3, <2>1, <2>2 DEF ReadCoverage
  <1> QED
    BY <1>1, <1>2, <1>3

LEMMA RefreshKeepsTypes ==
  ASSUME IInv, TypeOK, RefreshFails \/ Publish
  PROVE  TypeOK'
  <1>1. NextPoll /\ UNCHANGED brokerVars
    BY DEF RefreshFails, Publish
  <1>2. CASE RefreshFails
    BY <1>1, <1>2, BoundsAssumption
    DEF RefreshFails, NextPoll, Unread, TypeOK, Answer, brokerVars, gauges, IInv, PollTypes
  <1>3. CASE Publish
    <2>1. \A p \in Readable : LagFor(p) \in Nat
      BY LagForIsEnough DEF LagFor
    <2>2. /\ lag' = [p \in Partition |-> IF p \in Readable THEN LagFor(p) ELSE lag[p]]
          /\ due'.lags = [p \in Partition |-> IF p \in Readable THEN owed[p] ELSE due.lags[p]]
      <3>1. CASE Readable = Partition
        <4>1. \E f, t : /\ due' = [lags |-> f, total |-> t, gaps |-> gaps]
                       /\ f = [p \in Partition |-> IF p \in Readable THEN owed[p] ELSE due.lags[p]]
          BY <1>3, <3>1, Zenon DEF Publish
        <4> QED
          BY <1>3, <4>1 DEF Publish
      <3>2. CASE Readable # Partition
        <4>1. due = [lags |-> due.lags, total |-> due.total, gaps |-> due.gaps]
          BY DEF IInv, PollTypes
        <4>2. \E f : due' = [due EXCEPT !.lags = f]
                   /\ f = [p \in Partition |-> IF p \in Readable THEN owed[p] ELSE due.lags[p]]
          BY <1>3, <3>2, Zenon DEF Publish
        <4>3. due'.lags = [p \in Partition |-> IF p \in Readable THEN owed[p] ELSE due.lags[p]]
          BY <4>1, <4>2
        <4> QED
          BY <1>3, <4>3 DEF Publish
      <3> QED
        BY <3>1, <3>2
    <2>3. total' = None <=> unassigned' = None
      <3>1. CASE Readable = Partition
        <4>1. total' # None
          BY <1>3, <3>1, TotalIsEnough, BoundsAssumption DEF Publish
        <4>2. unassigned' # None
          BY <1>3, <3>1 DEF Publish, TypeOK
        <4> QED
          BY <4>1, <4>2
      <3>2. CASE Readable # Partition
        BY <1>3, <3>2 DEF Publish, TypeOK
      <3> QED
        BY <3>1, <3>2
    <2> QED
      BY <1>1, <2>1, <2>2, <2>3 DEF NextPoll, Unread, TypeOK, Answer, brokerVars
  <1> QED
    BY <1>2, <1>3

\* Type correctness of the lag poller, the broker and the gauges.
THEOREM PollIsTyped == Spec => []TypeOK
  <1>1. IInv /\ TypeOK /\ UNCHANGED vars => TypeOK'
    BY DEF vars, TypeOK, Answer
  <1>2. IInv /\ TypeOK /\ [Next]_vars => TypeOK'
    BY <1>1, BrokerKeepsTypes, ReadsKeepTypes, RefreshKeepsTypes DEF Next, Refresh
  <1> QED
    BY TypesStart, Invariance, <1>2, PTL DEF Spec

-----------------------------------------------------------------------------
(* The capture.                                                            *)

Proving == {"setup", "baseline", "event", "finished", "slow", "mark", "load", "sample", "poison",
            "dead", "count", "pause", "gone", "replay", "resume", "resumed", "replayed", "final",
            "export"}
Replaying == {"resume", "resumed", "replayed", "final", "export"}
Over == {"cleanup", "ended"}

CaptureTypes ==
  /\ {ends, off, okCount, dlqCount, pods, cut, before, loadAt, submittedAt, resumedAt} \subseteq Nat
  /\ {slow, paused} \subseteq BOOLEAN
  /\ found \in [slow : BOOLEAN, paused : BOOLEAN]
  /\ poll \in [Ingest -> [stage : {"idle", "ends", "publish"}, off : Nat, ends : Nat, from : Nat]]
  /\ gauge \in [Ingest -> [off : Nat, ends : Nat, members : Nat, from : Nat, at : Nat]]
  /\ step \in Proving \cup Over
  /\ verdict \in {"none", "passed", "failed", "unrestored", "uncertain"}

\* The group is on the log, and who has stopped holds no record.
OnTheLog == off <= ends /\ (ahead => off < ends) /\ (pods = 0 => ~ahead)

\* No cut lies in the future.
CutsTaken ==
  /\ submittedAt <= cut /\ resumedAt <= cut
  /\ \A i \in Ingest : poll[i].from <= cut /\ gauge[i].from <= cut

\* The dead letter shows that the group has passed the cohort.
PastCohort ==
  /\ reset => step \in Replaying \cup Over
  /\ dlqCount > 0 /\ ~reset => off > Cohort
  /\ step \in {"count", "pause", "gone", "replay"} => dlqCount > 0
  /\ step \in {"gone", "replay"} => paused
  /\ step = "replay" => pods = 0

\* Offsets that were read before the reset are not beyond the group.
ReadBehind == ~reset => \A i \in Ingest : poll[i].off <= off /\ gauge[i].off <= off

\* A reading that began after the cut of the producers has the cohort.
CohortSeen ==
  submittedAt # 0 =>
    /\ AllPosted
    /\ \A i \in Ingest :
         /\ poll[i].stage = "publish" /\ poll[i].from >= submittedAt => poll[i].ends > Cohort
         /\ gauge[i].from >= submittedAt => gauge[i].ends > Cohort

\* A reading that began after the consumers' return is one of the group that
\* replays, over a log that no longer grows.
ReplaySeen ==
  resumedAt # 0 =>
    \A i \in Ingest :
      /\ poll[i].from >= resumedAt =>
           poll[i].off <= off /\ (poll[i].stage = "publish" => poll[i].ends = ends)
      /\ gauge[i].from >= resumedAt => gauge[i].off <= off /\ gauge[i].ends = ends
Returned ==
  /\ step \in {"replayed", "final", "export"} => resumedAt # 0
  /\ resumedAt # 0 => step \in {"replayed", "final", "export"} \cup Over

\* What has not been marked is as it was found, and marks are set only on a
\* cluster that was found at its baseline.
Marked ==
  /\ step # "ended" =>
       /\ "sink" \notin changed => (slow <=> found.slow)
       /\ "pause" \notin changed => (paused <=> found.paused)
  /\ step \in {"gone", "replay"} \cup Replaying => "pause" \in changed
  /\ changed # {} \/ step \notin {"setup", "baseline"} \cup Over => ~found.slow /\ ~found.paused
  /\ step \notin Over => verdict = "none"
  /\ step = "cleanup" => verdict \in {"none", "passed"}

\* What the broker, the consumers and the gauges are, and where the capture is.
World == OnTheLog /\ CutsTaken /\ ReadBehind /\ CohortSeen /\ ReplaySeen
Course == PastCohort /\ Returned /\ Marked /\ CountedOnce /\ CleanupRestores

CaptureInv == CaptureTypes /\ World /\ Course

-----------------------------------------------------------------------------
LEMMA CaptureStarts == CaptureInit => CaptureInv
  <1> SUFFICES ASSUME CaptureInit PROVE CaptureInv
    OBVIOUS
  <1>1. CaptureTypes
    <2>1. found \in [slow : BOOLEAN, paused : BOOLEAN] /\ {slow, paused} \subseteq BOOLEAN
      BY DEF CaptureInit, Controls
    <2> QED
      BY <2>1 DEF CaptureInit, CaptureTypes, NoPoll, Reading, Proving, Over
  <1>2. World
    BY DEF CaptureInit, World, OnTheLog, CutsTaken, ReadBehind, CohortSeen, ReplaySeen, NoPoll,
           Reading
  <1>3. Course
    <2>1. (slow <=> found.slow) /\ (paused <=> found.paused)
      BY DEF CaptureInit, Controls
    <2> QED
      BY <2>1 DEF CaptureInit, Course, PastCohort, Returned, Marked, CountedOnce, CleanupRestores,
                  Proving, Replaying, Over
  <1> QED
    BY <1>1, <1>2, <1>3 DEF CaptureInv

\* While the system moves, the capture is where it is.
LEMMA SystemKeepsCourse ==
  ASSUME CaptureInv, step # "ended", Capturing, UNCHANGED <<paused, slow>>,
         off > 0 => okCount' = okCount, dlqCount > 0 => dlqCount' > 0,
         dlqCount' > 0 /\ ~reset => off' > Cohort,
         step = "replay" => pods' = 0
  PROVE  Course'
  <1> USE DEF Capturing, markVars, CaptureInv, Course
  <1>1. PastCohort'
    BY DEF PastCohort
  <1>2. Returned'
    BY DEF Returned
  <1>3. Marked'
    BY DEF Marked
  <1>4. CountedOnce'
    <2>1. step \in {"pause", "gone", "replay"} => off > 0
      BY CaptureAssumption DEF CaptureTypes, PastCohort, Replaying, Over
    <2> QED
      BY <2>1 DEF CountedOnce, PastCohort
  <1>5. CleanupRestores'
    BY DEF CleanupRestores
  <1> QED
    BY <1>1, <1>2, <1>3, <1>4, <1>5

LEMMA DeliverPreserves ==
  ASSUME CaptureInv, step # "ended", Deliver
  PROVE  CaptureInv'
  <1> USE CaptureAssumption DEF Deliver, Capturing, clusterVars, metricVars, markVars
  <1>1. CaptureTypes'
    BY DEF CaptureInv, CaptureTypes
  <1>2. World'
    BY DEF CaptureInv, CaptureTypes, World, OnTheLog, CutsTaken, ReadBehind, CohortSeen, ReplaySeen,
           AllPosted
  <1>3. Course'
    <2>1. off > 0 => okCount' = okCount
      BY DEF CaptureInv, CaptureTypes, Event
    <2>2. dlqCount > 0 => dlqCount' > 0
      BY DEF CaptureInv, CaptureTypes
    <2>3. dlqCount' > 0 /\ ~reset => off' > Cohort
      BY DEF CaptureInv, CaptureTypes, Course, PastCohort, Poison
    <2>4. step = "replay" => pods' = 0
      BY DEF CaptureInv, Course, PastCohort
    <2> QED
      BY <2>1, <2>2, <2>3, <2>4, SystemKeepsCourse
  <1> QED
    BY <1>1, <1>2, <1>3 DEF CaptureInv

LEMMA CommitPreservesCapture ==
  ASSUME CaptureInv, step # "ended", Commit
  PROVE  CaptureInv'
  <1> USE CaptureAssumption DEF Commit, Capturing, clusterVars, metricVars, markVars
  <1>1. CaptureTypes'
    BY DEF CaptureInv, CaptureTypes
  <1>2. World'
    BY DEF CaptureInv, CaptureTypes, World, OnTheLog, CutsTaken, ReadBehind, CohortSeen, ReplaySeen,
           AllPosted
  <1>3. Course'
    <2>1. dlqCount' > 0 /\ ~reset => off' > Cohort
      BY DEF CaptureInv, CaptureTypes, Course, PastCohort
    <2>2. step = "replay" => pods' = 0
      BY DEF CaptureInv, Course, PastCohort
    <2> QED
      BY <2>1, <2>2, SystemKeepsCourse
  <1> QED
    BY <1>1, <1>2, <1>3 DEF CaptureInv

\* Nobody is started while the pause is on.
LEMMA ScalePreserves ==
  ASSUME CaptureInv, step # "ended", Scale
  PROVE  CaptureInv'
  <1> USE CaptureAssumption DEF Scale, Capturing, metricVars, markVars
  <1>1. CaptureTypes'
    BY DEF CaptureInv, CaptureTypes, Rebalance
  <1>2. World'
    BY DEF CaptureInv, CaptureTypes, World, OnTheLog, CutsTaken, ReadBehind, CohortSeen, ReplaySeen,
           AllPosted, Rebalance
  <1>3. Course'
    <2>1. step = "replay" => pods' = 0
      BY DEF CaptureInv, Course, PastCohort
    <2>2. dlqCount' > 0 /\ ~reset => off' > Cohort
      BY DEF CaptureInv, Course, PastCohort
    <2> QED
      BY <2>1, <2>2, SystemKeepsCourse
  <1> QED
    BY <1>1, <1>2, <1>3 DEF CaptureInv

\* What the pollers and Prometheus do changes nothing but the gauges.
LEMMA GaugesKeepCourse ==
  ASSUME CaptureInv, step # "ended", Capturing, UNCHANGED <<ends, groupVars, clusterVars>>
  PROVE  Course'
  <1>1. /\ UNCHANGED <<paused, slow, off, okCount, dlqCount, pods>>
    BY DEF groupVars, clusterVars
  <1>2. (dlqCount' > 0 /\ ~reset => off' > Cohort) /\ (step = "replay" => pods' = 0)
    BY <1>1 DEF CaptureInv, Course, PastCohort
  <1> QED
    BY <1>1, <1>2, SystemKeepsCourse

LEMMA ScrapePreserves ==
  ASSUME CaptureInv, step # "ended", Scrape
  PROVE  CaptureInv'
  <1>1. Course'
    BY GaugesKeepCourse DEF Scrape
  <1> USE DEF Scrape, Capturing, groupVars, clusterVars, markVars
  <1>2. CaptureTypes'
    BY DEF CaptureInv, CaptureTypes
  <1>3. World'
    BY DEF CaptureInv, World, OnTheLog, CutsTaken, ReadBehind, CohortSeen, ReplaySeen, AllPosted
  <1> QED
    BY <1>1, <1>2, <1>3 DEF CaptureInv

\* A reading begins with the group's offset of now.
LEMMA PollOffsetsPreserves ==
  ASSUME CaptureInv, step # "ended", NEW i \in Ingest, PollOffsets(i)
  PROVE  CaptureInv'
  <1>1. Course'
    BY GaugesKeepCourse DEF PollOffsets
  <1> USE DEF PollOffsets, Capturing, groupVars, clusterVars, markVars
  <1>2. CaptureTypes'
    BY DEF CaptureInv, CaptureTypes
  <1>3. World'
    BY DEF CaptureInv, CaptureTypes, World, OnTheLog, CutsTaken, ReadBehind, CohortSeen, ReplaySeen,
           AllPosted
  <1> QED
    BY <1>1, <1>2, <1>3 DEF CaptureInv

LEMMA PollEndsPreserves ==
  ASSUME CaptureInv, step # "ended", NEW i \in Ingest, PollEnds(i)
  PROVE  CaptureInv'
  <1>1. Course'
    BY GaugesKeepCourse DEF PollEnds
  <1> USE DEF PollEnds, Capturing, groupVars, clusterVars, markVars
  <1>2. CaptureTypes'
    BY DEF CaptureInv, CaptureTypes
  <1>3. World'
    <2>1. \A j \in Ingest :
            /\ poll'[j].off = poll[j].off /\ poll'[j].from = poll[j].from
            /\ poll'[j].ends = ends \/ poll'[j] = poll[j]
      BY DEF CaptureInv, CaptureTypes
    <2>2. OnTheLog' /\ UNCHANGED <<ends, off, cut, submittedAt, resumedAt, gauge>>
      BY DEF CaptureInv, World, OnTheLog
    <2>3. CutsTaken' /\ ReadBehind'
      BY <2>1, <2>2 DEF CaptureInv, World, CutsTaken, ReadBehind
    <2>4. CohortSeen'
      BY <2>1, <2>2, CaptureAssumption DEF CaptureInv, CaptureTypes, World, CohortSeen, AllPosted
    <2>5. ReplaySeen'
      BY <2>1, <2>2 DEF CaptureInv, World, ReplaySeen
    <2> QED
      BY <2>2, <2>3, <2>4, <2>5 DEF World
  <1> QED
    BY <1>1, <1>2, <1>3 DEF CaptureInv

\* The gauge takes over what the reading was known to be.
LEMMA PollPublishesPreserves ==
  ASSUME CaptureInv, step # "ended", NEW i \in Ingest, PollPublishes(i)
  PROVE  CaptureInv'
  <1>1. Course'
    BY GaugesKeepCourse DEF PollPublishes
  <1> USE DEF PollPublishes, Capturing, groupVars, clusterVars, markVars, NoPoll, Reading
  <1>2. CaptureTypes'
    BY DEF CaptureInv, CaptureTypes
  <1>3. World'
    <2>1. \A j \in Ingest :
            \/ j = i /\ poll'[j] = NoPoll /\ gauge'[j].off = poll[j].off
                     /\ gauge'[j].ends = poll[j].ends /\ gauge'[j].from = poll[j].from
                     /\ poll[j].stage = "publish"
            \/ poll'[j] = poll[j] /\ gauge'[j] = gauge[j]
      BY DEF CaptureInv, CaptureTypes
    <2>2. OnTheLog' /\ UNCHANGED <<ends, off, cut, submittedAt, resumedAt>>
      BY DEF CaptureInv, World, OnTheLog
    <2>3. CutsTaken'
      BY <2>1, <2>2 DEF CaptureInv, CaptureTypes, World, CutsTaken
    <2>4. ReadBehind'
      BY <2>1, <2>2 DEF CaptureInv, CaptureTypes, World, ReadBehind
    <2>5. CohortSeen'
      BY <2>1, <2>2 DEF CaptureInv, CaptureTypes, World, CohortSeen, AllPosted
    <2>6. ReplaySeen'
      BY <2>1, <2>2 DEF CaptureInv, CaptureTypes, World, ReplaySeen
    <2> QED
      BY <2>2, <2>3, <2>4, <2>5, <2>6 DEF World
  <1> QED
    BY <1>1, <1>2, <1>3 DEF CaptureInv

LEMMA SystemPreserves ==
  ASSUME CaptureInv, step # "ended", System
  PROVE  CaptureInv'
  BY DeliverPreserves, CommitPreservesCapture, ScalePreserves, ScrapePreserves,
     PollOffsetsPreserves, PollEndsPreserves, PollPublishesPreserves
  DEF System

-----------------------------------------------------------------------------
\* Steps of the capture that change neither the group nor a gauge nor a cut.
LEMMA QuietKeepsWorld ==
  ASSUME CaptureInv,
         UNCHANGED <<groupVars, metricVars, pods, ends, cut, submittedAt, resumedAt, reset>>
  PROVE  World'
  BY DEF CaptureInv, World, OnTheLog, CutsTaken, ReadBehind, CohortSeen, ReplaySeen, AllPosted,
         groupVars, metricVars

\* Where a step leads, as far as what is proved asks for it.
MayGo(s) ==
  /\ s \in Proving \cup {"cleanup"}
  /\ reset => s \in Replaying \cup Over
  /\ s \in {"count", "pause", "gone", "replay"} => dlqCount > 0
  /\ s \in {"gone", "replay"} => paused
  /\ s \in {"gone", "replay"} \cup Replaying => "pause" \in changed
  /\ s = "replay" => pods = 0
  /\ s \in {"pause", "gone", "replay"} => okCount = before
  /\ s \in {"replayed", "final", "export"} => resumedAt # 0
  /\ resumedAt # 0 => s \in {"replayed", "final", "export"} \cup Over
  /\ s \notin {"setup", "baseline"} \cup Over => ~found.slow /\ ~found.paused
  /\ s \notin Over => verdict = "none"

\* Steps that only go on.
LEMMA KeepPreserves ==
  ASSUME CaptureInv, Keep, step # "ended", verdict \in {"none", "passed"}, MayGo(step')
  PROVE  CaptureInv'
  <1> USE DEF Keep, Watching, clusterVars, markVars
  <1>1. CaptureTypes'
    BY DEF CaptureInv, CaptureTypes, groupVars, metricVars, MayGo, Over
  <1>2. World'
    BY QuietKeepsWorld
  <1>3. Course'
    BY DEF CaptureInv, Course, PastCohort, Returned, Marked, CountedOnce, CleanupRestores,
           groupVars, MayGo, Proving, Replaying, Over
  <1> QED
    BY <1>1, <1>2, <1>3 DEF CaptureInv

Waits ==
  \/ Setup \/ Baseline \/ Delivered \/ SamplePending \/ DeadLettered \/ PodsGone \/ Replayed
  \/ Final \/ Fail

LEMMA WaitsPreserve ==
  ASSUME CaptureInv, Waits
  PROVE  CaptureInv'
  <1> USE DEF Waits, CaptureInv, Course, Go
  <1>1. Keep /\ step \in Proving
    BY DEF Setup, Baseline, Delivered, SamplePending, DeadLettered, PodsGone, Replayed, Final, Fail,
           Proving
  <1>2. verdict = "none" /\ step # "ended"
    BY <1>1 DEF Marked, Proving, Over
  <1>3. MayGo(step')
    <2> USE DEF MayGo, PastCohort, Returned, Marked, CountedOnce, Proving, Replaying, Over
    <2>1. CASE Setup
      BY <1>2, <2>1 DEF Setup
    <2>2. CASE Baseline
      BY <1>2, <2>2 DEF Baseline
    <2>3. CASE Delivered
      BY <1>2, <2>3 DEF Delivered
    <2>4. CASE SamplePending
      BY <1>2, <2>4 DEF SamplePending
    <2>5. CASE DeadLettered
      BY <1>2, <2>5 DEF DeadLettered
    <2>6. CASE PodsGone
      BY <1>2, <2>6 DEF PodsGone
    <2>7. CASE Replayed
      BY <1>2, <2>7 DEF Replayed
    <2>8. CASE Final
      BY <1>2, <2>8 DEF Final
    <2>9. CASE Fail
      BY <1>2, <2>9 DEF Fail
    <2> QED
      BY <2>1, <2>2, <2>3, <2>4, <2>5, <2>6, <2>7, <2>8, <2>9
  <1> QED
    BY <1>1, <1>2, <1>3, KeepPreserves

\* A record is appended before the replay.
LEMMA PostsPreserve ==
  ASSUME CaptureInv, PostEvent \/ Post \/ PostPoison
  PROVE  CaptureInv'
  <1> USE CaptureAssumption
          DEF PostEvent, Post, PostPoison, Watching, groupVars, clusterVars, metricVars, markVars
  <1>1. /\ UNCHANGED <<off, pods, ahead, poll, gauge, cut, submittedAt, resumedAt, reset>>
        /\ ends' = ends + 1
    OBVIOUS
  <1>2. resumedAt = 0
    BY DEF CaptureInv, CaptureTypes, Course, Returned, Over
  <1>3. CaptureTypes'
    BY DEF CaptureInv, CaptureTypes, Proving, Over, Go
  <1>4. World'
    BY <1>1, <1>2 DEF CaptureInv, CaptureTypes, World, OnTheLog, CutsTaken,
                       ReadBehind, CohortSeen, ReplaySeen, AllPosted
  <1>5. Course'
    BY DEF CaptureInv, Course, PastCohort, Returned, Marked, CountedOnce, CleanupRestores,
           Proving, Replaying, Over, Go
  <1> QED
    BY <1>3, <1>4, <1>5 DEF CaptureInv

LEMMA ExportPreserves ==
  ASSUME CaptureInv, ExportLogs
  PROVE  CaptureInv'
  <1> USE DEF ExportLogs, Watching, clusterVars, markVars, Go
  <1>1. CaptureTypes'
    BY DEF CaptureInv, CaptureTypes, groupVars, metricVars, Over
  <1>2. World'
    BY QuietKeepsWorld
  <1>3. Course'
    BY DEF CaptureInv, Course, PastCohort, Returned, Marked, CountedOnce, CleanupRestores,
           groupVars, Proving, Replaying, Over
  <1> QED
    BY <1>1, <1>2, <1>3 DEF CaptureInv

LEMMA CountPreserves ==
  ASSUME CaptureInv, Count
  PROVE  CaptureInv'
  <1> USE DEF Count, Counted, Watching, clusterVars, markVars, Go
  <1>1. CaptureTypes'
    BY DEF CaptureInv, CaptureTypes, groupVars, metricVars, Proving
  <1>2. World'
    BY QuietKeepsWorld
  <1>3. Course'
    BY DEF CaptureInv, Course, PastCohort, Returned, Marked, CountedOnce, CleanupRestores,
           groupVars, Proving, Replaying, Over
  <1> QED
    BY <1>1, <1>2, <1>3 DEF CaptureInv

\* A control is marked before it is written, so that a write which fails leaves
\* nothing unmarked.
LEMMA SlowSinkPreserves ==
  ASSUME CaptureInv, SlowSink
  PROVE  CaptureInv'
  <1>1. PICK ok \in BOOLEAN : Wrote(ok, "mark") /\ slow' \in After(ok, TRUE)
    BY DEF SlowSink
  <1>2. step = "slow" /\ step' \in {"mark", "cleanup"} /\ slow' \in BOOLEAN
    BY <1>1 DEF SlowSink, Wrote, After, Go
  <1>3. changed' = changed \cup {"sink"}
    BY DEF SlowSink, Marks
  <1> USE DEF SlowSink, Watching, clusterVars, markVars
  <1>4. CaptureTypes'
    BY <1>2 DEF CaptureInv, CaptureTypes, groupVars, metricVars, Proving, Over
  <1>5. World'
    BY QuietKeepsWorld
  <1>6. Course'
    BY <1>2, <1>3
    DEF CaptureInv, Course, PastCohort, Returned, Marked, CountedOnce, CleanupRestores,
        groupVars, Proving, Replaying, Over
  <1> QED
    BY <1>4, <1>5, <1>6 DEF CaptureInv

LEMMA PausePreserves ==
  ASSUME CaptureInv, Pause
  PROVE  CaptureInv'
  <1>1. PICK ok \in BOOLEAN : Wrote(ok, "gone") /\ paused' \in After(ok, TRUE)
    BY DEF Pause
  <1>2. /\ step = "pause" /\ paused' \in BOOLEAN
        /\ (step' = "gone" /\ paused') \/ step' = "cleanup"
    BY <1>1 DEF Pause, Wrote, After, Go
  <1>3. changed' = changed \cup {"pause"}
    BY DEF Pause, Marks
  <1> USE DEF Pause, Watching, clusterVars, markVars
  <1>4. CaptureTypes'
    BY <1>2 DEF CaptureInv, CaptureTypes, groupVars, metricVars, Proving, Over
  <1>5. World'
    BY QuietKeepsWorld
  <1>6. Course'
    BY <1>2, <1>3
    DEF CaptureInv, Course, PastCohort, Returned, Marked, CountedOnce, CleanupRestores,
        groupVars, Proving, Replaying, Over
  <1> QED
    BY <1>4, <1>5, <1>6 DEF CaptureInv

LEMMA ResumePreserves ==
  ASSUME CaptureInv, Resume
  PROVE  CaptureInv'
  <1>1. PICK ok \in BOOLEAN : Wrote(ok, "resumed") /\ paused' \in After(ok, FALSE)
    BY DEF Resume
  <1>2. step = "resume" /\ step' \in {"resumed", "cleanup"} /\ paused' \in BOOLEAN
    BY <1>1 DEF Resume, Wrote, After, Go
  <1> USE DEF Resume, Watching, clusterVars, markVars
  <1>4. CaptureTypes'
    BY <1>2 DEF CaptureInv, CaptureTypes, groupVars, metricVars, Proving, Over
  <1>5. World'
    BY QuietKeepsWorld
  <1>6. Course'
    BY <1>2
    DEF CaptureInv, Course, PastCohort, Returned, Marked, CountedOnce, CleanupRestores,
        groupVars, Proving, Replaying, Over
  <1> QED
    BY <1>4, <1>5, <1>6 DEF CaptureInv

-----------------------------------------------------------------------------
\* A new cut lies after every reading that has begun.
LEMMA LoadStartedPreserves ==
  ASSUME CaptureInv, LoadStarted
  PROVE  CaptureInv'
  <1> USE DEF LoadStarted, Cut, Go, Watching, groupVars, clusterVars, metricVars
  <1>1. CaptureTypes'
    BY DEF CaptureInv, CaptureTypes, Proving
  <1>2. World'
    BY DEF CaptureInv, CaptureTypes, World, OnTheLog, CutsTaken, ReadBehind, CohortSeen, ReplaySeen,
           AllPosted
  <1>3. Course'
    BY DEF CaptureInv, Course, PastCohort, Returned, Marked, CountedOnce, CleanupRestores,
           Proving, Replaying, Over
  <1> QED
    BY <1>1, <1>2, <1>3 DEF CaptureInv

LEMMA BeginIterationPreserves ==
  ASSUME CaptureInv, BeginIteration
  PROVE  CaptureInv'
  <1> USE DEF BeginIteration, Cut, Go, Watching, groupVars, clusterVars, metricVars
  <1>1. CaptureTypes'
    BY DEF CaptureInv, CaptureTypes, Proving
  <1>2. World'
    <2>1. CASE AllPosted /\ cut' = cut + 1 /\ submittedAt' = cut'
      BY <2>1, CaptureAssumption
      DEF CaptureInv, CaptureTypes, World, OnTheLog, CutsTaken, ReadBehind, CohortSeen, ReplaySeen,
          AllPosted
    <2>2. CASE UNCHANGED <<cut, submittedAt>>
      BY <2>2, QuietKeepsWorld
    <2> QED
      BY <2>1, <2>2
  <1>3. Course'
    BY DEF CaptureInv, Course, PastCohort, Returned, Marked, CountedOnce, CleanupRestores,
           Proving, Replaying, Over
  <1> QED
    BY <1>1, <1>2, <1>3 DEF CaptureInv

LEMMA ResumedPreserves ==
  ASSUME CaptureInv, Resumed
  PROVE  CaptureInv'
  <1> USE DEF Resumed, Cut, Go, Watching, groupVars, clusterVars, metricVars
  <1>1. CaptureTypes'
    BY DEF CaptureInv, CaptureTypes, Proving
  <1>2. World'
    BY DEF CaptureInv, CaptureTypes, World, OnTheLog, CutsTaken, ReadBehind, CohortSeen, ReplaySeen,
           AllPosted
  <1>3. Course'
    BY DEF CaptureInv, CaptureTypes, Course, PastCohort, Returned, Marked, CountedOnce,
           CleanupRestores, Proving, Replaying, Over
  <1> QED
    BY <1>1, <1>2, <1>3 DEF CaptureInv

\* A sample may release the sink.
LEMMA SampleSeenPreserves ==
  ASSUME CaptureInv, SampleSeen
  PROVE  CaptureInv'
  <1>1. /\ step = "sample" /\ step' \in {"load", "poison", "cleanup"}
        /\ ~slow' \/ slow' = slow
    BY DEF SampleSeen, Go
  <1> USE DEF SampleSeen, Watching
  <1>2. CaptureTypes'
    BY <1>1 DEF CaptureInv, CaptureTypes, groupVars, metricVars, Proving, Over
  <1>3. World'
    BY QuietKeepsWorld
  <1>4. Course'
    BY <1>1
    DEF CaptureInv, Course, PastCohort, Returned, Marked, CountedOnce, CleanupRestores,
        groupVars, Proving, Replaying, Over
  <1> QED
    BY <1>2, <1>3, <1>4 DEF CaptureInv

\* The offsets go back while nobody consumes.
LEMMA ReplayJobPreserves ==
  ASSUME CaptureInv, ReplayJob
  PROVE  CaptureInv'
  <1> USE DEF ReplayJob, Go, clusterVars, metricVars, markVars
  <1>1. CaptureTypes'
    BY DEF CaptureInv, CaptureTypes, Proving
  <1>2. ~ahead /\ resumedAt = 0
    BY DEF CaptureInv, CaptureTypes, World, OnTheLog, Course, PastCohort, Returned, Over
  <1>3. World'
    BY <1>2, CaptureAssumption
    DEF CaptureInv, CaptureTypes, World, OnTheLog, CutsTaken, ReadBehind, CohortSeen, ReplaySeen,
        AllPosted
  <1>4. Course'
    BY DEF CaptureInv, Course, PastCohort, Returned, Marked, CountedOnce, CleanupRestores,
           Proving, Replaying, Over
  <1> QED
    BY <1>1, <1>3, <1>4 DEF CaptureInv

\* What is marked was found off, and what is not marked is as it was found.
LEMMA CleanUpPreserves ==
  ASSUME CaptureInv, CleanUp
  PROVE  CaptureInv'
  <1> USE DEF CleanUp, Go, Watching, markVars
  <1>1. verdict' \in {"passed", "failed", "unrestored"} /\ (verdict' = "passed" => Restored')
    BY DEF CaptureInv, Course, Marked
  <1>2. {slow', paused'} \subseteq BOOLEAN
    BY DEF CaptureInv, CaptureTypes
  <1>3. CaptureTypes'
    BY <1>1, <1>2 DEF CaptureInv, CaptureTypes, groupVars, metricVars, Over
  <1>4. World'
    BY QuietKeepsWorld
  <1>5. (slow' <=> found.slow) /\ (paused' <=> found.paused)
    BY DEF CaptureInv, Course, Marked
  <1>6. CleanupRestores'
    <2>1. Controls' = found'
      BY <1>2, <1>5 DEF CaptureInv, CaptureTypes, Controls
    <2> QED
      BY <1>1, <2>1 DEF CleanupRestores
  <1>7. Course'
    BY <1>6
    DEF CaptureInv, Course, PastCohort, Returned, Marked, CountedOnce, groupVars, Proving,
        Replaying, Over
  <1> QED
    BY <1>3, <1>4, <1>7 DEF CaptureInv

LEMMA CleanUpFailsPreserves ==
  ASSUME CaptureInv, CleanUpFails
  PROVE  CaptureInv'
  <1> USE DEF CleanUpFails, Go, Watching, markVars
  <1>1. {slow', paused'} \subseteq BOOLEAN
    BY DEF CaptureInv, CaptureTypes
  <1>2. CaptureTypes'
    BY <1>1 DEF CaptureInv, CaptureTypes, groupVars, metricVars, Over
  <1>3. World'
    BY QuietKeepsWorld
  <1>4. Course'
    BY DEF CaptureInv, Course, PastCohort, Returned, Marked, CountedOnce, CleanupRestores,
           groupVars, Proving, Replaying, Over
  <1> QED
    BY <1>2, <1>3, <1>4 DEF CaptureInv

-----------------------------------------------------------------------------
LEMMA ProofPreserves ==
  ASSUME CaptureInv, Proof
  PROVE  CaptureInv'
  BY WaitsPreserve, PostsPreserve, ExportPreserves, CountPreserves, SlowSinkPreserves,
     PausePreserves, ResumePreserves, LoadStartedPreserves, BeginIterationPreserves,
     ResumedPreserves, SampleSeenPreserves, ReplayJobPreserves, CleanUpPreserves, CleanUpFailsPreserves
  DEF Proof, Waits

LEMMA CaptureStutterPreserves ==
  ASSUME CaptureInv, UNCHANGED captureVars
  PROVE  CaptureInv'
  <1> USE DEF captureVars, clusterVars, markVars
  <1>1. CaptureTypes'
    BY DEF CaptureInv, CaptureTypes, groupVars, metricVars
  <1>2. World'
    BY QuietKeepsWorld
  <1>3. Course'
    BY DEF CaptureInv, Course, PastCohort, Returned, Marked, CountedOnce, CleanupRestores, Controls,
           Restored, groupVars
  <1> QED
    BY <1>1, <1>2, <1>3 DEF CaptureInv

\* The inductive invariant of the capture (Capture.proof, capture_replay,
\* cleanup_local): what the gauges show of the group, and what each of the
\* capture's cuts, marks and counts says of them.
THEOREM CaptureInvariance == CaptureSpec => []CaptureInv
  <1>1. CaptureInv /\ [CaptureNext]_captureVars => CaptureInv'
    BY SystemPreserves, ProofPreserves, CaptureStutterPreserves DEF CaptureNext
  <1> QED
    BY CaptureStarts, <1>1, PTL DEF CaptureSpec

\* Between the count and the reset no delivery of the event can come, however
\* many consumers are being stopped: the group is past it (capture_replay).
THEOREM ReplayCountsOnce == CaptureSpec => []CountedOnce
  <1>1. CaptureInv => CountedOnce
    BY DEF CaptureInv, Course
  <1> QED
    BY CaptureInvariance, <1>1, PTL

\* A cleanup whose commands succeed leaves latency and pause as the capture found
\* them, and a pass is reported only of a restored cluster (cleanup_local).
THEOREM CleanupIsComplete == CaptureSpec => []CleanupRestores
  <1>1. CaptureInv => CleanupRestores
    BY DEF CaptureInv, Course
  <1> QED
    BY CaptureInvariance, <1>1, PTL

\* A lag of zero is a lag of zero on every poller (QUERIES takes the largest).
LEMMA NoLagAnywhere ==
  ASSUME CaptureTypes, Lag = 0, NEW i \in Ingest
  PROVE  gauge[i].ends <= gauge[i].off
  <1> DEFINE lagOf == [j \in Ingest |-> gauge[j].ends - gauge[j].off]
             lags == {gauge[j].ends - gauge[j].off : j \in Ingest}
  <1>1. IsFiniteSet(lags)
    <2>1. lagOf \in Surjection(Ingest, lags)
      BY DEF Surjection
    <2> HIDE DEF lagOf, lags
    <2> QED
      BY <2>1, CaptureAssumption, FS_Surjection
  <1>2. \A j \in Ingest : gauge[j].ends \in Nat /\ gauge[j].off \in Nat
    BY DEF CaptureTypes
  <1>3. lags \subseteq Int /\ gauge[i].ends - gauge[i].off \in lags
    BY <1>2
  <1>4. Lag = Max(lags \cup {0})
    BY DEF Lag
  <1> HIDE DEF lags
  <1>5. IsFiniteSet(lags \cup {0})
    BY <1>1, FS_AddElement
  <1>6. \A y \in lags \cup {0} : Max(lags \cup {0}) >= y
    <2>1. lags \cup {0} \subseteq Int /\ lags \cup {0} # {}
      BY <1>3
    <2> QED
      BY <1>5, <2>1, MaxOfFinite
  <1>7. 0 >= gauge[i].ends - gauge[i].off
    BY <1>3, <1>4, <1>6
  <1> QED
    BY <1>2, <1>7

\* A fresh sample is not only of polls that had begun before the cut, or they
\* all straddle it.
LEMMA SomePollAfter ==
  ASSUME CaptureTypes, NEW k \in Nat, Fresh(k), ~Straddles(k)
  PROVE  \E i \in Ingest : gauge[i].from >= k
  BY DEF CaptureTypes, Fresh, Straddles

LEMMA LoadSettles ==
  ASSUME CaptureInv, SampleSeen, step' = "poison", ~Straddles(submittedAt)
  PROVE  off > Cohort
  <1>1. step = "sample" /\ MaySettle /\ Fresh(submittedAt)
    BY DEF SampleSeen, Go, MaySettle, Boundary
  <1>2. submittedAt \in Nat /\ submittedAt # 0 /\ Lag = 0
    BY <1>1 DEF MaySettle, CaptureInv, CaptureTypes
  <1>3. PICK i \in Ingest : gauge[i].from >= submittedAt
    BY <1>1, <1>2, SomePollAfter DEF CaptureInv
  <1>4. gauge[i].ends > Cohort
    BY <1>2, <1>3 DEF CaptureInv, World, CohortSeen
  <1>5. gauge[i].ends <= gauge[i].off
    BY <1>2, NoLagAnywhere DEF CaptureInv
  <1>6. gauge[i].off <= off
    BY <1>1 DEF CaptureInv, World, ReadBehind, Course, PastCohort, Replaying, Over
  <1> QED
    BY <1>4, <1>5, <1>6, CaptureAssumption DEF CaptureInv, CaptureTypes

LEMMA ReplaySettles ==
  ASSUME CaptureInv, Final, ~Straddles(resumedAt)
  PROVE  off = ends
  <1>1. step = "final" /\ Fresh(resumedAt) /\ Lag = 0
    BY DEF Final, ReplayDrained, Drained
  <1>2. resumedAt \in Nat /\ resumedAt # 0
    BY <1>1 DEF CaptureInv, CaptureTypes, Course, Returned
  <1>3. PICK i \in Ingest : gauge[i].from >= resumedAt
    BY <1>1, <1>2, SomePollAfter DEF CaptureInv
  <1>4. gauge[i].off <= off /\ gauge[i].ends = ends
    BY <1>2, <1>3 DEF CaptureInv, World, ReplaySeen
  <1>5. gauge[i].ends <= gauge[i].off
    BY <1>1, NoLagAnywhere DEF CaptureInv
  <1>6. ends \in Nat /\ off \in Nat /\ gauge[i].off \in Nat /\ off <= ends
    BY DEF CaptureInv, CaptureTypes, World, OnTheLog
  <1> QED
    BY <1>4, <1>5, <1>6

\* Only one step leads from a sample to the poison record, and one from the last
\* sample of the replay to the export.
LEMMA WhoSettles ==
  ASSUME [CaptureNext]_captureVars
  PROVE  /\ step = "sample" /\ step' = "poison" => SampleSeen
         /\ step = "final" /\ step' = "export" => Final
  <1> USE DEF Go
  <1>1. CASE System
    BY <1>1
    DEF System, Capturing, Deliver, Commit, Scale, Scrape, PollOffsets, PollEnds, PollPublishes
  <1>2. CASE Proof
    <2>1. CASE Waits
      <3>1. Final => step = "final"
        BY DEF Final
      <3> QED
        BY <2>1, <3>1
        DEF Waits, Setup, Baseline, Delivered, SamplePending, DeadLettered, PodsGone, Replayed,
            Fail
    <2>2. CASE PostEvent \/ Post \/ PostPoison
      BY <2>2 DEF PostEvent, Post, PostPoison
    <2>3. CASE SlowSink \/ Pause \/ Resume \/ ReplayJob \/ ExportLogs
      BY <2>3 DEF SlowSink, Pause, Resume, ReplayJob, ExportLogs
    <2>4. CASE LoadStarted \/ BeginIteration \/ Count \/ Resumed
      BY <2>4 DEF LoadStarted, BeginIteration, Count, Resumed
    <2>5. CASE CleanUp \/ CleanUpFails
      BY <2>5 DEF CleanUp, CleanUpFails
    <2>6. CASE SampleSeen
      BY <2>6 DEF SampleSeen
    <2> QED
      BY <1>2, <2>1, <2>2, <2>3, <2>4, <2>5, <2>6 DEF Proof, Waits
  <1>3. CASE UNCHANGED captureVars
    BY <1>3 DEF captureVars
  <1> QED
    BY <1>1, <1>2, <1>3 DEF CaptureNext

\* The load proof ends only when the group has consumed the whole cohort, unless
\* every poll of the sample had begun before the producers were done (sample,
\* Boundary).
THEOREM LoadIsDrained == CaptureSpec => DrainedMeansConsumed
  <1>1. CaptureInv /\ [CaptureNext]_captureVars =>
          [step = "sample" /\ step' = "poison"
             => off > Cohort \/ Straddles(submittedAt)]_captureVars
    BY WhoSettles, LoadSettles
  <1> QED
    BY CaptureInvariance, <1>1, PTL DEF CaptureSpec, DrainedMeansConsumed

\* The replay proof ends only when the consumers that came back have consumed
\* the log again, unless every poll of the sample had begun before they were
\* resumed (replay_drained_sample).
THEOREM ReplayIsDrained == CaptureSpec => ReplayMeansConsumed
  <1>1. CaptureInv /\ [CaptureNext]_captureVars =>
          [step = "final" /\ step' = "export" => off = ends \/ Straddles(resumedAt)]_captureVars
    BY WhoSettles, ReplaySettles
  <1> QED
    BY CaptureInvariance, <1>1, PTL DEF CaptureSpec, ReplayMeansConsumed
=============================================================================
