----------------------- MODULE RelayDeliveryProofs -----------------------
(***************************************************************************)
(* Type correctness of RelayDelivery and its safety promises, for every    *)
(* log, group of members and number of faults.                             *)
(*                                                                         *)
(* CommittedIsDone is not inductive: a commit is made by a member that     *)
(* read its record long before, perhaps in an earlier generation.  The     *)
(* strengthening says of every member that whatever lies behind its view   *)
(* and before its record in hand is complete, and that the stage of each   *)
(* Deliver goroutine agrees with the subscriber, the DLQ and the history.  *)
(***************************************************************************)
EXTENDS RelayDelivery, SequenceTheorems, TLAPS

-----------------------------------------------------------------------------
(* The inductive invariant.                                                *)

\* Every subscriber's end is in the attempt history, and truthfully so.
Audited(r) ==
  Kind(r) = "event" => \A s \in Targets(r) :
    \/ <<r, s, "delivered">> \in history /\ <<r, s>> \in accepted
    \/ <<r, s, "exhausted">> \in history /\ <<r, s>> \in dlq

Complete(r) == Done(r) /\ Audited(r)

\* All records of partition p before offset n are complete.
CompleteBefore(p, n) == \A o \in 0 .. n - 1 : Complete(<<p, o>>)

\* What the stage of a goroutine says about the rest of the world.
StageHolds(m, s) ==
  stage[m][s] # "none" =>
    /\ phase[m] \in {"deliver", "settle", "commit"}
    /\ s \in Targets(cur[m])
    /\ stage[m][s] \notin Finished \ {"error"} => phase[m] = "deliver"
    /\ stage[m][s] \in {"acked", "delivered"} => <<cur[m], s>> \in accepted
    /\ stage[m][s] = "parked" => <<cur[m], s>> \in dlq
    /\ stage[m][s] = "missing" => Kind(cur[m]) = "orphan"
    /\ Kind(cur[m]) = "event" =>
         /\ stage[m][s] = "delivered" => <<cur[m], s, "delivered">> \in history
         /\ stage[m][s] \in {"exhausted", "parked"} => <<cur[m], s, "exhausted">> \in history

MemberHolds(m) ==
  /\ \A p \in Partition : \A o \in 0 .. view[m][p] - 1 :
       Complete(<<p, o>>) \/ cur[m] = <<p, o>>
  /\ cur[m] # NoRecord => CompleteBefore(cur[m][1], cur[m][2])
  /\ phase[m] \in {"deliver", "settle"} =>
       /\ Kind(cur[m]) \in {"event", "orphan"}
       /\ \A s \in Targets(cur[m]) : stage[m][s] # "none"
  /\ phase[m] = "commit" => Complete(cur[m])
  /\ \A s \in Sub : StageHolds(m, s)

LogHolds ==
  /\ \A p \in Partition : CompleteBefore(p, committed[p])
  /\ \A a \in accepted : CompleteBefore(a[1][1], a[1][2])

IInv == TypeOK /\ LogHolds /\ \A m \in Member : MemberHolds(m)

-----------------------------------------------------------------------------
(* Lemmas.                                                                 *)

\* A record in hand is told apart from no record at all.
LEMMA NoRecordIsNone ==
  /\ NoRecord \notin Record
  /\ \A p, o : <<p, o>> # NoRecord
BY DEF NoRecord, Record

\* A record in hand is the pair of its partition and its offset.
LEMMA RecordIsPair ==
  ASSUME NEW r \in Record
  PROVE  /\ r = <<r[1], r[2]>>
         /\ r[1] \in Partition /\ r[2] \in Nat /\ r[2] < Len(Log[r[1]])
BY DEF Record

\* The log of a partition has a length, and records at the offsets below it.
LEMMA LogHasRecords ==
  ASSUME NEW p \in Partition
  PROVE  /\ Len(Log[p]) \in Nat
         /\ \A o \in Nat : o < Len(Log[p]) => <<p, o>> \in Record
BY LogAssumption DEF Record

\* A record's targets are subscriptions and its kind is one of the four.
LEMMA RecordIsTyped ==
  ASSUME NEW r \in Record
  PROVE  Targets(r) \subseteq Sub /\ Kind(r) \in Kinds
<1>1. r[1] \in Partition /\ r[2] + 1 \in 1 .. Len(Log[r[1]])
  BY RecordIsPair, LogHasRecords
<1>2. Log[r[1]] \in Seq([kind : Kinds, subs : SUBSET Sub])
  BY <1>1, LogAssumption
<1>3. Log[r[1]][r[2] + 1] \in [kind : Kinds, subs : SUBSET Sub]
  BY <1>1, <1>2, ElementOfSeq
<1> QED BY <1>3 DEF Targets, Kind

\* Subscribers, topic and history only ever gain.
Grows == accepted \subseteq accepted' /\ dlq \subseteq dlq' /\ history \subseteq history'

LEMMA CompleteGrows ==
  ASSUME Grows, NEW r, Complete(r)
  PROVE  Complete(r)'
BY DEF Grows, Complete, Done, Audited, Targets, Kind

LEMMA CompleteBeforeGrows ==
  ASSUME Grows, NEW p, NEW n, CompleteBefore(p, n)
  PROVE  (\A o \in 0 .. n - 1 : Complete(<<p, o>>)')
BY CompleteGrows DEF CompleteBefore

-----------------------------------------------------------------------------
(* Type correctness.                                                       *)

LEMMA InitType == Init => TypeOK
BY LogHasRecords, MaxAdverseAssumption
   DEF Init, TypeOK, NoView, NoStage, NoTries, NoRecord, NotMine, Phases, Stages

\* What an exit leaves of the process and of its membership is well typed.
LEMMA ExitType ==
  ASSUME TypeOK, NEW m \in Member, Exit(m)
  PROVE  /\ assigned' \in [Member -> SUBSET Partition]
         /\ group' \subseteq Member /\ current' \subseteq Member
         /\ view' \in [Member -> [Partition -> Nat \cup {NotMine}]]
         /\ phase' \in [Member -> Phases]
         /\ cur' \in [Member -> Record \cup {NoRecord}]
         /\ \A n \in Member : phase'[n] \in {"down", "idle"} <=> cur'[n] = NoRecord
         /\ stage' \in [Member -> [Sub -> Stages]]
         /\ tries' \in [Member -> [Sub -> Nat]]
         /\ expired' \in [Member -> BOOLEAN] /\ stopping' \in [Member -> BOOLEAN]
BY DEF TypeOK, Exit, NoView, NoStage, NoTries, Phases, Stages

\* The three sets that record what happened stay well typed when m adds to
\* them for the record it has in hand.
LEMMA WorldType ==
  ASSUME TypeOK, NEW m \in Member, cur[m] \in Record, NEW s \in Sub, NEW x \in Outcomes
  PROVE  /\ accepted \cup {<<cur[m], s>>} \subseteq Record \X Sub
         /\ dlq \cup {<<cur[m], s>>} \subseteq Record \X (Sub \cup {PoisonId})
         /\ dlq \cup {<<cur[m], PoisonId>>} \subseteq Record \X (Sub \cup {PoisonId})
         /\ history \cup {<<cur[m], s, x>>} \subseteq Record \X Sub \X Outcomes
BY DEF TypeOK

LEMMA AdverseType ==
  ASSUME TypeOK, Adversity \/ UNCHANGED adverse
  PROVE  adverse' \in Nat
BY DEF TypeOK, Adversity

\* A member that is neither down nor waiting in FetchMessage has a record.
LEMMA BusyHasRecord ==
  ASSUME TypeOK, NEW m \in Member, phase[m] \notin {"down", "idle"}
  PROVE  cur[m] \in Record
BY DEF TypeOK

\* A commit stores an offset just behind a record of the log.
LEMMA CommitType ==
  ASSUME TypeOK, NEW m \in Member, phase[m] = "commit", CommitOffset(m)
  PROVE  /\ committed' \in [Partition -> Nat]
         /\ \A p \in Partition : committed'[p] <= Len(Log[p])
<1>1. cur[m] \in Record
  BY BusyHasRecord
<1>2. cur[m][1] \in Partition /\ cur[m][2] + 1 \in Nat /\ cur[m][2] + 1 <= Len(Log[cur[m][1]])
  BY <1>1, RecordIsPair, LogHasRecords
<1>3. committed' = [committed EXCEPT ![cur[m][1]] = cur[m][2] + 1]
  BY DEF CommitOffset
<1> QED BY <1>2, <1>3 DEF TypeOK

\* The goroutines add to the world only for the record in hand.
LEMMA DeliverType ==
  ASSUME TypeOK, NEW m \in Member, Deliver(m)
  PROVE  TypeOK'
<1> cur[m] \in Record
  BY BusyHasRecord DEF Deliver
<1>1. PICK s \in Sub : \/ Acknowledge(m, s) \/ Refuse(m, s) \/ GiveUp(m, s)
                       \/ RecordAttempt(m, s) \/ RecordAttemptFails(m, s)
  BY DEF Deliver
<1> USE DEF OtherThanWork, brokerVars, worldVars, SetStage, Stages
<1>2. CASE Acknowledge(m, s)
  BY <1>2, WorldType DEF Acknowledge, TypeOK
<1>3. CASE Refuse(m, s)
  BY <1>3, WorldType DEF Refuse, TypeOK
<1>4. CASE GiveUp(m, s)
  BY <1>4 DEF GiveUp, TypeOK
<1>5. HistoryOutcome(m, s) \in Outcomes /\ AfterAttempt(m, s) \in Stages
  BY DEF HistoryOutcome, AfterAttempt, Outcomes
<1>6. CASE RecordAttempt(m, s)
  <2>1. stage' \in [Member -> [Sub -> Stages]]
    <3>1. PICK x \in Stages : stage' = [stage EXCEPT ![m][s] = x]
      <4>1. CASE Kind(cur[m]) = "orphan"
        BY <1>6, <4>1 DEF RecordAttempt
      <4>2. CASE Kind(cur[m]) # "orphan"
        BY <1>5, <1>6, <4>2 DEF RecordAttempt
      <4> QED BY <4>1, <4>2
    <3> QED BY <3>1 DEF TypeOK
  <2>2. history' \subseteq Record \X Sub \X Outcomes
    BY <1>5, <1>6, WorldType DEF RecordAttempt, TypeOK
  <2> QED BY <1>6, <2>1, <2>2 DEF RecordAttempt, TypeOK
<1>7. CASE RecordAttemptFails(m, s)
  <2>1. adverse' \in Nat
    BY <1>7, AdverseType DEF RecordAttemptFails, FailsWhenExpired
  <2>2. stage' \in [Member -> [Sub -> Stages]]
    BY <1>7 DEF RecordAttemptFails, TypeOK
  <2>3. history' \subseteq Record \X Sub \X Outcomes
    BY <1>5, <1>7, WorldType DEF RecordAttemptFails, TypeOK
  <2> QED BY <1>7, <2>1, <2>2, <2>3 DEF RecordAttemptFails, TypeOK
<1> QED BY <1>1, <1>2, <1>3, <1>4, <1>6, <1>7

\* A rebalance only moves partitions about.
LEMMA GenerationType ==
  ASSUME TypeOK, adverse' \in Nat, NEW g \in SUBSET Up, StartGeneration(g)
  PROVE  TypeOK'
BY DEF TypeOK, StartGeneration, Up, workVars, worldVars

\* A dead letter that is acknowledged, or lost, is for the record in hand.
LEMMA DeadLetterType ==
  ASSUME TypeOK, NEW m \in Member, cur[m] \in Record, NEW s \in Sub \cup {PoisonId},
         WriteDeadLetter(m, s) \/ LoseDeadLetter(m, s)
  PROVE  /\ accepted' \subseteq Record \X Sub
         /\ dlq' \subseteq Record \X (Sub \cup {PoisonId})
         /\ history' \subseteq Record \X Sub \X Outcomes
         /\ adverse' \in Nat
<1>1. <<cur[m], s>> \in Record \X (Sub \cup {PoisonId})
  OBVIOUS
<1>2. CASE WriteDeadLetter(m, s)
  BY <1>1, <1>2 DEF WriteDeadLetter, TypeOK
<1>3. CASE LoseDeadLetter(m, s)
  <2>1. adverse' \in Nat
    BY <1>3, AdverseType DEF LoseDeadLetter, FailsWhenExpired
  <2> QED BY <1>1, <1>3, <2>1 DEF LoseDeadLetter, TypeOK
<1> QED BY <1>2, <1>3

\* A member that loses a dead letter exits and commits nothing.
LEMMA LoseDeadLetterType ==
  ASSUME TypeOK, NEW m \in Member, cur[m] \in Record, NEW s \in Sub \cup {PoisonId},
         LoseDeadLetter(m, s)
  PROVE  TypeOK'
<1>1. Exit(m) /\ UNCHANGED committed
  BY DEF LoseDeadLetter
<1> QED BY <1>1, ExitType, DeadLetterType DEF TypeOK

\* The steps of one process keep the types.
LEMMA ProcessType ==
  ASSUME TypeOK, NEW m \in Member, Process(m)
  PROVE  TypeOK'
<1> USE DEF brokerVars, workVars, worldVars
<1>1. CASE Restart(m)
  <2>1. cur[m] = NoRecord
    BY <1>1 DEF Restart, TypeOK
  <2> QED BY <1>1, <2>1 DEF Restart, TypeOK, Phases
<1>2. CASE StopFetching(m)
  BY <1>2, ExitType DEF StopFetching, TypeOK
<1>3. CASE Join(m)
  <2>1. \A p \in Partition : committed[p] \in Nat
    BY DEF TypeOK
  <2>2. view' \in [Member -> [Partition -> Nat \cup {NotMine}]]
    BY <1>3, <2>1 DEF Join, TypeOK
  <2> QED BY <1>3, <2>2 DEF Join, TypeOK
<1>4. CASE Fetch(m)
  <2>1. PICK p \in Partition :
          /\ view[m][p] # NotMine
          /\ view[m][p] < Len(Log[p])
          /\ cur' = [cur EXCEPT ![m] = <<p, view[m][p]>>]
          /\ view' = [view EXCEPT ![m][p] = @ + 1]
    BY <1>4 DEF Fetch
  <2>2. view[m][p] \in Nat
    BY <2>1 DEF TypeOK
  <2>3. <<p, view[m][p]>> \in Record
    BY <2>1, <2>2, LogHasRecords
  <2>4. cur' \in [Member -> Record \cup {NoRecord}]
    BY <2>1, <2>3 DEF TypeOK
  <2>5. view' \in [Member -> [Partition -> Nat \cup {NotMine}]]
    BY <2>1, <2>2 DEF TypeOK
  <2>6. \A n \in Member : phase'[n] \in {"down", "idle"} <=> cur'[n] = NoRecord
    BY <1>4, <2>1, <2>3, NoRecordIsNone DEF Fetch, TypeOK
  <2>7. phase' \in [Member -> Phases]
    BY <1>4 DEF Fetch, TypeOK, Phases
  <2> QED BY <1>4, <2>4, <2>5, <2>6, <2>7 DEF Fetch, TypeOK
<1>5. CASE ParkPoison(m)
  <2>1. cur[m] \in Record
    BY <1>5, BusyHasRecord DEF ParkPoison
  <2>2. CASE LoseDeadLetter(m, PoisonId)
    BY <2>1, <2>2, LoseDeadLetterType
  <2>3. CASE ~LoseDeadLetter(m, PoisonId)
    <3>1. WriteDeadLetter(m, PoisonId)
      BY <1>5, <2>3 DEF ParkPoison
    <3> QED BY <1>5, <2>1, <2>3, <3>1, DeadLetterType DEF ParkPoison, TypeOK, Phases
  <2> QED BY <2>2, <2>3
<1>6. CASE Lookup(m)
  <2>1. stage' \in [Member -> [Sub -> Stages]]
    BY <1>6 DEF Lookup, TypeOK, Stages
  <2> QED BY <1>6, <2>1 DEF Lookup, TypeOK, Phases
<1>7. CASE LookupFails(m)
  <2>1. adverse' \in Nat
    BY <1>7, AdverseType DEF LookupFails, FailsWhenExpired
  <2> QED BY <1>7, <2>1, ExitType DEF LookupFails, TypeOK
<1>8. CASE Deliver(m)
  BY <1>8, DeliverType
<1>9. CASE Gather(m)
  BY <1>9 DEF Gather, TypeOK, Phases
<1>10. CASE GatherError(m)
  BY <1>10, ExitType DEF GatherError, TypeOK
<1>11. CASE Park(m)
  <2>1. cur[m] \in Record
    BY <1>11, BusyHasRecord DEF Park
  <2>2. PICK s \in ToPark(m) :
          \/ /\ WriteDeadLetter(m, s)
             /\ SetStage(m, s, "parked")
             /\ UNCHANGED <<OtherThanWork, tries>>
          \/ LoseDeadLetter(m, s)
    BY <1>11 DEF Park
  <2>3. s \in Sub
    BY <2>1, RecordIsTyped DEF ToPark
  <2>4. CASE LoseDeadLetter(m, s)
    BY <2>1, <2>3, <2>4, LoseDeadLetterType
  <2>5. CASE ~LoseDeadLetter(m, s)
    <3>1. /\ WriteDeadLetter(m, s)
          /\ SetStage(m, s, "parked")
          /\ UNCHANGED <<OtherThanWork, tries>>
      BY <2>2, <2>5
    <3>2. stage' \in [Member -> [Sub -> Stages]]
      BY <2>3, <3>1 DEF SetStage, TypeOK, Stages
    <3> QED BY <2>1, <2>3, <3>1, <3>2, DeadLetterType DEF OtherThanWork, TypeOK
  <2> QED BY <2>4, <2>5
<1>12. CASE Settled(m)
  BY <1>12 DEF Settled, TypeOK, Phases
<1>13. CASE Commit(m)
  <2>1. /\ committed' \in [Partition -> Nat]
        /\ \A p \in Partition : committed'[p] <= Len(Log[p])
    BY <1>13, CommitType DEF Commit
  <2>2. CASE stopping[m]
    BY <1>13, <2>1, <2>2, ExitType DEF Commit, TypeOK
  <2>3. CASE ~stopping[m]
    <3>1. NoStage \in [Sub -> Stages] /\ NoTries \in [Sub -> Nat]
      BY DEF NoStage, NoTries, Stages
    <3>2. Release(m)
      BY <1>13, <2>3 DEF Commit
    <3>3. /\ stage' \in [Member -> [Sub -> Stages]]
          /\ tries' \in [Member -> [Sub -> Nat]]
      BY <3>1, <3>2 DEF Release, TypeOK
    <3> QED BY <1>13, <2>1, <3>2, <3>3 DEF Commit, Release, TypeOK, Phases
  <2> QED BY <2>2, <2>3
<1>14. CASE CommitFails(m)
  <2>1. adverse' \in Nat
    BY <1>14, AdverseType DEF CommitFails, FailsWhenExpired
  <2>2. /\ committed' \in [Partition -> Nat]
        /\ \A p \in Partition : committed'[p] <= Len(Log[p])
    BY <1>14, CommitType DEF CommitFails, TypeOK
  <2> QED BY <1>14, <2>1, <2>2, ExitType DEF CommitFails, TypeOK
<1> QED
  BY <1>1, <1>2, <1>3, <1>4, <1>5, <1>6, <1>7, <1>8, <1>9, <1>10, <1>11,
     <1>12, <1>13, <1>14 DEF Process

\* What the environment does to a process keeps the types.
LEMMA EnvironmentType ==
  ASSUME TypeOK, NEW m \in Member, Environment(m)
  PROVE  TypeOK'
<1> USE DEF brokerVars, workVars, worldVars
<1>1. adverse' \in Nat
  BY AdverseType DEF Environment, Crash, Sigterm, Expire
<1>2. CASE Crash(m)
  BY <1>1, <1>2, ExitType DEF Crash, TypeOK
<1>3. CASE Sigterm(m)
  BY <1>1, <1>3 DEF Sigterm, TypeOK
<1>4. CASE Expire(m)
  BY <1>1, <1>4 DEF Expire, TypeOK
<1> QED BY <1>2, <1>3, <1>4 DEF Environment

LEMMA NextType == TypeOK /\ [Next]_vars => TypeOK'
<1> SUFFICES ASSUME TypeOK, [Next]_vars
             PROVE  TypeOK'
  OBVIOUS
<1>1. CASE Rebalance
  BY <1>1, GenerationType DEF Rebalance, TypeOK
<1>2. CASE NeedlessRebalance
  <2>1. adverse' \in Nat
    BY <1>2, AdverseType DEF NeedlessRebalance
  <2> QED BY <1>2, <2>1, GenerationType DEF NeedlessRebalance
<1>3. CASE \E m \in Member : Process(m) \/ Environment(m)
  BY <1>3, ProcessType, EnvironmentType
<1>4. CASE Waiting \/ UNCHANGED vars
  BY <1>4 DEF Waiting, vars, TypeOK
<1> QED BY <1>1, <1>2, <1>3, <1>4 DEF Next

\* Every variable keeps its type, whatever the log, the group and the faults:
\* in particular committed offsets stay within the log and a member has a
\* record in hand exactly while it is working (Run, processRecord).
THEOREM TypeCorrect == Spec => []TypeOK
BY InitType, NextType, PTL DEF Spec

-----------------------------------------------------------------------------
(* The inductive invariant: facts about all steps of a process.            *)

\* A step of one process leaves the others' memory alone ...
LEMMA OthersUntouched ==
  ASSUME TypeOK, NEW m \in Member, Process(m) \/ Environment(m), NEW n \in Member, n # m
  PROVE  /\ view'[n] = view[n] /\ phase'[n] = phase[n]
         /\ cur'[n] = cur[n] /\ stage'[n] = stage[n]
<1> USE DEF brokerVars, workVars, worldVars, OtherThanWork, SetStage
<1>1. Exit(m) => /\ view'[n] = view[n] /\ phase'[n] = phase[n]
                 /\ cur'[n] = cur[n] /\ stage'[n] = stage[n]
  BY DEF Exit, TypeOK
<1>2. CASE Environment(m)
  BY <1>1, <1>2 DEF Environment, Crash, Sigterm, Expire
<1>3. CASE Restart(m) \/ StopFetching(m) \/ Join(m) \/ Fetch(m)
  BY <1>1, <1>3 DEF Restart, StopFetching, Join, Fetch, TypeOK
<1>4. CASE ParkPoison(m) \/ Lookup(m) \/ LookupFails(m)
  BY <1>1, <1>4 DEF ParkPoison, LoseDeadLetter, Lookup, LookupFails, TypeOK
<1>5. CASE Deliver(m)
  BY <1>5 DEF Deliver, Acknowledge, Refuse, GiveUp, RecordAttempt, RecordAttemptFails, TypeOK
<1>6. CASE Gather(m) \/ GatherError(m) \/ Park(m) \/ Settled(m)
  BY <1>1, <1>6 DEF Gather, GatherError, Park, LoseDeadLetter, Settled, TypeOK
<1>7. CASE Commit(m) \/ CommitFails(m)
  BY <1>1, <1>7 DEF Commit, Release, CommitFails, TypeOK
<1> QED BY <1>2, <1>3, <1>4, <1>5, <1>6, <1>7 DEF Process

\* ... and never takes anything back from the world.
LEMMA ProcessGrows ==
  ASSUME NEW m \in Member, Process(m) \/ Environment(m)
  PROVE  Grows
<1> USE DEF brokerVars, workVars, worldVars, OtherThanWork, Grows
<1>1. CASE Environment(m)
  BY <1>1 DEF Environment, Crash, Sigterm, Expire
<1>2. CASE Restart(m) \/ StopFetching(m) \/ Join(m) \/ Fetch(m) \/ Lookup(m) \/ LookupFails(m)
  BY <1>2 DEF Restart, StopFetching, Join, Fetch, Lookup, LookupFails
<1>3. CASE ParkPoison(m) \/ Park(m)
  BY <1>3 DEF ParkPoison, Park, WriteDeadLetter, LoseDeadLetter
<1>4. CASE Deliver(m)
  BY <1>4 DEF Deliver, Acknowledge, Refuse, GiveUp, RecordAttempt, RecordAttemptFails
<1>5. CASE Gather(m) \/ GatherError(m) \/ Settled(m) \/ Commit(m) \/ CommitFails(m)
  BY <1>5 DEF Gather, GatherError, Settled, Commit, CommitFails
<1> QED BY <1>1, <1>2, <1>3, <1>4, <1>5 DEF Process

\* A member whose memory is not touched keeps its part of the invariant.
LEMMA MemberFrame ==
  ASSUME Grows, NEW n \in Member, MemberHolds(n),
         view'[n] = view[n], phase'[n] = phase[n], cur'[n] = cur[n], stage'[n] = stage[n]
  PROVE  MemberHolds(n)'
<1>1. \A p \in Partition : \A o \in 0 .. view'[n][p] - 1 :
        Complete(<<p, o>>)' \/ cur'[n] = <<p, o>>
  BY CompleteGrows DEF MemberHolds
<1>2. cur'[n] # NoRecord => CompleteBefore(cur[n][1], cur[n][2])'
  BY CompleteBeforeGrows DEF MemberHolds, CompleteBefore
<1>3. phase'[n] = "commit" => Complete(cur[n])'
  BY CompleteGrows DEF MemberHolds
<1>4. \A s \in Sub : StageHolds(n, s)'
  BY DEF MemberHolds, StageHolds, Grows, Kind, Targets
<1>5. Kind(cur[n])' = Kind(cur[n]) /\ Targets(cur[n])' = Targets(cur[n])
  BY DEF Kind, Targets
<1> QED BY <1>1, <1>2, <1>3, <1>4, <1>5 DEF MemberHolds

\* A process that is down, or back in FetchMessage, holds its part of the
\* invariant if all that lies behind its view is complete.
LEMMA IdleHolds ==
  ASSUME NEW m \in Member, cur'[m] = NoRecord, phase'[m] \in {"down", "idle"},
         stage'[m] = NoStage,
         \A p \in Partition : \A o \in 0 .. view'[m][p] - 1 : Complete(<<p, o>>)'
  PROVE  MemberHolds(m)'
<1>1. \A s \in Sub : StageHolds(m, s)'
  BY DEF StageHolds, NoStage
<1> QED BY <1>1 DEF MemberHolds

LEMMA ExitHolds ==
  ASSUME TypeOK, NEW m \in Member, Exit(m)
  PROVE  MemberHolds(m)'
<1>1. /\ cur'[m] = NoRecord /\ phase'[m] = "down" /\ stage'[m] = NoStage
      /\ view'[m] = NoView
  BY DEF Exit, TypeOK
<1>2. \A p \in Partition : 0 .. view'[m][p] - 1 = {}
  BY <1>1 DEF NoView, NotMine
<1> QED BY <1>1, <1>2, IdleHolds

\* The log's part survives a step that neither commits nor gets a 2xx.
LEMMA LogFrame ==
  ASSUME Grows, LogHolds, UNCHANGED <<committed, accepted>>
  PROVE  LogHolds'
<1>1. \A p \in Partition : CompleteBefore(p, committed[p])'
  BY CompleteBeforeGrows DEF LogHolds, CompleteBefore
<1>2. \A a \in accepted : CompleteBefore(a[1][1], a[1][2])'
  BY CompleteBeforeGrows DEF LogHolds, CompleteBefore
<1> QED BY <1>1, <1>2 DEF LogHolds

\* A 2xx for the record in hand: everything before that record is complete.
LEMMA AcceptHolds ==
  ASSUME TypeOK, Grows, LogHolds, NEW m \in Member, cur[m] \in Record, NEW s \in Sub,
         MemberHolds(m), UNCHANGED <<committed, cur>>,
         accepted' \in {accepted, accepted \cup {<<cur[m], s>>}}
  PROVE  LogHolds'
<1>1. \A p \in Partition : \A o \in 0 .. committed'[p] - 1 : Complete(<<p, o>>)'
  BY CompleteGrows DEF LogHolds, CompleteBefore
<1>2. CompleteBefore(cur[m][1], cur[m][2])
  <2>1. cur[m] # NoRecord
    BY NoRecordIsNone
  <2> QED BY <2>1 DEF MemberHolds
<1>3. \A o \in 0 .. cur[m][2] - 1 : Complete(<<cur[m][1], o>>)'
  BY <1>2, CompleteGrows DEF CompleteBefore
<1>4. \A a \in accepted : \A o \in 0 .. a[1][2] - 1 : Complete(<<a[1][1], o>>)'
  BY CompleteGrows DEF LogHolds, CompleteBefore
<1>5. ASSUME NEW a \in accepted'
      PROVE  \A o \in 0 .. a[1][2] - 1 : Complete(<<a[1][1], o>>)'
  <2>1. CASE a \in accepted
    BY <1>4, <2>1
  <2>2. CASE a = <<cur[m], s>>
    <3>1. a[1] = cur[m]
      BY <2>2
    <3> QED BY <1>3, <3>1
  <2> QED BY <2>1, <2>2
<1> QED BY <1>1, <1>5 DEF LogHolds, CompleteBefore

\* A commit behind a complete record whose predecessors are complete.
LEMMA CommitHolds ==
  ASSUME TypeOK, Grows, LogHolds, NEW m \in Member, phase[m] = "commit",
         MemberHolds(m), CommitOffset(m), UNCHANGED accepted
  PROVE  LogHolds'
<1>1. cur[m] \in Record
  BY BusyHasRecord
<1>2. /\ cur[m] = <<cur[m][1], cur[m][2]>>
      /\ cur[m][1] \in Partition /\ cur[m][2] \in Nat
  BY <1>1, RecordIsPair
<1>3. CompleteBefore(cur[m][1], cur[m][2]) /\ Complete(cur[m])
  BY <1>1, NoRecordIsNone DEF MemberHolds
<1>4. \A o \in 0 .. cur[m][2] : Complete(<<cur[m][1], o>>)
  <2>1. \A o \in 0 .. cur[m][2] : o = cur[m][2] \/ o \in 0 .. cur[m][2] - 1
    BY <1>2
  <2> QED BY <1>2, <1>3, <2>1 DEF CompleteBefore
<1>5. ASSUME NEW p \in Partition, NEW o \in 0 .. committed'[p] - 1
      PROVE  Complete(<<p, o>>)
  <2>1. CASE p = cur[m][1]
    <3>1. committed'[p] = cur[m][2] + 1
      BY <1>2, <2>1 DEF CommitOffset, TypeOK
    <3> QED BY <1>2, <1>4, <2>1, <3>1
  <2>2. CASE p # cur[m][1]
    <3>1. committed'[p] = committed[p]
      BY <2>2 DEF CommitOffset, TypeOK
    <3> QED BY <3>1 DEF LogHolds, CompleteBefore
  <2> QED BY <2>1, <2>2
<1>6. \A p \in Partition : \A o \in 0 .. committed'[p] - 1 : Complete(<<p, o>>)'
  BY <1>5, CompleteGrows
<1>7. \A a \in accepted' : \A o \in 0 .. a[1][2] - 1 : Complete(<<a[1][1], o>>)'
  BY CompleteGrows DEF LogHolds, CompleteBefore
<1> QED BY <1>6, <1>7 DEF LogHolds, CompleteBefore

-----------------------------------------------------------------------------
(* The inductive invariant: one lemma per kind of step.                    *)

\* The premises every step of a process starts from.
Before(m) == TypeOK /\ LogHolds /\ MemberHolds(m) /\ Grows

\* What a step of a process has to establish.
After(m) == LogHolds' /\ MemberHolds(m)'

\* Starting, stopping, and taking up a generation.
LEMMA LifecycleHolds ==
  ASSUME NEW m \in Member, Before(m), Restart(m) \/ StopFetching(m) \/ Join(m)
  PROVE  After(m)
<1> USE DEF Before, After, brokerVars, workVars, worldVars
<1>0. LogHolds'
  BY LogFrame DEF Restart, StopFetching, Join
<1>1. CASE Restart(m)
  <2>1. cur[m] = NoRecord
    BY <1>1 DEF Restart, TypeOK
  <2>2. stage[m] = NoStage
    <3>1. \A s \in Sub : stage[m][s] = "none"
      BY <1>1 DEF Restart, MemberHolds, StageHolds
    <3> QED BY <3>1 DEF NoStage, TypeOK
  <2>3. /\ cur'[m] = NoRecord /\ phase'[m] = "idle" /\ stage'[m] = NoStage
        /\ view'[m] = view[m]
    BY <1>1, <2>1, <2>2 DEF Restart, TypeOK
  <2>4. \A p \in Partition : \A o \in 0 .. view[m][p] - 1 : Complete(<<p, o>>)
    BY <2>1, NoRecordIsNone DEF MemberHolds
  <2>5. \A p \in Partition : \A o \in 0 .. view'[m][p] - 1 : Complete(<<p, o>>)'
    BY <2>3, <2>4, CompleteGrows
  <2> QED BY <1>0, <2>3, <2>5, IdleHolds
<1>2. CASE StopFetching(m)
  BY <1>0, <1>2, ExitHolds DEF StopFetching
<1>3. CASE Join(m)
  <2>1. /\ phase'[m] = phase[m] /\ cur'[m] = cur[m] /\ stage'[m] = stage[m]
    BY <1>3 DEF Join
  <2>2. \A p \in Partition : view'[m][p] = IF p \in assigned[m] THEN committed[p] ELSE NotMine
    BY <1>3 DEF Join, TypeOK
  <2>3. ASSUME NEW p \in Partition, NEW o \in 0 .. view'[m][p] - 1
        PROVE  Complete(<<p, o>>)
    BY <2>2 DEF LogHolds, CompleteBefore, NotMine
  <2>4. \A p \in Partition : \A o \in 0 .. view'[m][p] - 1 : Complete(<<p, o>>)'
    BY <2>3, CompleteGrows
  <2>5. cur[m] # NoRecord => CompleteBefore(cur[m][1], cur[m][2])'
    BY <1>3, CompleteBeforeGrows DEF MemberHolds, CompleteBefore, Join
  <2>6. phase[m] = "commit" => Complete(cur[m])'
    BY <1>3, CompleteGrows DEF MemberHolds, Join
  <2>7. \A s \in Sub : StageHolds(m, s)'
    BY <1>3, <2>1 DEF MemberHolds, StageHolds, Grows, Kind, Targets, Join
  <2> QED BY <1>0, <1>3, <2>1, <2>4, <2>5, <2>6, <2>7 DEF MemberHolds, Kind, Targets, Join
<1> QED BY <1>1, <1>2, <1>3

\* Taking a record: all that lies before it is complete, since nothing else is
\* in hand.
LEMMA FetchHolds ==
  ASSUME NEW m \in Member, Before(m), Fetch(m)
  PROVE  After(m)
<1> USE DEF Before, After, brokerVars, workVars, worldVars
<1>0. LogHolds'
  BY LogFrame DEF Fetch
<1>1. PICK p \in Partition :
        /\ view[m][p] # NotMine
        /\ view[m][p] < Len(Log[p])
        /\ cur' = [cur EXCEPT ![m] = <<p, view[m][p]>>]
        /\ view' = [view EXCEPT ![m][p] = @ + 1]
  BY DEF Fetch
<1>2. PICK n \in Nat : n = view[m][p]
  BY <1>1 DEF TypeOK
<1>3. /\ cur[m] = NoRecord /\ cur'[m] = <<p, n>> /\ phase'[m] = "handle"
      /\ view'[m][p] = n + 1
      /\ \A q \in Partition : q # p => view'[m][q] = view[m][q]
      /\ stage'[m] = stage[m]
  BY <1>1, <1>2 DEF Fetch, TypeOK
<1>4. \A q \in Partition : \A o \in 0 .. view[m][q] - 1 : Complete(<<q, o>>)
  BY <1>3, NoRecordIsNone DEF MemberHolds
<1>5. \A s \in Sub : stage'[m][s] = "none"
  BY <1>3 DEF MemberHolds, StageHolds, Fetch
<1>6. \A o \in 0 .. n - 1 : Complete(<<p, o>>)'
  BY <1>2, <1>4, CompleteGrows
<1>7. ASSUME NEW q \in Partition, NEW o \in 0 .. view'[m][q] - 1
      PROVE  Complete(<<q, o>>)' \/ cur'[m] = <<q, o>>
  <2>1. CASE q # p
    BY <1>3, <1>4, <2>1, CompleteGrows
  <2>2. CASE q = p
    BY <1>2, <1>3, <1>6, <2>2
  <2> QED BY <2>1, <2>2
<1>8. CompleteBefore(cur[m][1], cur[m][2])'
  BY <1>3, <1>6 DEF CompleteBefore
<1> QED BY <1>0, <1>3, <1>5, <1>7, <1>8 DEF MemberHolds, StageHolds

\* While the record in hand and the view stay, what lies behind them stays
\* complete: only phase and stages need a look.
LEMMA WorkingFrame ==
  ASSUME NEW m \in Member, Before(m), cur'[m] = cur[m], view'[m] = view[m]
  PROVE  /\ \A p \in Partition : \A o \in 0 .. view'[m][p] - 1 :
              Complete(<<p, o>>)' \/ cur'[m] = <<p, o>>
         /\ cur'[m] # NoRecord => CompleteBefore(cur[m][1], cur[m][2])'
         /\ Complete(cur[m]) => Complete(cur[m])'
         /\ Kind(cur[m])' = Kind(cur[m]) /\ Targets(cur[m])' = Targets(cur[m])
<1> USE DEF Before
<1>1. \A p \in Partition : \A o \in 0 .. view'[m][p] - 1 :
        Complete(<<p, o>>)' \/ cur'[m] = <<p, o>>
  BY CompleteGrows DEF MemberHolds
<1>2. cur'[m] # NoRecord => CompleteBefore(cur[m][1], cur[m][2])'
  BY CompleteBeforeGrows DEF MemberHolds, CompleteBefore
<1>3. Complete(cur[m]) => Complete(cur[m])'
  BY CompleteGrows
<1>4. Kind(cur[m])' = Kind(cur[m]) /\ Targets(cur[m])' = Targets(cur[m])
  BY DEF Kind, Targets
<1> QED BY <1>1, <1>2, <1>3, <1>4

\* An exit that commits nothing keeps the invariant.
LEMMA QuietExitHolds ==
  ASSUME NEW m \in Member, Before(m), Exit(m), UNCHANGED <<committed, accepted>>
  PROVE  After(m)
BY ExitHolds, LogFrame DEF Before, After

\* An undecodable record is complete once it is on the DLQ.
LEMMA ParkPoisonHolds ==
  ASSUME NEW m \in Member, Before(m), ParkPoison(m)
  PROVE  After(m)
<1> USE DEF Before, After
<1>1. CASE LoseDeadLetter(m, PoisonId)
  BY <1>1, QuietExitHolds DEF LoseDeadLetter
<1>2. CASE ~LoseDeadLetter(m, PoisonId)
  <2>1. /\ WriteDeadLetter(m, PoisonId)
        /\ phase' = [phase EXCEPT ![m] = "commit"]
        /\ UNCHANGED <<brokerVars, view, cur, workVars, expired, stopping>>
    BY <1>2 DEF ParkPoison
  <2>2. /\ cur' = cur /\ view' = view /\ stage' = stage
        /\ UNCHANGED <<committed, accepted>> /\ phase'[m] = "commit"
    BY <2>1 DEF brokerVars, workVars, WriteDeadLetter, TypeOK
  <2>3. Complete(cur[m])'
    <3>1. Kind(cur[m]) = "poison"
      BY DEF ParkPoison
    <3>2. <<cur[m], PoisonId>> \in dlq'
      BY <2>1 DEF WriteDeadLetter
    <3> QED BY <2>2, <3>1, <3>2 DEF Complete, Done, Audited, Kind, Targets
  <2>4. \A s \in Sub : stage'[m][s] = "none"
    BY <2>2 DEF ParkPoison, MemberHolds, StageHolds
  <2> QED BY <2>2, <2>3, <2>4, WorkingFrame, LogFrame DEF MemberHolds, StageHolds
<1> QED BY <1>1, <1>2

\* Starting the goroutines; a record without targets is complete as it is.
LEMMA LookupHolds ==
  ASSUME NEW m \in Member, Before(m), Lookup(m) \/ LookupFails(m)
  PROVE  After(m)
<1> USE DEF Before, After
<1>1. CASE LookupFails(m)
  BY <1>1, QuietExitHolds DEF LookupFails, worldVars
<1>2. CASE Lookup(m)
  <2>1. cur[m] \in Record
    BY <1>2, BusyHasRecord DEF Lookup
  <2>2. /\ cur' = cur /\ view' = view
        /\ UNCHANGED <<committed, accepted>>
        /\ phase'[m] = IF Targets(cur[m]) = {} THEN "commit" ELSE "deliver"
        /\ \A s \in Sub : stage'[m][s] = IF s \in Targets(cur[m]) THEN "ready" ELSE "none"
    BY <1>2 DEF Lookup, brokerVars, worldVars, TypeOK
  <2>3. Kind(cur[m]) \in {"event", "orphan"}
    BY <1>2 DEF Lookup
  <2>4. Targets(cur[m]) = {} => Complete(cur[m])
    BY <2>3 DEF Complete, Done, Audited
  <2>5. Targets(cur[m]) \subseteq Sub
    BY <2>1, RecordIsTyped
  <2>6. \A s \in Sub : StageHolds(m, s)'
    <3> SUFFICES ASSUME NEW s \in Sub PROVE StageHolds(m, s)'
      OBVIOUS
    <3>1. Targets(cur[m])' = Targets(cur[m])
      BY <2>2 DEF Targets, Kind
    <3> QED BY <2>2, <3>1 DEF StageHolds, Finished
  <2> QED BY <2>2, <2>3, <2>4, <2>5, <2>6, WorkingFrame, LogFrame DEF MemberHolds
<1> QED BY <1>1, <1>2

\* One goroutine steps: only its own stage needs a look.
LEMMA GoroutineHolds ==
  ASSUME NEW m \in Member, Before(m), NEW s \in Sub, NEW x \in Stages \ {"none"},
         phase[m] \in {"deliver", "settle"},
         stage' = [stage EXCEPT ![m][s] = x],
         UNCHANGED <<cur, view, phase>>,
         StageHolds(m, s)'
  PROVE  MemberHolds(m)'
<1> USE DEF Before
<1>1. \A t \in Sub : stage'[m][t] = IF t = s THEN x ELSE stage[m][t]
  BY DEF TypeOK
<1>2. cur[m] \in Record
  BY BusyHasRecord
<1>3. Targets(cur[m]) \subseteq Sub
  BY <1>2, RecordIsTyped
<1>4. \A t \in Sub : t # s => StageHolds(m, t)'
  BY <1>1 DEF MemberHolds, StageHolds, Grows, Kind, Targets
<1> QED BY <1>1, <1>3, <1>4, WorkingFrame DEF MemberHolds

LEMMA DeliverHolds ==
  ASSUME NEW m \in Member, Before(m), Deliver(m)
  PROVE  After(m)
<1> USE DEF Before, After, OtherThanWork, brokerVars, worldVars, SetStage
<1>1. PICK s \in Sub : \/ Acknowledge(m, s) \/ Refuse(m, s) \/ GiveUp(m, s)
                       \/ RecordAttempt(m, s) \/ RecordAttemptFails(m, s)
  BY DEF Deliver
<1>2. phase[m] = "deliver" /\ cur[m] \in Record
  BY BusyHasRecord DEF Deliver
<1>3. /\ UNCHANGED <<cur, view, phase, committed>>
      /\ stage[m][s] # "none"
  BY <1>1 DEF Acknowledge, Refuse, GiveUp, RecordAttempt, RecordAttemptFails
<1>4. s \in Targets(cur[m])
  BY <1>3 DEF MemberHolds, StageHolds
<1>5. /\ UNCHANGED <<cur[m], phase[m]>>
      /\ Kind(cur[m])' = Kind(cur[m]) /\ Targets(cur[m])' = Targets(cur[m])
  BY <1>3 DEF Kind, Targets
<1> DEFINE Goes(x) == stage' = [stage EXCEPT ![m][s] = x]
<1>6. \A x : Goes(x) => stage'[m][s] = x
  BY DEF TypeOK
<1> HIDE DEF Goes
<1>7. \A x \in Stages \ {"none"} : Goes(x) /\ StageHolds(m, s)' => MemberHolds(m)'
  BY <1>2, <1>3, GoroutineHolds DEF Goes
<1>8. CASE Acknowledge(m, s)
  <2>1. Goes("acked") /\ <<cur[m], s>> \in accepted'
    BY <1>8 DEF Acknowledge, Goes
  <2>2. StageHolds(m, s)'
    BY <1>2, <1>3, <1>4, <1>5, <1>6, <2>1 DEF StageHolds
  <2>3. LogHolds'
    BY <1>2, <1>3, <1>8, AcceptHolds DEF Acknowledge
  <2> QED BY <1>7, <2>1, <2>2, <2>3 DEF Stages
<1>9. CASE Refuse(m, s)
  <2>1. PICK x \in {"interrupted", "refused"} : Goes(x)
    BY <1>9 DEF Refuse, Goes
  <2>2. StageHolds(m, s)'
    BY <1>2, <1>3, <1>4, <1>5, <1>6, <2>1 DEF StageHolds
  <2>3. LogHolds'
    BY <1>2, <1>3, <1>9, AcceptHolds DEF Refuse
  <2> QED BY <1>7, <2>1, <2>2, <2>3 DEF Stages
<1>10. CASE GiveUp(m, s)
  <2>1. Goes("error")
    BY <1>10 DEF GiveUp, Goes
  <2>2. StageHolds(m, s)'
    BY <1>2, <1>3, <1>4, <1>5, <1>6, <2>1 DEF StageHolds
  <2>3. LogHolds'
    BY <1>3, <1>10, LogFrame DEF GiveUp
  <2> QED BY <1>7, <2>1, <2>2, <2>3 DEF Stages
<1>11. CASE RecordAttempt(m, s)
  <2>1. LogHolds'
    BY <1>3, <1>11, LogFrame DEF RecordAttempt
  <2>2. CASE Kind(cur[m]) = "orphan"
    <3>1. Goes("missing")
      BY <1>11, <2>2 DEF RecordAttempt, Goes
    <3>2. StageHolds(m, s)'
      BY <1>2, <1>3, <1>4, <1>5, <1>6, <2>2, <3>1 DEF StageHolds, Finished
    <3> QED BY <1>7, <2>1, <3>1, <3>2 DEF Stages
  <2>3. CASE Kind(cur[m]) # "orphan"
    <3>1. /\ Goes(AfterAttempt(m, s))
          /\ <<cur[m], s, HistoryOutcome(m, s)>> \in history'
      BY <1>11, <2>3 DEF RecordAttempt, Goes
    <3>2. /\ AfterAttempt(m, s) \in {"delivered", "error", "ready", "exhausted"}
          /\ AfterAttempt(m, s) = "delivered" =>
               HistoryOutcome(m, s) = "delivered" /\ stage[m][s] = "acked"
          /\ AfterAttempt(m, s) = "exhausted" => HistoryOutcome(m, s) = "exhausted"
      BY <1>11 DEF RecordAttempt, AfterAttempt, HistoryOutcome
    <3>3. AfterAttempt(m, s) = "delivered" => <<cur[m], s>> \in accepted'
      BY <1>3, <3>2 DEF MemberHolds, StageHolds, Grows
    <3>4. PICK x \in {"delivered", "error", "ready", "exhausted"} : x = AfterAttempt(m, s)
      BY <3>2
    <3>5. StageHolds(m, s)'
      BY <1>2, <1>3, <1>4, <1>5, <1>6, <3>1, <3>2, <3>3, <3>4 DEF StageHolds
    <3> QED BY <1>7, <2>1, <3>1, <3>4, <3>5 DEF Stages
  <2> QED BY <2>2, <2>3
<1>12. CASE RecordAttemptFails(m, s)
  <2>1. Goes("error")
    BY <1>12 DEF RecordAttemptFails, Goes
  <2>2. StageHolds(m, s)'
    BY <1>2, <1>3, <1>4, <1>5, <1>6, <2>1 DEF StageHolds
  <2>3. LogHolds'
    BY <1>3, <1>12, LogFrame DEF RecordAttemptFails
  <2> QED BY <1>7, <2>1, <2>2, <2>3 DEF Stages
<1> QED BY <1>1, <1>8, <1>9, <1>10, <1>11, <1>12

\* handle after wg.Wait.
LEMMA GatherHolds ==
  ASSUME NEW m \in Member, Before(m), Gather(m) \/ GatherError(m)
  PROVE  After(m)
<1> USE DEF Before, After
<1>1. CASE GatherError(m)
  BY <1>1, QuietExitHolds DEF GatherError, worldVars
<1>2. CASE Gather(m)
  <2>1. /\ UNCHANGED <<cur, view, stage, committed, accepted>>
        /\ phase[m] = "deliver" /\ phase'[m] = "settle"
    BY <1>2 DEF Gather, brokerVars, workVars, worldVars, TypeOK
  <2>2. \A s \in Targets(cur[m]) : stage[m][s] \in Finished \ {"error"}
    BY <1>2 DEF Gather, StagesOf
  <2>3. Targets(cur[m])' = Targets(cur[m]) /\ Kind(cur[m])' = Kind(cur[m])
    BY <2>1 DEF Targets, Kind
  <2>4. \A s \in Sub : StageHolds(m, s)'
    BY <2>1, <2>2, <2>3 DEF MemberHolds, StageHolds, Grows
  <2> QED BY <2>1, <2>3, <2>4, WorkingFrame, LogFrame DEF MemberHolds
<1> QED BY <1>1, <1>2

LEMMA ParkHolds ==
  ASSUME NEW m \in Member, Before(m), Park(m)
  PROVE  After(m)
<1> USE DEF Before, After
<1>1. phase[m] = "settle" /\ cur[m] \in Record
  BY BusyHasRecord DEF Park
<1>2. PICK s \in ToPark(m) :
        \/ /\ WriteDeadLetter(m, s)
           /\ SetStage(m, s, "parked")
           /\ UNCHANGED <<OtherThanWork, tries>>
        \/ LoseDeadLetter(m, s)
  BY DEF Park
<1>3. s \in Targets(cur[m]) /\ stage[m][s] \in {"missing", "exhausted"}
  BY DEF ToPark
<1>4. s \in Sub
  BY <1>1, <1>3, RecordIsTyped
<1>5. CASE LoseDeadLetter(m, s)
  BY <1>5, QuietExitHolds DEF LoseDeadLetter
<1>6. CASE ~LoseDeadLetter(m, s)
  <2>1. /\ WriteDeadLetter(m, s)
        /\ stage' = [stage EXCEPT ![m][s] = "parked"]
        /\ UNCHANGED <<cur, view, phase, committed>>
    BY <1>2, <1>6 DEF SetStage, OtherThanWork, brokerVars
  <2>2. <<cur[m], s>> \in dlq' /\ UNCHANGED accepted
    BY <2>1 DEF WriteDeadLetter
  <2>3. stage'[m][s] = "parked"
    BY <1>4, <2>1 DEF TypeOK
  <2>4. /\ cur'[m] = cur[m] /\ phase'[m] = "settle"
        /\ Kind(cur[m])' = Kind(cur[m]) /\ Targets(cur[m])' = Targets(cur[m])
    BY <1>1, <2>1 DEF Kind, Targets
  <2>5. Kind(cur[m]) = "event" => <<cur[m], s, "exhausted">> \in history'
    BY <1>3, <1>4 DEF MemberHolds, StageHolds, Grows
  <2>6. StageHolds(m, s)'
    BY <1>3, <2>2, <2>3, <2>4, <2>5 DEF StageHolds, Finished
  <2>7. MemberHolds(m)'
    BY <1>1, <1>4, <2>1, <2>6, GoroutineHolds DEF Stages
  <2> QED BY <2>1, <2>2, <2>7, LogFrame
<1> QED BY <1>5, <1>6

\* With nothing left to park every target has taken the record or has its dead
\* letter, and for an event its history says so.
LEMMA SettledHolds ==
  ASSUME NEW m \in Member, Before(m), Settled(m)
  PROVE  After(m)
<1> USE DEF Before, After
<1>1. /\ UNCHANGED <<cur, view, stage, committed, accepted>>
      /\ phase[m] = "settle" /\ phase'[m] = "commit"
  BY DEF Settled, brokerVars, workVars, worldVars, TypeOK
<1>2. cur[m] \in Record /\ Targets(cur[m]) \subseteq Sub
  BY <1>1, BusyHasRecord, RecordIsTyped
<1>3. \A s \in Targets(cur[m]) : stage[m][s] \in {"delivered", "parked"}
  <2> SUFFICES ASSUME NEW s \in Targets(cur[m])
               PROVE  stage[m][s] \in {"delivered", "parked"}
    OBVIOUS
  <2>1. stage[m][s] \notin {"missing", "exhausted"}
    BY DEF Settled, ToPark
  <2>2. stage[m][s] # "none" /\ stage[m][s] \in Finished \ {"error"}
    BY <1>1, <1>2 DEF MemberHolds, StageHolds
  <2> QED BY <2>1, <2>2 DEF Finished
<1>4. Kind(cur[m]) \in {"event", "orphan"}
  BY <1>1 DEF MemberHolds
<1>5. \A s \in Targets(cur[m]) :
        /\ <<cur[m], s>> \in accepted \cup dlq
        /\ Kind(cur[m]) = "event" =>
             \/ <<cur[m], s, "delivered">> \in history /\ <<cur[m], s>> \in accepted
             \/ <<cur[m], s, "exhausted">> \in history /\ <<cur[m], s>> \in dlq
  BY <1>2, <1>3 DEF MemberHolds, StageHolds
<1>6. Complete(cur[m])
  BY <1>4, <1>5 DEF Complete, Done, Audited
<1>7. Targets(cur[m])' = Targets(cur[m]) /\ Kind(cur[m])' = Kind(cur[m])
  BY <1>1 DEF Targets, Kind
<1>8. \A s \in Sub : StageHolds(m, s)'
  BY <1>1, <1>7 DEF MemberHolds, StageHolds, Grows
<1> QED BY <1>1, <1>6, <1>7, <1>8, WorkingFrame, LogFrame DEF MemberHolds

\* The commit, made, lost or landed although lost.
LEMMA CommitStepHolds ==
  ASSUME NEW m \in Member, Before(m), Commit(m) \/ CommitFails(m)
  PROVE  After(m)
<1> USE DEF Before, After, worldVars
<1>1. CASE CommitFails(m)
  <2>1. LogHolds'
    BY <1>1, CommitHolds, LogFrame DEF CommitFails
  <2> QED BY <1>1, <2>1, ExitHolds DEF CommitFails
<1>2. CASE Commit(m)
  <2>1. LogHolds'
    BY <1>2, CommitHolds DEF Commit
  <2>2. CASE stopping[m]
    BY <1>2, <2>1, <2>2, ExitHolds DEF Commit
  <2>3. CASE ~stopping[m]
    <3>1. Release(m)
      BY <1>2, <2>3 DEF Commit
    <3>2. /\ cur'[m] = NoRecord /\ phase'[m] = "idle" /\ stage'[m] = NoStage
          /\ view'[m] = view[m]
      BY <3>1 DEF Release, TypeOK
    <3>3. Complete(cur[m])
      BY <1>2 DEF Commit, MemberHolds
    <3>4. \A p \in Partition : \A o \in 0 .. view[m][p] - 1 : Complete(<<p, o>>)
      BY <3>3 DEF MemberHolds
    <3>5. \A p \in Partition : \A o \in 0 .. view'[m][p] - 1 : Complete(<<p, o>>)'
      BY <3>2, <3>4, CompleteGrows
    <3> QED BY <2>1, <3>2, <3>5, IdleHolds
  <2> QED BY <2>2, <2>3
<1> QED BY <1>1, <1>2

\* Crashes, SIGTERM and deadlines.
LEMMA EnvironmentHolds ==
  ASSUME NEW m \in Member, Before(m), Environment(m)
  PROVE  After(m)
<1> USE DEF Before, After, brokerVars, workVars, worldVars
<1>1. CASE Crash(m)
  BY <1>1, QuietExitHolds DEF Crash
<1>2. CASE Sigterm(m) \/ Expire(m)
  BY <1>2, MemberFrame, LogFrame DEF Sigterm, Expire
<1> QED BY <1>1, <1>2 DEF Environment

-----------------------------------------------------------------------------
(* The theorems.                                                           *)

LEMMA InitHolds == Init => IInv
<1> SUFFICES ASSUME Init PROVE IInv
  OBVIOUS
<1>1. TypeOK
  BY InitType
<1>2. LogHolds
  BY DEF Init, LogHolds, CompleteBefore
<1>3. \A m \in Member : MemberHolds(m)
  BY DEF Init, MemberHolds, StageHolds, NoView, NotMine, NoStage
<1> QED BY <1>1, <1>2, <1>3 DEF IInv

\* A step of one process, or of its environment.
LEMMA OwnStepHolds ==
  ASSUME IInv, NEW m \in Member, Process(m) \/ Environment(m)
  PROVE  LogHolds' /\ \A n \in Member : MemberHolds(n)'
<1>1. Grows /\ Before(m)
  BY ProcessGrows DEF IInv, Before
<1>2. After(m)
  BY <1>1, LifecycleHolds, FetchHolds, ParkPoisonHolds, LookupHolds, DeliverHolds,
     GatherHolds, ParkHolds, SettledHolds, CommitStepHolds, EnvironmentHolds DEF Process
<1>3. \A n \in Member : n # m => MemberHolds(n)'
  BY <1>1, OthersUntouched, MemberFrame DEF IInv
<1> QED BY <1>2, <1>3 DEF After

LEMMA NextHolds == IInv /\ [Next]_vars => IInv'
<1> SUFFICES ASSUME IInv, [Next]_vars PROVE IInv'
  OBVIOUS
<1>1. TypeOK'
  BY NextType DEF IInv
<1>2. CASE \E m \in Member : Process(m) \/ Environment(m)
  BY <1>1, <1>2, OwnStepHolds DEF IInv
<1>3. CASE Rebalance \/ NeedlessRebalance \/ Waiting \/ UNCHANGED vars
  <2>1. UNCHANGED <<committed, accepted, dlq, history, view, phase, cur, stage>>
    BY <1>3 DEF Rebalance, NeedlessRebalance, StartGeneration, Waiting, vars, workVars, worldVars
  <2>2. Grows
    BY <2>1 DEF Grows
  <2>3. LogHolds'
    BY <2>1, <2>2, LogFrame DEF IInv
  <2>4. \A m \in Member : MemberHolds(m)'
    BY <2>1, <2>2, MemberFrame DEF IInv
  <2> QED BY <1>1, <2>3, <2>4 DEF IInv
<1> QED BY <1>2, <1>3 DEF Next

\* The inductive invariant holds in every reachable state.
THEOREM Invariance == Spec => []IInv
BY InitHolds, NextHolds, PTL DEF Spec

\* At least once or dead-lettered: no committed offset covers a record that is
\* not done for each of its subscribers (handle and processRecord), however the
\* group is rebalanced, whoever crashes and whatever fails.
THEOREM AtLeastOnce == Spec => []CommittedIsDone
<1>1. IInv => CommittedIsDone
  BY DEF IInv, LogHolds, CompleteBefore, Complete, CommittedIsDone
<1> QED BY <1>1, Invariance, PTL

\* No record reaches a subscriber before all earlier records of its partition
\* are done, stale owners included (Run handles one record at a time and a
\* reader starts at the committed offset).
THEOREM InOrder == Spec => []NoOvertaking
<1>1. IInv => NoOvertaking
  BY DEF IInv, LogHolds, CompleteBefore, Complete, NoOvertaking
<1> QED BY <1>1, Invariance, PTL

\* The attempt history of a committed event tells how each subscriber's
\* delivery ended, and tells the truth (recordAttempt precedes the commit).
THEOREM AuditTrail == Spec => []CommittedIsAudited
<1>1. IInv => CommittedIsAudited
  BY DEF IInv, LogHolds, CompleteBefore, Complete, Audited, CommittedIsAudited
<1> QED BY <1>1, Invariance, PTL

-----------------------------------------------------------------------------
(* What a step may never do.                                               *)

LEMMA DrainStep ==
  ASSUME TypeOK, [Next]_vars, NEW m \in Member, stopping[m], cur[m] # NoRecord,
         cur'[m] # cur[m]
  PROVE  phase'[m] = "down"
<1> USE DEF brokerVars, workVars, worldVars, OtherThanWork
<1>1. phase[m] \notin {"down", "idle"}
  BY DEF TypeOK
<1>2. Exit(m) => phase'[m] = "down"
  BY DEF Exit, TypeOK
<1>3. PICK n \in Member : Process(n) \/ Environment(n)
  BY DEF Next, Rebalance, NeedlessRebalance, StartGeneration, Waiting, vars
<1>4. n = m
  BY <1>3, OthersUntouched
<1>5. CASE Environment(m)
  BY <1>2, <1>5 DEF Environment, Crash, Sigterm, Expire
<1>6. CASE Restart(m) \/ StopFetching(m) \/ Join(m) \/ Fetch(m)
  BY <1>1, <1>2, <1>6 DEF Restart, StopFetching, Join, Fetch
<1>7. CASE ParkPoison(m) \/ Lookup(m) \/ LookupFails(m)
  BY <1>2, <1>7 DEF ParkPoison, LoseDeadLetter, Lookup, LookupFails
<1>8. CASE Deliver(m)
  BY <1>8 DEF Deliver, Acknowledge, Refuse, GiveUp, RecordAttempt, RecordAttemptFails
<1>9. CASE Gather(m) \/ GatherError(m) \/ Park(m) \/ Settled(m)
  BY <1>2, <1>9 DEF Gather, GatherError, Park, LoseDeadLetter, Settled
<1>10. CASE Commit(m) \/ CommitFails(m)
  BY <1>2, <1>10 DEF Commit, CommitFails
<1> QED BY <1>3, <1>4, <1>5, <1>6, <1>7, <1>8, <1>9, <1>10 DEF Process

\* After SIGTERM the record in hand is the last one: it leaves the member's
\* hands only together with the process (Run's check after processRecord).
THEOREM GracefulDrain == Spec => DrainsOneRecord
<1>1. TypeOK /\ [Next]_vars =>
        [\A m \in Member : stopping[m] /\ cur[m] # NoRecord /\ cur'[m] # cur[m]
                             => phase'[m] = "down"]_vars
  BY DrainStep
<1> QED BY <1>1, TypeCorrect, PTL DEF Spec, DrainsOneRecord

\* Where a dead letter can come from.
LEMMA DeadLetterStep ==
  ASSUME IInv, [Next]_vars, NEW d \in dlq' \ dlq
  PROVE  \E m \in Member :
           /\ d[1] = cur[m] /\ d[2] \in Debts(cur[m]) /\ cur[m] \in Record
           /\ StagesOf(m) \subseteq Finished \ {"error"}
           /\ UNCHANGED <<accepted, committed>>
           /\ dlq' = dlq \cup {d}
<1> USE DEF brokerVars, workVars, worldVars, OtherThanWork
<1>1. PICK m \in Member : ParkPoison(m) \/ Park(m)
  <2>1. PICK m \in Member : Process(m) \/ Environment(m)
    BY DEF Next, Rebalance, NeedlessRebalance, StartGeneration, Waiting, vars
  <2>2. ParkPoison(m) \/ Park(m) \/ UNCHANGED dlq
    BY <2>1 DEF Process, Environment, Crash, Sigterm, Expire, Restart, StopFetching,
       Join, Fetch, Lookup, LookupFails, Deliver, Acknowledge, Refuse, GiveUp,
       RecordAttempt, RecordAttemptFails, Gather, GatherError, Settled, Commit, CommitFails
  <2> QED BY <2>2
<1>2. cur[m] \in Record /\ TypeOK /\ MemberHolds(m)
  BY <1>1, BusyHasRecord DEF ParkPoison, Park, IInv
<1>3. CASE ParkPoison(m)
  <2>1. /\ d = <<cur[m], PoisonId>> /\ UNCHANGED <<accepted, committed>>
        /\ dlq' = dlq \cup {d}
    BY <1>3 DEF ParkPoison, WriteDeadLetter, LoseDeadLetter
  <2>2. StagesOf(m) = {} /\ PoisonId \in Debts(cur[m])
    BY <1>3 DEF ParkPoison, StagesOf, Targets, Debts
  <2> QED BY <1>2, <2>1, <2>2
<1>4. CASE Park(m)
  <2>1. PICK s \in ToPark(m) : WriteDeadLetter(m, s) \/ LoseDeadLetter(m, s)
    BY <1>4 DEF Park
  <2>2. UNCHANGED committed
    BY <1>4 DEF Park, LoseDeadLetter
  <2>3. d = <<cur[m], s>> /\ UNCHANGED accepted /\ dlq' = dlq \cup {d}
    BY <2>1 DEF WriteDeadLetter, LoseDeadLetter
  <2>4. phase[m] = "settle" /\ Targets(cur[m]) \subseteq Sub
    BY <1>2, <1>4, RecordIsTyped DEF Park
  <2>5. StagesOf(m) \subseteq Finished \ {"error"}
    <3>1. ASSUME NEW t \in Targets(cur[m])
          PROVE  stage[m][t] \in Finished \ {"error"}
      BY <1>2, <2>4 DEF MemberHolds, StageHolds, Finished
    <3> QED BY <3>1 DEF StagesOf
  <2>6. s \in Debts(cur[m])
    BY <2>1, <2>4, <1>2 DEF ToPark, Debts, MemberHolds
  <2> QED BY <1>2, <2>2, <2>3, <2>5, <2>6
<1> QED BY <1>1, <1>3, <1>4

\* A dead letter is written only when every other subscriber of the record has
\* come to its end (handle returns retryable errors before it parks anything).
THEOREM DeadLettersLast == Spec => DeadLetterComesLast
<1>1. IInv /\ [Next]_vars =>
        [\A d \in dlq' \ dlq : \E m \in Member :
            /\ cur[m] = d[1]
            /\ StagesOf(m) \subseteq Finished \ {"error"}]_vars
  BY DeadLetterStep
<1> QED BY <1>1, Invariance, PTL DEF Spec, DeadLetterComesLast

-----------------------------------------------------------------------------
(* The consumers implement the delivery contract.                          *)

Owed == [p \in Partition |-> [i \in 1 .. Len(Log[p]) |-> Debts(<<p, i - 1>>)]]

\* The contract's debts are those of the log.
LEMMA OwedIsDebts ==
  ASSUME NEW p \in Partition, NEW o \in Nat, o < Len(Log[p])
  PROVE  /\ o + 1 \in DOMAIN Owed[p]
         /\ Owed[p][o + 1] = Debts(<<p, o>>)
<1>1. o + 1 \in 1 .. Len(Log[p]) /\ (o + 1) - 1 = o
  BY LogHasRecords
<1> QED BY <1>1 DEF Owed

LEMMA CompleteIsClosed ==
  ASSUME NEW p \in Partition, NEW o \in Nat, o < Len(Log[p]), Complete(<<p, o>>)
  PROVE  Contract!Closed(<<p, o>>)
<1>1. Owed[p][o + 1] = Debts(<<p, o>>)
  BY OwedIsDebts
<1>2. \A s \in Debts(<<p, o>>) : <<<<p, o>>, s>> \in accepted \cup dlq
  <2>1. CASE Kind(<<p, o>>) \in {"event", "orphan"}
    BY <2>1 DEF Complete, Done, Debts
  <2>2. CASE Kind(<<p, o>>) \notin {"event", "orphan"}
    <3>1. Kind(<<p, o>>) \in Kinds
      BY LogHasRecords, RecordIsTyped
    <3>2. Kind(<<p, o>>) = "poison"
      BY <2>2, <3>1 DEF Kinds, Complete, Done
    <3> QED BY <3>2 DEF Complete, Done, Debts
  <2> QED BY <2>1, <2>2
<1> QED BY <1>1, <1>2 DEF Contract!Closed, Owed

LEMMA CompleteBeforeIsClosed ==
  ASSUME NEW p \in Partition, NEW n \in Nat, n <= Len(Log[p]), CompleteBefore(p, n)
  PROVE  Contract!ClosedBefore(p, n)
<1>1. ASSUME NEW o \in 0 .. n - 1
      PROVE  Contract!Closed(<<p, o>>)
  <2>1. o \in Nat /\ o < Len(Log[p]) /\ Complete(<<p, o>>)
    BY LogHasRecords DEF CompleteBefore
  <2> QED BY <2>1, CompleteIsClosed
<1> QED BY <1>1 DEF Contract!ClosedBefore

\* Closing a debt of a record in hand is a step of the contract.
LEMMA CloseRefines ==
  ASSUME IInv, NEW m \in Member, cur[m] \in Record, NEW s \in Debts(cur[m]),
         UNCHANGED committed,
         (accepted \cup dlq)' = (accepted \cup dlq) \cup {<<cur[m], s>>}
  PROVE  Contract!Close
<1>1. PICK p \in Partition, o \in Nat : cur[m] = <<p, o>> /\ o < Len(Log[p])
  BY RecordIsPair
<1>2. o + 1 \in DOMAIN Owed[p] /\ s \in Owed[p][o + 1] /\ (o + 1) - 1 = o
  BY <1>1, OwedIsDebts
<1>3. CompleteBefore(p, o)
  BY <1>1, NoRecordIsNone DEF IInv, MemberHolds
<1>4. Contract!ClosedBefore(p, o)
  BY <1>1, <1>3, LogHasRecords, CompleteBeforeIsClosed
<1> QED BY <1>1, <1>2, <1>4 DEF Contract!Close, Owed

\* So is a commit behind it.
LEMMA CommitRefines ==
  ASSUME IInv, NEW m \in Member, phase[m] = "commit", CommitOffset(m),
         UNCHANGED <<accepted, dlq>>
  PROVE  Contract!Commit
<1>1. cur[m] \in Record /\ MemberHolds(m)
  BY BusyHasRecord DEF IInv
<1>2. PICK p \in Partition, o \in Nat : cur[m] = <<p, o>> /\ o < Len(Log[p])
  BY <1>1, RecordIsPair
<1>3. CompleteBefore(p, o) /\ Complete(<<p, o>>)
  BY <1>1, <1>2, NoRecordIsNone DEF MemberHolds
<1>4. CompleteBefore(p, o + 1)
  <2>1. \A q \in 0 .. (o + 1) - 1 : q = o \/ q \in 0 .. o - 1
    BY <1>2
  <2> QED BY <1>3, <2>1 DEF CompleteBefore
<1>5. Contract!ClosedBefore(p, o + 1) /\ o + 1 \in DOMAIN Owed[p]
  <2>1. o + 1 \in Nat /\ o + 1 <= Len(Log[p])
    BY <1>2, LogHasRecords
  <2> QED BY <1>2, <1>4, <2>1, CompleteBeforeIsClosed, OwedIsDebts
<1>6. committed' = [committed EXCEPT ![p] = o + 1]
  BY <1>2 DEF CommitOffset
<1> QED BY <1>5, <1>6 DEF Contract!Commit, Owed

\* A 2xx comes from a goroutine of a record in hand.
LEMMA AcceptStep ==
  ASSUME IInv, [Next]_vars, accepted' # accepted
  PROVE  \E m \in Member : \E s \in Debts(cur[m]) :
           /\ cur[m] \in Record
           /\ accepted' = accepted \cup {<<cur[m], s>>}
           /\ UNCHANGED <<committed, dlq>>
<1> USE DEF brokerVars, workVars, worldVars, OtherThanWork
<1>1. PICK m \in Member : Deliver(m)
  <2>1. PICK m \in Member : Process(m) \/ Environment(m)
    BY DEF Next, Rebalance, NeedlessRebalance, StartGeneration, Waiting, vars
  <2>2. Deliver(m) \/ UNCHANGED accepted
    BY <2>1 DEF Process, Environment, Crash, Sigterm, Expire, Restart, StopFetching,
       Join, Fetch, ParkPoison, WriteDeadLetter, LoseDeadLetter, Lookup, LookupFails,
       Gather, GatherError, Park, Settled, Commit, CommitFails
  <2> QED BY <2>2
<1>2. cur[m] \in Record /\ phase[m] = "deliver" /\ MemberHolds(m)
  BY <1>1, BusyHasRecord DEF Deliver, IInv
<1>3. PICK s \in Sub : Acknowledge(m, s) \/ Refuse(m, s)
  BY <1>1 DEF Deliver, GiveUp, RecordAttempt, RecordAttemptFails
<1>4. s \in Debts(cur[m])
  BY <1>2, <1>3 DEF Acknowledge, Refuse, MemberHolds, StageHolds, Debts
<1> QED BY <1>2, <1>3, <1>4 DEF Acknowledge, Refuse

\* A committed offset changes only when a member commits.
LEMMA CommitStep ==
  ASSUME IInv, [Next]_vars, committed' # committed
  PROVE  \E m \in Member : /\ phase[m] = "commit" /\ CommitOffset(m)
                           /\ UNCHANGED <<accepted, dlq>>
<1> USE DEF brokerVars, workVars, worldVars, OtherThanWork
<1>1. PICK m \in Member : Process(m) \/ Environment(m)
  BY DEF Next, Rebalance, NeedlessRebalance, StartGeneration, Waiting, vars
<1>2. Commit(m) \/ CommitFails(m) \/ UNCHANGED committed
  BY <1>1 DEF Process, Environment, Crash, Sigterm, Expire, Restart, StopFetching,
     Join, Fetch, ParkPoison, LoseDeadLetter, Lookup, LookupFails,
     Deliver, Acknowledge, Refuse, GiveUp, RecordAttempt, RecordAttemptFails,
     Gather, GatherError, Park, Settled
<1> QED BY <1>2 DEF Commit, CommitFails

LEMMA StepRefines == IInv /\ [Next]_vars => [Contract!Next]_(Contract!cvars)
<1> SUFFICES ASSUME IInv, [Next]_vars
             PROVE  Contract!Next \/ UNCHANGED <<committed, accepted \cup dlq>>
  BY DEF Contract!cvars
<1>1. CASE committed' # committed
  BY <1>1, CommitStep, CommitRefines DEF Contract!Next
<1>2. CASE accepted' # accepted
  BY <1>2, AcceptStep, CloseRefines DEF Contract!Next
<1>3. CASE dlq' # dlq
  <2>1. dlq \subseteq dlq'
    <3>1. CASE \E m \in Member : Process(m) \/ Environment(m)
      BY <3>1, ProcessGrows DEF Grows
    <3>2. CASE ~\E m \in Member : Process(m) \/ Environment(m)
      BY <3>2 DEF Next, Rebalance, NeedlessRebalance, StartGeneration, Waiting, vars, worldVars
    <3> QED BY <3>1, <3>2
  <2>2. PICK d \in dlq' \ dlq : TRUE
    BY <1>3, <2>1
  <2>3. PICK m \in Member : /\ d[1] = cur[m] /\ d[2] \in Debts(cur[m]) /\ cur[m] \in Record
                            /\ UNCHANGED <<accepted, committed>>
                            /\ dlq' = dlq \cup {d}
    BY <2>2, DeadLetterStep
  <2>4. d = <<cur[m], d[2]>>
    <3>1. TypeOK'
      BY NextType DEF IInv
    <3> QED BY <2>2, <2>3, <3>1 DEF TypeOK
  <2> QED BY <2>3, <2>4, CloseRefines DEF Contract!Next
<1> QED BY <1>1, <1>2, <1>3

\* The consumer group, with its fan-out, retries, rebalances, crashes and
\* failed writes, implements the delivery contract.
THEOREM ImplementsContract == Spec => KeepsContract
<1>1. Init => Contract!Init
  BY DEF Init, Contract!Init
<1>2. IInv /\ [Next]_vars => [Contract!Next]_(Contract!cvars)
  BY StepRefines
<1> QED BY <1>1, <1>2, Invariance, PTL DEF Spec, KeepsContract, Contract!Spec
=============================================================================
