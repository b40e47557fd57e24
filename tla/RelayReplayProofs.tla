------------------------- MODULE RelayReplayProofs -------------------------
(***************************************************************************)
(* Replay for every log, every number of partitions and every failure.     *)
(*                                                                         *)
(* Typed: everything points into the log, and what a reset commits was     *)
(* answered by the broker.                                                 *)
(* Progress: at least once across a replay from the beginning.  What a     *)
(* consumer commits is a record up to which everything was delivered,      *)
(* whenever it does so and whatever was reset meanwhile; what the reset    *)
(* commits is 0.                                                           *)
(* Replayed: after a replay that succeeded the group is never ahead of     *)
(* what it was given again.                                                *)
(***************************************************************************)
EXTENDS RelayReplay, FiniteSetTheorems, WellFoundedInduction, TLAPS

-----------------------------------------------------------------------------
(* Where everything is.                                                    *)

Shapes ==
  /\ log \in [Partition -> Seq({"old", "new"})]
  /\ committed \in [Partition -> Nat] /\ position \in [Partition -> Nat]
  /\ delivered \in [Partition -> SUBSET Nat] /\ again \in [Partition -> SUBSET Nat]
  /\ found \in [Partition -> Nat \cup {None}] /\ end \in [Partition -> Nat \cup {None}]
  /\ hand = None \/ hand \in [partition : Partition, offset : Nat]

\* Everything points into the log.
Inside ==
  /\ \A p \in Partition :
       /\ committed[p] <= Len(log[p]) /\ position[p] <= Len(log[p])
       /\ again[p] \subseteq delivered[p]
       /\ \A o \in delivered[p] : o < Len(log[p])
       /\ found[p] # None => found[p] <= Len(log[p])
       /\ end[p] # None => end[p] <= Len(log[p])
  /\ hand # None => proc = "in" /\ hand.offset \in delivered[hand.partition]

Phases ==
  /\ since \in Since
  /\ proc \in {"in", "out"} /\ adverse \in Nat
  /\ script \in {"start", "stopped", "run", "restore", "exit", "done", "failed"}
  /\ cmd \in {"none", "wait", "list", "commit", "ok", "error"}
  /\ script \in {"stopped", "run", "restore"} => ~wanted
  /\ script \in {"run", "restore"} => stopped

Flags == {wanted, member, fenced, stopped} \subseteq BOOLEAN

\* What is committed was answered: the end if the reset is by time, and the
\* beginning if it is to the beginning.
Known(p) == IF since = "timestamp" THEN end[p] # None ELSE found[p] = 0
Lookups == IF since = "timestamp" THEN {"time", "end"} ELSE {"first"}
Needed == IF since = "timestamp" THEN "end" ELSE "first"

Answers ==
  /\ todo \subseteq Partition \X Lookups
  /\ cmd = "list" => \A p \in Partition : Known(p) \/ <<p, Needed>> \in todo
  /\ cmd \in {"commit", "ok"} => \A p \in Partition : Known(p)

Typed == Shapes /\ Inside /\ Phases /\ Flags /\ Answers

-----------------------------------------------------------------------------
LEMMA SinceStays == [Next]_vars => since' = since
BY DEF Next, Consume, Command, Script, Produce, Join, Take, CommitRecord, Leave, Rejoin, Die,
   Expire, Inactive, LookUpFirst, LookUpTime, LookUpEnd, Answered, CommitOffsets, CommandFails,
   StartCommand, CommandEnds, RestoreConsumer, Cleanup, StopConsumer, ScriptFails, Interrupt,
   Quiet, vars, scriptVars, kafkaVars, procVars, cmdVars

\* The first record at or after --since is in the log and no such record is before it.
LEMMA FirstNewIsFirst ==
  ASSUME Shapes, NEW p \in Partition, FirstNew(p) # None
  PROVE  /\ FirstNew(p) \in Nat /\ FirstNew(p) < Len(log[p])
         /\ \A o \in 0 .. Len(log[p]) - 1 : log[p][o + 1] = "new" => FirstNew(p) <= o
<1>1. News(p) # {} /\ News(p) \subseteq Nat /\ Len(log[p]) \in Nat
  BY DEF FirstNew, News, Shapes
<1> DEFINE R == StrictSubsetOrdering(Nat)
           Upto == {1 .. j : j \in News(p)}
<1>2. \A j \in Nat : IsFiniteSet(1 .. j)
  BY FS_Interval
<1>3. Upto \subseteq FiniteSubsetsOf(Nat) /\ Upto # {}
  BY <1>1, <1>2 DEF FiniteSubsetsOf
<1>4. IsWellFoundedOn(R, FiniteSubsetsOf(Nat))
  BY FS_StrictSubsetOrderingWellFounded
<1>5. PICK T \in Upto : \A V \in Upto : ~ (<<V, T>> \in R)
  <2> HIDE DEF R, Upto
  <2> QED BY <1>3, <1>4, WFMin
<1>6. PICK i \in News(p) : T = 1 .. i
  BY <1>5
<1>7. ASSUME NEW j \in News(p), j < i PROVE FALSE
  <2>1. 1 .. j \in Upto /\ 1 .. j \in SUBSET Nat /\ T \in SUBSET Nat
    BY <1>1, <1>6
  <2>2. 1 .. j \subseteq T /\ 1 .. j # T
    BY <1>1, <1>6, <1>7
  <2>3. <<1 .. j, T>> \in R
    BY <2>1, <2>2 DEF StrictSubsetOrdering
  <2> QED BY <1>5, <2>1, <2>3
<1> HIDE DEF R, Upto
<1>8. \A j \in News(p) : i <= j
  BY <1>1, <1>7
<1>9. PICK k \in News(p) : FirstNew(p) = k - 1 /\ \A j \in News(p) : k <= j
  BY <1>1, <1>8 DEF FirstNew
<1>10. \A o \in 0 .. Len(log[p]) - 1 : log[p][o + 1] = "new" => o + 1 \in News(p)
  BY <1>1 DEF News
<1>11. k \in Nat /\ 1 <= k /\ k <= Len(log[p])
  BY <1>1, <1>9 DEF News
<1>12. ASSUME NEW o \in 0 .. Len(log[p]) - 1, log[p][o + 1] = "new"
       PROVE  k - 1 <= o
  <2>1. k <= o + 1
    BY <1>9, <1>10, <1>12
  <2> QED BY <1>1, <1>11, <2>1
<1>13. FirstNew(p) \in Nat /\ FirstNew(p) < Len(log[p])
  BY <1>1, <1>9, <1>11
<1> QED BY <1>9, <1>12, <1>13

LEMMA TypedInit == Init => Typed
<1> SUFFICES ASSUME Init PROVE Typed
  OBVIOUS
<1>1. Shapes
  BY LogAssumption, BoundsAssumption DEF Init, Shapes
<1>2. Inside
  <2>1. \A p \in Partition : Processed[p] \in Nat /\ Processed[p] <= Len(Log0[p])
    BY LogAssumption
  <2> QED BY <2>1 DEF Init, Inside
<1>3. Phases
  BY BoundsAssumption DEF Init, Phases
<1>4. Flags
  BY Zenon DEF Init, Flags
<1>5. Answers
  BY DEF Init, Answers
<1> QED BY <1>1, <1>2, <1>3, <1>4, <1>5 DEF Typed

LEMMA FlagsStep == Typed /\ [Next]_vars => Flags'
<1> SUFFICES ASSUME Typed, [Next]_vars PROVE Flags'
  OBVIOUS
<1> DEFINE Kept == /\ wanted' \in BOOLEAN /\ member' \in BOOLEAN
                   /\ fenced' \in BOOLEAN /\ stopped' \in BOOLEAN
<1>1. Flags
  BY DEF Typed
<1>2. CASE Consume \/ (\E p \in Partition : Produce(p)) \/ Die \/ Expire
  <2>1. Kept
    BY <1>1, <1>2, Zenon DEF Flags, Consume, Join, Produce, Take, CommitRecord, Leave, Rejoin,
       Die, Expire, procVars
  <2> QED BY <2>1, Zenon DEF Flags
<1>3. CASE Command
  <2>1. Kept
    BY <1>1, <1>3, Zenon DEF Flags, Command, Inactive, LookUpFirst, LookUpTime, LookUpEnd,
       Answered, CommitOffsets, CommandFails, procVars
  <2> QED BY <2>1, Zenon DEF Flags
<1>4. CASE Script \/ StopConsumer \/ ScriptFails \/ Interrupt \/ Quiet \/ UNCHANGED vars
  <2>1. Kept
    BY <1>1, <1>4, Zenon DEF Flags, Script, StartCommand, CommandEnds, RestoreConsumer, Cleanup,
       StopConsumer, ScriptFails, Interrupt, Quiet, vars, scriptVars, procVars
  <2> QED BY <2>1, Zenon DEF Flags
<1> QED BY <1>2, <1>3, <1>4 DEF Next

LEMMA PhasesStep == Typed /\ [Next]_vars => Phases'
<1> SUFFICES ASSUME Typed, [Next]_vars PROVE Phases'
  OBVIOUS
<1> USE DEF Typed, Phases, Adversity
<1>1. CASE Consume \/ (\E p \in Partition : Produce(p)) \/ Die \/ Expire
  BY <1>1 DEF Consume, Join, Produce, Take, CommitRecord, Leave, Rejoin, Die, Expire, procVars,
     cmdVars
<1>2. CASE Command
  <2>1. UNCHANGED <<since, proc, script, wanted, stopped>>
    BY <1>2 DEF Command, Inactive, LookUpFirst, LookUpTime, LookUpEnd, Answered, CommitOffsets,
       CommandFails, procVars
  <2>2. adverse' = adverse \/ Adversity
    BY <1>2, Zenon DEF Command, Inactive, LookUpFirst, LookUpTime, LookUpEnd, Answered,
       CommitOffsets, CommandFails
  <2>3. cmd' \in {"list", "commit", "ok", "error"}
    BY <1>2 DEF Command, Inactive, LookUpFirst, LookUpTime, LookUpEnd, Answered, CommitOffsets,
       CommandFails
  <2> QED BY <2>1, <2>2, <2>3
<1>3. CASE Script \/ StopConsumer \/ ScriptFails \/ Interrupt \/ Quiet \/ UNCHANGED vars
  BY <1>3 DEF Script, StartCommand, CommandEnds, RestoreConsumer, Cleanup, StopConsumer,
     ScriptFails, Interrupt, Quiet, vars, scriptVars, procVars
<1> QED BY <1>1, <1>2, <1>3 DEF Next

LEMMA AnswersStep == Typed /\ [Next]_vars => Answers'
<1> SUFFICES ASSUME Typed, [Next]_vars PROVE Answers'
  OBVIOUS
<1>1. since' = since
  BY SinceStays
<1> USE <1>1 DEF Known, Lookups, Needed, Answers
<1>2. CASE Consume \/ (\E p \in Partition : Produce(p)) \/ Die \/ Expire
  BY <1>2 DEF Typed, Consume, Join, Produce, Take, CommitRecord, Leave, Rejoin, Die, Expire,
     cmdVars
<1>3. CASE Inactive
  BY <1>3 DEF Typed, Inactive
<1>4. CASE \E p \in Partition : LookUpFirst(p) \/ LookUpTime(p) \/ LookUpEnd(p)
  <2>1. PICK p \in Partition : LookUpFirst(p) \/ LookUpTime(p) \/ LookUpEnd(p)
    BY <1>4
  <2>2. /\ cmd = "list" /\ todo' \subseteq todo
        /\ cmd' = IF todo' = {} THEN "commit" ELSE "list"
    BY <2>1 DEF LookUpFirst, LookUpTime, LookUpEnd, Answered
  <2>3. \A q \in Partition : Known(q)' \/ <<q, Needed>> \in todo'
    <3>1. CASE LookUpFirst(p)
      BY <3>1 DEF LookUpFirst, Answered, Typed, Shapes
    <3>2. CASE LookUpTime(p)
      BY <3>2 DEF LookUpTime, Answered, Typed, Shapes
    <3>3. CASE LookUpEnd(p)
      <4>1. Len(log[p]) # None
        BY BoundsAssumption DEF Typed, Shapes
      <4> QED BY <3>3, <4>1 DEF LookUpEnd, Answered, Typed, Shapes
    <3> QED BY <2>1, <3>1, <3>2, <3>3
  <2> QED BY <2>2, <2>3 DEF Typed
<1>5. CASE CommitOffsets \/ CommandFails
  BY <1>5 DEF Typed, CommitOffsets, CommandFails
<1>6. CASE Script \/ StopConsumer \/ ScriptFails \/ Interrupt \/ Quiet \/ UNCHANGED vars
  BY <1>6 DEF Typed, Phases, Script, StartCommand, CommandEnds, RestoreConsumer, Cleanup,
     StopConsumer, ScriptFails, Interrupt, Quiet, vars, scriptVars, cmdVars
<1> QED BY <1>2, <1>3, <1>4, <1>5, <1>6 DEF Next, Command

\* What is committed by a reset is a place in the log.
LEMMA OffsetIsInside ==
  ASSUME Typed, cmd \in {"commit", "ok"}, NEW p \in Partition
  PROVE  Offset(p) \in Nat /\ Offset(p) <= Len(log[p])
<1>1. found[p] # None \/ end[p] # None
  BY BoundsAssumption DEF Typed, Answers, Known
<1> QED BY <1>1 DEF Typed, Shapes, Inside, Offset

\* Neither the log nor what points into it has changed.
LEMMA PlaceFrame ==
  ASSUME Typed, UNCHANGED <<log, committed, position, delivered, again, found, end, hand>>,
         proc' = proc \/ hand = None
  PROVE  Shapes' /\ Inside'
BY DEF Typed, Shapes, Inside

\* The broker moves some partitions.
LEMMA MoveIsTyped ==
  ASSUME Typed, cmd = "commit", NEW ps \in SUBSET Partition, Move(ps),
         UNCHANGED <<log, position, delivered, found, end, hand, proc>>
  PROVE  Shapes' /\ Inside'
<1>1. \A p \in Partition : Offset(p) \in Nat /\ Offset(p) <= Len(log[p])
  BY OffsetIsInside
<1>2. /\ committed' = [p \in Partition |-> IF p \in ps THEN Offset(p) ELSE committed[p]]
      /\ again' = [p \in Partition |-> IF p \in ps THEN {} ELSE again[p]]
  BY DEF Move
<1>3. Shapes'
  BY <1>1, <1>2 DEF Typed, Shapes
<1>4. Inside'
  BY <1>1, <1>2 DEF Typed, Inside
<1> QED BY <1>3, <1>4

LEMMA PlacesStep == Typed /\ [Next]_vars => Shapes' /\ Inside'
<1> SUFFICES ASSUME Typed, [Next]_vars PROVE Shapes' /\ Inside'
  OBVIOUS
<1> USE DEF kafkaVars, procVars, cmdVars
<1>1. CASE \E p \in Partition : Produce(p)
  <2>1. PICK p \in Partition :
          /\ log' = [log EXCEPT ![p] = Append(@, "new")]
          /\ UNCHANGED <<committed, position, delivered, again, found, end, hand, proc>>
    BY <1>1 DEF Produce
  <2>2. Shapes'
    BY <2>1 DEF Typed, Shapes
  <2>3. \A q \in Partition :
          Len(log[q]) \in Nat /\ Len(log'[q]) \in Nat /\ Len(log[q]) <= Len(log'[q])
    BY <2>1 DEF Typed, Shapes
  <2>4. Inside'
    BY <2>1, <2>3 DEF Typed, Shapes, Inside
  <2> QED BY <2>2, <2>4
<1>2. CASE Join \/ Rejoin
  BY <1>2 DEF Join, Rejoin, Typed, Shapes, Inside
<1>3. CASE \E p \in Partition : Take(p)
  <2>1. PICK p \in Partition : Take(p)
    BY <1>3
  <2>2. PICK n \in Nat : n = position[p] /\ n < Len(log[p]) /\ Len(log[p]) \in Nat
    BY <2>1 DEF Take, Typed, Shapes
  <2>3. /\ hand' = [partition |-> p, offset |-> n] /\ proc' = "in"
        /\ position' = [position EXCEPT ![p] = n + 1]
        /\ delivered' = [delivered EXCEPT ![p] = @ \cup {n}]
        /\ again' = [again EXCEPT ![p] = @ \cup {n}]
        /\ UNCHANGED <<log, committed, found, end>>
    BY <2>1, <2>2 DEF Take
  <2>4. Shapes'
    BY <2>3 DEF Typed, Shapes
  <2>5. Inside'
    <3>1. \A q \in Partition :
            /\ committed'[q] <= Len(log'[q]) /\ position'[q] <= Len(log'[q])
            /\ found'[q] # None => found'[q] <= Len(log'[q])
            /\ end'[q] # None => end'[q] <= Len(log'[q])
      BY <2>2, <2>3 DEF Typed, Shapes, Inside
    <3>2. \A q \in Partition :
            again'[q] \subseteq delivered'[q] /\ \A o \in delivered'[q] : o < Len(log'[q])
      BY <2>2, <2>3 DEF Typed, Shapes, Inside
    <3>3. hand'.offset \in delivered'[hand'.partition] /\ proc' = "in"
      BY <2>3 DEF Typed, Shapes
    <3> QED BY <3>1, <3>2, <3>3 DEF Inside
  <2> QED BY <2>4, <2>5
<1>4. CASE CommitRecord
  <2>1. PICK p \in Partition, n \in Nat : hand = [partition |-> p, offset |-> n] /\ n < Len(log[p])
    BY <1>4 DEF CommitRecord, Typed, Shapes, Inside
  <2>2. /\ committed' = [committed EXCEPT ![p] = n + 1] /\ hand' = None
        /\ UNCHANGED <<log, position, delivered, again, found, end>>
    BY <1>4, <2>1 DEF CommitRecord
  <2> QED BY <2>1, <2>2 DEF Typed, Shapes, Inside
<1>5. CASE Leave \/ Expire
  BY <1>5, PlaceFrame DEF Leave, Expire
<1>6. CASE Die
  BY <1>6 DEF Die, Typed, Shapes, Inside
<1>7. CASE Inactive
  BY <1>7, PlaceFrame DEF Inactive
<1>8. CASE \E p \in Partition : LookUpFirst(p) \/ LookUpTime(p) \/ LookUpEnd(p)
  <2>1. PICK p \in Partition : LookUpFirst(p) \/ LookUpTime(p) \/ LookUpEnd(p)
    BY <1>8
  <2>2. UNCHANGED <<log, committed, position, delivered, again, hand, proc>>
    BY <2>1 DEF LookUpFirst, LookUpTime, LookUpEnd, Answered
  <2>3. Len(log[p]) \in Nat
    BY DEF Typed, Shapes
  <2>4. FirstNew(p) # None => FirstNew(p) \in Nat /\ FirstNew(p) <= Len(log[p])
    BY <2>3, FirstNewIsFirst DEF Typed
  <2>5. CASE LookUpFirst(p)
    BY <2>2, <2>3, <2>5 DEF LookUpFirst, Typed, Shapes, Inside
  <2>6. CASE LookUpTime(p)
    <3>1. found' = [found EXCEPT ![p] = FirstNew(p)] /\ end' = end
      BY <2>6 DEF LookUpTime
    <3>2. Shapes'
      BY <2>2, <2>4, <3>1 DEF Typed, Shapes
    <3>3. Inside'
      BY <2>2, <2>4, <3>1 DEF Typed, Shapes, Inside
    <3> QED BY <3>2, <3>3
  <2>7. CASE LookUpEnd(p)
    BY <2>2, <2>3, <2>7 DEF LookUpEnd, Typed, Shapes, Inside
  <2> QED BY <2>1, <2>5, <2>6, <2>7
<1>9. CASE CommitOffsets
  BY <1>9, MoveIsTyped DEF CommitOffsets
<1>10. CASE CommandFails
  <2>1. CASE UNCHANGED <<committed, again>>
    BY <1>10, <2>1, PlaceFrame DEF CommandFails
  <2>2. CASE cmd = "commit" /\ \E ps \in SUBSET Partition : Move(ps)
    BY <1>10, <2>2, MoveIsTyped DEF CommandFails
  <2> QED BY <1>10, <2>1, <2>2 DEF CommandFails
<1>11. CASE Script \/ StopConsumer \/ ScriptFails \/ Interrupt \/ Quiet \/ UNCHANGED vars
  BY <1>11, PlaceFrame DEF Script, StartCommand, CommandEnds, RestoreConsumer, Cleanup,
     StopConsumer, ScriptFails, Interrupt, Quiet, vars, scriptVars
<1> QED BY <1>1, <1>2, <1>3, <1>4, <1>5, <1>6, <1>7, <1>8, <1>9, <1>10, <1>11
        DEF Next, Consume, Command

LEMMA TypedAlways == Spec => []Typed
<1>1. Typed /\ [Next]_vars => Typed'
  BY FlagsStep, PhasesStep, AnswersStep, PlacesStep DEF Typed
<1> QED BY TypedInit, <1>1, PTL DEF Spec

\* No step of the consumer, of relay-replay or of its script, and no failure of one,
\* sends the group or a lookup outside the log, or leaves a record in the hand of a
\* process that is gone (Consumer.processRecord; replay.Reset and offsetsFor).
THEOREM TypeCorrect == Spec => []TypeOK
<1>1. Typed => TypeOK
  <2> SUFFICES ASSUME Typed PROVE TypeOK
    OBVIOUS
  <2>1. ASSUME NEW p \in Partition
        PROVE  /\ log[p] \in Seq({"old", "new"})
               /\ {committed[p], position[p]} \subseteq 0 .. Len(log[p])
               /\ again[p] \subseteq delivered[p] /\ delivered[p] \subseteq 0 .. Len(log[p]) - 1
               /\ {found[p], end[p]} \subseteq (0 .. Len(log[p])) \cup {None}
    BY DEF Typed, Shapes, Inside
  <2>2. hand = None \/ (proc = "in" /\ hand.offset \in delivered[hand.partition])
    BY DEF Typed, Inside
  <2>3. {wanted, member, fenced, stopped} \subseteq BOOLEAN
    BY DEF Typed, Flags
  <2> QED BY <2>1, <2>2, <2>3, Zenon DEF TypeOK, Typed, Phases
<1> QED BY <1>1, TypedAlways, PTL

-----------------------------------------------------------------------------
(* From the beginning.                                                     *)

\* Everything before n has been delivered on p.
UpTo(p, n) == \A o \in Nat : o < n => o \in delivered[p]

Progress ==
  since = "earliest" =>
    /\ \A p \in Partition : UpTo(p, committed[p]) /\ UpTo(p, position[p])
    /\ hand # None => UpTo(hand.partition, hand.offset + 1)

LEMMA ProgressInit == Init => Progress
  BY LogAssumption DEF Init, Progress, UpTo

\* Deliveries are not undone, and nothing else that concerns Progress changes.
LEMMA ProgressFrame ==
  ASSUME Progress, UNCHANGED <<committed, position, delivered, since>>,
         hand' = hand \/ hand' = None
  PROVE  Progress'
BY DEF Progress, UpTo

LEMMA ConsumerProgresses ==
  ASSUME Typed, Progress, Consume, since' = since
  PROVE  Progress'
<1> USE DEF kafkaVars, procVars
<1>1. CASE Join \/ Rejoin
  BY <1>1 DEF Join, Rejoin, Progress, UpTo
<1>2. CASE CommitRecord
  BY <1>2 DEF CommitRecord, Typed, Shapes, Progress, UpTo
<1>3. CASE \E p \in Partition : Take(p)
  <2> SUFFICES ASSUME since = "earliest" PROVE Progress'
    BY DEF Progress
  <2>1. PICK p \in Partition : Take(p)
    BY <1>3
  <2>2. PICK n \in Nat : n = position[p]
    BY DEF Typed, Shapes
  <2>3. /\ hand' = [partition |-> p, offset |-> n]
        /\ position' = [position EXCEPT ![p] = n + 1]
        /\ delivered' = [delivered EXCEPT ![p] = @ \cup {n}]
        /\ UNCHANGED <<committed, found, todo, cmd>>
    BY <2>1, <2>2 DEF Take, cmdVars
  <2>4. \A q \in Partition, m \in Nat : UpTo(q, m) => UpTo(q, m)'
    BY <2>3 DEF Typed, Shapes, UpTo
  <2>5. UpTo(p, n) /\ n \in delivered'[p]
    BY <2>2, <2>3 DEF Typed, Shapes, Progress
  <2>6. UpTo(p, n + 1)'
    <3> SUFFICES ASSUME NEW o \in Nat, o < n + 1 PROVE o \in delivered'[p]
      BY DEF UpTo
    <3>1. o < n \/ o = n
      OBVIOUS
    <3> QED BY <2>4, <2>5, <3>1 DEF UpTo
  <2>7. \A q \in Partition : UpTo(q, committed[q])'
    BY <2>3 DEF Typed, Shapes, Progress, UpTo
  <2>8. \A q \in Partition : UpTo(q, position[q])'
    <3> SUFFICES ASSUME NEW q \in Partition PROVE UpTo(q, position[q])'
      OBVIOUS
    <3>1. CASE q = p
      BY <2>3, <2>6, <3>1 DEF UpTo, Typed, Shapes
    <3>2. CASE q # p
      BY <2>3, <3>2 DEF Typed, Shapes, Progress, UpTo
    <3> QED BY <3>1, <3>2
  <2> QED BY <2>3, <2>6, <2>7, <2>8 DEF Progress, UpTo
<1>4. CASE Leave
  BY <1>4, ProgressFrame DEF Leave
<1> QED BY <1>1, <1>2, <1>3, <1>4 DEF Consume

\* The broker has put some partitions back to the beginning.
LEMMA MoveProgresses ==
  ASSUME Typed, Progress, cmd = "commit", NEW ps \in SUBSET Partition, Move(ps),
         UNCHANGED <<delivered, position, hand, since>>
  PROVE  Progress'
<1> SUFFICES ASSUME since = "earliest" PROVE Progress'
  BY DEF Progress
<1>1. committed' = [p \in Partition |-> IF p \in ps THEN 0 ELSE committed[p]]
  BY BoundsAssumption DEF Move, Offset, Typed, Answers, Known
<1> QED BY <1>1 DEF Typed, Shapes, Progress, UpTo

LEMMA CommandProgresses ==
  ASSUME Typed, Progress, Command, since' = since
  PROVE  Progress'
<1> USE DEF kafkaVars, procVars
<1>1. CASE Inactive \/ \E p \in Partition : LookUpFirst(p) \/ LookUpTime(p) \/ LookUpEnd(p)
  BY <1>1, ProgressFrame DEF Inactive, LookUpFirst, LookUpTime, LookUpEnd, Answered
<1>2. CASE CommitOffsets
  BY <1>2, MoveProgresses DEF CommitOffsets
<1>3. CASE CommandFails
  <2>1. CASE UNCHANGED committed
    BY <1>3, <2>1, ProgressFrame DEF CommandFails
  <2>2. CASE cmd = "commit" /\ \E ps \in SUBSET Partition : Move(ps)
    BY <1>3, <2>2, MoveProgresses DEF CommandFails
  <2> QED BY <1>3, <2>1, <2>2 DEF CommandFails
<1> QED BY <1>1, <1>2, <1>3 DEF Command

LEMMA ProgressStep == Typed /\ Progress /\ [Next]_vars => Progress'
<1> SUFFICES ASSUME Typed, Progress, [Next]_vars PROVE Progress'
  OBVIOUS
<1>1. since' = since
  BY SinceStays
<1> USE DEF kafkaVars, procVars
<1>2. CASE (\E p \in Partition : Produce(p)) \/ Die \/ Expire
  BY <1>1, <1>2, ProgressFrame DEF Produce, Die, Expire
<1>3. CASE Script \/ StopConsumer \/ ScriptFails \/ Interrupt \/ Quiet \/ UNCHANGED vars
  BY <1>1, <1>3, ProgressFrame DEF Script, StartCommand, CommandEnds, RestoreConsumer, Cleanup,
     StopConsumer, ScriptFails, Interrupt, Quiet, vars, scriptVars
<1> QED BY <1>1, <1>2, <1>3, ConsumerProgresses, CommandProgresses DEF Next

\* A replay from the beginning never takes the group past a record that it has
\* not delivered, be it interrupted, half done or raced by a fenced consumer
\* (replay.Reset with at == nil; Consumer.processRecord commits what it handled).
THEOREM ReplayIsAtLeastOnce == Spec => []NothingSkipped
<1>1. Typed /\ Progress => NothingSkipped
  BY DEF Typed, Shapes, Progress, UpTo, NothingSkipped
<1> QED BY <1>1, TypedAlways, ProgressInit, ProgressStep, PTL DEF Spec

-----------------------------------------------------------------------------
(* A replay that succeeded.                                                *)

\* Of the records asked for, none is before the first one that was found.
Looked ==
  \A p \in Partition : found[p] # None => \A o \in Window(p) : found[p] <= o

\* A record is in the hand of a process; one that is not fenced is a member; the
\* consumer is brought back only after relay-replay has succeeded.
Course ==
  /\ proc = "out" => hand = None
  /\ ~fenced /\ proc = "in" => member
  /\ script \in {"restore", "done"} => cmd = "ok"

\* From the reset until the consumer is brought back, the group stays where it was put.
AfterReset ==
  ~fenced /\ cmd = "ok" /\ script \in {"run", "restore"} =>
    proc = "out" /\ \A p \in Partition : committed[p] = Offset(p)

\* What is before n, from where the group was put, has been delivered again.
GivenAgain(p, n) == \A o \in Nat : Offset(p) <= o /\ o < n => o \in again[p]

Ahead ==
  ~fenced /\ script = "done" =>
    /\ \A p \in Partition : GivenAgain(p, committed[p])
    /\ proc = "in" => \A p \in Partition : GivenAgain(p, position[p])
    /\ hand # None => GivenAgain(hand.partition, hand.offset + 1)

Replayed == Looked /\ Course /\ AfterReset /\ Ahead

LEMMA ReplayedInit == Init => Replayed
<1> SUFFICES ASSUME Init PROVE Replayed
  OBVIOUS
<1>1. Course /\ AfterReset /\ Ahead
  BY DEF Init, Course, AfterReset, Ahead
<1>2. Looked
  BY DEF Init, Looked
<1> QED BY <1>1, <1>2 DEF Replayed

LEMMA LookedStep == Typed /\ Looked /\ [Next]_vars => Looked'
<1> SUFFICES ASSUME Typed, Looked, [Next]_vars PROVE Looked'
  OBVIOUS
<1>1. since' = since
  BY SinceStays
<1>2. CASE \E p \in Partition : Produce(p)
  <2>1. PICK p \in Partition : log' = [log EXCEPT ![p] = Append(@, "new")] /\ found' = found
    BY <1>2 DEF Produce, cmdVars
  <2>2. ASSUME NEW q \in Partition, NEW o \in Window(q)', found[q] # None PROVE found[q] <= o
    <3>1. CASE q = p
      <4>1. log[p] \in Seq({"old", "new"}) /\ log'[p] = Append(log[p], "new") /\ Len(log[p]) \in Nat
        BY <2>1 DEF Typed, Shapes
      <4>2. o \in Window(q) \/ o = Len(log[q])
        BY <1>1, <2>2, <3>1, <4>1 DEF Window
      <4>3. found[q] <= Len(log[q])
        BY <2>2 DEF Typed, Inside
      <4> QED BY <2>2, <4>2, <4>3 DEF Looked
    <3>2. CASE q # p
      BY <1>1, <2>1, <2>2, <3>2 DEF Typed, Shapes, Window, Looked
    <3> QED BY <3>1, <3>2
  <2> QED BY <2>1, <2>2 DEF Looked
<1>3. CASE \E p \in Partition : LookUpFirst(p) \/ LookUpTime(p)
  <2>1. PICK p \in Partition : LookUpFirst(p) \/ LookUpTime(p)
    BY <1>3
  <2>2. log' = log
    BY <2>1 DEF LookUpFirst, LookUpTime, Answered, kafkaVars
  <2>3. \A q \in Partition : Window(q)' = Window(q)
    BY <1>1, <2>2 DEF Window
  <2>4. CASE LookUpFirst(p)
    <3>1. found' = [found EXCEPT ![p] = 0]
      BY <2>4 DEF LookUpFirst
    <3>2. \A o \in Window(p) : 0 <= o
      BY DEF Window
    <3> QED BY <2>3, <3>1, <3>2 DEF Typed, Shapes, Looked
  <2>5. CASE LookUpTime(p)
    <3>1. since = "timestamp" /\ found' = [found EXCEPT ![p] = FirstNew(p)]
      BY <2>5 DEF LookUpTime, Answered, Typed, Answers, Lookups
    <3>2. FirstNew(p) # None => \A o \in Window(p) : FirstNew(p) <= o
      BY <3>1, FirstNewIsFirst DEF Typed, Window
    <3> QED BY <2>3, <3>1, <3>2 DEF Typed, Shapes, Looked
  <2> QED BY <2>1, <2>4, <2>5
<1>4. CASE UNCHANGED <<log, found>>
  BY <1>1, <1>4 DEF Looked, Window
<1>5. \/ \E p \in Partition : Produce(p) \/ LookUpFirst(p) \/ LookUpTime(p)
      \/ UNCHANGED <<log, found>>
  <2>1. Consume \/ Die \/ Expire => UNCHANGED <<log, found>>
    BY DEF Consume, Join, Take, CommitRecord, Leave, Rejoin, Die, Expire, kafkaVars, cmdVars
  <2>2. Inactive \/ CommitOffsets \/ CommandFails \/ (\E p \in Partition : LookUpEnd(p))
        => UNCHANGED <<log, found>>
    BY DEF Inactive, LookUpEnd, Answered, CommitOffsets, CommandFails, kafkaVars
  <2>3. Script \/ StopConsumer \/ ScriptFails \/ Interrupt \/ Quiet \/ UNCHANGED vars
        => UNCHANGED <<log, found>>
    BY DEF Script, StartCommand, CommandEnds, RestoreConsumer, Cleanup, StopConsumer, ScriptFails,
       Interrupt, Quiet, vars, scriptVars, kafkaVars
  <2> QED BY <2>1, <2>2, <2>3 DEF Next, Command
<1> QED BY <1>2, <1>3, <1>4, <1>5

\* Nothing that concerns the consumer's progress after the reset has changed.
LEMMA ReplayedFrame ==
  ASSUME Course, AfterReset, Ahead,
         UNCHANGED <<committed, again, fenced, position, hand, script, found, end, proc>>,
         cmd' = cmd \/ (cmd # "ok" /\ cmd' # "ok"), member => member'
  PROVE  Course' /\ AfterReset' /\ Ahead'
<1>1. \A p \in Partition : Offset(p)' = Offset(p)
  BY DEF Offset
<1> QED BY <1>1 DEF Course, AfterReset, Ahead, GivenAgain, Offset

\* The broker moves offsets for the command; relay-replay.sh is not yet done.
LEMMA ReplayedMove ==
  ASSUME Typed, Course, cmd = "commit", ~member,
         UNCHANGED <<fenced, hand, script, found, end, proc, member>>,
         \/ cmd' = "ok" /\ Move(Partition)
         \/ cmd' = "error"
  PROVE  Course' /\ AfterReset' /\ Ahead'
<1>1. script \notin {"restore", "done"}
  BY DEF Course
<1>2. Course' /\ Ahead'
  BY <1>1 DEF Course, Ahead
<1>3. CASE cmd' = "ok" /\ Move(Partition)
  <2>1. \A p \in Partition : committed'[p] = Offset(p) /\ Offset(p)' = Offset(p)
    BY <1>3 DEF Move, Offset
  <2> QED BY <1>2, <2>1 DEF Course, AfterReset, Typed, Phases
<1>4. CASE cmd' = "error"
  BY <1>2, <1>4 DEF AfterReset
<1> QED BY <1>2, <1>3, <1>4

LEMMA ConsumerReplays ==
  ASSUME Typed, Replayed,
         \/ Join \/ CommitRecord \/ Leave \/ Rejoin \/ Die \/ Expire
         \/ \E p \in Partition : Take(p) \/ Produce(p)
  PROVE  Course' /\ AfterReset' /\ Ahead'
<1> USE DEF kafkaVars, procVars, cmdVars
<1>1. CASE Join \/ Rejoin
  <2>1. /\ position' = committed /\ proc' = "in" /\ member'
        /\ UNCHANGED <<committed, again, fenced, hand, script, found, end, cmd>>
    BY <1>1 DEF Join, Rejoin
  <2>2. ~(cmd = "ok" /\ ~fenced /\ script \in {"run", "restore"})
    BY <1>1 DEF Join, Rejoin, Replayed, Course, AfterReset, Typed, Phases
  <2>3. Course' /\ AfterReset'
    BY <2>1, <2>2 DEF Replayed, Course, AfterReset
  <2>4. Ahead'
    BY <2>1 DEF Replayed, Ahead, GivenAgain, Offset
  <2> QED BY <2>3, <2>4
<1>2. CASE CommitRecord
  <2>1. PICK p \in Partition, n \in Nat : hand = [partition |-> p, offset |-> n]
    BY <1>2 DEF CommitRecord, Typed, Shapes
  <2>2. /\ hand # None /\ hand' = None /\ committed' = [committed EXCEPT ![p] = n + 1]
        /\ UNCHANGED <<position, again, fenced, proc, member, script, found, end, cmd>>
    BY <1>2, <2>1 DEF CommitRecord
  <2>3. Course' /\ AfterReset'
    BY <2>2 DEF Replayed, Course, AfterReset, Typed, Phases
  <2>4. Ahead'
    BY <2>1, <2>2 DEF Replayed, Ahead, GivenAgain, Offset, Typed, Shapes
  <2> QED BY <2>3, <2>4
<1>3. CASE \E p \in Partition : Take(p)
  <2>1. PICK p \in Partition : Take(p)
    BY <1>3
  <2>2. PICK n \in Nat : n = position[p]
    BY DEF Typed, Shapes
  <2>3. /\ hand' = [partition |-> p, offset |-> n] /\ proc = "in" /\ proc' = "in" /\ wanted
        /\ member' = member
        /\ position' = [position EXCEPT ![p] = n + 1]
        /\ again' = [again EXCEPT ![p] = @ \cup {n}]
        /\ UNCHANGED <<committed, fenced, script, found, end, cmd>>
    BY <2>1, <2>2 DEF Take
  <2>4. Course' /\ AfterReset'
    BY <2>3 DEF Replayed, Course, AfterReset, Typed, Phases
  <2>5. Ahead'
    <3> SUFFICES ASSUME ~fenced, script = "done" PROVE Ahead'
      BY <2>3 DEF Ahead
    <3>1. /\ \A q \in Partition : Offset(q)' = Offset(q) /\ again[q] \subseteq again'[q]
          /\ n \in again'[p]
      BY <2>3 DEF Offset, Typed, Shapes
    <3>2. \A q \in Partition : GivenAgain(q, committed[q])'
      BY <2>3, <3>1 DEF Replayed, Ahead, GivenAgain
    <3>3. GivenAgain(p, n)
      BY <2>2, <2>3 DEF Replayed, Ahead
    <3>4. \A o \in Nat : Offset(p)' <= o /\ o < n + 1 => o \in again'[p]
      <4> SUFFICES ASSUME NEW o \in Nat, Offset(p) <= o, o < n + 1 PROVE o \in again'[p]
        BY <3>1
      <4>1. o = n \/ o < n
        OBVIOUS
      <4> QED BY <3>1, <3>3, <4>1 DEF GivenAgain
    <3>5. \A q \in Partition : GivenAgain(q, position[q])'
      <4> SUFFICES ASSUME NEW q \in Partition PROVE GivenAgain(q, position[q])'
        OBVIOUS
      <4>1. CASE q = p
        BY <2>3, <3>4, <4>1 DEF GivenAgain, Typed, Shapes
      <4>2. CASE q # p
        BY <2>3, <3>1, <4>2 DEF GivenAgain, Typed, Shapes, Replayed, Ahead
      <4> QED BY <4>1, <4>2
    <3>6. GivenAgain(hand.partition, hand.offset + 1)'
      BY <2>3, <3>4 DEF GivenAgain
    <3> QED BY <3>2, <3>5, <3>6 DEF Ahead
  <2> QED BY <2>4, <2>5
<1>4. CASE \E p \in Partition : Produce(p)
  BY <1>4, ReplayedFrame DEF Produce, Replayed
<1>5. CASE Leave \/ Die \/ Expire
  <2>1. /\ UNCHANGED <<committed, again, position, script, found, end, cmd>>
        /\ hand' = hand \/ hand' = None
        /\ proc' = "out" \/ proc' = proc
        /\ ~fenced' => ~fenced
    BY <1>5 DEF Leave, Die, Expire
  <2>2. proc' = "out" => hand' = None
    BY <1>5 DEF Leave, Die, Expire, Replayed, Course
  <2>3. ~fenced' /\ proc' = "in" => member'
    BY <1>5 DEF Leave, Die, Expire, Replayed, Course
  <2>4. Course' /\ AfterReset'
    BY <2>1, <2>2, <2>3 DEF Replayed, Course, AfterReset, Offset
  <2>5. Ahead'
    BY <2>1 DEF Replayed, Ahead, GivenAgain, Offset
  <2> QED BY <2>4, <2>5
<1> QED BY <1>1, <1>2, <1>3, <1>4, <1>5

LEMMA CommandReplays ==
  ASSUME Typed, Replayed, Command
  PROVE  Course' /\ AfterReset' /\ Ahead'
<1> USE DEF kafkaVars, procVars
<1>1. CASE Inactive
  BY <1>1, ReplayedFrame DEF Inactive, Replayed
<1>2. CASE \E p \in Partition : LookUpFirst(p) \/ LookUpTime(p) \/ LookUpEnd(p)
  <2>1. /\ UNCHANGED <<hand, proc, member, fenced, script>>
        /\ cmd = "list" /\ cmd' \in {"list", "commit"}
    BY <1>2 DEF LookUpFirst, LookUpTime, LookUpEnd, Answered
  <2> QED BY <2>1 DEF Replayed, Course, AfterReset, Ahead
<1>3. CASE CommitOffsets
  BY <1>3, ReplayedMove DEF CommitOffsets, Replayed
<1>4. CASE CommandFails
  <2>1. /\ UNCHANGED <<hand, proc, member, fenced, script>>
        /\ cmd \in {"wait", "list", "commit"} /\ cmd' = "error"
    BY <1>4 DEF CommandFails
  <2> QED BY <2>1 DEF Replayed, Course, AfterReset, Ahead
<1> QED BY <1>1, <1>2, <1>3, <1>4 DEF Command

LEMMA ScriptReplays ==
  ASSUME Typed, Replayed,
         Script \/ StopConsumer \/ ScriptFails \/ Interrupt \/ Quiet \/ UNCHANGED vars
  PROVE  Course' /\ AfterReset' /\ Ahead'
<1> USE DEF kafkaVars, procVars, cmdVars, scriptVars
<1>1. CASE RestoreConsumer
  <2>1. /\ script = "restore" /\ script' = "done"
        /\ UNCHANGED <<committed, again, proc, member, fenced, position, hand, found, end, cmd>>
    BY <1>1 DEF RestoreConsumer
  <2>2. \A p \in Partition : Offset(p)' = Offset(p) /\ Offset(p) \in Nat
    BY <2>1, OffsetIsInside DEF Offset, Replayed, Course
  <2>3. ~fenced => hand = None /\ proc = "out" /\ \A p \in Partition : committed[p] = Offset(p)
    BY <2>1 DEF Replayed, Course, AfterReset
  <2>4. Ahead'
    BY <2>1, <2>2, <2>3 DEF Ahead, GivenAgain
  <2> QED BY <2>1, <2>4 DEF Replayed, Course, AfterReset
<1>2. CASE (Script /\ ~RestoreConsumer) \/ StopConsumer \/ ScriptFails \/ Interrupt
  <2>1. /\ UNCHANGED <<committed, again, proc, member, fenced, position, hand, found, end>>
        /\ script' # "done"
        /\ script' = "restore" => cmd' = "ok"
        /\ script' \in {"run", "restore"} => cmd' # "ok" \/ (cmd = "ok" /\ script = "run")
    BY <1>2 DEF Script, StartCommand, CommandEnds, Cleanup, StopConsumer, ScriptFails, Interrupt
  <2> QED BY <2>1 DEF Replayed, Course, AfterReset, Ahead, Offset
<1>3. CASE Quiet \/ UNCHANGED vars
  BY <1>3, ReplayedFrame DEF Quiet, vars, Replayed
<1> QED BY <1>1, <1>2, <1>3 DEF Script

\* When the script has reported success, the group is not past a record of the
\* window that was not delivered again.  Two things are excepted: a consumer that
\* was fenced, which commits over the reset, and what Reset passes over between its
\* two lookups.
WindowNotPassed ==
  script = "done" /\ ~fenced =>
    \A p \in Partition : \A o \in Window(p) \ (again[p] \cup PassedOver(p)) : o >= committed[p]

\* The safety half of WindowDeliveredAgain: whatever failed, was interrupted or went
\* on meanwhile, the consumer cannot leave the window behind (replay.Reset and
\* offsetsFor; stop_consumer, restore_consumer and cleanup of relay-replay.sh).
THEOREM WindowIsNotPassed == Spec => []WindowNotPassed
<1>1. Replayed /\ Typed /\ [Next]_vars => Replayed'
  BY LookedStep, ConsumerReplays, CommandReplays, ScriptReplays DEF Replayed, Next, Consume
<1>2. Typed /\ Replayed => WindowNotPassed
  <2> SUFFICES ASSUME Typed, Replayed, script = "done", ~fenced,
                      NEW p \in Partition, NEW o \in Window(p),
                      ~(o >= committed[p]), o \notin again[p]
               PROVE  o \in PassedOver(p)
    BY DEF WindowNotPassed
  <2>1. cmd = "ok"
    BY DEF Replayed, Course
  <2>2. Offset(p) \in Nat /\ o \in Nat /\ committed[p] \in Nat
    BY <2>1, OffsetIsInside DEF Typed, Shapes, Window
  <2>3. ~(Offset(p) <= o)
    BY <2>2 DEF Replayed, Ahead, GivenAgain
  <2>4. found[p] = None
    BY <2>3 DEF Replayed, Looked, Offset
  <2>5. end[p] # None
    BY <2>1, <2>4, BoundsAssumption DEF Typed, Answers, Known
  <2> QED BY <2>2, <2>3, <2>4, <2>5 DEF Offset, PassedOver
<1> QED BY <1>1, <1>2, TypedAlways, ReplayedInit, PTL DEF Spec
=============================================================================
