--------------------------- MODULE RelayDelivery ---------------------------
(***************************************************************************)
(* The delivery consumers of services/relay: a Kafka consumer group whose  *)
(* members run Consumer.Run (internal/delivery/consumer.go) and, for each  *)
(* record, one Deliver per subscription (internal/delivery/deliver.go).    *)
(*                                                                         *)
(* The topic is a static log.  A member holds at most one record, fans it  *)
(* out to the tenant's subscriptions concurrently, writes dead letters in  *)
(* order, and commits the offset synchronously.  Every failure ends Run,   *)
(* and so the process, with the offset uncommitted.                        *)
(*                                                                         *)
(* The group protocol is external (segmentio/kafka-go and the broker).  It *)
(* is modelled from how Run uses it: a member reads from the offsets that  *)
(* were committed when it took up its generation, the broker accepts a     *)
(* commit from any member of the current generation whether or not it owns *)
(* the partition and whether or not the offset moves forward, and nothing  *)
(* links a rebalance to the context of the record in hand.                 *)
(***************************************************************************)
EXTENDS Naturals, Integers, FiniteSets, Sequences

CONSTANTS
  Member,       \* delivery processes (pods); a restarted pod keeps its name
  Partition,    \* partitions of mlp.relay.deliveries
  Sub,          \* subscription ids, positive as in the database
  Log,          \* Log[p]: the partition's records, offset o at Log[p][o+1]
  MaxAttempts,  \* RetrySchedule.MaxAttempts(): the first attempt plus the retries
  MaxAdverse    \* bound on faults, rebalances nobody needed, crashes and SIGTERMs

Kinds == {"event",      \* decodes, has its relay_events row
          "orphan",     \* decodes, but no relay_events row exists for it
          "tenantless", \* decodes with an empty tenant id
          "poison"}     \* json.Unmarshal rejects it

ASSUME SubAssumption == Sub \subseteq Nat \ {0}
ASSUME LogAssumption == Log \in [Partition -> Seq([kind : Kinds, subs : SUBSET Sub])]
ASSUME MaxAttemptsAssumption == MaxAttempts \in Nat \ {0}
ASSUME MaxAdverseAssumption == MaxAdverse \in Nat

\* A record is named by its partition and offset.
Record == {r \in Partition \X Nat : r[2] < Len(Log[r[1]])}
Kind(r) == Log[r[1]][r[2] + 1].kind
Targets(r) == IF Kind(r) \in {"event", "orphan"} THEN Log[r[1]][r[2] + 1].subs ELSE {}

NoRecord == <<>>
NotMine == -1        \* a partition that is not in the member's assignment
PoisonId == 0        \* SubscriptionID of a decode failure's dead letter

VARIABLES
  committed,  \* committed[p]: the group's committed offset
  assigned,   \* assigned[m]: the broker's current assignment of partitions
  group,      \* members of the broker's current generation
  current,    \* those that have taken that generation up
  view,       \* view[m][p]: next offset m's reader returns for p, or NotMine
  phase,      \* where m is in Run / processRecord / handle
  cur,        \* the record in hand
  stage,      \* stage[m][s]: where the Deliver goroutine for s is
  tries,      \* tries[m][s]: Outcome.Attempts
  expired,    \* the record context's deadline has passed
  stopping,   \* SIGTERM has cancelled Run's context
  accepted,   \* <<r, s>>: subscriber s answered 2xx to record r
  dlq,        \* <<r, s>>: a dead letter on the DLQ topic (s = PoisonId: undecodable)
  history,    \* <<r, s, outcome>>: rows of relay_delivery_attempts
  adverse     \* faults so far

brokerVars == <<committed, assigned, group, current>>
workVars   == <<stage, tries>>
worldVars  == <<accepted, dlq, history>>
vars == <<committed, assigned, group, current, view, phase, cur, stage, tries,
          expired, stopping, accepted, dlq, history, adverse>>

Phases == {"down", "idle", "handle", "deliver", "settle", "commit"}
Stages == {"none",        \* no goroutine for this subscription
           "ready",       \* about to send, in flight, or sleeping before a retry
           "acked",       \* 2xx seen, history not written yet
           "refused",     \* failed attempt, history not written yet
           "interrupted", \* the record context ended during the request
           "delivered", "exhausted", "missing", "error",  \* Deliver returned
           "parked"}      \* handle has dead-lettered it
Finished == {"none", "delivered", "exhausted", "missing", "error", "parked"}
Outcomes == {"retrying", "exhausted", "delivered", "interrupted"}

NoView == [p \in Partition |-> NotMine]
NoStage == [s \in Sub |-> "none"]
NoTries == [s \in Sub |-> 0]

Init ==
  /\ committed = [p \in Partition |-> 0]
  /\ assigned = [m \in Member |-> {}]
  /\ group = {}
  /\ current = {}
  /\ view = [m \in Member |-> NoView]
  /\ phase = [m \in Member |-> "idle"]
  /\ cur = [m \in Member |-> NoRecord]
  /\ stage = [m \in Member |-> NoStage]
  /\ tries = [m \in Member |-> NoTries]
  /\ expired = [m \in Member |-> FALSE]
  /\ stopping = [m \in Member |-> FALSE]
  /\ accepted = {}
  /\ dlq = {}
  /\ history = {}
  /\ adverse = 0

Up == {m \in Member : phase[m] # "down"}

\* One of the bounded number of things that go wrong.
Adversity == adverse < MaxAdverse /\ adverse' = adverse + 1

\* Something that goes wrong freely once the record's deadline has passed.
FailsWhenExpired(m) == (expired[m] /\ UNCHANGED adverse) \/ Adversity

-----------------------------------------------------------------------------
(* The process: what Run leaves behind, and what the broker learns.        *)

\* Run returns (or the process dies): the reader closes and leaves the group,
\* and everything the process held in memory is gone.
Exit(m) ==
  /\ phase' = [phase EXCEPT ![m] = "down"]
  /\ cur' = [cur EXCEPT ![m] = NoRecord]
  /\ view' = [view EXCEPT ![m] = NoView]
  /\ stage' = [stage EXCEPT ![m] = NoStage]
  /\ tries' = [tries EXCEPT ![m] = NoTries]
  /\ expired' = [expired EXCEPT ![m] = FALSE]
  /\ stopping' = [stopping EXCEPT ![m] = FALSE]
  /\ group' = group \ {m}
  /\ current' = current \ {m}
  /\ assigned' = [assigned EXCEPT ![m] = {}]

Crash(m) ==
  /\ phase[m] # "down"
  /\ Adversity
  /\ Exit(m)
  /\ UNCHANGED <<committed, accepted, dlq, history>>

Restart(m) ==
  /\ phase[m] = "down"
  /\ phase' = [phase EXCEPT ![m] = "idle"]
  /\ UNCHANGED <<brokerVars, view, cur, workVars, expired, stopping, worldVars, adverse>>

Sigterm(m) ==
  /\ phase[m] # "down" /\ ~stopping[m]
  /\ Adversity
  /\ stopping' = [stopping EXCEPT ![m] = TRUE]
  /\ UNCHANGED <<brokerVars, view, phase, cur, workVars, expired, worldVars>>

\* FetchMessage returns context.Canceled.
StopFetching(m) ==
  /\ phase[m] = "idle" /\ stopping[m]
  /\ Exit(m)
  /\ UNCHANGED <<committed, accepted, dlq, history, adverse>>

-----------------------------------------------------------------------------
(* The consumer group, external.                                           *)

\* A member left, a member joined or a partition has no owner.
RebalanceDue ==
  Up # group \/ \E p \in Partition : \A m \in group : p \notin assigned[m]

\* The broker starts a generation and spreads the partitions over its members.
StartGeneration(g) ==
  /\ \E to \in [Partition -> g] :
       assigned' = [m \in Member |-> {p \in Partition : to[p] = m}]
  /\ group' = g
  /\ current' = {}
  /\ UNCHANGED <<committed, view, phase, cur, workVars, expired, stopping, worldVars>>

Rebalance == RebalanceDue /\ Up # {} /\ StartGeneration(Up) /\ UNCHANGED adverse

\* A generation nobody needed (a missed heartbeat, a partition watch), or one
\* that leaves out a live member, which is then due to join again.
NeedlessRebalance == Adversity /\ \E g \in (SUBSET Up) \ {{}} : StartGeneration(g)

\* The member's reader takes the generation up: kafka-go reads the committed
\* offsets and restarts its fetchers there.  Until then it goes on returning
\* records of the previous assignment.  The record in hand is not disturbed.
Join(m) ==
  /\ phase[m] # "down"
  /\ m \in group \ current
  /\ current' = current \cup {m}
  /\ view' = [view EXCEPT ![m] =
       [p \in Partition |-> IF p \in assigned[m] THEN committed[p] ELSE NotMine]]
  /\ UNCHANGED <<committed, assigned, group, phase, cur, workVars, expired,
                 stopping, worldVars, adverse>>

-----------------------------------------------------------------------------
(* Run, processRecord and handle.                                          *)

\* A message and a cancelled context can both be ready in FetchMessage, and
\* then either may be returned: stopping does not disable this step.
Fetch(m) ==
  /\ phase[m] = "idle"
  /\ \E p \in Partition :
       /\ view[m][p] # NotMine
       /\ view[m][p] < Len(Log[p])
       /\ cur' = [cur EXCEPT ![m] = <<p, view[m][p]>>]
       /\ view' = [view EXCEPT ![m][p] = @ + 1]
  /\ phase' = [phase EXCEPT ![m] = "handle"]
  /\ UNCHANGED <<brokerVars, workVars, expired, stopping, worldVars, adverse>>

\* recordTimeout, or the drain allowance, runs out.
Expire(m) ==
  /\ phase[m] \notin {"down", "idle"} /\ ~expired[m]
  /\ Adversity
  /\ expired' = [expired EXCEPT ![m] = TRUE]
  /\ UNCHANGED <<brokerVars, view, phase, cur, workVars, stopping, worldVars>>

\* The write of a dead letter is acknowledged.
WriteDeadLetter(m, s) ==
  /\ ~expired[m]
  /\ dlq' = dlq \cup {<<cur[m], s>>}
  /\ UNCHANGED <<accepted, history, adverse>>

\* The write fails; the broker may have taken the record all the same.
LoseDeadLetter(m, s) ==
  /\ FailsWhenExpired(m)
  /\ dlq' \in {dlq, dlq \cup {<<cur[m], s>>}}
  /\ UNCHANGED <<committed, accepted, history>>
  /\ Exit(m)

ParkPoison(m) ==
  /\ phase[m] = "handle" /\ Kind(cur[m]) = "poison"
  /\ \/ /\ WriteDeadLetter(m, PoisonId)
        /\ phase' = [phase EXCEPT ![m] = "commit"]
        /\ UNCHANGED <<brokerVars, view, cur, workVars, expired, stopping>>
     \/ LoseDeadLetter(m, PoisonId)

\* ForTenant answers: start one Deliver per subscription, or finish at once.
Lookup(m) ==
  /\ phase[m] = "handle" /\ Kind(cur[m]) \in {"event", "orphan"}
  /\ ~expired[m]
  /\ phase' = [phase EXCEPT ![m] = IF Targets(cur[m]) = {} THEN "commit" ELSE "deliver"]
  /\ stage' = [stage EXCEPT ![m] =
       [s \in Sub |-> IF s \in Targets(cur[m]) THEN "ready" ELSE "none"]]
  /\ UNCHANGED <<brokerVars, view, cur, tries, expired, stopping, worldVars, adverse>>

\* Mutant: a failed lookup is logged and the loop goes on to the next record.
SkipOnLookupFailure(m) ==
  /\ phase[m] = "handle" /\ Kind(cur[m]) # "poison"
  /\ FailsWhenExpired(m)
  /\ phase' = [phase EXCEPT ![m] = "idle"]
  /\ cur' = [cur EXCEPT ![m] = NoRecord]
  /\ UNCHANGED <<brokerVars, view, workVars, expired, stopping, worldVars>>

\* ForTenant fails: the database is away, or the tenant id is empty.
LookupFails(m) ==
  /\ phase[m] = "handle" /\ Kind(cur[m]) # "poison"
  /\ \/ Kind(cur[m]) = "tenantless" /\ UNCHANGED adverse
     \/ FailsWhenExpired(m)
  /\ Exit(m)
  /\ UNCHANGED <<committed, worldVars>>

-----------------------------------------------------------------------------
(* Deliver, one goroutine per subscription.                                *)

SetStage(m, s, x) == stage' = [stage EXCEPT ![m][s] = x]
OtherThanWork == <<brokerVars, view, phase, cur, expired, stopping>>

\* The subscriber answers 2xx and the answer is read.
Acknowledge(m, s) ==
  /\ stage[m][s] = "ready"
  /\ tries' = [tries EXCEPT ![m][s] = @ + 1]
  /\ SetStage(m, s, "acked")
  /\ accepted' = accepted \cup {<<cur[m], s>>}
  /\ UNCHANGED <<OtherThanWork, dlq, history, adverse>>

\* The request fails: a status other than 2xx, or a transport error, in which
\* case the subscriber may have taken the event and only the answer was lost.
\* When the record context has ended this is an interruption.
Refuse(m, s) ==
  /\ stage[m][s] = "ready"
  /\ tries' = [tries EXCEPT ![m][s] = @ + 1]
  /\ SetStage(m, s, IF expired[m] THEN "interrupted" ELSE "refused")
  /\ accepted' \in {accepted, accepted \cup {<<cur[m], s>>}}
  /\ UNCHANGED <<OtherThanWork, dlq, history, adverse>>

\* ctx.Err() at the head of the loop, or d.sleep cut short.
GiveUp(m, s) ==
  /\ stage[m][s] = "ready" /\ expired[m]
  /\ SetStage(m, s, "error")
  /\ UNCHANGED <<OtherThanWork, tries, worldVars, adverse>>

HistoryOutcome(m, s) ==
  CASE stage[m][s] = "acked"       -> "delivered"
    [] stage[m][s] = "interrupted" -> "interrupted"
    [] OTHER -> IF tries[m][s] < MaxAttempts THEN "retrying" ELSE "exhausted"

\* What Deliver does once the attempt is on record.
AfterAttempt(m, s) ==
  CASE stage[m][s] = "acked"       -> "delivered"
    [] stage[m][s] = "interrupted" -> "error"
    [] OTHER -> IF tries[m][s] < MaxAttempts THEN "ready" ELSE "exhausted"

\* An interrupted attempt is written under a context of its own; any other
\* write needs the record context alive.
CanWriteHistory(m, s) == stage[m][s] = "interrupted" \/ ~expired[m]

\* Mutant: a missing relay_events row is an error like any other.
OrphanAsError(m, s) ==
  /\ stage[m][s] \in {"acked", "refused", "interrupted"}
  /\ CanWriteHistory(m, s)
  /\ IF Kind(cur[m]) = "orphan"
     THEN SetStage(m, s, "error") /\ UNCHANGED history
     ELSE /\ SetStage(m, s, AfterAttempt(m, s))
          /\ history' = history \cup {<<cur[m], s, HistoryOutcome(m, s)>>}
  /\ UNCHANGED <<OtherThanWork, tries, accepted, dlq, adverse>>

RecordAttempt(m, s) ==
  /\ stage[m][s] \in {"acked", "refused", "interrupted"}
  /\ CanWriteHistory(m, s)
  /\ IF Kind(cur[m]) = "orphan"
     THEN SetStage(m, s, "missing") /\ UNCHANGED history
     ELSE /\ SetStage(m, s, AfterAttempt(m, s))
          /\ history' = history \cup {<<cur[m], s, HistoryOutcome(m, s)>>}
  /\ UNCHANGED <<OtherThanWork, tries, accepted, dlq, adverse>>

\* Mutant: a failed history write is only logged.
HistoryIsBestEffort(m, s) ==
  /\ stage[m][s] \in {"acked", "refused", "interrupted"}
  /\ FailsWhenExpired(m)
  /\ SetStage(m, s, AfterAttempt(m, s))
  /\ UNCHANGED <<OtherThanWork, tries, worldVars>>

\* The write fails; the row may be there all the same (a lost commit reply).
RecordAttemptFails(m, s) ==
  /\ stage[m][s] \in {"acked", "refused", "interrupted"}
  /\ FailsWhenExpired(m)
  /\ SetStage(m, s, "error")
  /\ history' \in {history} \cup
       (IF Kind(cur[m]) = "orphan" THEN {}
        ELSE {history \cup {<<cur[m], s, HistoryOutcome(m, s)>>}})
  /\ UNCHANGED <<OtherThanWork, tries, accepted, dlq>>

-----------------------------------------------------------------------------
(* handle after wg.Wait, and the commit.                                   *)

StagesOf(m) == {stage[m][s] : s \in Targets(cur[m])}

\* Mutant: Deliver's errors are dropped (the bug handle's comment tells of).
GatherForgivingErrors(m) ==
  /\ phase[m] = "deliver"
  /\ StagesOf(m) \subseteq Finished
  /\ phase' = [phase EXCEPT ![m] = "settle"]
  /\ UNCHANGED <<brokerVars, view, cur, workVars, expired, stopping, worldVars, adverse>>

\* Mutant: the offset is committed before the failures are dead-lettered.
GatherWithoutParking(m) ==
  /\ phase[m] = "deliver"
  /\ StagesOf(m) \subseteq Finished \ {"error"}
  /\ phase' = [phase EXCEPT ![m] = "commit"]
  /\ UNCHANGED <<brokerVars, view, cur, workVars, expired, stopping, worldVars, adverse>>

\* Every Deliver has returned without an error that redelivery could cure.
Gather(m) ==
  /\ phase[m] = "deliver"
  /\ StagesOf(m) \subseteq Finished \ {"error"}
  /\ phase' = [phase EXCEPT ![m] = "settle"]
  /\ UNCHANGED <<brokerVars, view, cur, workVars, expired, stopping, worldVars, adverse>>

\* At least one has not: nothing is dead-lettered and Run ends.
GatherError(m) ==
  /\ phase[m] = "deliver"
  /\ StagesOf(m) \subseteq Finished /\ "error" \in StagesOf(m)
  /\ Exit(m)
  /\ UNCHANGED <<committed, worldVars, adverse>>

\* Missing histories first, then spent budgets, each oldest subscription first.
ToPark(m) ==
  LET at(x) == {s \in Targets(cur[m]) : stage[m][s] = x}
  IN IF at("missing") # {} THEN at("missing") ELSE at("exhausted")

\* A payload that cannot be encoded would be parked without an attempt
\* (deliver.go:130-139); an event that has been decoded can be encoded again.
Park(m) ==
  /\ phase[m] = "settle"
  /\ \E s \in ToPark(m) :
       /\ \A t \in ToPark(m) : s <= t
       /\ \/ /\ WriteDeadLetter(m, s)
             /\ SetStage(m, s, "parked")
             /\ UNCHANGED <<OtherThanWork, tries>>
          \/ LoseDeadLetter(m, s)

Settled(m) ==
  /\ phase[m] = "settle" /\ ToPark(m) = {}
  /\ phase' = [phase EXCEPT ![m] = "commit"]
  /\ UNCHANGED <<brokerVars, view, cur, workVars, expired, stopping, worldVars, adverse>>

\* The broker takes the offset as it is, forwards or backwards.
CommitOffset(m) ==
  /\ m \in current
  /\ committed' = [committed EXCEPT ![cur[m][1]] = cur[m][2] + 1]

\* The loop goes round: the record and its context are gone.
Release(m) ==
  /\ phase' = [phase EXCEPT ![m] = "idle"]
  /\ cur' = [cur EXCEPT ![m] = NoRecord]
  /\ stage' = [stage EXCEPT ![m] = NoStage]
  /\ tries' = [tries EXCEPT ![m] = NoTries]
  /\ expired' = [expired EXCEPT ![m] = FALSE]
  /\ UNCHANGED <<assigned, group, current, view, stopping>>

\* Mutant: Run does not look at its context after the commit.
CommitIgnoringSigterm(m) ==
  /\ phase[m] = "commit"
  /\ CommitOffset(m)
  /\ Release(m)
  /\ UNCHANGED <<worldVars, adverse>>

Commit(m) ==
  /\ phase[m] = "commit"
  /\ CommitOffset(m)
  /\ IF stopping[m] THEN Exit(m) ELSE Release(m)
  /\ UNCHANGED <<worldVars, adverse>>

\* Refused by a generation change, lost, or out of time; it may have landed.
CommitFails(m) ==
  /\ phase[m] = "commit"
  /\ FailsWhenExpired(m)
  /\ UNCHANGED committed \/ CommitOffset(m)
  /\ Exit(m)
  /\ UNCHANGED worldVars

-----------------------------------------------------------------------------
\* handle waits for the goroutines, which step in any order.
Deliver(m) ==
  /\ phase[m] = "deliver"
  /\ \E s \in Sub :
       \/ Acknowledge(m, s) \/ Refuse(m, s) \/ GiveUp(m, s)
       \/ RecordAttempt(m, s) \/ RecordAttemptFails(m, s)

Process(m) ==
  \/ Restart(m) \/ StopFetching(m) \/ Join(m)
  \/ Fetch(m) \/ ParkPoison(m) \/ Lookup(m) \/ LookupFails(m)
  \/ Deliver(m) \/ Gather(m) \/ GatherError(m) \/ Park(m) \/ Settled(m)
  \/ Commit(m) \/ CommitFails(m)

Environment(m) == Crash(m) \/ Sigterm(m) \/ Expire(m)

\* FetchMessage blocks in every member, for there is nothing left to read.  With
\* this step a deadlock that TLC reports is a group stuck with work to do.
Waiting ==
  /\ ~RebalanceDue /\ current = Up /\ Up # {}
  /\ \A m \in Member : phase[m] = "idle" /\ ~stopping[m]
  /\ \A m \in Member, p \in Partition : view[m][p] \in {NotMine, Len(Log[p])}
  /\ UNCHANGED vars

Next ==
  \/ Rebalance \/ NeedlessRebalance
  \/ \E m \in Member : Process(m) \/ Environment(m)
  \/ Waiting

Spec == Init /\ [][Next]_vars

\* Goroutines run, the orchestrator restarts a pod, and the coordinator
\* completes a rebalance.  Nothing makes a fault happen.
Fairness ==
  /\ \A m \in Member : WF_vars(Process(m))
  /\ WF_vars(Rebalance)

FairSpec == Spec /\ Fairness

-----------------------------------------------------------------------------
(* What the consumer promises.                                             *)

TypeOK ==
  /\ committed \in [Partition -> Nat]
  /\ \A p \in Partition : committed[p] <= Len(Log[p])
  /\ assigned \in [Member -> SUBSET Partition]
  /\ group \subseteq Member /\ current \subseteq Member
  /\ view \in [Member -> [Partition -> Nat \cup {NotMine}]]
  /\ phase \in [Member -> Phases]
  /\ cur \in [Member -> Record \cup {NoRecord}]
  /\ \A m \in Member : phase[m] \in {"down", "idle"} <=> cur[m] = NoRecord
  /\ stage \in [Member -> [Sub -> Stages]]
  /\ tries \in [Member -> [Sub -> Nat]]
  /\ expired \in [Member -> BOOLEAN] /\ stopping \in [Member -> BOOLEAN]
  /\ accepted \subseteq Record \X Sub
  /\ dlq \subseteq Record \X (Sub \cup {PoisonId})
  /\ history \subseteq Record \X Sub \X Outcomes
  /\ adverse \in Nat

\* A record is done once each of its subscribers has taken it or has a dead
\* letter for it; a record nobody can decode, once it is on the DLQ itself.
Done(r) ==
  CASE Kind(r) = "poison"     -> <<r, PoisonId>> \in dlq
    [] Kind(r) = "tenantless" -> FALSE
    [] OTHER                  -> \A s \in Targets(r) : <<r, s>> \in accepted \cup dlq

\* At least once or dead-lettered: the committed offset never covers a record
\* that is not done, whatever rebalances, stale owners, crashes and failed
\* writes came before (handle returns nil only then; processRecord commits
\* only on nil).
CommittedIsDone == \A p \in Partition : \A o \in 0 .. committed[p] - 1 : Done(<<p, o>>)

\* A subscriber never gets a record while an earlier one of its partition is
\* not done for every one of its subscribers, not even from a stale owner.
NoOvertaking == \A a \in accepted : \A o \in 0 .. a[1][2] - 1 : Done(<<a[1][1], o>>)

\* The attempt history is written before the commit: for every committed event
\* each subscriber's end is on record, and the record tells the truth about it.
CommittedIsAudited ==
  \A p \in Partition : \A o \in 0 .. committed[p] - 1 : \A s \in Targets(<<p, o>>) :
    Kind(<<p, o>>) = "event" =>
      \/ <<<<p, o>>, s, "delivered">> \in history /\ <<<<p, o>>, s>> \in accepted
      \/ <<<<p, o>>, s, "exhausted">> \in history /\ <<<<p, o>>, s>> \in dlq

\* After SIGTERM a member finishes at most the record it has in hand: when that
\* record leaves its hands the process is gone.
DrainsOneRecord ==
  [][\A m \in Member : stopping[m] /\ cur[m] # NoRecord /\ cur'[m] # cur[m]
                        => phase'[m] = "down"]_vars

\* No dead letter is written while another subscriber of the record is still
\* being delivered to, or will be retried by redelivery.
DeadLetterComesLast ==
  [][\A d \in dlq' \ dlq : \E m \in Member :
       /\ cur[m] = d[1]
       /\ StagesOf(m) \subseteq Finished \ {"error"}]_vars

\* Once faults stop, every record is handled and committed: no partition is
\* blocked by a dead owner, a stale one, an orphan or a record nobody can decode.
EveryRecordCommitted == \A p \in Partition : <>(committed[p] = Len(Log[p]))

-----------------------------------------------------------------------------
(* The delivery contract that the group of consumers implements.           *)

\* Undecodable records owe a dead letter; so would those without a tenant, for
\* which none is ever written.
Debts(r) == IF Kind(r) \in {"event", "orphan"} THEN Targets(r) ELSE {PoisonId}

Contract ==
  INSTANCE DeliveryContract WITH
    Owed <- [p \in Partition |-> [i \in 1 .. Len(Log[p]) |-> Debts(<<p, i - 1>>)]],
    closed <- accepted \cup dlq

\* Whatever the group does, each step closes one debt of a record whose
\* predecessors owe nothing, commits behind records that owe nothing, or is
\* invisible: fan-out, retries, rebalances and crashes add nothing else.
KeepsContract == Contract!Spec
=============================================================================
