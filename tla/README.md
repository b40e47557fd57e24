# A TLA+ model of relay

The repository is a local platform whose own program is *relay*, a webhook
delivery service.  Tenants POST events; `relay-ingest` stores each event in
Postgres and publishes it to Kafka; a consumer group of `relay-deliver`
processes delivers every event to the tenant's subscribers, with retries, an
attempt history and a dead-letter topic.  Around it stand a replay command, lag
metrics for the autoscaler, a test sink, and the tools and scripts that run the
M4 demonstration on AWS.

This directory holds the formal model of relay's core and of the programs that
stage, run, prove and publish the M4 demonstration: TLA+ modules, the TLC
configurations that check them on small instances, and TLAPS proofs of what
matters most for every instance.  Paths below are relative to the repository.

    tlc -config DeliveryHandover.cfg MCRelayDelivery     # one run
    tlapm RelayDeliveryProofs.tla                         # one module's proofs

`PROJECT.json` lists the runs with their properties, which definition models
which lines, the hazards and the theorems.

## Inventory

### The parts of relay

| Part | Source (`services/relay/`) | State it keeps | Operations | Talks to |
|---|---|---|---|---|
| ingest acceptance | `internal/ingest`, `internal/history` | acceptance slots, pool; rows of `relay_events` | postEvent, AcceptEvent, getAttempts | Postgres (row lock), Kafka |
| delivery consumers | `internal/delivery`, `internal/subscriptions` | record in hand, one goroutine per subscription; committed offsets, DLQ | Run, processRecord, handle, Deliver, deadLetter, ForTenant | Kafka group, Postgres, subscribers |
| attempt history | `internal/history` | rows of `relay_delivery_attempts` | RecordAttempt, Attempts | Postgres, shares rows with acceptance |
| replay | `scripts/relay-replay.sh`, `cmd/relay-replay`, `internal/replay` | the script's flag; looked-up offsets | stop_consumer, WaitInactive, Reset, restore_consumer, cleanup | Kafka admin API, the consumer's process |
| lag metrics | `internal/metrics/lag.go` | gauges | Refresh | Kafka admin API, KEDA and dashboards |
| process lifetime | `cmd/relay/main.go`, `config/retry.go` | shutdown step, timers, closers | runIngest, runDeliver, serveUntilShutdown, executeShutdownSequence, closeBounded | everything above; Kubernetes' grace period |
| readiness | `internal/delivery/consumer.go` | stopping, ready, fetchStarted | startReadiness, MarkReady, markReadyAfterGroupJoin, stopReadiness | kafka-go Stats, Kubernetes |
| retry schedule | `config/retry.go` | none | ParseRetrySchedule, ValidateStallBudget, WorstCase | startup |
| event codec, signing, telemetry, transport | `internal/event`, `delivery/sign.go`, `internal/telemetry`, `internal/metrics/metrics.go`, `internal/kafkatransport` | none that others read | encode, sign, trace, connect | |
| bootstrap, capture | `cmd/relay-bootstrap`, `internal/bootstrap`, `cmd/relay-capture` | none | idempotent setup; report queries | |

### What makes each part hard, and what makes it correct

* **Delivery.**  kafka-go hands partitions to a new owner while the old one
  still holds a record; nothing ends the old one's work.  Deliveries to several
  subscribers run side by side, each with retries, history writes and a shared
  deadline; any of them can fail, the process can die between the last delivery
  and the commit, and SIGTERM races the next fetch.  Correct means: at least
  once or dead-lettered, never committed otherwise; nothing overtakes an earlier
  record of its partition; the history agrees with what was committed; dead
  letters come last; a record is drained, and no more than one; no record blocks
  its partition while its lookup succeeds in the end.
* **Acceptance.**  Requests with one idempotency key race each other on several
  pods through an insert, a row lock and a publication whose outcome may be
  unknown.  Correct means: a success is durable, one key is one event with one
  body, newly accepted once; nothing is left half accepted because a caller hung
  up; waiting for Kafka does not starve reads; no circle of waits.
* **History.**  Two writers of the same rows with locks held across Kafka calls.
  Correct means: attempts are numbered without gaps, find their event, and end.
* **Replay.**  Offsets are moved from outside, while ingest goes on and the
  consumer may die, be fenced or come back, by a script that can fail or be
  interrupted anywhere.  Correct means: a replay loses nothing and, if it says
  so, delivers the window again.
* **Lag.**  Three broker calls at three moments, any of them partial, are added
  up to one number.  Correct means: it never says that less is owed than was.
* **Lifetime.**  Deadlines of different origin are stacked within one grace
  period.  Correct means: the process ends in time, whatever hangs, and takes
  resources only from work that it is entitled to cut off.
* **Readiness** (not modelled).  Three sources mark ready, two mark not ready, one
  counter clears when it is read.

### The M4 demonstration

| Part | Source | State it keeps | Operations | Talks to |
|---|---|---|---|---|
| staging gates | `scripts/m4-preflight.py`, `m4-aws-account.py`, `m4-aws-inventory.py`, `m4-stage.py`, `check-aws-plan.py`, `aws-terraform-guard.sh` | evidence files, saved plan, summary, GO packet | preflight, account, inventory, prices, stage-images, aws-plan, go-no-go, verify-go-no-go, guarded apply | Git, registry, AWS, each other's files |
| live-run controller | `tools/m4-live-run` | `controller-state.json`, stop request, one running make and its process group | run, runApply, stopApply, waitForStop, cleanup, requestStop, recovery checks | Terraform, AWS inventory, captures |
| machine capture | `scripts/m4-live-capture.py` | claim, cuts of time, what it changed, receipts | Capture.run, proof, sample, capture_replay, cleanup_local, stop | relay's gauges through Prometheus, KEDA, the sink, the controller |
| evidence packet | `scripts/m4-evidence.py`, `m4-publication-extra.py` | private directory of the run, public packet, recovery records | session, publish, upgrade, collect-final-cost, publish-failed, snapshot, publish-recovery | everything the run wrote |
| bootstrap tool | `tools/m4-bootstrap` | secret-scan receipt | runs a job in the cluster and waits | the packet depends on its receipt |

What makes them hard.  They are separate processes on one directory; nothing but file
existence, hashes and the controller's state keeps them apart.  They are stopped,
killed, repeated and run side by side, by an operator whose run costs money.

* **Staging.**  What one command judged is bound by a second and compared by a third,
  while others replace it and while it ages.  Correct means: the apply runs the last plan,
  which passed its gate, on observations that passed; the one session of the run is
  not lost to an expiry within the reserve counted from the check before it; image evidence is about the approved revision.
* **Controller.**  Terraform runs below make and may outlive it or ignore signals; a stop
  command, signals and the destroy deadline come at any time.  Correct means: one Terraform
  at a time; a destroy undisturbed by what was meant for the apply; "complete" only when
  nothing is left, not even what an interrupted apply created unrecorded; every stop
  leads to cleanup or a reported failure.
* **Capture.**  Its verdicts rest on gauges that are late, partial and stale, and it changes the
  cluster it measures.  Correct means: drained means consumed; a replay's delivery is not a
  redelivery; what it changed is restored; a failure while the run costs money asks for a stop.
* **Packet.**  Texts change between scan, copy and installation; commands are killed half way;
  the controller dies and its Terraform lives on.  Correct means: nothing leaks; what it
  says passed did pass; what it says is gone is gone; a packet only grows, and a final one
  no longer changes unless two upgrades meet.

### Around these

| Part | Source | Why it is not modelled |
|---|---|---|
| sink, echo | `services/sink`, `services/echo` | test services; the sink's answers are inputs of the delivery and capture models |
| smoke, relay, replay and drain verifiers | `services/smoke`, `scripts/verify-*` | sequential checks of a running platform |
| local rehearsals, rendering helpers | `scripts/relay-demo.sh`, `render-aws-k8s.py`, ... | sequential drivers; text out of text |
| manifests, validation, Terraform | `k8s`, `infra/terraform` | declarations; `k8s/validate` compares the sums of RelayShutdown with them |

## Modules

| Module | Models | Extends or instantiates |
|---|---|---|
| `RelayDelivery` | the consumer group | instantiates `DeliveryContract` |
| `DeliveryContract` | what delivery promises, without processes | |
| `RelayAcceptance` | postEvent, AcceptEvent, getAttempts on several pods | instantiates `IngestContract` |
| `IngestContract` | the idempotency contract of `docs/goal-relay.md` | |
| `RelayHistory` | RecordAttempt, composed with acceptance over the same rows | extends `RelayAcceptance` |
| `RelayReplay` | script, command, broker and consumer of a replay | |
| `LagPoll` | Refresh against a broker that moves | |
| `RelayShutdown` | both modes from serving to exit, in ticks of time | |
| `StageGates` | the staging commands of a run up to the guarded apply | |
| `LiveRun` | the controller, Terraform, stop commands and captures of one session | |
| `CaptureProof` | a machine capture of a local cluster, with pollers, Prometheus, consumers and sink | |
| `EvidencePacket` | the private directory of a run and the publication commands | |
| `MC...` | values of the constants for TLC | the module of that name |
| `...Proofs` | theorems | the module of that name; `RelayAcceptanceProofs` extends `RelayHistory` and proves about both; `GaugeProofs` is about `LagPoll` and `CaptureProof` |

Definitions that begin with the comment "Mutant" are not part of any
specification.  Each is a plausible bug in the definition that follows it, and
shows that a property of a run would notice it.

The modules of relay have a variable `adverse`: the number of faults so far (failed
calls, lost replies, crashes, rebalances nobody needed), bounded by `MaxAdverse`.
In `StageGates` it counts edits, rebuilds and repeated observations; `LiveRun` bounds
`signals` and `interrupts`, `EvidencePacket` `edits` and `kills`, `CaptureProof` `rebalances`.
The bounds keep the instances finite and, in the runs for liveness, say that
faults stop.  The theorems hold for every value of them.

### RelayDelivery

`phase[m]` is where process m is in `Run`/`processRecord`/`handle`, `cur[m]` the
record in hand, `stage[m][s]` the Deliver goroutine of subscription s.  One
action per step at which something else can interleave: `Fetch`, `Lookup`
(ForTenant), `Acknowledge`/`Refuse`/`GiveUp` (the request), `RecordAttempt` (the
history write and what Deliver makes of it), `Gather` and `Park` (handle's
reading of the outcomes and its dead letters, one after the other), `Commit`.
Each has a failing counterpart that ends `Run`, hence the process, with the
offset uncommitted.

* kafka-go and the coordinator are external.  A member reads from the offsets
  committed when it took up its generation.  The broker takes a commit from any
  member of the current generation, whether or not it owns the partition and
  whether or not the offset moves forward.  A refused commit on a change of
  generation costs an adverse event.
* A write that fails may have landed: dead letters, commits and history rows
  have both outcomes.  A request that the deadline interrupts may have reached
  the subscriber; it counts as a lost reply.
* SIGTERM races `FetchMessage`: with a record available, either may win.
* `Park` leaves out the payload that cannot be encoded, which `deadLetter` parks without
  an attempt (`deliver.go:130-139`): what has been decoded can be encoded again.
* Subscriptions are constant while a record is handled; event ids and attempt
  numbers are not modelled here (numbers are in `RelayHistory`).
* `Waiting` is the state in which every member blocks in `FetchMessage` on an
  empty partition.  With that step, deadlock in TLC's sense means a group that is
  stuck with work to do.

### RelayAcceptance, RelayHistory

A request's candidate event has the request's name.  `pc` follows AcceptEvent:
slot, insert (committed on its own), begin, lock, publish, mark.  `owner[t]` is
the request whose transaction has the row locked; a lost connection takes it
away while the request still waits for Kafka.  `copies` and `late` count the
records of an event on the topic and those that may still land after
`WriteMessages` has given up.

* The read-only transactions of a duplicate and of a conflict are one step each;
  a rollback lets go of its lock at once.
* A body is an equivalence class under jsonb equality.  Rows from before keys
  were claimed are not modelled.
* The history module adds recorders of one subscription.  Acceptance's
  `FOR UPDATE` also waits for them: that conjunct is in `Acceptance`.

### RelayReplay

One consumer process, with what matters to a replay of its life in
`RelayDelivery`.  `since` is chosen at the start: the beginning or a timestamp,
where a record is "old" (before it) or "new".  Each of the command's lookups is
answered at a moment of its own.  A signal to the script, `set -e` and the EXIT
trap are actions; a signal that comes while a command runs is handled between
commands, as bash does.

* The wait for an inactive group times out freely while the group is active.
* In compose mode the script waits for the consumer's process; a consumer that
  is fenced while it drains is possible in cluster mode only.
* Retention and truncation are not modelled.

### LagPoll

The three calls of `Refresh`, each answered at its own moment and for some of
the partitions only.  `owed`, `gaps` and `due` are witnesses: what the group
really owed, or left without an owner, when the poll began to read, carried to the
moment the gauge is set.  Partitions are static; truncation, members without
partitions and the freshness stamp are left out.

### RelayShutdown

Time passes in ticks.  A timer or deadline that has run out stops the clock until
the code reacts to it, and everything else may take any time at all: requests,
records, closers.  So a bound on `elapsed` is a safety property and needs no
fairness.  `step` is the step of the shutdown sequence, `work[w]` a request
handler (ingest) or the record (deliver), `began[w]` when it began.

* The pool's closer waits for its connections to come back; the others may
  return or never do.
* The listener fails by itself only when it cannot be opened: net/http retries
  failed accepts.
* `WorkKeepsResources` exempts an acceptance whose deadline is exactly the end of
  Shutdown's time: which of the two fires first is not defined.

### StageGates

A file is what was observed when it was written, so two files have the same hash
exactly when they are equal.  One action per read, check or write after which another
command can come in.  For aws-plan: `StartPlan` (the guard removes plan, summary and packet
first), `SavePlan`, `ShowPlan` (terraform show, and the verdict on what it shows), `HashPlan`
(time and hash of the file as it is then), `WriteSummary`.  For go-no-go: `StartGo` (judges),
`HashInputs`, `WriteGo`.  For stage-images: `StartStage`, `Push`, `WriteImages`.  For aws-live-run:
`StartRun`, `CheckReserve` and `CheckAddress` (verify-go-no-go --before-session, which takes
its time once, at `StartRun`), `RefuseRun`, `StartSession` (with a time of its own), then the guarded
apply: `CheckSource`, `ShowAgain`, `CompareAgain`, `VerifyGo`, `GuardShapeFails`, `Apply`.
Any command may be stopped (`Stopped`), the clock ticks, the worktree and the local
image tag change.

* Which gate an observation or a plan passes is an input (`good`).  The
  queries behind a verdict, the counts and costs of the plan gate, the budget and EKS
  checks of the guard are not modelled.
* Each observation is one step.  An operator never records an older price review over a
  newer one.
* Any number of aws-plan commands overlap, up to `MaxPlans`: Terraform's state lock is held by
  `terraform plan` alone, not by the removal before it (`aws-terraform-guard.sh:179`) nor by
  check-aws-plan after it (`aws-terraform-guard.sh:242`).  The lock itself is not modelled; `SavePlan` is one step.
* At most one go-no-go, one stage-images and one aws-live-run are at work; the controller's
  lock keeps two of the last apart, two of the others are left out, and so are two preflights.
* The files one verification compares are read in one step, and so are the time and the hash of the plan file.
* `overlap`, `beside` and `mixed` (aws-plans beside the guard, or beside each other), `torn` and
  `blind` are witnesses of the windows described under Observations; the properties say what
  holds outside them.

### LiveRun

`pc` follows `run`: apply, its stop, the wait, cleanup's destroy attempts, state check,
inventory, cost, done.  `cmd` is the number of the last make, `tfs` the commands whose
Terraform runs: it may go on after its make.  `sent` and `pending` are the
strongest signal a group has been sent or one that is kept for the next command,
`chan` the buffered signal channel.  `cloud`, `state` and `inflight` tell resources that
exist from those that Terraform knows of.  A stop command reads the phase, writes its
file and wakes the controller in two steps (`asking`).  A capture claims the run, fails on any
thread, asks for its stop once (`stop`) and writes its receipts.

* The deadline may pass at any time; Terraform may hang, ignore every signal, create
  what it never records, and fail.
* The checks before the session (they are in `StageGates`), the lock against a second controller
  and the contents of the written files are left out.

### CaptureProof

Time is cut at the instants the capture reads from Prometheus; a stamp is the number of
cuts before it, which is all that `not_before` compares.  A poll is three steps (offsets,
ends, publication) and stamped last; Prometheus may show any publication or none.
`step` follows the proof from `setup` to `cleanup`; `found` is what the capture
found of the sink's latency and of KEDA's pause, `changed` what it marked as its own.

* The failure rate and the latch of the sink are one flag (`slow`); a pause that was
  found is a pause at no replicas.
* `Straddles` exempts a poll that had begun before a cut and was stamped after it; see
  Observations.
* The inside of jobs, what receipts contain and the deployment to AWS are left out.

### EvidencePacket

A text is a version and a kind: "ident" (identifiers, which `sanitize_text` replaces), "cred" (a
credential, which only the secret scan finds), "clean".  `pub[p]` is a publication command: its
step, phase, temporary directory and the observation it took.  The controller is
reduced to what a publisher reads of it (`ctl`, `alive`, `tf`, `res`), with a
death after which its Terraform creates on.  Every command may be killed at every step;
`os.replace` and `rename` are atomic, a directory is installed by one rename.
An upgrade is not atomic: it tests that there is no cost (`TestCost`), truncates and writes it in place
(`OpenCost`, `FillCost`), hashes it (`HashCost`) and replaces the receipt (`UpgradeReceipt`).  `raced`
notes that an upgrade passed the test while another one was past it.

* An edit gives a text a new version; a text changed and changed back is not modelled.
* Publication of the staging evidence and of the initial plan, the capture protocol,
  screenshots and their review are left out.

## Runs

Twelve runs, all of which pass.  Sizes are distinct states.

| Run | Instance | What it shows |
|---|---|---|
| `delivery_handover` | 2 members, 2 partitions (orphan, event; poison), 1 fault, fairness; 379,000 | Ownership moves while the old owner still works: `CommittedIsDone`, `NoOvertaking`, `DrainsOneRecord` after SIGTERM, and `EveryRecordCommitted`: none of these records blocks its partition for ever. The instance has no record without a tenant, whose lookup (`store.go:53`) may fail for ever and would block it |
| `delivery_fanout` | 1 member, 5 records (event, poison, orphan, no subscriber, no tenant), 2 subscriptions, 2 attempts, 2 faults; 217,000 | Every path of `handle`, with two goroutines that come to different ends: `CommittedIsAudited`, `DeadLetterComesLast`, and refinement of `DeliveryContract` (`KeepsContract`) |
| `accept_retry` | 3 requests of one key (two alike, one of another body), 2 pods, 3 faults; 82,000 | `AcceptedIsDurable`, `SameKeySameEvent`, `AcceptedOnce`, and refinement of `IngestContract` (`KeepsIngestContract`) |
| `accept_mixed` | 4 requests (keyed pair, unkeyed, malformed), 1 read, 1 pod with 2 connections, hang-ups, 1 fault, fairness; 57,000 | `ReadsKeepAConnection`, `EveryRequestAnswered` |
| `history_shared` | 2 requests of one key, 2 recorders, up to 3 attempts, 2 faults, fairness; 83,000 | `GapFree`, `NoOrphans`, `AttemptsEnd` |
| `replay` | 2 partitions, a backlog on one, the other without a record in the window, both kinds of `--since`, 2 faults, fairness; 72,000 | `NothingSkipped`, `WindowDeliveredAgain` |
| `lag_poll` | 2 partitions of up to 2 records, 1 fault; 1,151,000 | `LagNeverUnderstates`, `TotalNeverUnderstates` |
| `shutdown` | both modes, 2 requests, 3 closers, acceptance 3 ticks under a Shutdown of 4; 6,500 | `ExitsInTime`, `WorkKeepsResources`, `LeavesNothingOpen` |
| `stage` | account and prices, 2 plans, 3 commands at once, 1 edit, rebuild or repetition, clock up to 2, age and reserve 1; 3,151,000 | `AppliesReviewedPlan`, `InputsHold`, `NoExpiryWithinReserve`, `ImagesAreApproved` |
| `live_run` | 2 resources, 1 capture, 2 destroy attempts, 1 signal to the controller and 1 to the capture, fairness; 685,000 | `OneTerraform`, `DestroyUndisturbed`, `CompleteMeansEmpty`, `FailedCaptureAsks`, `SessionEnds` |
| `capture` | 1 ingest pod, the event, a cohort of 1, the poison record, 1 redelivery; 2,157,000 | `DrainedMeansConsumed`, `CountedOnce`, `ReplayMeansConsumed`, `CleanupRestores` |
| `packet` | 2 publication commands, 1 changed text, 1 kill; 1,303,000 | `NothingLeaks`, `PassIsProven`, `ClaimsHold`, `PacketsOnlyGrow` |

Why these bounds are enough.  A handover needs two members and a partition to
hand over; two records are needed for one to overtake the other.  Fan-out needs two
subscriptions (one that waits while the other ends) and two attempts (one that is
retried).  Idempotency
needs a first request, its retry and a misuse of the key; with three faults the
first one's publication may be lost and land late while its retry's connection
dies.  Starvation needs as many acceptances as connections, a read, and a caller
that hangs up.  Numbering needs two recorders and a third attempt after them.  A
replay needs one partition that lags and one that does not; with two faults a
reset can fail and the consumer can be fenced.  The lag needs two partitions for
a total of which a part is missing.  The budgets of `shutdown` keep the
order of the real ones (3, 20, 15, 30, 5, 5, 5, 3 seconds): Shutdown's time covers
an acceptance's with a margin.  A stale plan needs a second one; three commands at once are two
aws-plans and a reader of what they leave.  What expires during the reserve needs an age, a reserve and
one tick.  The dated inputs are judged each by itself; the inventory differs from the account only in that
it does not look at the worktree, and the theorems have all three.  An apply that
is cut off needs one resource that is recorded and one that is not, and a destroy that
fails once a second attempt.  A stale gauge needs one poller, one record and one redelivery;
more pollers only take the largest sample away.  A packet needs a publisher, a rival, and a text that
changes or a kill between any two of their steps.

Symmetry is used for the requests of `shutdown` and the commands of `packet`, which check
no liveness; nothing else tells the members of these sets apart.

Deadlock is checked where a system must not stop (in `RelayDelivery`, `Waiting` keeps an
idle group from being one).  It is not in `stage`, `live_run`, `capture` and `packet`: these
programs end.

In the instance of `replay` one partition begins without a record in the window, so that the
case that `PassedOver` excepts is reached: without the clause TLC refutes `WindowDeliveredAgain`.

Some modules define a `TypeOK` that no run lists, since a theorem proves it (`RelayDelivery`,
`RelayAcceptance`, `RelayReplay`, `RelayShutdown`, `LiveRun`) or the inductive invariant contains the types it needs.

## Fairness

* `delivery_handover`: WF of each member's process (goroutines run, calls return
  by their deadlines, the orchestrator restarts a pod) and WF of the rebalance that is
  due (the coordinator's session and rebalance timeouts).  No fault is fair: each
  costs from `MaxAdverse`.
* `accept_mixed`: WF of the handling of each request and of each read: Postgres
  and Kafka answer or time out (`acceptCtx`, the writer's `WriteTimeout`).  A slot, a
  connection and a row lock are taken by whoever comes first; weak fairness per
  request is enough in the instance because the requests are finitely many.
* `history_shared`: WF of acceptance's handling of each request, and of each recorder, whose
  context has a timeout.
* `replay`: WF of the consumer, of the expiry of a dead consumer's session, of the
  command and of the script.
* `live_run`: WF of the controller's loops (they poll, or select on timers), of the end of a command once make has
  returned or its group has been killed (`WaitDelay`, the group wait's time limit), and of a stop command that
  has begun.  Terraform, the deadline and signals owe nothing.
* `shutdown` needs none: time does not pass a deadline that is due, so "in time" is
  safety.  The remaining runs check safety only.

## Proofs

All theorems hold for every value of the constants that satisfies the named
assumptions: bounds are naturals, logs are sequences of records, subscription ids
are positive, requests, partitions and ingest pods are finitely many, offsets begin below their
bound, the dated observations are among the three there are and the allowance is within the age
limit, at least one destroy is attempted, and `NoOwner`, `None`, `Nobody` and `Earlier` are no
members of the sets they are told apart from.

| Module | Theorems | Argument |
|---|---|---|
| `RelayDeliveryProofs` | `TypeCorrect`, `AtLeastOnce` (CommittedIsDone), `InOrder` (NoOvertaking), `AuditTrail` (CommittedIsAudited), `GracefulDrain` (DrainsOneRecord), `DeadLettersLast` (DeadLetterComesLast), `ImplementsContract` (KeepsContract) | What lies behind a member's view and before its record in hand is complete; each goroutine's stage agrees with the subscriber, the DLQ and the history. Needed because a stale owner commits what it read generations ago: the broker's state alone says nothing of it |
| `RelayAcceptanceProofs` | `TypeCorrect`, `DurableAcceptance` (AcceptedIsDurable), `OneEventPerKey` (SameKeySameEvent), `NewlyAcceptedOnce` (AcceptedOnce), `ReadsStayServed` (ReadsKeepAConnection), `ImplementsContract` (KeepsIngestContract) | A key has one row; a request at work on a row has its key and body; a locked row is pending. Slots: requests within acceptance never outnumber them |
| the same, of `RelayHistory` | `NumberedWithoutGaps` (GapFree), `NobodyOrphaned` (NoOrphans) | One recorder at a time has the row, so the number it took is still the next when it commits; acceptance keeps its own invariant beside the recorders |
| `RelayReplayProofs` | `TypeCorrect`, `ReplayIsAtLeastOnce` (NothingSkipped), `WindowIsNotPassed` (the safety half of WindowDeliveredAgain; no run repeats it) | `Typed`: what a reset commits was answered, and lies in the log. `Progress`: all before a committed offset, a position and a record in hand has been delivered, whoever resets meanwhile; the reset to the beginning commits 0. `Replayed`: between the reset and the return of the consumer the group stays where it was put, and from then on all from there to its offset and its position has been given again |
| `GaugeProofs`, of `LagPoll` | `PollIsTyped`, `LagIsSound` (LagNeverUnderstates), `TotalIsSound` (TotalNeverUnderstates), `GapsAreReal` (ownerless partitions are only published of a settled group; no run repeats it) | Since the offsets were read the end has only grown, so end minus base is at least what was owed. The total needs that of every partition, and that a sum of larger terms is larger |
| the same, of `CaptureProof` | `CaptureInvariance`, `ReplayCountsOnce` (CountedOnce), `CleanupIsComplete` (CleanupRestores), `LoadIsDrained` (DrainedMeansConsumed), `ReplayIsDrained` (ReplayMeansConsumed) | A poll that began after a cut has seen what was on the log at the cut; its offset is one that the group has not left behind, before the reset and again after the return of the consumers. A dead letter shows that the group is past the cohort, hence that the event is not delivered before the reset. Needed because the gauges alone say neither when they were read nor of which life of the group |
| `RelayShutdownProofs` | `TypeCorrect`, `EndsInTime` (ExitsInTime), `WorkIsNotCutOff` (WorkKeepsResources), `NothingLeftOpen` (LeavesNothingOpen) | In each step, time since the signal plus time left of the step is bounded by the budgets so far, and in ingest's first steps equal to them |
| `StageGatesProofs` | `OnlyReviewedPlans` (AppliesReviewedPlan), `OnlyGoodInputs` (InputsHold), `RunOutlivesGuard` (NoExpiryWithinReserve), `OnlyApprovedImages` (ImagesAreApproved) | The plan of an aws-plan that ran beside no other is the last one, and its summary is about it; what the guard has judged stays until the next aws-plan; a packet binds what passed unless it is torn; once the reserve has been checked, whatever replaces a file is as young as that check or than the file. Needed because judging, binding and comparing are three commands |
| `LiveRunProofs` | `TypeCorrect`, `TerraformIsAlone` (OneTerraform), `DestroyIsUndisturbed` (DestroyUndisturbed), `CompleteIsEmpty` (CompleteMeansEmpty), `FailedCaptureStops` (FailedCaptureAsks) | A Terraform belongs to the last command, which keeps the executor reserved; the controller is past apply only when the executor is free, and has cleared the pending signal. A capture's flags agree with the claim at each of its steps |
| `EvidencePacketProofs` | `NothingLeaksOut` (NothingLeaks), `PassProven` (PassIsProven), `ClaimsAreTrue` (ClaimsHold), `PacketsAreKept` (PacketsOnlyGrow) | What a command holds was read from a settled controller or will be compared before it is installed; no resource appears once the controller has verified, or once recovery has seen its processes gone; an upgrade that is past its test alone finds the cost it wrote, and no upgrade begins on a final packet |

Each proof has the same layout: types, an inductive invariant (`IInv`, `HInv`, `CaptureInv`,
`Typed` with `Progress` and with `Replayed`, `RunOK` with `CapOK`),
one lemma per action or group of actions, and a temporal step.  Of a specification with fairness the
theorems hold as well: `FairSpec` implies `Spec`.

Sums and maxima over sets of any size (`MapThenSumSet` in `LagPoll`, `Max` in `CaptureProof`) need induction,
and the induction theorems of the library take a predicate, which the provers cannot instantiate.
`SubsetInduction` of `GaugeProofs` takes the set of the subsets that satisfy it instead: of those that
do not, the well-founded order of the subsets of a finite set has a smallest one, whose strict subsets all
do.  From it follow that `Max` is a maximum (`MaxOfFinite`), that the recursion behind `MapThenSumSet` defines
a function (`SumsExist`) and that it is monotone (`SumsMonotone`).  It rests on finitely many partitions and
ingest pods, which `PartitionAssumption` and `CaptureAssumption` state.

Model-checked only: the liveness properties (`EveryRecordCommitted`,
`EveryRequestAnswered`, `AttemptsEnd`, `WindowDeliveredAgain`, `SessionEnds`), since liveness
under fairness and ENABLED are beyond the prover.  Every invariant and every action property of a passing
run is stated by a theorem.

## Observations

Behaviour met while modelling that a reader of the code or its docs may not expect.  No run
is about it; where a property has a clause for it, the clause is named.

Relay:

* **Order across a rebalance.**  `docs/goal-relay.md:103` says that a tenant's events are delivered in the
  order they were accepted.  A rebalance does not end `processRecord`'s context (`consumer.go:261`): a
  stale owner may deliver the record it holds after the new owner has delivered it and a later one.  What
  holds is `NoOvertaking`: a first delivery never comes before earlier records are done.  ADR 0006 claims
  no more than two runs without a violation.
* **Replay by time may skip.**  `offsetsFor` (`replay.go:177`) does not look at the committed offset: a
  group that lags by more than `SINCE` is moved forward past records it has not delivered, though
  `relay-replay.sh:2` and `goal-relay.md:100` speak of delivering again.  `NothingSkipped` is about a reset to the
  beginning.
* **First offset and log end.**  `Reset` looks a timestamp and the log end up one after the other
  (`replay.go:104`).  On a partition without a record in the window, one that ingest appends
  between the two answers is within the window and is passed over: the clause `PassedOver` in
  `WindowDeliveredAgain`.
* **A late body.**  An acceptance's 15 s begin when its body has been decoded, and only headers have a
  read timeout (`main.go:358`): a body that arrives more than 5 s into Shutdown begins an acceptance
  that outlasts Shutdown's 20 s, which `retry.go:145` says they cover.  `WorkKeepsResources` is what does hold; it
  also exempts an acceptance whose deadline is exactly the end of Shutdown's time.
* **Fenced while draining.**  A consumer that is fenced while it drains (cluster mode) joins again after the
  reset and commits the record in hand over it (`consumer.go:281`): the clause `~fenced` in `WindowDeliveredAgain`.
* `consumer_stopped=1` is set after the stopping command (`relay-replay.sh:96`): a
  signal in between leaves the consumer stopped, though the comment at line 99
  says the trap restarts it after any signal.
* `Deliver` returns an error with its context alive when the history cannot be
  written (`deliver.go:232`); its comment (`deliver.go:111`) says it does so only
  when the record context ends.
* The row is locked while its event is published, so that a fast consumer's first
  `RecordAttempt` waits for the acceptance; `store.go:78` and `server.go:220` say
  it can attach its history immediately.
* A caller that hangs up changes nothing: an acceptance has a context of its own (`server.go:203`).

Staging:

* **Reserve and allowance.**  The runbook has the 15-minute reserve cover the guarded apply's allowance
  (`docs/runbook-aws-relay.md:749-750`), which it counts from the session (`864-865`).  The code adds the reserve to the time
  at which the check began (`m4-stage.py:1253`, `1269`); worktree check, `terraform show` and the address request, which
  may take 10 s, come before the session's own time (`m4-live-run/main.go:705`).  What expires in between
  makes the guard refuse an apply that is within its allowance, and the session is spent.
* Two aws-plan commands may overlap: one judges a plan, and hashes the file after the other has replaced it,
  so that the summary says of the new plan what is true of the old one (`mixed`).  The guard judges the plan
  again before it applies it.
* aws-plan takes no lock against aws-live-run.  One that runs while the apply is guarded can replace the
  plan file between the last comparison of its hash and `terraform apply`: the clause `overlap` in
  `AppliesReviewedPlan`, without which TLC finds the case.
* go-no-go hashes its inputs after it has judged them; one replaced in between is bound unjudged (`torn`).
* stage-images records the inspection it made before the push, though the tag may be rebuilt meanwhile
  (`blind`); an immutable tag with the wrong content cannot be staged again.  The revision is a label:
  `m4-aws-images` labels with `AWS_APPROVED_COMMIT` whatever the worktree holds.
* A preflight looks at HEAD and worktree when it starts; one that fails writes its receipt and spends the run id.
* Apart from budget and EKS support, nothing at the apply observes the account again.
* The captured time of account and inventory is taken after their queries.

Controller and captures:

* A plain SIGINT or SIGTERM that `runApply` takes just as `make aws-up` succeeds is consumed: the run goes live
  and waits for the deadline or another stop (`main.go:944-961`, `1308-1325`), though
  `runbook-aws-relay.md:982` says that signals go through the same cleanup sequence.
* A signal to a capture loses its stop request in three windows: after `capture-start.json` is written
  and before the claim is noted, between `stop_attempted` and the ignoring of signals, and in
  main's handler.  They are "lost" in `FailedCaptureAsks`; the destroy deadline is the backstop.
* `LagRefreshedAt` is stamped at the end of Refresh (`lag.go:243`): a poll that began before a cut and was
  stamped after it passes `not_before`, although what it read may be older (`Straddles`).  It takes a poll that is
  delayed for as long as the capture's step.

Packet:

* An upgrade killed after its test leaves a packet with a cost, or part of one, that no command
  finishes.  A second upgrade that passed the same test (`m4-evidence.py:1549`) truncates the cost of a packet that the
  first has made final; killed there, it leaves a final packet that no longer verifies: `raced` in
  `PacketsOnlyGrow`.
* A killed
  collect-final-cost leaves `.23-cost-final.txt.tmp`, which every later one refuses to overwrite.
* A kill between session and scan receipt spends the run id.
* Receipts of the staging commands may be replaced later, so `21-inventory-after` may be newer than what the
  controller verified.
* The snapshot of a failed attempt is taken once and kept; publish-failed does not ask whether the run failed.

## Not modelled

PROJECT.json lists each part with its reason.  In short:

* Readiness of the consumer (`consumer.go:134`, `245`): a late join may be marked after SIGTERM has withdrawn
  readiness, or be lost to the clearing `Stats`.  It needs a model of its own.
* Retry schedule, event codec, signing, telemetry, transport, bootstrap and capture command of relay: pure
  functions or sequential calls without shared state.
* Sink, echo, verifiers, rehearsals, renderers, manifests and Terraform.
* In the modelled parts of relay: retention and truncation of topics, changes of subscriptions while a record is
  handled, records too large for the dead-letter topic, changes of the number of partitions, startup
  before a process serves.
* In the modelled parts of the demonstration: what their module's section above leaves out.

What would come next: the consumer's readiness, and the job of `tools/m4-bootstrap`.
