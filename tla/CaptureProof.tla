--------------------------- MODULE CaptureProof ----------------------------
(***************************************************************************)
(* The machine capture of scripts/m4-live-capture.py, as it runs against a *)
(* local cluster: one event, a load cohort that must scale the consumers   *)
(* and drain, a poison record, a replay, and the logs of all of it. Its    *)
(* verdicts rest on gauges that ingest pollers read from the broker in     *)
(* pieces and that Prometheus shows late, while the consumers deliver,     *)
(* commit, rebalance and scale. The cluster may be found paused or slow.   *)
(*                                                                         *)
(* Time is cut at the instants the capture reads from Prometheus, vector   *)
(* (time()): a stamp is the number of such cuts before it, so a sample     *)
(* taken not before cut k has stamps of at least k. The log holds the      *)
(* event, the cohort and the poison record, in this order.                 *)
(***************************************************************************)
EXTENDS Integers, FiniteSets, FiniteSetsExt

CONSTANTS Ingest,         \* ingest pods, each with its lag poller
          Cohort,         \* events of the load cohort
          MaxRebalance    \* bound: times that a delivered record is uncommitted
ASSUME CaptureAssumption ==
  IsFiniteSet(Ingest) /\ Ingest # {} /\ Cohort \in Nat \ {0} /\ MaxRebalance \in Nat

Event == 1
Poison == Cohort + 2

VARIABLES
  ends,       \* records in the log
  off,        \* committed offset of the group
  ahead,      \* the next record is delivered but not committed
  okCount,    \* deliveries of the event that the sink has recorded
  dlqCount,   \* dead letters of the poison record
  rebalances,
  slow,       \* the sink answers with latency
  pods,       \* consumer pods
  paused,     \* the KEDA pause annotation
  found,      \* what the capture found of the two
  poll,       \* each poller's reading so far
  gauge,      \* what Prometheus shows of each poller
  replicas,   \* what Prometheus shows of the deployment
  cut,        \* the last cut of time
  step,       \* where the capture is
  submitted,  \* the producers were done when the iteration began
  loadAt, submittedAt, resumedAt,   \* the cuts the capture holds; 0: none
  scaled,     \* which of backlog, replicas and members a sample has shown
  released,   \* the sink has been released
  before,     \* deliveries of the event counted before the pause
  reset,      \* the offsets have been reset
  changed,    \* changed_sink, changed_pause
  verdict     \* capture-result.json's result and cleanup_verified

groupVars == <<off, ahead, okCount, dlqCount, rebalances>>
clusterVars == <<pods, paused, slow>>
Controls == [slow |-> slow, paused |-> paused]
metricVars == <<poll, gauge, replicas>>
markVars == <<submitted, loadAt, submittedAt, resumedAt, scaled, released, before>>
captureVars == <<ends, groupVars, clusterVars, metricVars, cut, step, markVars, reset, changed,
                 verdict, found>>

NoPoll == [stage |-> "idle", off |-> 0, ends |-> 0, from |-> 0]
Reading(o, e, m, from, at) == [off |-> o, ends |-> e, members |-> m, from |-> from, at |-> at]

CaptureInit ==
  /\ ends = 0 /\ off = 0 /\ ahead = FALSE /\ okCount = 0 /\ dlqCount = 0 /\ rebalances = 0
  /\ slow \in BOOLEAN /\ pods = 1 /\ paused \in BOOLEAN /\ found = Controls
  /\ poll = [i \in Ingest |-> NoPoll]
  /\ gauge = [i \in Ingest |-> Reading(0, 0, 1, 0, 0)] /\ replicas = [n |-> 1, at |-> 0]
  /\ cut = 0 /\ step = "setup" /\ submitted = FALSE
  /\ loadAt = 0 /\ submittedAt = 0 /\ resumedAt = 0
  /\ scaled = {} /\ released = FALSE /\ before = 0 /\ reset = FALSE
  /\ changed = {} /\ verdict = "none"
-----------------------------------------------------------------------------
(* The relay, KEDA, the pollers and Prometheus.                            *)

Capturing == UNCHANGED <<cut, step, markVars, reset, changed, verdict, found>>

Deliver ==
  /\ pods > 0 /\ ~ahead /\ off < ends
  /\ ahead' = TRUE
  /\ okCount' = okCount + (IF off + 1 = Event THEN 1 ELSE 0)
  /\ dlqCount' = dlqCount + (IF off + 1 = Poison THEN 1 ELSE 0)
  /\ UNCHANGED <<ends, off, rebalances, clusterVars, metricVars>> /\ Capturing
Commit ==
  /\ ahead /\ ahead' = FALSE /\ off' = off + 1
  /\ UNCHANGED <<ends, okCount, dlqCount, rebalances, clusterVars, metricVars>> /\ Capturing

\* A change of the group before the commit has the record delivered again.
Rebalance ==
  \/ ~ahead /\ UNCHANGED <<ahead, rebalances>>
  \/ ahead /\ rebalances < MaxRebalance /\ rebalances' = rebalances + 1 /\ ahead' = FALSE
Scale ==
  /\ pods' \in IF paused THEN {0} ELSE {1, 2}
  /\ pods' # pods /\ Rebalance
  /\ UNCHANGED <<ends, off, okCount, dlqCount, paused, slow, metricVars>> /\ Capturing

\* metrics/lag.go: committed offsets, then log ends; the group's members and
\* the stamp come with the publication.
PollOffsets(i) ==
  /\ poll[i].stage = "idle"
  /\ poll' = [poll EXCEPT ![i] = [stage |-> "ends", off |-> off, ends |-> 0, from |-> cut]]
  /\ UNCHANGED <<ends, groupVars, clusterVars, gauge, replicas>> /\ Capturing
PollEnds(i) ==
  /\ poll[i].stage = "ends"
  /\ poll' = [poll EXCEPT ![i] = [stage |-> "publish", off |-> @.off, ends |-> ends, from |-> @.from]]
  /\ UNCHANGED <<ends, groupVars, clusterVars, gauge, replicas>> /\ Capturing
PollPublishes(i) ==
  /\ poll[i].stage = "publish"
  /\ poll' = [poll EXCEPT ![i] = NoPoll]
  /\ gauge' = [gauge EXCEPT ![i] = Reading(poll[i].off, poll[i].ends, pods, poll[i].from, cut)]
  /\ UNCHANGED <<ends, groupVars, clusterVars, replicas>> /\ Capturing
Scrape ==
  /\ replicas' = [n |-> pods, at |-> cut]
  /\ UNCHANGED <<ends, groupVars, clusterVars, poll, gauge>> /\ Capturing

System ==
  \/ Deliver \/ Commit \/ Scale \/ Scrape
  \/ \E i \in Ingest : PollOffsets(i) \/ PollEnds(i) \/ PollPublishes(i)
-----------------------------------------------------------------------------
(* What the capture reads.                                                 *)

\* QUERIES and sample: the largest lag and member count over the pollers, and
\* no stamp, the oldest included, from before a cut.
Lag == Max({gauge[i].ends - gauge[i].off : i \in Ingest} \cup {0})
Members == Max({gauge[i].members : i \in Ingest})
Fresh(k) == replicas.at >= k /\ \A i \in Ingest : gauge[i].at >= k
\* drained_sample
Drained(k) == Fresh(k) /\ Lag = 0 /\ replicas.n = 1 /\ Members = 1

Go(to) == step' = to
Watching == UNCHANGED <<groupVars, metricVars, found>>
Keep == UNCHANGED <<ends, clusterVars, cut, markVars, reset, changed, verdict>> /\ Watching

\* setup checks the checkout and the images and forwards the ports. proof then
\* takes neither a slow sink nor a paused scaler, and waits for a drained group.
Setup == step = "setup" /\ Go("baseline") /\ Keep
Baseline == step = "baseline" /\ ~slow /\ ~paused /\ Drained(0) /\ Go("event") /\ Keep

\* The event is accepted; its repeat returns the same id and appends nothing.
PostEvent ==
  /\ step = "event" /\ Go("finished") /\ ends' = ends + 1
  /\ UNCHANGED <<clusterVars, cut, markVars, reset, changed, verdict>> /\ Watching
\* The attempts are recorded and the sink holds exactly one delivery.
Delivered == step = "finished" /\ okCount = 1 /\ Go("slow") /\ Keep

\* A control that is written: the write may fail and still take effect. What
\* it changed is marked before, for the cleanup.
\* Mutant: what changed is marked once the write has succeeded.
MarksAfter(what) == changed' = IF step' = "cleanup" THEN changed ELSE changed \cup {what}
Marks(what) == changed' = changed \cup {what}
Wrote(ok, to) == IF ok THEN Go(to) ELSE Go("cleanup")
After(ok, value) == IF ok THEN {value} ELSE BOOLEAN
SlowSink ==
  /\ step = "slow" /\ (\E ok \in BOOLEAN : Wrote(ok, "mark") /\ slow' \in After(ok, TRUE))
  /\ Marks("sink")
  /\ UNCHANGED <<ends, pods, paused, cut, markVars, reset, verdict>> /\ Watching

Cut == cut' = cut + 1
LoadStarted ==
  /\ step = "mark" /\ Go("load") /\ Cut /\ loadAt' = cut'
  /\ UNCHANGED <<ends, clusterVars, submitted, submittedAt, resumedAt, scaled, released, before,
                 reset, changed, verdict>> /\ Watching

\* load_pool's workers.
AllPosted == ends >= Cohort + 1
Post ==
  /\ step \in {"load", "sample"} /\ ~AllPosted /\ ends' = ends + 1
  /\ UNCHANGED <<clusterVars, cut, step, markVars, reset, changed, verdict>> /\ Watching

\* An iteration sees first whether the producers are done. The cut after them
\* may be missing for now.
BeginIteration ==
  /\ step = "load" /\ Go("sample") /\ submitted' = AllPosted
  /\ \/ AllPosted /\ submittedAt = 0 /\ Cut /\ submittedAt' = cut'
     \/ UNCHANGED <<cut, submittedAt>>
  /\ UNCHANGED <<ends, clusterVars, loadAt, resumedAt, scaled, released, before,
                 reset, changed, verdict>> /\ Watching

\* Mutant: the whole cohort is bounded by its start.
StartBoundary == loadAt
Boundary == IF submittedAt # 0 THEN submittedAt ELSE loadAt

Shows == (IF Lag > 0 THEN {"backlog"} ELSE {}) \cup (IF replicas.n > 1 THEN {"replicas"} ELSE {})
           \cup (IF Members > 1 THEN {"members"} ELSE {})
Complete == {"backlog", "replicas", "members"}
SamplePending ==
  /\ step = "sample" /\ Go("load") /\ Keep
MaySettle == submittedAt # 0 /\ Lag = 0
SampleSeen ==
  /\ step = "sample" /\ Fresh(Boundary)
  /\ scaled' = scaled \cup Shows
  /\ released' = (released \/ MaySettle)
  /\ slow' = IF MaySettle THEN FALSE ELSE slow
  /\ Go(IF MaySettle /\ replicas.n = 1 /\ Members = 1
          THEN IF scaled' = Complete THEN "poison" ELSE "cleanup" ELSE "load")
  /\ UNCHANGED <<ends, pods, paused, cut, submitted, loadAt, submittedAt, resumedAt, before,
                 reset, changed, verdict>> /\ Watching

\* The poison record is written, and exactly one dead letter of it is read.
PostPoison ==
  /\ step = "poison" /\ Go("dead") /\ ends' = ends + 1
  /\ UNCHANGED <<clusterVars, cut, markVars, reset, changed, verdict>> /\ Watching
DeadLettered == step = "dead" /\ dlqCount = 1 /\ Go("count") /\ Keep

\* Mutant: the delivery that the first proof saw is the only one.
FirstDelivery == 1
Counted == okCount

\* capture_replay
Count ==
  /\ step = "count" /\ Go("pause") /\ before' = Counted
  /\ UNCHANGED <<ends, clusterVars, cut, submitted, loadAt, submittedAt, resumedAt, scaled, released,
                 reset, changed, verdict>> /\ Watching
Pause ==
  /\ step = "pause" /\ (\E ok \in BOOLEAN : Wrote(ok, "gone") /\ paused' \in After(ok, TRUE))
  /\ Marks("pause")
  /\ UNCHANGED <<ends, pods, slow, cut, markVars, reset, verdict>> /\ Watching
PodsGone == step = "gone" /\ pods = 0 /\ Go("replay") /\ Keep
ReplayJob ==
  /\ step = "replay" /\ Go("resume") /\ off' = 0 /\ reset' = TRUE
  /\ UNCHANGED <<ends, ahead, okCount, dlqCount, rebalances, clusterVars, metricVars, cut, markVars,
                 changed, verdict, found>>
Resume ==
  /\ step = "resume" /\ (\E ok \in BOOLEAN : Wrote(ok, "resumed") /\ paused' \in After(ok, FALSE))
  /\ UNCHANGED <<ends, pods, slow, cut, markVars, reset, changed, verdict>> /\ Watching
Resumed ==
  /\ step = "resumed" /\ Go("replayed") /\ Cut /\ resumedAt' = cut'
  /\ UNCHANGED <<ends, clusterVars, submitted, loadAt, submittedAt, scaled, released, before,
                 reset, changed, verdict>> /\ Watching
Replayed == step = "replayed" /\ okCount > before /\ Go("final") /\ Keep

\* Mutant: any sample settles the replay.
AnySample == Drained(0)
ReplayDrained == Drained(resumedAt)
Final ==
  step = "final" /\ pods = 1 /\ ReplayDrained /\ Go("export") /\ Keep

\* The logs are read once every role has a pod that runs and none that leaves
\* is counted.
ExportLogs ==
  /\ step = "export" /\ pods > 0 /\ Go("cleanup") /\ verdict' = "passed"
  /\ UNCHANGED <<ends, clusterVars, cut, markVars, reset, changed>> /\ Watching

\* Anything raised: a deadline, a command, a worker, an unexpected cohort.
Fail ==
  /\ step \in {"setup", "baseline", "event", "finished", "slow", "mark", "load", "sample", "poison", "dead", "count",
               "pause", "gone", "replay", "resume", "resumed", "replayed", "final", "export"}
  /\ Go("cleanup") /\ Keep

\* cleanup_local: what was changed is restored, and the controls are read
\* back; a restoration that fails leaves it open what they are.
Restored == ~slow /\ ~paused
CleanUp ==
  /\ step = "cleanup" /\ Go("ended")
  /\ slow' = (slow /\ "sink" \notin changed) /\ paused' = (paused /\ "pause" \notin changed)
  /\ verdict' = CASE ~Restored' -> "unrestored"
                  [] Restored' -> IF verdict = "passed" THEN "passed" ELSE "failed"
  /\ UNCHANGED <<ends, pods, cut, markVars, reset, changed>> /\ Watching
CleanUpFails ==
  /\ step = "cleanup" /\ Go("ended") /\ verdict' = "uncertain"
  /\ slow' \in {slow, FALSE} /\ paused' \in {paused, FALSE}
  /\ UNCHANGED <<ends, pods, cut, markVars, reset, changed>> /\ Watching

Proof ==
  \/ Setup \/ Baseline \/ PostEvent \/ Delivered \/ SlowSink \/ LoadStarted \/ Post \/ BeginIteration
  \/ SamplePending \/ SampleSeen \/ PostPoison \/ DeadLettered \/ Count \/ Pause \/ PodsGone
  \/ ReplayJob \/ Resume \/ Resumed \/ Replayed \/ Final \/ ExportLogs \/ Fail \/ CleanUp \/ CleanUpFails

\* Bound: the cluster is left alone when the capture has ended.
CaptureNext == (step # "ended" /\ System) \/ Proof

CaptureSpec == CaptureInit /\ [][CaptureNext]_captureVars
-----------------------------------------------------------------------------
\* A poll that had begun before cut k and was stamped after it: the stamp is
\* set last, so not_before lets it through (lag.go, Refresh).
Straddles(k) == \A i \in Ingest : gauge[i].from < k /\ gauge[i].at >= k

\* ACTION PROPERTY: the load proof ends only when every event of the cohort has
\* been consumed. A zero lag seen before the last one was accepted does not
\* count, whatever pollers and Prometheus show late (proof, sample).
DrainedMeansConsumed ==
  [][step = "sample" /\ step' = "poison" => off > Cohort \/ Straddles(submittedAt)]_captureVars

\* SAFETY: what the replay proof counts as replayed was delivered after the
\* reset: no delivery of the event can come between the count and the reset,
\* not even from consumers that are being stopped (capture_replay).
CountedOnce == step \in {"pause", "gone", "replay"} => okCount = before

\* ACTION PROPERTY: the replay proof ends only when the consumers that came
\* back have consumed the log again, poison record included; the zero lag of
\* before the pause does not count (replay_drained_sample).
ReplayMeansConsumed ==
  [][step = "final" /\ step' = "export" => off = ends \/ Straddles(resumedAt)]_captureVars

\* SAFETY: a capture whose cleanup commands succeed leaves latency and pause as
\* it found them: gone if it set them, also by a write that failed and took
\* effect, and untouched if it did not (changed_sink, changed_pause,
\* cleanup_local); and it passes only on a cluster that is at its baseline.
CleanupRestores ==
  /\ step = "ended" /\ verdict # "uncertain" => Controls = found
  /\ step = "ended" /\ verdict = "passed" => Restored
=============================================================================
