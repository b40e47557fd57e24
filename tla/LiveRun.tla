------------------------------ MODULE LiveRun ------------------------------
(***************************************************************************)
(* One paid session. The controller (tools/m4-live-run/main.go) applies the *)
(* Terraform stack, waits for a stop, destroys the stack and verifies that *)
(* nothing is left. Stop commands, signals and the destroy deadline arrive *)
(* at any time, and capture processes (scripts/m4-live-capture.py) ask for *)
(* a stop when they fail. Terraform runs below make in a process group: it *)
(* may ignore a signal, and it may outlive make.                           *)
(***************************************************************************)
EXTENDS Naturals, FiniteSets

CONSTANTS Res,            \* the resources of the stack
          Capture,        \* the capture processes started for the run
          MaxAttempts,    \* destroyAttempts
          MaxSignals,     \* bound: signals sent to the controller by hand
          MaxInterrupts   \* bound: signals sent to capture processes
ASSUME BoundsAssumption ==
  MaxAttempts \in Nat \ {0} /\ MaxSignals \in Nat /\ MaxInterrupts \in Nat

Apply == 0                    \* command 0 is aws-up, command n destroy attempt n
ChannelSize == 2              \* runCommand's buffered signal channel
Nobody == "nobody"
Earlier == "earlier"          \* a capture that claimed the run too early, and ended
ASSUME NamesAssumption == {Nobody, Earlier} \cap Capture = {}

VARIABLES
  phase,      \* controller-state.json's phase
  pc,         \* where the controller is
  chan,       \* signals in the controller's channel
  verified,   \* the checks of cleanup have passed so far
  cmd,        \* the number of the last command
  busy,       \* the executor is reserved for it
  make,       \* its make runs
  tfs,        \* the commands whose Terraform runs
  status,     \* what its make exits with
  sent,       \* the strongest signal its group has been sent
  pending,    \* a signal kept for the next command
  result,     \* what Run returned and the controller has not taken
  cloud,      \* resources that exist
  state,      \* resources in Terraform's state
  inflight,   \* resources requested and not yet recorded
  due,        \* the destroy deadline has passed
  stopFile,   \* stop-request.json exists
  asking,     \* a stop command under way: the phase it has read, or "wake"
  signals,    \* signals sent by hand
  claim,      \* the writer of capture-start.json
  cap,        \* the capture processes
  interrupts

ctlVars == <<phase, pc, chan, verified>>
execVars == <<cmd, busy, make, tfs, status, sent, pending, result>>
cloudVars == <<cloud, state, inflight>>
stopVars == <<stopFile, asking, signals>>
capVars == <<claim, cap, interrupts>>
vars == <<ctlVars, execVars, cloudVars, due, stopVars, capVars>>

Proc(at, claimed, stop, passed) ==
  [pc |-> at, claimed |-> claimed, stop |-> stop, passed |-> passed]

Init ==
  /\ phase = "applying" /\ pc = "apply" /\ chan = 0 /\ verified = TRUE
  /\ cmd = Apply /\ busy = FALSE /\ make = FALSE /\ tfs = {} /\ status = "none"
  /\ sent = "none" /\ pending = "none" /\ result = "none"
  /\ cloud = {} /\ state = {} /\ inflight = {}
  /\ due = FALSE /\ stopFile = FALSE /\ asking = "none" /\ signals = 0
  /\ claim \in {Nobody, Earlier} /\ interrupts = 0
  /\ cap = [c \in Capture |-> Proc("init", FALSE, "none", FALSE)]
-----------------------------------------------------------------------------
(* The executor and the processes below it.                                *)

\* Run: reserve the executor, start make, deliver a signal that came early.
StartCommand(n) ==
  /\ ~busy
  /\ cmd' = n /\ busy' = TRUE /\ make' = TRUE /\ tfs' = tfs \cup {n}
  /\ status' = "none" /\ sent' = pending /\ pending' = "none" /\ result' = "none"

\* Signal: to the group of the command, or kept for the next one.
Signal(value) ==
  /\ IF busy THEN sent' = value /\ UNCHANGED pending
             ELSE pending' = value /\ UNCHANGED sent
  /\ UNCHANGED <<cmd, busy, make, tfs, status, result>>

\* Mutant: a signal that found no command stays for the next one.
KeepPending == UNCHANGED pending
ClearPending == pending' = "none"

TerraformOnly == UNCHANGED <<ctlVars, cmd, busy, sent, pending, result, due, stopVars, capVars>>

\* runApply's goroutine runs aws-up.
StartApply ==
  /\ pc \in {"apply", "stopping"} /\ cmd = Apply /\ status = "none" /\ StartCommand(Apply)
  /\ UNCHANGED <<ctlVars, cloudVars, due, stopVars, capVars>>

RequestCreate(r) ==
  /\ Apply \in tfs /\ sent = "none" /\ r \notin cloud
  /\ cloud' = cloud \cup {r} /\ inflight' = inflight \cup {r}
  /\ TerraformOnly /\ UNCHANGED <<make, tfs, status, state>>

\* SIGINT leaves the provider running: it ends what it began and records it.
RecordCreate(r) ==
  /\ Apply \in tfs /\ sent \in {"none", "INT"} /\ r \in inflight
  /\ inflight' = inflight \ {r} /\ state' = state \cup {r}
  /\ TerraformOnly /\ UNCHANGED <<make, tfs, status, cloud>>

\* A provider that gets SIGTERM or SIGKILL exits mid-request, and what it was
\* creating is in no state.
ApplyEnds ==
  /\ Apply \in tfs /\ (sent \in {"none", "INT"} => inflight = {})
  /\ tfs' = tfs \ {Apply} /\ inflight' = {}
  /\ IF make THEN status' \in IF state = Res THEN {"ok", "failed"} ELSE {"failed"}
             ELSE UNCHANGED status
  /\ TerraformOnly /\ UNCHANGED <<make, cloud, state>>

DestroyOne(r) ==
  /\ tfs \ {Apply} # {}
  /\ r \in state /\ state' = state \ {r} /\ cloud' = cloud \ {r}
  /\ TerraformOnly /\ UNCHANGED <<make, tfs, status, inflight>>

DestroyEnds ==
  /\ \E n \in tfs \ {Apply} : tfs' = tfs \ {n}
  /\ status' \in IF state = {} THEN {"ok", "failed"} ELSE {"failed"}
  /\ TerraformOnly /\ UNCHANGED <<make, cloudVars>>

\* make exits after Terraform, or on a signal before it.
MakeExits ==
  /\ make /\ (cmd \in tfs => sent # "none")
  /\ make' = FALSE
  /\ status' \in (IF cmd \in tfs THEN {} ELSE {status})
                   \cup (IF sent = "none" THEN {} ELSE {"failed"})
  /\ TerraformOnly /\ UNCHANGED <<tfs, cloudVars>>

\* Mutant: Run returns when make does.
ReturnsWithMake == TRUE
\* waitForGroupExit: Run returns when no member of the group is left.
GroupGone == cmd \notin tfs
RunReturns ==
  /\ busy /\ ~make /\ result = "none" /\ GroupGone
  /\ busy' = FALSE /\ result' = status
  /\ UNCHANGED <<ctlVars, cmd, make, tfs, status, sent, pending, cloudVars, due, stopVars, capVars>>

\* A member that outlives the grace is killed; one that outlives SIGKILL is
\* reported, and the executor stays reserved.
KillGroup ==
  /\ busy /\ ~make /\ result = "none" /\ ~GroupGone
  /\ IF sent = "KILL" THEN result' = "unconfirmed" /\ UNCHANGED sent
                      ELSE sent' = "KILL" /\ UNCHANGED result
  /\ UNCHANGED <<ctlVars, cmd, busy, make, tfs, status, pending, cloudVars, due, stopVars, capVars>>

Terraform ==
  \/ StartApply \/ ApplyEnds \/ DestroyEnds \/ MakeExits
  \/ \E r \in Res : RequestCreate(r) \/ RecordCreate(r) \/ DestroyOne(r)
-----------------------------------------------------------------------------
(* The controller.                                                         *)

Goto(where, as) == pc' = where /\ phase' = as
Cleanup == Goto("identity", "destroying") /\ ClearPending
Block == Goto("done", "cleanup_failed")      \* blockCleanupOnProcess

CtlOnly == UNCHANGED <<cloudVars, due, stopVars, capVars>>
NoExec == UNCHANGED <<cmd, busy, make, tfs, status, sent, result>>

\* A stop of the apply starts with SIGINT, whatever caused it.
BeginStop == pc' = "stopping" /\ Signal("INT") /\ UNCHANGED <<phase, verified>> /\ CtlOnly
DeadlineStopsApply == pc = "apply" /\ due /\ BeginStop /\ UNCHANGED chan
SignalStopsApply == pc = "apply" /\ chan > 0 /\ chan' = chan - 1 /\ BeginStop
StateWriteStopsApply == pc = "apply" /\ BeginStop /\ UNCHANGED chan

\* stopApply: the grace ends, or another signal shortens it.
Stronger == [none |-> "INT", INT |-> "TERM", TERM |-> "KILL", KILL |-> "KILL"]
Level == IF busy THEN sent ELSE pending
Escalate == Signal(Stronger[Level]) /\ UNCHANGED <<phase, pc>>
GraceEnds ==
  /\ pc = "stopping" /\ result = "none"
  /\ IF Level = "KILL" THEN Block /\ ClearPending /\ NoExec ELSE Escalate
  /\ UNCHANGED <<chan, verified>> /\ CtlOnly
SignalEscalates ==
  /\ pc = "stopping" /\ chan > 0 /\ chan' = chan - 1
  /\ IF Level = "KILL" THEN UNCHANGED <<phase, pc, execVars>> ELSE Escalate
  /\ UNCHANGED verified /\ CtlOnly

\* runApply returns. A controller that cannot write its state does not go live.
ApplyReturns ==
  /\ pc \in {"apply", "stopping"} /\ result # "none"
  /\ CASE result = "unconfirmed" -> Block
       [] result = "ok" -> Goto("live", "live") \/ Goto("identity", "destroying")
       [] result = "failed" -> Goto("identity", "destroying")
  /\ ClearPending /\ result' = "none"
  /\ UNCHANGED <<chan, verified, cmd, busy, make, tfs, status, sent>> /\ CtlOnly

\* waitForStop
DeadlineEndsLive == pc = "live" /\ due /\ Cleanup /\ UNCHANGED <<chan, verified>> /\ NoExec /\ CtlOnly
SignalEndsLive ==
  /\ pc = "live" /\ chan > 0 /\ chan' = chan - 1 /\ Cleanup /\ UNCHANGED verified /\ NoExec /\ CtlOnly
StopFileEndsLive ==
  /\ pc = "live" /\ stopFile /\ Cleanup /\ UNCHANGED <<chan, verified>> /\ NoExec /\ CtlOnly
\* an unreadable stop request, or a state file that cannot be written
ErrorEndsLive == pc = "live" /\ Cleanup /\ UNCHANGED <<chan, verified>> /\ NoExec /\ CtlOnly

\* cleanup: no destroy in an account that is not the staged one.
VerifyAccount ==
  /\ pc = "identity"
  /\ (pc' = "destroy" /\ UNCHANGED phase) \/ Block
  /\ UNCHANGED <<chan, verified, execVars>> /\ CtlOnly
Destroy ==
  /\ pc = "destroy"
  /\ IF busy THEN Block /\ UNCHANGED execVars
             ELSE pc' = "destroying" /\ StartCommand(cmd + 1) /\ UNCHANGED phase
  /\ UNCHANGED <<chan, verified>> /\ CtlOnly

MayRetry == cmd < MaxAttempts

DestroyReturns ==
  /\ pc = "destroying" /\ result # "none"
  /\ CASE result = "unconfirmed" -> Block
       [] result = "failed" /\ MayRetry -> pc' = "destroy" /\ UNCHANGED phase
       [] OTHER -> pc' = "state" /\ UNCHANGED phase
  /\ UNCHANGED <<chan, verified, execVars>> /\ CtlOnly

\* The checks run commands that only read; each may fail, and one whose
\* process group does not end stops the cleanup.
Check(from, to, as, passes) ==
  /\ pc = from
  /\ \/ Goto(to, as) /\ verified' = (verified /\ passes)
     \/ Goto(to, as) /\ verified' = FALSE
     \/ Block /\ UNCHANGED verified
  /\ UNCHANGED <<chan, execVars>> /\ CtlOnly
CheckState == Check("state", "inventory", "verifying", state = {})
\* Mutant: the inventory is what Terraform's state says.
InventoryFromState == Check("inventory", "cost", "verifying", state = {})
CheckInventory == Check("inventory", "cost", "verifying", cloud = {})
Finish ==
  /\ pc = "cost"
  /\ Goto("done", IF verified THEN "complete" ELSE "cleanup_failed") \/ Block
  /\ UNCHANGED <<chan, verified, execVars>> /\ CtlOnly

\* What the controller does when nothing it writes fails.
Controller ==
  \/ DeadlineStopsApply \/ SignalStopsApply \/ GraceEnds \/ SignalEscalates \/ ApplyReturns
  \/ DeadlineEndsLive \/ SignalEndsLive \/ StopFileEndsLive
  \/ VerifyAccount \/ Destroy \/ DestroyReturns \/ CheckState \/ CheckInventory \/ Finish
WriteFails == StateWriteStopsApply \/ ErrorEndsLive
-----------------------------------------------------------------------------
(* Stop commands, signals and time.                                        *)

Deadline == ~due /\ due' = TRUE /\ UNCHANGED <<ctlVars, execVars, cloudVars, stopVars, capVars>>

Deliver == chan' = IF pc = "done" \/ chan = ChannelSize THEN chan ELSE chan + 1
OperatorSignal ==
  /\ signals < MaxSignals /\ signals' = signals + 1 /\ Deliver
  /\ UNCHANGED <<phase, pc, verified, execVars, cloudVars, due, stopFile, asking, capVars>>

\* requestStop: refused outside applying and live, and when one exists.
Accepts == asking = "none" /\ phase \in {"applying", "live"} /\ ~stopFile
ReadsPhase == Accepts /\ asking' = phase
OperatorStop ==
  /\ ReadsPhase /\ UNCHANGED <<ctlVars, execVars, cloudVars, due, stopFile, signals, capVars>>
\* Mutant: the stop command leaves the request to be polled in every phase.
NeverWakes == "none"
AfterWrite == IF asking = "applying" THEN "wake" ELSE "none"
WriteStop ==
  /\ asking \in {"applying", "live"} /\ stopFile' = TRUE /\ asking' = AfterWrite
  /\ UNCHANGED <<ctlVars, execVars, cloudVars, due, signals, capVars>>
Wake ==
  /\ asking = "wake" /\ asking' = "none" /\ Deliver
  /\ UNCHANGED <<phase, pc, verified, execVars, cloudVars, due, stopFile, signals, capVars>>
-----------------------------------------------------------------------------
(* Capture processes. stop is "main" or "worker" while that thread is in    *)
(* Capture.stop with stop_attempted set, "asked" when the stop command has  *)
(* run and "lost" when a signal kept the command from being started.        *)

Become(c, proc) == cap' = [cap EXCEPT ![c] = proc]
CapOnly == UNCHANGED <<ctlVars, execVars, cloudVars, due, stopFile, signals>>
NoAsk == UNCHANGED <<asking, interrupts>> /\ CapOnly

\* main: construction failed, and no capture has claimed the run.
InitFails(c) ==
  /\ cap[c].pc = "init"
  /\ Become(c, Proc("main", FALSE, IF claim = Nobody THEN "main" ELSE "none", FALSE))
  /\ UNCHANGED claim /\ NoAsk

\* run: capture-start.json is written exclusively; then the flag is set.
Claim(c) ==
  /\ cap[c].pc = "init"
  /\ IF claim = Nobody
       THEN claim' = c /\ Become(c, Proc("flag", FALSE, "none", FALSE))
       ELSE UNCHANGED claim /\ Become(c, Proc("main", FALSE, "none", FALSE))
  /\ NoAsk
Flag(c) == cap[c].pc = "flag" /\ Become(c, Proc("run", TRUE, "none", FALSE)) /\ UNCHANGED claim /\ NoAsk

\* A load worker fails: it asks for the stop itself.
WorkerFails(c) ==
  /\ cap[c].pc = "run" /\ cap[c].stop = "none"
  /\ Become(c, Proc("run", TRUE, "worker", FALSE)) /\ UNCHANGED claim /\ NoAsk
\* setup or proof raises: a guard, a command, a deadline or a worker's failure.
RunFails(c) ==
  /\ cap[c].pc = "run"
  /\ Become(c, Proc("failing", TRUE, cap[c].stop, FALSE)) /\ UNCHANGED claim /\ NoAsk
RunPasses(c) ==
  /\ cap[c].pc = "run" /\ cap[c].stop = "none" /\ phase = "live"
  /\ Become(c, Proc("finish", TRUE, "none", TRUE))
  /\ UNCHANGED claim /\ NoAsk

\* Capture.stop attempts once; another thread waits for the lock.
\* Mutant: main leaves the stop to run's own handler.
OnlyRunStops(c) == cap[c].pc = "failing"
MustStop(c) == cap[c].pc = "failing" \/ (cap[c].pc = "main" /\ cap[c].claimed)
Attempt(c) ==
  /\ MustStop(c) /\ cap[c].stop = "none"
  /\ Become(c, [cap[c] EXCEPT !.stop = "main"]) /\ UNCHANGED claim /\ NoAsk
\* request_stop runs the stop command, which may be refused or fail.
Ask(c) ==
  /\ cap[c].stop \in {"main", "worker"}
  /\ Become(c, [cap[c] EXCEPT !.stop = "asked"])
  /\ ReadsPhase \/ UNCHANGED asking
  /\ UNCHANGED <<claim, interrupts>> /\ CapOnly
Stopped(c) == cap[c].stop \in {"asked", "lost"}
Finalize(c) ==
  /\ cap[c].pc = "failing" /\ Stopped(c)
  /\ Become(c, Proc("finish", TRUE, cap[c].stop, FALSE)) /\ UNCHANGED claim /\ NoAsk

\* The receipts are written and a pass ends; anything else is raised to main.
WriteReceipts(c) ==
  /\ cap[c].pc = "finish"
  /\ Become(c, [cap[c] EXCEPT !.pc = IF cap[c].passed THEN "ended" ELSE "main"])
  /\ UNCHANGED claim /\ NoAsk
ReceiptFails(c) ==
  /\ cap[c].pc = "finish"
  /\ Become(c, Proc("main", TRUE, cap[c].stop, FALSE))
  /\ UNCHANGED claim /\ NoAsk
End(c) ==
  /\ cap[c].pc = "main" /\ (MustStop(c) => Stopped(c)) /\ cap[c].stop \notin {"main", "worker"}
  /\ Become(c, [cap[c] EXCEPT !.pc = "ended"]) /\ UNCHANGED claim /\ NoAsk

\* SIGINT or SIGTERM raises CaptureError on the main thread. It loses the stop
\* when capture-start.json is written and the flag is not set, when stop has
\* marked its attempt and signals are not yet ignored, and in main's handler.
\* The process ends after its worker threads.
Loses(p) == p.stop = "main" \/ (p.stop = "none" /\ p.pc \in {"flag", "main"})
Interrupted(p) ==
  Proc(CASE p.pc \in {"init", "flag", "finish"} -> "main"
         [] p.pc = "run" -> "failing"
         [] p.pc = "failing" -> "finish"
         [] p.pc = "main" -> IF p.stop = "worker" THEN "main" ELSE "ended",
       p.claimed, IF Loses(p) THEN "lost" ELSE p.stop, FALSE)
Interrupt(c) ==
  /\ interrupts < MaxInterrupts /\ interrupts' = interrupts + 1
  /\ cap[c].pc # "ended"
  /\ Become(c, Interrupted(cap[c])) /\ UNCHANGED <<claim, asking>> /\ CapOnly

CaptureStep(c) ==
  \/ InitFails(c) \/ Claim(c) \/ Flag(c) \/ WorkerFails(c) \/ RunFails(c)
  \/ RunPasses(c) \/ Attempt(c) \/ Ask(c) \/ Finalize(c) \/ WriteReceipts(c)
  \/ ReceiptFails(c) \/ End(c) \/ Interrupt(c)

Next ==
  \/ Terraform \/ RunReturns \/ KillGroup \/ Controller \/ WriteFails
  \/ Deadline \/ OperatorSignal \/ OperatorStop \/ WriteStop \/ Wake
  \/ \E c \in Capture : CaptureStep(c)

Spec == Init /\ [][Next]_vars

\* The controller's loops and timeouts go on and a stop command that was
\* accepted runs to its end. Terraform owes nothing, nor does the deadline.
FairSpec ==
  Spec /\ WF_vars(RunReturns \/ KillGroup) /\ WF_vars(Controller) /\ WF_vars(WriteStop \/ Wake)
-----------------------------------------------------------------------------
\* TYPE INVARIANT
TypeOK ==
  /\ phase \in {"applying", "live", "destroying", "verifying", "complete", "cleanup_failed"}
  /\ pc \in {"apply", "stopping", "live", "identity", "destroy", "destroying", "state",
             "inventory", "cost", "done"}
  /\ chan \in 0..ChannelSize /\ verified \in BOOLEAN
  /\ cmd \in 0..MaxAttempts /\ busy \in BOOLEAN /\ make \in BOOLEAN /\ tfs \subseteq 0..MaxAttempts
  /\ status \in {"none", "ok", "failed"}
  /\ sent \in {"none", "INT", "TERM", "KILL"} /\ pending \in {"none", "INT", "TERM", "KILL"}
  /\ result \in {"none", "ok", "failed", "unconfirmed"}
  /\ cloud \subseteq Res /\ state \subseteq Res /\ inflight \subseteq Res

\* SAFETY: two Terraform processes never share the state. A destroy starts,
\* and the checks read, only when every Terraform that the run started has
\* ended, also one that outlived the make above it or ignored its signals
\* (waitForGroupExit, stopApply, blockCleanupOnProcess).
OneTerraform ==
  /\ \A m, n \in tfs : m = n
  /\ pc \in {"identity", "destroy", "state", "inventory", "cost"} => tfs = {}

\* SAFETY: no signal meant for the apply reaches a destroy: one that came when
\* no command ran is not kept for it, and later signals stay in the channel
\* (ClearPending in runApply and cleanup).
DestroyUndisturbed == busy /\ cmd # Apply => sent = "none"

\* SAFETY: a session that ends as complete has left nothing in the account, not
\* even what an interrupted apply created and never recorded, and nothing of it
\* can still create (cleanup's state check and inventory).
CompleteMeansEmpty == phase = "complete" => cloud = {} /\ tfs = {}

\* SAFETY: a capture that claimed the run and did not pass has asked for a stop
\* before it ends, whichever thread or step failed; only a signal in one of
\* three short windows can lose the request (Capture.run, Capture.stop, main).
FailedCaptureAsks ==
  \A c \in Capture :
    claim = c /\ cap[c].pc = "ended" /\ ~cap[c].passed => cap[c].stop \in {"asked", "lost"}

\* LIVENESS: the deadline, and a stop request that was accepted in whatever
\* phase, lead to cleanup or to a reported failure, even when Terraform hangs
\* and ignores every signal (runApply, stopApply, waitForStop, requestStop).
SessionEnds ==
  due \/ stopFile ~> phase \in {"destroying", "verifying", "complete", "cleanup_failed"}
=============================================================================
