--------------------------- MODULE LiveRunProofs ---------------------------
(***************************************************************************)
(* A session destroys what it applied, alone and undisturbed, and a failed *)
(* capture asks for it: for any stack, any number of captures, of destroy  *)
(* attempts and of signals.                                                *)
(***************************************************************************)
EXTENDS LiveRun, TLAPS

Applying == {"apply", "stopping"}

(* The executor: a Terraform belongs to the last command, which keeps the  *)
(* executor reserved; a destroy was sent no signal, so its make outlives   *)
(* its Terraform.                                                          *)
ExecOK ==
  /\ tfs \subseteq {cmd}
  /\ make \/ tfs # {} => busy
  /\ result \in {"ok", "failed"} => ~busy
  /\ busy /\ cmd # Apply => sent = "none"
  /\ cmd # Apply /\ tfs # {} => make

(* The controller: where it stands it knows whether the executor is free,  *)
(* and no signal is left over once the apply has returned.                 *)
ControlOK ==
  /\ pc \notin Applying \cup {"destroying", "done"} => ~busy
  /\ pc \notin Applying => pending = "none"
  /\ pc \in Applying \cup {"live", "identity"} => cmd = Apply
  /\ pc = "destroy" => cmd < MaxAttempts
  /\ pc = "cost" /\ verified => cloud = {}
  /\ phase = "complete" => pc = "done" /\ ~busy /\ cloud = {}

RunOK == TypeOK /\ ExecOK /\ ControlOK

CapOK ==
  /\ cap = [c \in Capture |-> cap[c]]
  /\ \A c \in Capture :
       /\ cap[c] = Proc(cap[c].pc, cap[c].claimed, cap[c].stop, cap[c].passed)
       /\ cap[c].pc \in {"init", "flag", "run", "failing", "finish", "main", "ended"}
       /\ cap[c].stop \in {"none", "main", "worker", "asked", "lost"}
       /\ cap[c].pc = "flag" => cap[c].stop = "none"
       /\ claim = c =>
            /\ cap[c].pc # "init"
            /\ cap[c].pc \in {"run", "failing", "finish"} => cap[c].claimed
            /\ cap[c].pc = "main" => cap[c].claimed \/ Stopped(c)
            /\ cap[c].pc = "ended" /\ ~cap[c].passed => Stopped(c)

-----------------------------------------------------------------------------
LEMMA RunInit == Init => RunOK
<1> SUFFICES ASSUME Init PROVE RunOK OBVIOUS
<1>1. TypeOK
  <2>1. {verified, busy, make} \subseteq BOOLEAN BY Zenon DEF Init
  <2> QED BY <2>1, BoundsAssumption DEF BoundsAssumption, Init, TypeOK, Apply, ChannelSize
<1>2. ExecOK BY DEF Init, ExecOK
<1>3. ControlOK BY DEF Init, ControlOK, Applying
<1> QED BY <1>1, <1>2, <1>3 DEF RunOK

(* Terraform, make and the executor.                                       *)
LEMMA TerraformKeeps ==
  ASSUME RunOK, Terraform \/ RunReturns \/ KillGroup
  PROVE  RunOK'
<1> USE BoundsAssumption
    DEF BoundsAssumption, RunOK, TypeOK, ExecOK, ControlOK, Applying, Apply, TerraformOnly, ctlVars, cloudVars,
        stopVars, capVars
<1>1. CASE StartApply BY <1>1 DEF StartApply, StartCommand
<1>2. ASSUME NEW r \in Res, RequestCreate(r) PROVE RunOK' BY <1>2 DEF RequestCreate
<1>3. ASSUME NEW r \in Res, RecordCreate(r) PROVE RunOK' BY <1>3 DEF RecordCreate
<1>4. ASSUME NEW r \in Res, DestroyOne(r) PROVE RunOK' BY <1>4 DEF DestroyOne
<1>5. CASE ApplyEnds BY <1>5 DEF ApplyEnds
<1>6. CASE DestroyEnds BY <1>6 DEF DestroyEnds
<1>7. CASE MakeExits
  <2>1. cmd \notin tfs \/ cmd = Apply BY <1>7 DEF MakeExits
  <2>2. cmd # Apply => tfs = {} BY <2>1
  <2>3. status' \in {"none", "ok", "failed"} BY <1>7 DEF MakeExits
  <2>4. ~make' /\ make' \in BOOLEAN BY <1>7, Zenon DEF MakeExits
  <2>5. UNCHANGED <<ctlVars, cmd, busy, tfs, sent, pending, result, cloudVars>>
    BY <1>7 DEF MakeExits
  <2>6. TypeOK' BY <2>3, <2>4, <2>5
  <2>7. ExecOK' BY <2>2, <2>4, <2>5
  <2>8. ControlOK' BY <2>5
  <2> QED BY <2>6, <2>7, <2>8
<1>8. CASE RunReturns
  <2>1. tfs = {} BY <1>8 DEF RunReturns, GroupGone
  <2>2. ~busy' /\ busy' \in BOOLEAN BY <1>8, Zenon DEF RunReturns
  <2> QED BY <1>8, <2>1, <2>2 DEF RunReturns
<1>9. CASE KillGroup BY <1>9 DEF KillGroup, GroupGone
<1> QED BY <1>1, <1>2, <1>3, <1>4, <1>5, <1>6, <1>7, <1>8, <1>9 DEF Terraform

(* The controller's own steps.                                             *)
LEMMA ApplyKeeps ==
  ASSUME RunOK,
         \/ DeadlineStopsApply \/ SignalStopsApply \/ StateWriteStopsApply
         \/ GraceEnds \/ SignalEscalates \/ ApplyReturns
  PROVE  RunOK'
<1> USE BoundsAssumption
    DEF BoundsAssumption, RunOK, TypeOK, ExecOK, ControlOK, Applying, Apply, CtlOnly, NoExec, cloudVars, execVars,
        ChannelSize, Signal, Stronger, Goto, Block, ClearPending
<1>1. CASE DeadlineStopsApply BY <1>1 DEF DeadlineStopsApply, BeginStop
<1>2. CASE SignalStopsApply BY <1>2 DEF SignalStopsApply, BeginStop
<1>3. CASE StateWriteStopsApply BY <1>3 DEF StateWriteStopsApply, BeginStop
<1>4. Stronger[Level] \in {"INT", "TERM", "KILL"} BY DEF Level
<1> HIDE DEF Stronger
<1>5. CASE GraceEnds
  <2>1. CASE Level = "KILL" BY <1>5, <2>1 DEF GraceEnds
  <2>2. CASE Level # "KILL" /\ busy BY <1>4, <1>5, <2>2 DEF GraceEnds, Escalate
  <2>3. CASE Level # "KILL" /\ ~busy BY <1>4, <1>5, <2>3 DEF GraceEnds, Escalate
  <2> QED BY <2>1, <2>2, <2>3
<1>7. CASE SignalEscalates
  <2>0. chan' \in 0..ChannelSize /\ UNCHANGED <<verified, cloudVars>>
    BY <1>7 DEF SignalEscalates
  <2>1. CASE Level = "KILL"
    <3>1. UNCHANGED <<phase, pc, execVars>> BY <1>7, <2>1 DEF SignalEscalates
    <3> QED BY <2>0, <3>1
  <2>2. CASE Level # "KILL"
    <3>1. pc \in Applying /\ UNCHANGED <<phase, pc>> /\ Signal(Stronger[Level])
      BY <1>7, <2>2 DEF SignalEscalates, Escalate
    <3>2. CASE busy BY <1>4, <2>0, <3>1, <3>2
    <3>3. CASE ~busy BY <1>4, <2>0, <3>1, <3>3
    <3> QED BY <3>2, <3>3
  <2> QED BY <2>1, <2>2
<1>6. CASE ApplyReturns BY <1>6 DEF ApplyReturns
<1> QED BY <1>1, <1>2, <1>3, <1>5, <1>6, <1>7

LEMMA CleanupKeeps ==
  ASSUME RunOK,
         \/ DeadlineEndsLive \/ SignalEndsLive \/ StopFileEndsLive \/ ErrorEndsLive
         \/ VerifyAccount \/ Destroy \/ DestroyReturns \/ CheckState \/ CheckInventory \/ Finish
  PROVE  RunOK'
<1> USE BoundsAssumption
    DEF BoundsAssumption, RunOK, TypeOK, ExecOK, ControlOK, Applying, Apply, CtlOnly, NoExec, cloudVars, execVars,
        ChannelSize, Goto, Block
<1>1. CASE DeadlineEndsLive \/ StopFileEndsLive \/ ErrorEndsLive
  BY <1>1 DEF DeadlineEndsLive, StopFileEndsLive, ErrorEndsLive, Cleanup, ClearPending
<1>2. CASE SignalEndsLive BY <1>2 DEF SignalEndsLive, Cleanup, ClearPending
<1>3. CASE VerifyAccount BY <1>3 DEF VerifyAccount
<1>4. CASE Destroy BY <1>4 DEF Destroy, StartCommand
<1>5. CASE DestroyReturns BY <1>5 DEF DestroyReturns, MayRetry
<1>6. CASE CheckState BY <1>6 DEF CheckState, Check
<1>7. CASE CheckInventory BY <1>7 DEF CheckInventory, Check
<1>8. CASE Finish BY <1>8 DEF Finish
<1> QED BY <1>1, <1>2, <1>3, <1>4, <1>5, <1>6, <1>7, <1>8

(* Stop commands and signals only fill the channel.                        *)
LEMMA StopsKeep ==
  ASSUME RunOK,
         \/ Deadline \/ OperatorSignal \/ OperatorStop \/ WriteStop \/ Wake
         \/ \E c \in Capture : CaptureStep(c)
         \/ UNCHANGED vars
  PROVE  RunOK'
<1>1. UNCHANGED <<phase, pc, verified, execVars, cloudVars>>
      /\ (chan' = chan \/ (chan # ChannelSize /\ chan' = chan + 1))
  BY DEF Deadline, OperatorSignal, OperatorStop, WriteStop, Wake, Deliver, CaptureStep, InitFails,
         Claim, Flag, WorkerFails, RunFails, RunPasses, Attempt, Ask, Finalize, WriteReceipts,
         ReceiptFails, End, Interrupt, ReadsPhase, NoAsk, CapOnly, vars, ctlVars
<1> QED
  BY <1>1, BoundsAssumption
  DEF BoundsAssumption, RunOK, TypeOK, ExecOK, ControlOK, ChannelSize, execVars, cloudVars

LEMMA RunInvariant == Spec => []RunOK
<1>1. RunOK /\ [Next]_vars => RunOK'
  BY TerraformKeeps, ApplyKeeps, CleanupKeeps, StopsKeep DEF Next, Controller, WriteFails
<1> QED BY <1>1, RunInit, PTL DEF Spec

-----------------------------------------------------------------------------
LEMMA CapInit == Init => CapOK
BY NamesAssumption DEF Init, CapOK, Proc, Stopped

LEMMA CapKeeps == CapOK /\ [Next]_vars => CapOK'
<1> SUFFICES ASSUME CapOK, [Next]_vars PROVE CapOK'
  OBVIOUS
<1> USE DEF CapOK, Proc, Stopped, Become
<1>1. CASE UNCHANGED <<claim, cap>>
  BY <1>1
<1>2. ASSUME NEW c \in Capture, CaptureStep(c) PROVE CapOK'
  <2>1. CASE Claim(c) BY <2>1, NamesAssumption DEF Claim
  <2>2. CASE InitFails(c) BY <2>2 DEF InitFails
  <2>3. CASE Flag(c) BY <2>3 DEF Flag
  <2>4. CASE WorkerFails(c) \/ RunFails(c) \/ RunPasses(c)
    BY <2>4 DEF WorkerFails, RunFails, RunPasses
  <2>5. CASE Attempt(c) BY <2>5 DEF Attempt, MustStop
  <2>6. CASE Ask(c) BY <2>6 DEF Ask
  <2>7. CASE Finalize(c) \/ WriteReceipts(c) \/ ReceiptFails(c)
    BY <2>7 DEF Finalize, WriteReceipts, ReceiptFails
  <2>8. CASE End(c) BY <2>8 DEF End, MustStop
  <2>9. CASE Interrupt(c)
    <3>1. PICK q : q = Interrupted(cap[c]) OBVIOUS
    <3>2. cap' = [cap EXCEPT ![c] = q] /\ UNCHANGED claim /\ cap[c].pc # "ended"
      BY <2>9, <3>1 DEF Interrupt
    <3>3. /\ q = Proc(q.pc, q.claimed, q.stop, q.passed)
          /\ q.pc \in {"failing", "finish", "main", "ended"}
          /\ q.stop \in {"none", "main", "worker", "asked", "lost"}
          /\ q.claimed = cap[c].claimed
          /\ q.pc \in {"failing", "finish"} => cap[c].pc \in {"run", "failing"}
          /\ q.pc = "main" => \/ cap[c].pc \in {"init", "finish"}
                              \/ cap[c].pc = "flag" /\ q.stop = "lost"
                              \/ cap[c].pc = "main" /\ q.stop = cap[c].stop
          /\ q.pc = "ended" => q.stop \in {"asked", "lost"}
      BY <3>1, <3>2 DEF Interrupted, Loses
    <3> QED BY <3>2, <3>3
  <2> HIDE DEF CapOK, Proc, Stopped, Become
  <2> QED BY <1>2, <2>1, <2>2, <2>3, <2>4, <2>5, <2>6, <2>7, <2>8, <2>9 DEF CaptureStep
<1>3. CASE UNCHANGED capVars BY <1>1, <1>3 DEF capVars
<1>4. CASE Terraform \/ RunReturns \/ KillGroup
  BY <1>3, <1>4 DEF Terraform, RunReturns, KillGroup, StartApply, RequestCreate, RecordCreate,
     DestroyOne, ApplyEnds, DestroyEnds, MakeExits, TerraformOnly
<1>5. CASE Controller \/ WriteFails
  BY <1>3, <1>5 DEF Controller, WriteFails, DeadlineStopsApply, SignalStopsApply,
     StateWriteStopsApply, BeginStop, GraceEnds, SignalEscalates, ApplyReturns, DeadlineEndsLive,
     SignalEndsLive, StopFileEndsLive, ErrorEndsLive, VerifyAccount, Destroy, DestroyReturns,
     CheckState, CheckInventory, Check, Finish, CtlOnly
<1>6. CASE Deadline \/ OperatorSignal \/ OperatorStop \/ WriteStop \/ Wake
  BY <1>3, <1>6 DEF Deadline, OperatorSignal, OperatorStop, WriteStop, Wake
<1> QED BY <1>2, <1>3, <1>4, <1>5, <1>6 DEF Next, vars, capVars

-----------------------------------------------------------------------------
\* The types of the run and its controller: TypeOK of LiveRun.
THEOREM TypeCorrect == Spec => []TypeOK
<1>1. RunOK => TypeOK BY DEF RunOK
<1> QED BY <1>1, RunInvariant, PTL

\* Two Terraform processes never share the state: a destroy starts, and the
\* checks read, only when the Terraform of every command before has ended
\* (waitForGroupExit, stopApply, blockCleanupOnProcess).
THEOREM TerraformIsAlone == Spec => []OneTerraform
<1>1. RunOK => OneTerraform
  BY DEF RunOK, ExecOK, ControlOK, OneTerraform, Applying
<1> QED BY <1>1, RunInvariant, PTL

\* No signal that was meant for the apply reaches a destroy (ClearPending).
THEOREM DestroyIsUndisturbed == Spec => []DestroyUndisturbed
<1>1. RunOK => DestroyUndisturbed
  BY DEF RunOK, ExecOK, DestroyUndisturbed
<1> QED BY <1>1, RunInvariant, PTL

\* A session that ends as complete has left nothing in the account, and nothing
\* of it can still create (cleanup's checks).
THEOREM CompleteIsEmpty == Spec => []CompleteMeansEmpty
<1>1. RunOK => CompleteMeansEmpty
  BY DEF RunOK, ExecOK, ControlOK, CompleteMeansEmpty
<1> QED BY <1>1, RunInvariant, PTL

\* A capture that claimed the run and did not pass has asked for a stop before
\* it ends, for any number of captures and signals, unless a signal came in one
\* of the windows of Loses (Capture.run, Capture.stop, main).
THEOREM FailedCaptureStops == Spec => []FailedCaptureAsks
<1>1. CapOK => FailedCaptureAsks
  BY DEF CapOK, FailedCaptureAsks, Stopped
<1> QED BY <1>1, CapInit, CapKeeps, PTL DEF Spec
=============================================================================
