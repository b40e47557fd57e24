------------------------ MODULE EvidencePacketProofs ------------------------
(***************************************************************************)
(* What becomes public about a paid run is clean, proven and true, for any *)
(* number of commands, of changes behind them and of kills.                *)
(***************************************************************************)
EXTENDS EvidencePacket, TLAPS

CapText == [ver |-> 0, kind |-> "ident"]
CtlPhases == {"none", "applying", "live", "destroying", "verifying",
              "complete", "cleanup_failed"}

(* Nothing is left and nothing can create again.                             *)
Gone == res = {} /\ ~tf /\ (~alive \/ ctl.phase = "complete")
Passed == ctl.phase = "complete" /\ ctl.passed /\ capResult # None
Clean(files) == \A f \in DOMAIN files : files[f].kind \in {"clean", "partial"}
CostText == Sanitize(CapText)

RunOK ==
  /\ ctl \in [phase : CtlPhases, passed : BOOLEAN, verified : BOOLEAN]
  /\ alive \in BOOLEAN /\ tf \in BOOLEAN
  /\ ctl.phase \in {"none", "live", "destroying", "verifying", "complete"} => ~tf
  /\ ctl.verified => ctl.phase = "complete" /\ res = {}
  /\ ctl.passed => ctl.verified
RawOK ==
  /\ edits \in Nat
  /\ raw = [cap |-> raw.cap, cost |-> raw.cost, doc |-> raw.doc]
  /\ \A f \in {"cap", "doc", "cost"} :
       raw[f] = None \/ raw[f].kind \in {"ident", "cred"}
  /\ raw.cost \in {None, CapText} /\ capResult \in {None, CapText}
DestOK ==
  /\ dest = [files |-> dest.files, receipt |-> dest.receipt]
  /\ Clean(dest.files)
  /\ dest.receipt.phase \in {"none", "failed"} \cup Passing
  /\ dest.receipt.phase = "none" => dest = NoDir
  /\ dest.receipt.phase = "failed" /\ dest.receipt.claim => Gone
  /\ dest.receipt.phase \in Passing =>
       /\ Passed /\ "cap" \in DOMAIN dest.files
       /\ dest.files["cap"] = Sanitize(capResult)
ClaimsOK == (ClaimOf(snap) => Gone) /\ ("recovered" \in rec => Gone)

CmdOK(c) ==
  /\ c = [pc |-> c.pc, phase |-> c.phase, tmp |-> c.tmp, claim |-> c.claim]
  /\ c.tmp = [files |-> c.tmp.files, receipt |-> c.tmp.receipt]
  /\ c.pc \in {"copy", "verify", "install"} =>
       /\ c.phase \in Passing /\ Passed
       /\ \A f \in DOMAIN c.tmp.files : c.tmp.files[f].kind \in Kind
       /\ c.tmp.files = [f \in DOMAIN c.tmp.files |-> c.tmp.files[f]]
       /\ "cap" \in DOMAIN c.tmp.files =>
            c.tmp.files["cap"] = Sanitize(capResult) \/ raw.cap # capResult
       /\ "cost" \in DOMAIN c.tmp.files =>
            c.tmp.files["cost"] = CostText /\ raw.cost = CapText
  /\ c.pc = "install" =>
       /\ Clean(c.tmp.files) /\ "cap" \in DOMAIN c.tmp.files
       /\ c.tmp.files["cap"] = Sanitize(capResult)
       /\ c.tmp.receipt.phase = c.phase /\ c.tmp.receipt.files = c.tmp.files
       /\ DOMAIN c.tmp.files = Required(c.phase)
  /\ c.pc \in {"up_test", "up_open", "up_write", "up_hash", "up_receipt"} =>
       Passes(dest) /\ raw.cost = CapText
  /\ c.pc \in {"up_write", "up_hash", "up_receipt"} => "cost" \in DOMAIN dest.files
  /\ c.pc = "up_receipt" => /\ c.tmp.receipt.phase = "final"
                            /\ c.tmp.receipt.proof = dest.receipt.proof
  /\ c.pc \in {"rec_state", "rec_inventory", "rec_publish"} => Quiet
  /\ c.pc = "rec_publish" /\ c.claim => Gone
PubOK ==
  /\ pub = [p \in Proc |-> pub[p]]
  /\ \A p \in Proc : CmdOK(pub[p])

(* What a receipt names, and what a single upgrade has done so far.          *)
Held(files) == [f \in DOMAIN files \ {"cost"} |-> files[f]]
ReceiptOK ==
  /\ Passes(dest) => dest.files = [f \in DOMAIN dest.files |-> dest.files[f]]
  /\ dest.receipt.phase = "provisional" => dest.receipt.files = Held(dest.files)
  /\ dest.receipt.phase = "final" => "cost" \in DOMAIN dest.files /\ raw.cost = CapText
Orderly ==
  /\ \A p, q \in Proc : Upgrading(p) /\ Upgrading(q) => p = q
  /\ \A p \in Proc : Upgrading(p) => dest.receipt.phase = "provisional"
  /\ \A p \in Proc : pub[p].pc \in {"up_hash", "up_receipt"} => Cost(dest) = CostText
  /\ \A p \in Proc : pub[p].pc = "up_receipt" => pub[p].tmp.receipt.files = dest.files
  /\ dest.receipt.phase = "final" =>
       Cost(dest) = CostText /\ dest.receipt.files = dest.files
UpgradeOK == ReceiptOK /\ (raced \/ Orderly)

IInv == RunOK /\ RawOK /\ DestOK /\ ClaimsOK /\ PubOK /\ UpgradeOK

-----------------------------------------------------------------------------
LEMMA InitOK == Init => IInv
<1> SUFFICES ASSUME Init PROVE IInv OBVIOUS
<1> USE DEF Init
<1>1. RunOK BY DEF RunOK, NoCtl, CtlPhases
<1>2. RawOK BY DEF RawOK, None
<1>3. DestOK BY DEF DestOK, NoDir, Clean, Passing
<1>4. ClaimsOK BY DEF ClaimsOK, ClaimOf, NoSnap, NoCtl
<1>5. PubOK BY DEF PubOK, CmdOK, Cmd, Idle, NoDir
<1>6. UpgradeOK
  BY DEF UpgradeOK, ReceiptOK, Orderly, Upgrading, Passes, Passing, NoDir, Idle, Cmd
<1> QED BY <1>1, <1>2, <1>3, <1>4, <1>5, <1>6 DEF IInv

(* What the run's steps keep, which is what every claim rests on.            *)
Keeps ==
  /\ Gone => Gone'
  /\ Quiet => Quiet'
  /\ Passed => Passed' /\ capResult' = capResult

LEMMA ControllerKeeps ==
  ASSUME RunOK,
         \/ WriteSession \/ WriteScanReceipt \/ StartApply \/ ApplyUnconfirmed \/ StopLive
         \/ \E ok \in BOOLEAN : ApplyEnds(ok) \/ Destroy(ok) \/ Finish(ok)
  PROVE  RunOK' /\ Keeps
<1> USE DEF RunOK, Keeps, Gone, Quiet, Passed, CtlPhases, CtlMoves, Phase
<1>1. CASE WriteSession \/ WriteScanReceipt
  BY <1>1 DEF WriteSession, WriteScanReceipt, rawVars
<1>2. CASE StartApply
  BY <1>2 DEF StartApply, rawVars
<1>3. CASE ApplyUnconfirmed
  BY <1>3 DEF ApplyUnconfirmed, rawVars
<1>4. CASE StopLive
  BY <1>4 DEF StopLive, rawVars
<1>5. ASSUME NEW ok \in BOOLEAN, ApplyEnds(ok) PROVE RunOK' /\ Keeps
  BY <1>5 DEF ApplyEnds, rawVars
<1>6. ASSUME NEW ok \in BOOLEAN, Destroy(ok) PROVE RunOK' /\ Keeps
  BY <1>6 DEF Destroy, rawVars
<1>7. ASSUME NEW ok \in BOOLEAN, Finish(ok) PROVE RunOK' /\ Keeps
  BY <1>7 DEF Finish, rawVars
<1> QED BY <1>1, <1>2, <1>3, <1>4, <1>5, <1>6, <1>7

LEMMA OthersKeep ==
  ASSUME RunOK,
         \/ TfCreates \/ TfOrphanEnds \/ CtlExits \/ CtlKilled \/ ManualDown
         \/ Bootstrap \/ CaptureExports \/ EditRaw \/ Settle
         \/ UNCHANGED <<runVars, capResult>>
  PROVE  RunOK' /\ Keeps
<1> USE DEF RunOK, Keeps, Gone, Quiet, Passed, runVars, rawVars
<1>1. CASE TfCreates BY <1>1 DEF TfCreates
<1>2. CASE TfOrphanEnds BY <1>2 DEF TfOrphanEnds
<1>3. CASE CtlExits \/ CtlKilled
  <2>1. alive' = FALSE /\ UNCHANGED <<ctl, tf, res, capResult>>
    BY <1>3 DEF CtlExits, CtlKilled
  <2>2. RunOK' BY <2>1
  <2> QED BY <2>1, <2>2
<1>4. CASE ManualDown BY <1>4 DEF ManualDown
<1>5. CASE Bootstrap BY <1>5 DEF Bootstrap
<1>6. CASE CaptureExports BY <1>6 DEF CaptureExports
<1>7. CASE EditRaw \/ Settle BY <1>7 DEF EditRaw, Settle
<1>8. CASE UNCHANGED <<runVars, capResult>> BY <1>8
<1> QED BY <1>1, <1>2, <1>3, <1>4, <1>5, <1>6, <1>7, <1>8

LEMMA CommandsLeaveRun ==
  ASSUME NEW p \in Proc, PublishNext(p)
  PROVE  UNCHANGED <<runVars, capResult>> /\ edits' = edits
BY DEF PublishNext, BeginPublish, CopyText, WriteReceipt, VerifyPacket, Install,
       TestCost, OpenCost, FillCost, WriteCost, HashCost, UpgradeReceipt, BeginCost,
       LinkCost, SnapshotScan, SnapshotController, InstallFailed, BeginRecovery, ListState, TakeInventory,
       PublishRecovery, Refuse, Kill, Goto, OnlyPub, rawVars, envVars

LEMMA StepKeeps ==
  ASSUME RunOK, [Next]_vars PROVE RunOK' /\ Keeps
<1>1. CASE RunNext BY <1>1, ControllerKeeps, OthersKeep DEF RunNext
<1>2. CASE \E p \in Proc : PublishNext(p) BY <1>2, CommandsLeaveRun, OthersKeep
<1>3. CASE UNCHANGED vars BY <1>3, OthersKeep DEF vars, rawVars
<1> QED BY <1>1, <1>2, <1>3 DEF Next

(* An edit is new to whoever compares with the capture's receipt; the cost   *)
(* is written once.                                                          *)
RawMoves ==
  /\ capResult # None /\ raw.cap # capResult => raw'.cap # capResult
  /\ capResult # None => raw'.cap = raw.cap \/ raw'.cap # capResult
  /\ raw.cost = CapText => raw'.cost = CapText

LEMMA RawStep ==
  ASSUME RawOK, [Next]_vars PROVE RawOK' /\ RawMoves
<1> USE DEF RawOK, RawMoves, CapText, None
<1>1. CASE EditRaw
  <2>1. PICK f \in {"cap", "doc"}, k \in {"ident", "cred"} :
          raw' = [raw EXCEPT ![f] = [ver |-> edits + 1, kind |-> k]]
    BY <1>1 DEF EditRaw
  <2>2. edits' = edits + 1 /\ capResult' = capResult BY <1>1 DEF EditRaw
  <2>3. edits + 1 # 0 /\ edits + 1 \in Nat OBVIOUS
  <2>4. CASE f = "cap"
    <3>1. raw' = [cap |-> [ver |-> edits + 1, kind |-> k], cost |-> raw.cost, doc |-> raw.doc]
      BY <2>1, <2>4
    <3> QED BY <3>1, <2>2, <2>3
  <2>5. CASE f = "doc"
    <3>1. raw' = [cap |-> raw.cap, cost |-> raw.cost, doc |-> [ver |-> edits + 1, kind |-> k]]
      BY <2>1, <2>5
    <3> QED BY <3>1, <2>2, <2>3
  <2> QED BY <2>4, <2>5
<1>2. CASE CaptureExports
  <2>1. raw' = [cap |-> CapText, cost |-> raw.cost, doc |-> raw.doc]
        /\ capResult' = CapText /\ capResult = None /\ edits' = edits
    BY <1>2 DEF CaptureExports, envVars
  <2> QED BY <2>1
<1>3. ASSUME NEW p \in Proc, LinkCost(p) PROVE RawOK' /\ RawMoves
  <2>1. raw' = raw \/ raw' = [cap |-> raw.cap, cost |-> CapText, doc |-> raw.doc]
    BY <1>3 DEF LinkCost
  <2>2. capResult' = capResult /\ edits' = edits BY <1>3 DEF LinkCost, envVars
  <2> QED BY <2>1, <2>2
<1>4. CASE UNCHANGED <<raw, capResult, edits>> BY <1>4
<1>5. ASSUME NEW p \in Proc, PublishNext(p), ~LinkCost(p)
      PROVE  UNCHANGED <<raw, capResult, edits>>
  BY <1>5 DEF PublishNext, BeginPublish, CopyText, WriteReceipt, VerifyPacket, Install,
       TestCost, OpenCost, FillCost, WriteCost, HashCost, UpgradeReceipt, BeginCost,
       SnapshotScan, SnapshotController, InstallFailed, BeginRecovery, ListState, TakeInventory,
       PublishRecovery, Refuse, Kill, Goto, OnlyPub, rawVars, envVars
<1>6. ASSUME RunNext, ~EditRaw, ~CaptureExports PROVE UNCHANGED <<raw, capResult, edits>>
  BY <1>6 DEF RunNext, WriteSession, WriteScanReceipt, StartApply, ApplyUnconfirmed,
       StopLive, ApplyEnds, Destroy, Finish, CtlMoves, TfCreates, TfOrphanEnds, CtlExits,
       CtlKilled, ManualDown, Bootstrap, Settle, rawVars, envVars
<1>7. UNCHANGED vars => UNCHANGED <<raw, capResult, edits>> BY DEF vars, rawVars, envVars
<1> QED BY <1>1, <1>2, <1>3, <1>4, <1>5, <1>6, <1>7 DEF Next

-----------------------------------------------------------------------------
DestMoves ==
  /\ Passes(dest) => Passes(dest') /\ dest'.receipt.proof = dest.receipt.proof
  /\ ~Passes(dest) /\ dest # NoDir => dest' = dest
  /\ \A f \in DOMAIN dest.files :
       /\ f \in DOMAIN dest'.files
       /\ f # "cost" => dest'.files[f] = dest.files[f]
  /\ dest.receipt.phase = "final" => dest'.receipt.phase = "final"

LEMMA DestSame ==
  ASSUME IInv, Keeps, dest' = dest PROVE DestOK' /\ DestMoves
BY DEF IInv, DestOK, DestMoves, Keeps, Clean, NoDir, Passes

LEMMA DestInstall ==
  ASSUME IInv, Keeps, NEW p \in Proc, Install(p) PROVE DestOK' /\ DestMoves
<1>1. dest' = pub[p].tmp /\ dest = NoDir /\ capResult' = capResult
  BY DEF Install, CanInstall, rawVars
<1>2. CmdOK(pub[p]) /\ pub[p].pc = "install" BY DEF IInv, PubOK, Install, At
<1>3. /\ dest' = [files |-> dest'.files, receipt |-> dest'.receipt]
      /\ Clean(dest'.files) /\ dest'.receipt.phase \in Passing /\ Passed
      /\ "cap" \in DOMAIN dest'.files /\ dest'.files["cap"] = Sanitize(capResult)
  BY <1>1, <1>2 DEF CmdOK
<1>4. DestOK' BY <1>1, <1>3 DEF DestOK, Keeps, Passing, Clean
<1>5. DestMoves BY <1>1 DEF DestMoves, NoDir, Passing, Passes
<1> QED BY <1>4, <1>5

LEMMA DestWrite ==
  ASSUME IInv, Keeps, Passes(dest), NEW text \in {Partial, CostText}, WriteCost(text)
  PROVE  /\ DestOK' /\ DestMoves
         /\ dest'.receipt = dest.receipt /\ "cost" \in DOMAIN dest'.files
         /\ Cost(dest') = text /\ Held(dest'.files) = Held(dest.files)
         /\ dest'.files = [f \in DOMAIN dest'.files |-> dest'.files[f]]
<1>0. text.kind \in {"clean", "partial"} BY DEF Partial, CostText, CapText, Sanitize
<1> DEFINE new == [f \in DOMAIN dest.files \cup {"cost"} |->
                     IF f = "cost" THEN text ELSE dest.files[f]]
<1>1. DestOK BY DEF IInv
<1>2. dest' = [files |-> new, receipt |-> dest.receipt]
  BY <1>1 DEF DestOK, WriteCost
<1>3. capResult' = capResult BY DEF WriteCost, rawVars
<1>4. /\ DOMAIN new = DOMAIN dest.files \cup {"cost"}
      /\ \A f \in DOMAIN dest.files : f # "cost" => new[f] = dest.files[f]
      /\ new["cost"] = text
      /\ new = [f \in DOMAIN new |-> new[f]]
  OBVIOUS
<1> HIDE DEF new
<1>5. Clean(new) BY <1>0, <1>1, <1>4 DEF Clean, DestOK
<1>6. dest'.files = new /\ dest'.receipt = dest.receipt BY <1>2
<1>7. dest.receipt.phase \notin {"none", "failed"} BY DEF Passes, Passing
<1>8. DestOK'
  BY <1>1, <1>2, <1>3, <1>4, <1>5, <1>6, <1>7 DEF DestOK, Keeps, Clean, Passes
<1>9. DestMoves BY <1>4, <1>6, <1>7 DEF DestMoves, Passes
<1>10. Held(new) = Held(dest.files)
  <2>1. DOMAIN new \ {"cost"} = DOMAIN dest.files \ {"cost"} BY <1>4
  <2> QED BY <1>4, <2>1 DEF Held
<1> QED BY <1>4, <1>6, <1>8, <1>9, <1>10 DEF Cost

(* Opening the cost empties it, and filling it writes the sanitized text.    *)
LEMMA DestUpgradeCost ==
  ASSUME IInv, Keeps, NEW p \in Proc, OpenCost(p) \/ FillCost(p)
  PROVE  /\ Passes(dest) /\ DestOK' /\ DestMoves
         /\ \E text \in {Partial, CostText} : WriteCost(text)
         /\ FillCost(p) => WriteCost(CostText)
<1>1. Passes(dest) /\ raw.cost = CapText
  BY DEF IInv, PubOK, CmdOK, OpenCost, FillCost, At
<1>2. FillCost(p) => WriteCost(CostText) BY <1>1 DEF FillCost, CostText
<1>3. PICK text \in {Partial, CostText} : WriteCost(text) BY <1>2 DEF OpenCost
<1>4. DestOK' /\ DestMoves BY <1>1, <1>3, DestWrite
<1> QED BY <1>1, <1>2, <1>3, <1>4

LEMMA DestUpgradeReceipt ==
  ASSUME IInv, Keeps, NEW p \in Proc, UpgradeReceipt(p)
  PROVE  /\ DestOK' /\ DestMoves
         /\ dest'.files = dest.files /\ dest'.receipt = pub[p].tmp.receipt
         /\ dest'.receipt.phase = "final"
<1>1. /\ Passes(dest) /\ pub[p].tmp.receipt.phase = "final"
      /\ pub[p].tmp.receipt.proof = dest.receipt.proof
  BY DEF IInv, PubOK, CmdOK, UpgradeReceipt, At
<1>2. DestOK BY DEF IInv
<1>3. dest' = [files |-> dest.files, receipt |-> pub[p].tmp.receipt]
  BY <1>2 DEF DestOK, UpgradeReceipt
<1>4. /\ dest'.files = dest.files /\ dest'.receipt = pub[p].tmp.receipt
      /\ dest' = [files |-> dest'.files, receipt |-> dest'.receipt]
  BY <1>3
<1>5. capResult' = capResult BY DEF UpgradeReceipt, rawVars
<1>6. DestOK' BY <1>1, <1>2, <1>4, <1>5 DEF DestOK, Keeps, Passing, Clean, Passes
<1>7. DestMoves BY <1>1, <1>4 DEF DestMoves, Passing, Passes
<1> QED BY <1>1, <1>4, <1>6, <1>7

LEMMA DestInstallFailed ==
  ASSUME IInv, Keeps, NEW p \in Proc, InstallFailed(p) PROVE DestOK' /\ DestMoves
<1>1. dest' = [files |-> NoDir.files, receipt |-> FailedReceipt(snap)] /\ dest = NoDir
  BY DEF InstallFailed, CanInstall, NoDir
<1>2. dest'.receipt.phase = "failed" /\ dest'.receipt.claim = ClaimOf(snap)
      /\ dest'.files = NoDir.files
  BY <1>1 DEF FailedReceipt
<1>3. DOMAIN dest'.files = {} BY <1>2 DEF NoDir
<1>4. ClaimOf(snap) => Gone BY DEF IInv, ClaimsOK
<1>5. DestOK' BY <1>1, <1>2, <1>3, <1>4 DEF DestOK, Keeps, Passing, Clean
<1>6. DestMoves BY <1>1 DEF DestMoves, NoDir, Passing, Passes
<1> QED BY <1>5, <1>6

LEMMA RunLeavesOut ==
  ASSUME RunNext PROVE UNCHANGED <<snap, dest, rec, pub>>
BY DEF RunNext, WriteSession, WriteScanReceipt, StartApply, ApplyUnconfirmed,
       StopLive, ApplyEnds, Destroy, Finish, CtlMoves, TfCreates, TfOrphanEnds, CtlExits,
       CtlKilled, ManualDown, Bootstrap, CaptureExports, EditRaw, Settle, outVars

LEMMA DestStep ==
  ASSUME IInv, Keeps, [Next]_vars PROVE DestOK' /\ DestMoves
<1>1. CASE RunNext BY <1>1, RunLeavesOut, DestSame
<1>2. CASE UNCHANGED vars BY <1>2, DestSame DEF vars, outVars
<1>3. ASSUME NEW p \in Proc, PublishNext(p) PROVE DestOK' /\ DestMoves
  <2>1. \/ Install(p) \/ OpenCost(p) \/ FillCost(p) \/ UpgradeReceipt(p) \/ InstallFailed(p)
        \/ dest' = dest
    BY <1>3 DEF PublishNext, BeginPublish, CopyText, WriteReceipt, VerifyPacket,
       TestCost, HashCost, BeginCost, LinkCost, SnapshotScan, SnapshotController, BeginRecovery, ListState,
       TakeInventory, PublishRecovery, Refuse, Kill, Goto, OnlyPub, outVars
  <2> QED BY <2>1, DestSame, DestInstall, DestUpgradeCost, DestUpgradeReceipt,
             DestInstallFailed
<1> QED BY <1>1, <1>2, <1>3 DEF Next

LEMMA ClaimsStep ==
  ASSUME IInv, Keeps, [Next]_vars PROVE ClaimsOK'
<1> USE DEF ClaimsOK, ClaimOf
<1>1. CASE UNCHANGED <<snap, rec>> BY <1>1 DEF IInv, Keeps
<1>2. ASSUME NEW p \in Proc, SnapshotController(p) PROVE ClaimsOK'
  <2>1. snap'.ctl = ctl /\ rec' = rec BY <1>2 DEF SnapshotController
  <2>2. ctl.phase = "complete" /\ ctl.verified => Gone BY DEF IInv, RunOK, Gone
  <2> QED BY <2>1, <2>2 DEF IInv, Keeps
<1>3. ASSUME NEW p \in Proc, PublishRecovery(p) PROVE ClaimsOK'
  <2>1. snap' = snap /\ ("recovered" \in rec' => "recovered" \in rec \/ pub[p].claim)
    BY <1>3 DEF PublishRecovery
  <2>2. pub[p].claim => Gone BY <1>3 DEF IInv, PubOK, CmdOK, PublishRecovery, At
  <2> QED BY <2>1, <2>2 DEF IInv, Keeps
<1>4. ASSUME NEW p \in Proc, PublishNext(p), ~SnapshotController(p), ~PublishRecovery(p)
      PROVE  UNCHANGED <<snap, rec>>
  BY <1>4 DEF PublishNext, BeginPublish, CopyText, WriteReceipt, VerifyPacket, Install,
       TestCost, OpenCost, FillCost, WriteCost, HashCost, UpgradeReceipt, BeginCost,
       LinkCost, SnapshotScan, InstallFailed,
       BeginRecovery, ListState, TakeInventory, Refuse, Kill, Goto, OnlyPub, outVars
<1>5. RunNext => UNCHANGED <<snap, rec>> BY RunLeavesOut
<1>6. UNCHANGED vars => UNCHANGED <<snap, rec>> BY DEF vars, outVars
<1> QED BY <1>1, <1>2, <1>3, <1>4, <1>5, <1>6 DEF Next

-----------------------------------------------------------------------------
Moves == Keeps /\ RawMoves /\ DestMoves

LEMMA CmdStable ==
  ASSUME Moves, NEW c, CmdOK(c) PROVE CmdOK(c)'
<1> USE DEF Moves, CmdOK, Keeps
<1>1. c.pc \in {"copy", "verify", "install"} =>
        Passed' /\ capResult' = capResult /\ capResult # None
  BY DEF Passed
<1>2. c.pc \in {"copy", "verify", "install"} /\ "cap" \in DOMAIN c.tmp.files =>
        c.tmp.files["cap"] = Sanitize(capResult') \/ raw'.cap # capResult'
  BY <1>1 DEF RawMoves
<1>3. c.pc = "install" => c.tmp.files["cap"] = Sanitize(capResult') BY <1>1
<1>4. c.pc \in {"up_test", "up_open", "up_write", "up_hash", "up_receipt"} =>
        Passes(dest') /\ raw'.cost = CapText
  BY DEF RawMoves, DestMoves
<1>5. c.pc \in {"up_write", "up_hash", "up_receipt"} => "cost" \in DOMAIN dest'.files
  BY DEF DestMoves
<1>6. c.pc = "up_receipt" => c.tmp.receipt.proof = dest'.receipt.proof BY DEF DestMoves
<1>7. raw.cost = CapText => raw'.cost = CapText BY DEF RawMoves
<1> QED BY <1>1, <1>2, <1>3, <1>4, <1>5, <1>6, <1>7 DEF Clean, Sanitize, CostText, CapText, Passes

LEMMA PubSteps ==
  ASSUME PubOK, Moves, NEW p \in Proc, NEW c, Step(p, c), CmdOK(c)' PROVE PubOK'
<1>1. pub' = [q \in Proc |-> IF q = p THEN c ELSE pub[q]] BY DEF PubOK, Step
<1>2. ASSUME NEW q \in Proc, q # p PROVE CmdOK(pub[q])'
  <2>1. PICK d : d = pub[q] OBVIOUS
  <2>2. CmdOK(d)' BY <2>1, CmdStable DEF PubOK
  <2>3. pub'[q] = d BY <1>1, <1>2, <2>1
  <2> QED BY <2>2, <2>3 DEF CmdOK
<1>3. CmdOK(pub[p])'
  <2>1. pub'[p] = c BY <1>1
  <2> QED BY <2>1 DEF CmdOK
<1> QED BY <1>1, <1>2, <1>3 DEF PubOK

LEMMA PubSame ==
  ASSUME PubOK, Moves, pub' = pub PROVE PubOK'
<1>1. ASSUME NEW q \in Proc PROVE CmdOK(pub[q])'
  <2>1. PICK d : d = pub[q] OBVIOUS
  <2>2. CmdOK(d)' BY <2>1, CmdStable DEF PubOK
  <2>3. pub'[q] = d BY <2>1
  <2> QED BY <2>2, <2>3 DEF CmdOK
<1> QED BY <1>1 DEF PubOK

LEMMA IdleOK == CmdOK(Idle)'
BY DEF CmdOK, Cmd, Idle, NoDir

(* A step that goes on in the same record changes its pc, temporary          *)
(* directory or claim.                                                       *)
LEMMA PublishSteps ==
  ASSUME IInv, Moves, NEW p \in Proc,
         \/ \E phase \in Passing : BeginPublish(p, phase)
         \/ CopyText(p) \/ WriteReceipt(p) \/ VerifyPacket(p) \/ Install(p)
  PROVE  PubOK'
<1> DEFINE c == pub[p]
<1>0. PubOK /\ RawOK /\ DestOK /\ CmdOK(c) BY DEF IInv, PubOK
<1>1. ASSUME NEW phase \in Passing, BeginPublish(p, phase), dest = NoDir PROVE PubOK'
  <2>1. PICK d : d = Cmd("copy", phase, NoDir) OBVIOUS
  <2>2. Step(p, d) BY <1>1, <2>1 DEF BeginPublish
  <2>3. Passed BY <1>1 DEF BeginPublish, ProofHolds, Passed
  <2>4. CmdOK(d)' BY <2>1, <2>3 DEF CmdOK, Cmd, NoDir, Moves, Keeps
  <2> QED BY <2>2, <2>4, <1>0, PubSteps
<1>2. ASSUME NEW phase \in Passing, BeginPublish(p, phase), dest # NoDir PROVE PubOK'
  <2>1. PICK d : d = Cmd("up_test", phase, NoDir) OBVIOUS
  <2>2. Step(p, d) BY <1>2, <2>1 DEF BeginPublish
  <2>3. dest.receipt.phase = "provisional" /\ raw.cost = CapText
    BY <1>2, <1>0 DEF BeginPublish, Verifies, CostHolds, RawOK
  <2>4. CmdOK(d)'
    BY <2>1, <2>3 DEF CmdOK, Cmd, NoDir, Moves, RawMoves, DestMoves, Passing, Passes
  <2> QED BY <2>2, <2>4, <1>0, PubSteps
<1>3. CASE CopyText(p)
  <2>1. PICK f \in Required(c.phase) \ Copied(p) :
          /\ raw[f] # None
          /\ Step(p, [c EXCEPT !.tmp.files =
               [g \in Copied(p) \cup {f} |-> IF g = f THEN Sanitize(raw[f]) ELSE @[g]]])
    BY <1>3 DEF CopyText
  <2>2. PICK files : files = [g \in Copied(p) \cup {f} |->
                                IF g = f THEN Sanitize(raw[f]) ELSE c.tmp.files[g]]
    OBVIOUS
  <2>3. PICK d : d = [c EXCEPT !.tmp.files = files] OBVIOUS
  <2>4. d = [pc |-> "copy", phase |-> c.phase, claim |-> c.claim,
             tmp |-> [files |-> files, receipt |-> c.tmp.receipt]]
    BY <1>0, <1>3, <2>3 DEF CmdOK, CopyText, At
  <2>5. f \in {"cap", "doc", "cost"} BY DEF Required
  <2>6. Sanitize(raw[f]).kind \in Kind
    BY <1>0, <2>1, <2>5 DEF RawOK, Sanitize, Kind, None
  <2>7. c.phase \in Passing /\ Passed /\ raw'.cap = raw.cap /\ capResult' = capResult
    BY <1>0, <1>3 DEF CmdOK, CopyText, At, OnlyPub, rawVars
  <2>8. \A g \in DOMAIN files : files[g].kind \in Kind
    BY <1>0, <1>3, <2>2, <2>6 DEF CmdOK, CopyText, At, Copied
  <2>9. "cap" \in DOMAIN files => files["cap"] = Sanitize(capResult) \/ raw.cap # capResult
    BY <1>0, <1>3, <2>2 DEF CmdOK, CopyText, At, Copied
  <2>12. "cost" \in DOMAIN files => files["cost"] = CostText /\ raw.cost = CapText
    BY <1>0, <1>3, <2>1, <2>2 DEF CmdOK, CopyText, At, Copied, RawOK, CostText
  <2>13. files = [g \in DOMAIN files |-> files[g]] BY <2>2
  <2>10. CmdOK(d)'
    BY <2>4, <2>7, <2>8, <2>9, <2>12, <2>13 DEF CmdOK, Moves, Keeps, Sanitize, RawMoves
  <2>11. Step(p, d) BY <2>1, <2>2, <2>3
  <2> QED BY <2>10, <2>11, <1>0, PubSteps
<1>4. CASE WriteReceipt(p)
  <2>1. PICK rc : rc = Receipt(c.phase, c.tmp.files, Proof, scan,
                               IF c.phase = "final" THEN raw.cost ELSE None)
    OBVIOUS
  <2>2. PICK d : d = Cmd("verify", c.phase, [files |-> c.tmp.files, receipt |-> rc])
    OBVIOUS
  <2>4. Step(p, d) BY <1>4, <2>1, <2>2 DEF WriteReceipt
  <2>5. c.pc = "copy" BY <1>4 DEF WriteReceipt, At
  <2>6. CmdOK(d) BY <1>0, <2>2, <2>5 DEF CmdOK, Cmd
  <2> QED BY <2>4, <2>6, <1>0, CmdStable, PubSteps
<1>5. CASE VerifyPacket(p)
  <2>1. PICK d : d = [pc |-> "install", phase |-> c.phase, claim |-> c.claim, tmp |-> c.tmp]
    OBVIOUS
  <2>2. Step(p, d) BY <1>0, <1>5, <2>1 DEF VerifyPacket, Goto, CmdOK
  <2>3. c.pc = "verify" /\ Verifies(c.tmp, c.phase) /\ NoCredentials(c.tmp.files)
    BY <1>5 DEF VerifyPacket, At, VerifiesSecret
  <2>4. /\ c.tmp.receipt.phase = c.phase /\ DOMAIN c.tmp.files = Required(c.phase)
        /\ raw.cap = capResult /\ NoIdentifiers(c.tmp.files)
        /\ c.tmp.receipt.files = c.tmp.files
    BY <2>3 DEF Verifies, ProofHolds
  <2>5. "cap" \in DOMAIN c.tmp.files BY <2>4 DEF Required
  <2>6. Clean(c.tmp.files)
    BY <1>0, <2>3, <2>4 DEF CmdOK, Clean, NoIdentifiers, NoCredentials, Kind
  <2>7. CmdOK(d) BY <1>0, <2>1, <2>3, <2>4, <2>5, <2>6 DEF CmdOK
  <2> QED BY <2>2, <2>7, <1>0, CmdStable, PubSteps
<1>6. CASE Install(p)
  BY <1>6, <1>0, IdleOK, PubSteps DEF Install
<1> QED BY <1>1, <1>2, <1>3, <1>4, <1>5, <1>6

LEMMA OtherSteps ==
  ASSUME IInv, Moves, NEW p \in Proc,
         \/ TestCost(p) \/ OpenCost(p) \/ FillCost(p) \/ HashCost(p)
         \/ UpgradeReceipt(p) \/ BeginCost(p) \/ LinkCost(p)
         \/ SnapshotScan(p) \/ SnapshotController(p) \/ InstallFailed(p)
         \/ PublishRecovery(p) \/ Refuse(p) \/ Kill(p)
  PROVE  PubOK'
<1> DEFINE c == pub[p]
<1>0. PubOK /\ RawOK /\ DestOK /\ CmdOK(c) BY DEF IInv, PubOK
<1> DEFINE To(pc) == [pc |-> pc, phase |-> c.phase, claim |-> c.claim, tmp |-> c.tmp]
<1>7. CASE TestCost(p)
  <2>1. PICK d : d = To("up_open") OBVIOUS
  <2>2. Step(p, d) BY <1>0, <1>7, <2>1 DEF TestCost, Goto, CmdOK
  <2>3. CmdOK(d) BY <1>0, <1>7, <2>1 DEF TestCost, At, CmdOK
  <2> QED BY <2>2, <2>3, <1>0, CmdStable, PubSteps
<1>1. CASE OpenCost(p) \/ FillCost(p)
  <2>1. PICK d : d \in {To("up_write"), To("up_hash")} /\ Step(p, d)
    BY <1>0, <1>1 DEF OpenCost, FillCost, Goto, CmdOK
  <2>2. /\ c.pc \in {"up_open", "up_write"} /\ raw.cost = CapText /\ raw' = raw
        /\ Passes(dest')
    BY <1>0, <1>1 DEF OpenCost, FillCost, WriteCost, At, CmdOK, rawVars, Moves, DestMoves
  <2>3. "cost" \in DOMAIN dest'.files
    <3>1. Passes(dest) /\ Keeps /\ \E text \in {Partial, CostText} : WriteCost(text)
      BY <1>1, DestUpgradeCost DEF Moves
    <3> QED BY <3>1, DestWrite
  <2>4. CmdOK(d)' BY <1>0, <2>1, <2>2, <2>3 DEF CmdOK, Passes
  <2> QED BY <2>1, <2>4, <1>0, PubSteps
<1>8. CASE HashCost(p)
  <2>7. PICK files : files = [f \in DOMAIN dest.receipt.files \cup {"cost"} |->
                       IF f = "cost" THEN dest.files["cost"] ELSE dest.receipt.files[f]]
    OBVIOUS
  <2>8. PICK rc : rc = Receipt("final", files, dest.receipt.proof, dest.receipt.scan, raw.cost)
    OBVIOUS
  <2>6. Step(p, [c EXCEPT !.pc = "up_receipt", !.tmp.receipt = rc])
    BY <1>8, <2>7, <2>8 DEF HashCost
  <2>1. rc.phase = "final" /\ rc.proof = dest.receipt.proof BY <2>8 DEF Receipt
  <2>2. PICK d : d = [c EXCEPT !.pc = "up_receipt", !.tmp.receipt = rc] OBVIOUS
  <2>3. d = [pc |-> "up_receipt", phase |-> c.phase, claim |-> c.claim,
             tmp |-> [files |-> c.tmp.files, receipt |-> rc]]
    BY <1>0, <2>2 DEF CmdOK
  <2>4. c.pc = "up_hash" BY <1>8 DEF HashCost, At
  <2>5. CmdOK(d) BY <1>0, <2>1, <2>3, <2>4 DEF CmdOK
  <2> QED BY <2>6, <2>2, <2>5, <1>0, CmdStable, PubSteps
<1>2. ASSUME NEW d, Step(p, d),
             \E pc \in {"cost_link", "snap_ctl", "failed"} :
               /\ d = [pc |-> pc, phase |-> d.phase, claim |-> d.claim, tmp |-> d.tmp]
               /\ d.tmp = [files |-> d.tmp.files, receipt |-> d.tmp.receipt]
      PROVE  PubOK'
  <2>1. CmdOK(d)' BY <1>2 DEF CmdOK
  <2> QED BY <2>1, <1>0, <1>2, PubSteps
<1>3. CASE BeginCost(p)
  <2>1. PICK d : d = [pc |-> "cost_link", phase |-> c.phase, claim |-> c.claim,
                      tmp |-> c.tmp]
    OBVIOUS
  <2>2. Step(p, d) BY <1>0, <1>3, <2>1 DEF BeginCost, Goto, CmdOK
  <2> QED BY <2>1, <2>2, <1>0, <1>2 DEF CmdOK
<1>4. CASE SnapshotScan(p)
  <2>1. PICK d : Step(p, d) /\ \/ d = Cmd("snap_ctl", "failed",
                                         [NoDir EXCEPT !.receipt = [scan |-> scan]])
                               \/ d = Cmd("failed", "failed", NoDir)
    BY <1>4 DEF SnapshotScan
  <2> QED BY <2>1, <1>2 DEF Cmd, NoDir
<1>5. CASE SnapshotController(p)
  BY <1>5, <1>2 DEF SnapshotController, Cmd, NoDir
<1>6. CASE \/ UpgradeReceipt(p) \/ LinkCost(p) \/ InstallFailed(p)
           \/ PublishRecovery(p) \/ Refuse(p) \/ Kill(p)
  <2>1. Step(p, Idle)
    BY <1>6 DEF UpgradeReceipt, LinkCost, InstallFailed, PublishRecovery, Refuse, Kill
  <2> QED BY <2>1, <1>0, IdleOK, PubSteps
<1> QED BY <1>1, <1>3, <1>4, <1>5, <1>6, <1>7, <1>8

LEMMA RecoverySteps ==
  ASSUME IInv, Moves, NEW p \in Proc,
         BeginRecovery(p) \/ ListState(p) \/ TakeInventory(p)
  PROVE  PubOK'
<1> DEFINE c == pub[p]
<1>0. PubOK /\ CmdOK(c) BY DEF IInv, PubOK
<1>1. ASSUME NEW pc \in {"rec_state", "rec_inventory", "rec_publish"}, NEW claim, Quiet,
             Step(p, [pc |-> pc, phase |-> c.phase, claim |-> claim, tmp |-> c.tmp]),
             pc = "rec_publish" /\ claim => Gone
      PROVE  PubOK'
  <2>1. PICK d : d = [pc |-> pc, phase |-> c.phase, claim |-> claim, tmp |-> c.tmp] OBVIOUS
  <2>2. CmdOK(d) BY <1>0, <1>1, <2>1 DEF CmdOK
  <2> QED BY <2>1, <2>2, <1>1, <1>0, CmdStable, PubSteps
<1>2. CASE BeginRecovery(p)
  <2>1. Step(p, [pc |-> "rec_state", phase |-> c.phase, claim |-> c.claim, tmp |-> c.tmp])
    BY <1>0, <1>2 DEF BeginRecovery, Goto, CmdOK
  <2> QED BY <2>1, <1>1, <1>2 DEF BeginRecovery
<1>3. CASE ListState(p)
  <2>1. PICK claim : claim = ("state" \notin res) OBVIOUS
  <2>2. PICK d : d = [c EXCEPT !.pc = "rec_inventory", !.claim = claim] OBVIOUS
  <2>3. Step(p, d) BY <1>3, <2>1, <2>2 DEF ListState
  <2>4. d = [pc |-> "rec_inventory", phase |-> c.phase, claim |-> claim, tmp |-> c.tmp]
    BY <1>0, <2>2 DEF CmdOK
  <2>5. Quiet BY <1>0, <1>3 DEF ListState, At, CmdOK
  <2> QED BY <2>3, <2>4, <2>5, <1>1
<1>4. CASE TakeInventory(p)
  <2>1. PICK claim : claim = (c.claim /\ res = {}) OBVIOUS
  <2>2. Step(p, [pc |-> "rec_publish", phase |-> c.phase, claim |-> claim, tmp |-> c.tmp])
    <3>1. PICK d : d = [c EXCEPT !.pc = "rec_publish", !.claim = claim] OBVIOUS
    <3>2. d = [pc |-> "rec_publish", phase |-> c.phase, claim |-> claim, tmp |-> c.tmp]
      BY <1>0, <3>1 DEF CmdOK
    <3>3. Step(p, d) BY <1>4, <2>1, <3>1 DEF TakeInventory
    <3> QED BY <3>2, <3>3
  <2>3. Quiet BY <1>0, <1>4 DEF TakeInventory, At, CmdOK
  <2>4. claim => Gone BY <2>1, <2>3 DEF Quiet, Gone
  <2> QED BY <2>2, <2>3, <2>4, <1>1
<1> QED BY <1>2, <1>3, <1>4

LEMMA PubStep ==
  ASSUME IInv, Moves, [Next]_vars PROVE PubOK'
<1>1. CASE RunNext BY <1>1, RunLeavesOut, PubSame DEF IInv
<1>2. CASE UNCHANGED vars BY <1>2, PubSame DEF vars, IInv
<1>3. ASSUME NEW p \in Proc, PublishNext(p) PROVE PubOK'
  BY <1>3, PublishSteps, OtherSteps, RecoverySteps DEF PublishNext
<1> QED BY <1>1, <1>2, <1>3 DEF Next

-----------------------------------------------------------------------------
(* A single upgrade at a time leaves a final packet whole.                   *)

LEMMA UpgradeFrame ==
  ASSUME IInv, Moves, UNCHANGED <<dest, raced, pub>> PROVE UpgradeOK'
BY DEF IInv, UpgradeOK, ReceiptOK, Orderly, Upgrading, Passes, Held, Cost, Moves, RawMoves

\* A command moves that does not upgrade next.
LEMMA UpgradeElse ==
  ASSUME IInv, Moves, UNCHANGED <<dest, raced>>, NEW p \in Proc, NEW c, Step(p, c),
         c.pc \notin {"up_open", "up_write", "up_hash", "up_receipt"}
  PROVE  UpgradeOK'
<1>1. pub' = [q \in Proc |-> IF q = p THEN c ELSE pub[q]] BY DEF IInv, PubOK, Step
<1>2. ReceiptOK'
  BY DEF IInv, UpgradeOK, ReceiptOK, Passes, Held, Moves, RawMoves
<1>3. ASSUME ~raced PROVE Orderly'
  <2>1. \A q \in Proc : pub'[q].pc \in {"up_open", "up_write", "up_hash", "up_receipt"} =>
          pub'[q] = pub[q]
    BY <1>1
  <2> QED BY <1>3, <2>1 DEF IInv, UpgradeOK, Orderly, Upgrading, Cost
<1> QED BY <1>2, <1>3 DEF UpgradeOK

LEMMA ElseSteps ==
  ASSUME IInv, Moves, NEW p \in Proc,
         \/ \E phase \in Passing : BeginPublish(p, phase)
         \/ CopyText(p) \/ WriteReceipt(p) \/ VerifyPacket(p)
         \/ BeginCost(p) \/ LinkCost(p) \/ SnapshotScan(p) \/ SnapshotController(p)
         \/ BeginRecovery(p) \/ ListState(p) \/ TakeInventory(p) \/ PublishRecovery(p)
         \/ Refuse(p) \/ Kill(p)
  PROVE  UpgradeOK'
<1> DEFINE c == pub[p]
<1>0. CmdOK(c) BY DEF IInv, PubOK
<1>1. UNCHANGED <<dest, raced>>
  BY DEF BeginPublish, CopyText, WriteReceipt, VerifyPacket, BeginCost, LinkCost,
         SnapshotScan, SnapshotController, BeginRecovery, ListState, TakeInventory,
         PublishRecovery, Refuse, Kill, OnlyPub, outVars, envVars
<1>2. CASE CopyText(p)
  <2>1. PICK files : Step(p, [c EXCEPT !.tmp.files = files]) BY <1>2 DEF CopyText
  <2>2. PICK d : d = [c EXCEPT !.tmp.files = files] OBVIOUS
  <2>3. d.pc = "copy" BY <1>0, <1>2, <2>2 DEF CmdOK, CopyText, At
  <2> QED BY <1>1, <2>1, <2>2, <2>3, UpgradeElse
<1>3. CASE VerifyPacket(p) \/ BeginCost(p) \/ BeginRecovery(p)
  <2>1. PICK pc \in {"install", "cost_link", "rec_state"} : Step(p, [c EXCEPT !.pc = pc])
    BY <1>3 DEF VerifyPacket, BeginCost, BeginRecovery, Goto
  <2>2. PICK d : d = [c EXCEPT !.pc = pc] OBVIOUS
  <2>3. d.pc = pc BY <1>0, <2>2 DEF CmdOK
  <2> QED BY <1>1, <2>1, <2>2, <2>3, UpgradeElse
<1>4. CASE ListState(p)
  <2>1. PICK d : d = [c EXCEPT !.pc = "rec_inventory", !.claim = "state" \notin res] OBVIOUS
  <2>2. Step(p, d) BY <1>4, <2>1 DEF ListState
  <2>3. d.pc = "rec_inventory" BY <1>0, <2>1 DEF CmdOK
  <2> QED BY <1>1, <2>2, <2>3, UpgradeElse
<1>9. CASE TakeInventory(p)
  <2>1. PICK d : d = [c EXCEPT !.pc = "rec_publish", !.claim = c.claim /\ res = {}] OBVIOUS
  <2>2. Step(p, d) BY <1>9, <2>1 DEF TakeInventory
  <2>3. d.pc = "rec_publish" BY <1>0, <2>1 DEF CmdOK
  <2> QED BY <1>1, <2>2, <2>3, UpgradeElse
<1>5. CASE \E phase \in Passing : BeginPublish(p, phase)
  <2>1. PICK phase \in Passing : \E pc \in {"copy", "up_test"} : Step(p, Cmd(pc, phase, NoDir))
    BY <1>5 DEF BeginPublish
  <2> QED BY <1>1, <2>1, UpgradeElse DEF Cmd
<1>6. CASE WriteReceipt(p)
  <2>1. PICK dir : Step(p, Cmd("verify", c.phase, dir)) BY <1>6 DEF WriteReceipt
  <2> QED BY <1>1, <2>1, UpgradeElse DEF Cmd
<1>7. CASE SnapshotScan(p) \/ SnapshotController(p)
  <2>1. PICK pc, dir : pc \in {"snap_ctl", "failed"} /\ Step(p, Cmd(pc, "failed", dir))
    BY <1>7 DEF SnapshotScan, SnapshotController
  <2> QED BY <1>1, <2>1, UpgradeElse DEF Cmd
<1>8. CASE LinkCost(p) \/ PublishRecovery(p) \/ Refuse(p) \/ Kill(p)
  <2>1. Step(p, Idle) BY <1>8 DEF LinkCost, PublishRecovery, Refuse, Kill
  <2>2. Idle.pc = "idle" BY DEF Idle, Cmd
  <2> QED BY <1>1, <2>1, <2>2, UpgradeElse
<1> QED BY <1>2, <1>3, <1>4, <1>5, <1>6, <1>7, <1>8, <1>9

\* A packet is installed where there is none, so that nothing upgrades it.
LEMMA InstallSteps ==
  ASSUME IInv, Moves, NEW p \in Proc, Install(p) \/ InstallFailed(p) PROVE UpgradeOK'
<1>1. dest = NoDir /\ Step(p, Idle) /\ Idle.pc = "idle"
  BY DEF Install, InstallFailed, CanInstall, Idle, Cmd
<1>2. \A q \in Proc : ~Upgrading(q)
  BY <1>1 DEF IInv, PubOK, CmdOK, Upgrading, NoDir, Passes, Passing
<1>3. \A q \in Proc : pub'[q] = IF q = p THEN Idle ELSE pub[q]
  BY <1>1 DEF IInv, PubOK, Step
<1>4. \A q \in Proc : ~Upgrading(q)' /\ pub'[q].pc \notin {"up_hash", "up_receipt"}
  BY <1>1, <1>2, <1>3 DEF Upgrading
<1>5. CASE InstallFailed(p)
  <2>1. dest'.receipt.phase = "failed"
    BY <1>5 DEF InstallFailed, FailedReceipt, NoDir
  <2> QED BY <1>4, <2>1 DEF UpgradeOK, ReceiptOK, Orderly, Passes, Passing
<1>6. CASE Install(p)
  <2>1. CmdOK(pub[p]) /\ pub[p].pc = "install" /\ dest' = pub[p].tmp /\ raw' = raw
    BY <1>6 DEF IInv, PubOK, Install, At, rawVars
  <2>2. PICK phase \in Passing :
          /\ dest'.receipt.phase = phase /\ DOMAIN dest'.files = Required(phase)
          /\ dest'.receipt.files = dest'.files
          /\ dest'.files = [f \in DOMAIN dest'.files |-> dest'.files[f]]
          /\ "cost" \in DOMAIN dest'.files =>
               Cost(dest') = CostText /\ raw'.cost = CapText
    BY <2>1 DEF CmdOK, Cost
  <2>3. ReceiptOK'
    <3>1. phase = "provisional" => DOMAIN dest'.files \ {"cost"} = DOMAIN dest'.files
      BY <2>2 DEF Required
    <3>2. phase = "provisional" => dest'.receipt.files = Held(dest'.files)
      BY <2>2, <3>1 DEF Held
    <3>3. phase = "final" => "cost" \in DOMAIN dest'.files BY <2>2 DEF Required
    <3> QED BY <2>2, <3>2, <3>3 DEF ReceiptOK
  <2>4. Orderly'
    <3>1. phase = "final" => "cost" \in DOMAIN dest'.files BY <2>2 DEF Required
    <3> QED BY <1>4, <2>2, <3>1 DEF Orderly
  <2> QED BY <2>3, <2>4 DEF UpgradeOK
<1> QED BY <1>5, <1>6

LEMMA TestStep ==
  ASSUME IInv, Moves, NEW p \in Proc, TestCost(p) PROVE UpgradeOK'
<1>1. /\ dest' = dest /\ NoCostYet /\ raw' = raw
      /\ raced' \/ (~raced /\ \A q \in Proc : ~Upgrading(q))
  BY DEF TestCost, outVars, rawVars
<1>2. CmdOK(pub[p]) /\ pub[p].pc = "up_test" BY DEF IInv, PubOK, TestCost, At
<1>3. \A q \in Proc : q # p => pub'[q] = pub[q]
  BY DEF IInv, PubOK, TestCost, Goto, Step
<1>4. pub'[p].pc = "up_open"
  <2>1. PICK d : d = [pub[p] EXCEPT !.pc = "up_open"] OBVIOUS
  <2>2. pub'[p] = d BY <2>1 DEF IInv, PubOK, TestCost, Goto, Step
  <2> QED BY <1>2, <2>1, <2>2 DEF CmdOK
<1>5. ReceiptOK' BY <1>1 DEF IInv, UpgradeOK, ReceiptOK, Passes, Held
<1>6. dest.receipt.phase = "provisional"
  BY <1>1, <1>2 DEF CmdOK, Passes, Passing, NoCostYet, IInv, UpgradeOK, ReceiptOK
<1>7. ASSUME ~raced' PROVE Orderly'
  <2>1. \A q \in Proc : Upgrading(q)' => q = p BY <1>1, <1>3, <1>7 DEF Upgrading
  <2>2. \A q \in Proc : pub'[q].pc \in {"up_hash", "up_receipt"} => FALSE
    BY <2>1, <1>4 DEF Upgrading
  <2> QED BY <1>1, <1>6, <2>1, <2>2 DEF Orderly
<1> QED BY <1>5, <1>7 DEF UpgradeOK

\* The one upgrade goes on: nobody else is past the test.
LEMMA OwnStep ==
  ASSUME IInv, NEW p \in Proc, Upgrading(p), ~raced,
         NEW c, Step(p, c), dest'.receipt = dest.receipt,
         c.pc \in {"up_hash", "up_receipt"} => Cost(dest') = CostText,
         c.pc = "up_receipt" => c.tmp.receipt.files = dest'.files
  PROVE  Orderly'
<1>1. /\ dest'.receipt.phase = "provisional"
      /\ \A q \in Proc : Upgrading(q) => q = p
  BY DEF IInv, UpgradeOK, Orderly
<1>2. \A q \in Proc : pub'[q] = IF q = p THEN c ELSE pub[q] BY DEF IInv, PubOK, Step
<1>3. \A q \in Proc : Upgrading(q)' => q = p BY <1>1, <1>2 DEF Upgrading
<1>4. \A q \in Proc : pub'[q].pc \in {"up_hash", "up_receipt"} => q = p /\ pub'[q] = c
  BY <1>2, <1>3 DEF Upgrading
<1> QED BY <1>1, <1>3, <1>4 DEF Orderly

LEMMA UpgradeSteps ==
  ASSUME IInv, Moves, NEW p \in Proc,
         OpenCost(p) \/ FillCost(p) \/ HashCost(p) \/ UpgradeReceipt(p)
  PROVE  UpgradeOK'
<1> DEFINE c == pub[p]
<1>0. /\ CmdOK(c) /\ DestOK /\ ReceiptOK /\ (raced \/ Orderly) /\ Keeps
      /\ Upgrading(p) /\ Passes(dest) /\ raw.cost = CapText
  BY DEF IInv, PubOK, UpgradeOK, Moves, OpenCost, FillCost, HashCost, UpgradeReceipt, At,
         Upgrading, CmdOK
<1>1. raw' = raw /\ raced' = raced
  BY DEF OpenCost, FillCost, WriteCost, HashCost, UpgradeReceipt, OnlyPub, rawVars, envVars
<1>2. CASE OpenCost(p) \/ FillCost(p)
  <2>1. PICK text \in {Partial, CostText} : WriteCost(text) /\ (FillCost(p) => WriteCost(CostText))
    BY <1>0, <1>2, DestUpgradeCost
  <2>2. /\ dest'.receipt = dest.receipt /\ "cost" \in DOMAIN dest'.files
        /\ Held(dest'.files) = Held(dest.files)
        /\ dest'.files = [f \in DOMAIN dest'.files |-> dest'.files[f]]
    BY <1>0, <2>1, DestWrite
  <2>3. ASSUME FillCost(p) PROVE Cost(dest') = CostText
    <3>1. WriteCost(CostText) BY <2>1, <2>3
    <3> QED BY <1>0, <3>1, DestWrite
  <2>4. ReceiptOK' BY <1>0, <1>1, <2>2 DEF ReceiptOK
  <2>5. PICK pc : /\ Step(p, [c EXCEPT !.pc = pc])
                  /\ pc = "up_write" \/ (FillCost(p) /\ pc = "up_hash")
    BY <1>2 DEF OpenCost, FillCost, Goto
  <2>6. PICK d : d = [c EXCEPT !.pc = pc] OBVIOUS
  <2>7. d.pc = pc BY <1>0, <2>6 DEF CmdOK
  <2>8. ~raced => Orderly' BY <1>0, <2>2, <2>3, <2>5, <2>6, <2>7, OwnStep
  <2> QED BY <1>1, <2>4, <2>8 DEF UpgradeOK
<1>3. CASE HashCost(p)
  <2>1. dest' = dest /\ "cost" \in DOMAIN dest.files /\ c.pc = "up_hash"
    BY <1>0, <1>3 DEF HashCost, OnlyPub, outVars, At, CmdOK
  <2>2. ReceiptOK' BY <1>0, <1>1, <2>1 DEF ReceiptOK, Passes, Held
  <2>9. PICK files : files = [f \in DOMAIN dest.receipt.files \cup {"cost"} |->
                       IF f = "cost" THEN dest.files["cost"] ELSE dest.receipt.files[f]]
    OBVIOUS
  <2>10. PICK rc : rc = Receipt("final", files, dest.receipt.proof, dest.receipt.scan, raw.cost)
    OBVIOUS
  <2>11. Step(p, [c EXCEPT !.pc = "up_receipt", !.tmp.receipt = rc])
    BY <1>3, <2>9, <2>10 DEF HashCost
  <2>3. rc.files = files BY <2>10 DEF Receipt
  <2>4. PICK d : d = [c EXCEPT !.pc = "up_receipt", !.tmp.receipt = rc] OBVIOUS
  <2>5. d.pc = "up_receipt" /\ d.tmp.receipt = rc BY <1>0, <2>4 DEF CmdOK
  <2>6. ASSUME ~raced PROVE rc.files = dest.files
    <3>1. dest.receipt.files = Held(dest.files)
      BY <1>0, <2>6 DEF Orderly, ReceiptOK
    <3>2. DOMAIN dest.receipt.files = DOMAIN dest.files \ {"cost"}
          /\ \A f \in DOMAIN dest.receipt.files : dest.receipt.files[f] = dest.files[f]
      BY <3>1 DEF Held
    <3>3. rc.files = [f \in DOMAIN dest.files |-> dest.files[f]] BY <2>1, <2>3, <2>9, <3>2
    <3> QED BY <1>0, <3>3 DEF ReceiptOK
  <2>7. ~raced => Cost(dest) = CostText BY <1>0, <2>1 DEF Orderly
  <2>8. ~raced => Orderly' BY <1>0, <2>1, <2>11, <2>4, <2>5, <2>6, <2>7, OwnStep DEF Cost
  <2> QED BY <1>1, <2>2, <2>8 DEF UpgradeOK
<1>4. CASE UpgradeReceipt(p)
  <2>1. /\ dest'.files = dest.files /\ dest'.receipt = c.tmp.receipt
        /\ dest'.receipt.phase = "final"
    BY <1>0, <1>4, DestUpgradeReceipt
  <2>2. c.pc = "up_receipt" /\ "cost" \in DOMAIN dest.files
    BY <1>0, <1>4 DEF UpgradeReceipt, At, CmdOK
  <2>3. ReceiptOK' BY <1>0, <1>1, <2>1, <2>2 DEF ReceiptOK, Passes
  <2>4. ASSUME ~raced PROVE Orderly'
    <3>1. \A q \in Proc : pub'[q] = IF q = p THEN Idle ELSE pub[q]
      BY <1>4 DEF IInv, PubOK, UpgradeReceipt, Step
    <3>2. \A q \in Proc : ~Upgrading(q)'
      BY <1>0, <2>4, <3>1 DEF Orderly, Upgrading, Idle, Cmd
    <3>3. \A q \in Proc : pub'[q].pc \notin {"up_hash", "up_receipt"}
      BY <3>2 DEF Upgrading
    <3>4. Cost(dest') = CostText /\ dest'.receipt.files = dest'.files
      BY <1>0, <2>1, <2>2, <2>4 DEF Orderly, Cost
    <3> QED BY <3>2, <3>3, <3>4 DEF Orderly
  <2> QED BY <1>1, <2>3, <2>4 DEF UpgradeOK
<1> QED BY <1>2, <1>3, <1>4

LEMMA UpgradeStep ==
  ASSUME IInv, Moves, [Next]_vars PROVE UpgradeOK'
<1>1. CASE RunNext
  <2>1. raced' = raced
    BY <1>1 DEF RunNext, WriteSession, WriteScanReceipt, StartApply, ApplyUnconfirmed,
       StopLive, ApplyEnds, Destroy, Finish, CtlMoves, TfCreates, TfOrphanEnds, CtlExits,
       CtlKilled, ManualDown, Bootstrap, CaptureExports, EditRaw, Settle, envVars
  <2> QED BY <1>1, <2>1, RunLeavesOut, UpgradeFrame
<1>2. CASE UNCHANGED vars BY <1>2, UpgradeFrame DEF vars, outVars, envVars
<1>3. ASSUME NEW p \in Proc, PublishNext(p) PROVE UpgradeOK'
  BY <1>3, ElseSteps, InstallSteps, TestStep, UpgradeSteps DEF PublishNext
<1> QED BY <1>1, <1>2, <1>3 DEF Next

(* Who writes to a packet that is there is upgrading it.                     *)
LEMMA OnlyUpgrades ==
  ASSUME [Next]_vars, dest' # dest, dest # NoDir
  PROVE  raw' = raw /\ raced' = raced /\ \E p \in Proc : Upgrading(p)
<1>1. ~RunNext BY RunLeavesOut
<1>2. ~UNCHANGED vars BY DEF vars, outVars
<1>3. PICK p \in Proc : PublishNext(p) BY <1>1, <1>2 DEF Next
<1>4. OpenCost(p) \/ FillCost(p) \/ UpgradeReceipt(p)
  BY <1>3 DEF PublishNext, BeginPublish, CopyText, WriteReceipt, VerifyPacket, Install,
     InstallFailed, CanInstall, TestCost, HashCost, BeginCost, LinkCost, SnapshotScan,
     SnapshotController, BeginRecovery, ListState, TakeInventory, PublishRecovery, Refuse,
     Kill, Goto, OnlyPub, outVars
<1> QED BY <1>4 DEF OpenCost, FillCost, WriteCost, UpgradeReceipt, At, Upgrading, rawVars,
                    envVars

LEMMA StepOK ==
  ASSUME IInv, [Next]_vars PROVE IInv' /\ [Grows]_dest
<1>1. RunOK' /\ Keeps BY StepKeeps DEF IInv
<1>2. RawOK' /\ RawMoves BY RawStep DEF IInv
<1>3. DestOK' /\ DestMoves BY <1>1, DestStep
<1>4. ClaimsOK' BY <1>1, ClaimsStep
<1>5. PubOK' BY <1>1, <1>2, <1>3, PubStep DEF Moves
<1>6. UpgradeOK' BY <1>1, <1>2, <1>3, UpgradeStep DEF Moves
<1>7. ASSUME dest' # dest, dest # NoDir PROVE Grows
  <2>1. raw' = raw /\ raced' = raced /\ \E p \in Proc : Upgrading(p)
    BY <1>7, OnlyUpgrades
  <2>2. dest.receipt.phase = "final" => raced
    BY <2>1 DEF IInv, UpgradeOK, Orderly
  <2>3. dest'.receipt.phase = "final" =>
          /\ "cost" \in DOMAIN dest'.files
          /\ raced' \/ (Cost(dest') = Sanitize(raw.cost) /\ dest'.receipt.files = dest'.files)
    BY <1>6, <2>1 DEF UpgradeOK, ReceiptOK, Orderly, CostText
  <2> QED BY <1>3, <1>7, <2>2, <2>3 DEF Grows, DestMoves
<1>8. dest = NoDir => Grows BY DEF Grows
<1> QED BY <1>1, <1>2, <1>3, <1>4, <1>5, <1>6, <1>7, <1>8 DEF IInv

-----------------------------------------------------------------------------
THEOREM PacketInvariant == Spec => []IInv
<1>1. IInv /\ [Next]_vars => IInv' BY StepOK
<1> QED BY <1>1, InitOK, PTL DEF Spec

(* No identifier and no credential becomes public: publish scans again what  *)
(* it copied before it installs it.                                          *)
THEOREM NothingLeaksOut == Spec => []NothingLeaks
<1>1. IInv => NothingLeaks BY DEF IInv, DestOK, Clean, NothingLeaks
<1> QED BY <1>1, PacketInvariant, PTL

(* A packet that says passed is about the export that passed: validate_proof *)
(* compares hashes after the copy, and a later edit cannot restore them.     *)
THEOREM PassProven == Spec => []PassIsProven
<1>1. IInv => PassIsProven BY DEF IInv, DestOK, Passed, PassIsProven
<1> QED BY <1>1, PacketInvariant, PTL

(* What says that nothing is left stays true: no process of the run is left  *)
(* that could create again.                                                  *)
THEOREM ClaimsAreTrue == Spec => []ClaimsHold
<1>1. IInv => ClaimsHold
  BY DEF IInv, DestOK, ClaimsOK, RunOK, Passed, Gone, ClaimsHold
<1> QED BY <1>1, PacketInvariant, PTL

(* A packet is never replaced: a provisional one gains its whole cost and    *)
(* becomes final, and a final one stays as it is, unless two upgrades were   *)
(* past their tests for the cost at once (m4-evidence.py:1549).              *)
THEOREM PacketsAreKept == Spec => PacketsOnlyGrow
<1>1. IInv /\ [Next]_vars => [Grows]_dest BY StepOK
<1> QED BY <1>1, PacketInvariant, PTL DEF Spec, PacketsOnlyGrow
=============================================================================
