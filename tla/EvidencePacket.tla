--------------------------- MODULE EvidencePacket ---------------------------
(***************************************************************************)
(* The evidence of one paid run (scripts/m4-evidence.py and                *)
(* scripts/m4-publication-extra.py): the private directory that the        *)
(* controller, the capture and the staging commands write, and the public  *)
(* packet that publication commands build from it. The commands of Proc    *)
(* run at the same time, are killed, and race with texts that change under *)
(* them. A text is its version and what it holds; a hash of a file is the  *)
(* text itself.                                                            *)
(***************************************************************************)
EXTENDS Naturals, FiniteSets

CONSTANTS Proc,       \* the publication commands that run
          MaxEdits,   \* bound: changes of private texts behind the publishers
          MaxKills    \* bound: processes that are killed
ASSUME BoundsAssumption == MaxEdits \in Nat /\ MaxKills \in Nat

(* "ident" is a text with account identifiers, which sanitize_text replaces; *)
(* "cred" one with a credential, which only the secret scan finds. A private *)
(* text is never "clean": each holds some identifier. "partial" is a file    *)
(* that has been truncated and holds less than the text that goes into it.   *)
Kind == {"clean", "partial", "ident", "cred"}
Text == [ver : 0..MaxEdits, kind : Kind]
None == [ver |-> 0, kind |-> "none"]
Partial == [ver |-> 0, kind |-> "partial"]

Passing == {"provisional", "final"}
Required(phase) == IF phase = "final" THEN {"cap", "doc", "cost"} ELSE {"cap", "doc"}

VARIABLES
  session,    \* 00-session.json exists
  scan,       \* secret-scan.json: absent, not_started, collecting or complete
  ctl,        \* controller-state.json: phase, result passed, cleanup verified
  alive,      \* the controller process runs
  tf,         \* a Terraform process of the run is active
  res,        \* paid resources: those in Terraform's state, those missing from it
  raw,        \* private texts: a capture export, another text, the final cost
  capResult,  \* the export's hash in a passing capture-result.json
  settled,    \* 48 hours have passed since the cleanup
  costTmp,    \* .23-cost-final.txt.tmp exists
  snap,       \* failed-publication/, the private snapshot of a failed attempt
  dest,       \* the public packet
  rec,        \* what the public recovery records say, one per observation
  pub,        \* the publication commands
  edits, kills,
  raced       \* two upgrades were past the test that there is no cost yet

runVars == <<session, scan, ctl, alive, tf, res>>
rawVars == <<raw, capResult, settled, costTmp>>
outVars == <<snap, dest, rec>>
envVars == <<edits, kills, raced>>
vars == <<runVars, rawVars, outVars, pub, envVars>>

NoCtl == [phase |-> "none", passed |-> FALSE, verified |-> FALSE]
NoSnap == [scan |-> "absent", ctl |-> NoCtl]
NoDir == [files |-> [f \in {} |-> None], receipt |-> [phase |-> "none"]]
Cmd(pc, phase, tmp) == [pc |-> pc, phase |-> phase, tmp |-> tmp, claim |-> FALSE]
Idle == Cmd("idle", "none", NoDir)

Init ==
  /\ session = FALSE /\ scan = "absent" /\ ctl = NoCtl /\ alive = TRUE
  /\ tf = FALSE /\ res = {}
  /\ raw = [cap |-> None, cost |-> None, doc |-> [ver |-> 0, kind |-> "ident"]]
  /\ capResult = None /\ settled = FALSE /\ costTmp = FALSE
  /\ snap = NoSnap /\ dest = NoDir /\ rec = {}
  /\ pub = [p \in Proc |-> Idle]
  /\ edits = 0 /\ kills = 0 /\ raced = FALSE

-----------------------------------------------------------------------------
(* The run that the evidence is about.                                       *)

(* start_session writes the session and then the scan receipt; a kill in     *)
(* between spends the run id, since neither is ever overwritten.             *)
WriteSession ==
  /\ alive /\ scan = "absent" /\ ~session
  /\ session' = TRUE
  /\ UNCHANGED <<scan, ctl, alive, tf, res, rawVars, outVars, pub, envVars>>
WriteScanReceipt ==
  /\ alive /\ session /\ scan = "absent"
  /\ scan' = "not_started"
  /\ UNCHANGED <<session, ctl, alive, tf, res, rawVars, outVars, pub, envVars>>

CtlMoves(next) ==
  /\ alive /\ ctl' = next
  /\ UNCHANGED <<session, scan, alive, rawVars, outVars, pub, envVars>>
Phase(ph) == [ctl EXCEPT !.phase = ph]

StartApply ==
  /\ ctl.phase = "none" /\ scan = "not_started"
  /\ CtlMoves(Phase("applying")) /\ tf' = TRUE /\ res' = res
ApplyEnds(ok) ==
  /\ ctl.phase = "applying" /\ tf
  /\ CtlMoves(Phase(IF ok THEN "live" ELSE "destroying"))
  /\ tf' = FALSE /\ res' = res
(* blockCleanupOnProcess: the apply could not be seen to exit.               *)
ApplyUnconfirmed ==
  /\ ctl.phase = "applying" /\ tf
  /\ CtlMoves(Phase("cleanup_failed")) /\ UNCHANGED <<tf, res>>
StopLive ==
  /\ ctl.phase = "live"
  /\ CtlMoves(Phase("destroying")) /\ UNCHANGED <<tf, res>>
(* Destroy removes what Terraform's state names, if it succeeds.             *)
Destroy(ok) ==
  /\ ctl.phase = "destroying"
  /\ CtlMoves(Phase("verifying"))
  /\ res' = (IF ok THEN res \ {"state"} ELSE res) /\ tf' = tf
(* The state check and the inventory decide whether the cleanup is verified. *)
Finish(passed) ==
  /\ ctl.phase = "verifying"
  /\ CtlMoves([phase |-> IF res = {} THEN "complete" ELSE "cleanup_failed",
               passed |-> passed /\ res = {}, verified |-> res = {}])
  /\ UNCHANGED <<tf, res>>

(* Terraform creates; a create in flight may be missing from its state.      *)
TfCreates ==
  /\ tf
  /\ \E r \in {"state", "orphan"} : res' = res \cup {r}
  /\ UNCHANGED <<session, scan, ctl, alive, tf, rawVars, outVars, pub, envVars>>
TfOrphanEnds ==
  /\ tf /\ (~alive \/ ctl.phase = "cleanup_failed") /\ tf' = FALSE
  /\ UNCHANGED <<session, scan, ctl, alive, res, rawVars, outVars, pub, envVars>>
CtlExits ==
  /\ alive /\ ctl.phase \in {"complete", "cleanup_failed"} /\ alive' = FALSE
  /\ UNCHANGED <<session, scan, ctl, tf, res, rawVars, outVars, pub, envVars>>
CtlKilled ==
  /\ alive /\ kills < MaxKills /\ kills' = kills + 1 /\ alive' = FALSE
  /\ UNCHANGED <<session, scan, ctl, tf, res, rawVars, outVars, pub, edits, raced>>
(* The operator's recovery, by hand, after the controller is gone.           *)
ManualDown ==
  /\ ~alive /\ ~tf /\ res # {}
  /\ \E r \in res : res' = res \ {r}
  /\ UNCHANGED <<session, scan, ctl, alive, tf, rawVars, outVars, pub, envVars>>

(* m4-bootstrap enters the digests of the credentials it creates.            *)
Bootstrap ==
  /\ ctl.phase = "live" /\ scan \in {"not_started", "collecting"}
  /\ scan' = IF scan = "not_started" THEN "collecting" ELSE "complete"
  /\ UNCHANGED <<session, ctl, alive, tf, res, rawVars, outVars, pub, envVars>>
(* The capture scans each export before it writes it, once, and passes.      *)
CaptureExports ==
  /\ ctl.phase = "live" /\ scan = "complete" /\ capResult = None
  /\ capResult' = [ver |-> 0, kind |-> "ident"]
  /\ raw' = [raw EXCEPT !.cap = capResult']
  /\ UNCHANGED <<runVars, settled, costTmp, outVars, pub, envVars>>

(* A private text changes behind the publishers: a staging command rewrites  *)
(* its receipt, the controller a transcript, a person an export. Receipts    *)
(* that are created exclusively (session, cost) are not rewritten.           *)
EditRaw ==
  /\ edits < MaxEdits /\ edits' = edits + 1
  /\ \E f \in {"cap", "doc"}, k \in {"ident", "cred"} :
       /\ raw[f] # None
       /\ raw' = [raw EXCEPT ![f] = [ver |-> edits + 1, kind |-> k]]
  /\ UNCHANGED <<runVars, capResult, settled, costTmp, outVars, pub, kills, raced>>
Settle ==
  /\ ctl.phase = "complete" /\ ~settled /\ settled' = TRUE
  /\ UNCHANGED <<runVars, raw, capResult, costTmp, outVars, pub, envVars>>

-----------------------------------------------------------------------------
(* What the commands read and compute.                                       *)

(* sanitize_text replaces identifiers and leaves everything else.            *)
Sanitize(t) == IF t.kind = "ident" THEN [t EXCEPT !.kind = "clean"] ELSE t
(* sensitive_matches finds identifiers, scan_secret_bytes credentials.       *)
NoIdentifiers(files) == \A f \in DOMAIN files : files[f].kind # "ident"
NoCredentials(files) == \A f \in DOMAIN files : files[f].kind # "cred"

\* Mutant: the export is not compared with the capture's receipt.
ProofUnhashed == capResult # None /\ ctl.phase = "complete" /\ ctl.passed
(* validate_proof: the capture passed, its export is unchanged, and the      *)
(* controller ended with a verified cleanup.                                 *)
ProofHolds ==
  /\ capResult # None /\ raw.cap = capResult
  /\ ctl.phase = "complete" /\ ctl.passed
Proof == [cap |-> capResult, ctl |-> ctl]
(* validate_final_cost: bound to the controller's result, 48 h after it.     *)
CostHolds == raw.cost # None /\ ctl.phase = "complete" /\ ctl.verified

ScanComplete == session /\ scan = "complete"
ScanUsable == session /\ scan # "absent"

(* verify_publication and verify_secret_publication.                         *)
Verifies(dir, phase) ==
  /\ dir.receipt.phase = phase
  /\ ProofHolds /\ dir.receipt.proof = Proof
  /\ phase = "final" => CostHolds /\ dir.receipt.cost = raw.cost
  /\ DOMAIN dir.files = Required(phase) /\ dir.receipt.files = dir.files
  /\ NoIdentifiers(dir.files)
\* Mutant: what was copied is not scanned again.
VerifiesScanOnly(dir) == ScanComplete /\ dir.receipt.scan = scan
VerifiesSecret(dir) == ScanComplete /\ dir.receipt.scan = scan /\ NoCredentials(dir.files)

(* failed_summary: what an observation of the controller says of cleanup.    *)
Observed(s) == s.scan # "absent" /\ s.ctl.phase # "none"
ClaimOf(s) == s.ctl.phase = "complete" /\ s.ctl.verified
Receipt(phase, files, proof, sc, cost) ==
  [phase |-> phase, files |-> files, proof |-> proof, scan |-> sc, cost |-> cost]
FailedReceipt(s) == [phase |-> "failed", scan |-> s.scan, ctl |-> s.ctl, claim |-> ClaimOf(s)]
(* verify_failed compares the packet with the private snapshot.              *)
VerifiesFailed == snap # NoSnap /\ dest.receipt = FailedReceipt(snap)

-----------------------------------------------------------------------------
(* A command takes one step at a time; it gives up at any check that fails,  *)
(* and then its temporary directory goes.                                    *)

At(p, pc) == pub[p].pc = pc
Step(p, next) == pub' = [pub EXCEPT ![p] = next]
Goto(p, pc) == Step(p, [pub[p] EXCEPT !.pc = pc])
OnlyPub == UNCHANGED <<runVars, rawVars, outVars, envVars>>

Refuse(p) == ~At(p, "idle") /\ Step(p, Idle) /\ OnlyPub
(* SIGKILL runs no except clause: the temporary directory stays behind.      *)
Kill(p) ==
  /\ ~At(p, "idle") /\ kills < MaxKills /\ kills' = kills + 1
  /\ Step(p, Idle) /\ costTmp' = (costTmp \/ At(p, "cost_link"))
  /\ UNCHANGED <<runVars, raw, capResult, settled, outVars, edits, raced>>

(* publish: scan the private texts, validate the proof, then either build a  *)
(* packet or bring a provisional one up to final.                            *)
BeginPublish(p, phase) ==
  /\ At(p, "idle") /\ ScanComplete
  /\ \A f \in Required(phase) : raw[f] # None /\ raw[f].kind # "cred"
  /\ ProofHolds
  /\ phase = "final" => CostHolds
  /\ IF dest = NoDir
     THEN Step(p, Cmd("copy", phase, NoDir))
     ELSE /\ phase = "final" /\ Verifies(dest, "provisional") /\ VerifiesSecret(dest)
          /\ Step(p, Cmd("up_test", phase, NoDir))
  /\ OnlyPub

Copied(p) == DOMAIN pub[p].tmp.files
CopyText(p) ==
  /\ At(p, "copy")
  /\ \E f \in Required(pub[p].phase) \ Copied(p) :
       /\ raw[f] # None
       /\ Step(p, [pub[p] EXCEPT !.tmp.files =
            [g \in Copied(p) \cup {f} |-> IF g = f THEN Sanitize(raw[f]) ELSE @[g]]])
  /\ OnlyPub
(* The receipt of create_publication, with the scan's hash that publish adds. *)
WriteReceipt(p) ==
  /\ At(p, "copy") /\ Copied(p) = Required(pub[p].phase) /\ ProofHolds
  /\ LET files == pub[p].tmp.files
         cost == IF pub[p].phase = "final" THEN raw.cost ELSE None
     IN Step(p, Cmd("verify", pub[p].phase,
                    [files |-> files,
                     receipt |-> Receipt(pub[p].phase, files, Proof, scan, cost)]))
  /\ OnlyPub
VerifyPacket(p) ==
  /\ At(p, "verify")
  /\ Verifies(pub[p].tmp, pub[p].phase) /\ VerifiesSecret(pub[p].tmp)
  /\ Goto(p, "install") /\ OnlyPub
(* os.replace onto a packet that is there fails: the directory is not empty. *)
CanInstall == dest = NoDir
Install(p) ==
  /\ At(p, "install") /\ CanInstall
  /\ dest' = pub[p].tmp /\ Step(p, Idle)
  /\ UNCHANGED <<runVars, rawVars, snap, rec, envVars>>

(* The upgrade writes into the public directory. It tests that there is no   *)
(* cost, then opens the file, which truncates it, and writes the text; it    *)
(* reads the receipt, hashes the file as it is then, and replaces the        *)
(* receipt. Nothing keeps a second upgrade from passing the same test.       *)
Upgrading(q) == pub[q].pc \in {"up_open", "up_write", "up_hash", "up_receipt"}
\* Mutant: the cost that is there is written again.
Rewritable == TRUE
NoCostYet == "cost" \notin DOMAIN dest.files
TestCost(p) ==
  /\ At(p, "up_test") /\ NoCostYet
  /\ raced' = (raced \/ \E q \in Proc : Upgrading(q))
  /\ Goto(p, "up_open")
  /\ UNCHANGED <<runVars, rawVars, outVars, edits, kills>>
WriteCost(text) ==
  /\ dest' = [dest EXCEPT !.files =
       [f \in DOMAIN @ \cup {"cost"} |-> IF f = "cost" THEN text ELSE @[f]]]
  /\ UNCHANGED <<runVars, rawVars, snap, rec, envVars>>
OpenCost(p) == At(p, "up_open") /\ WriteCost(Partial) /\ Goto(p, "up_write")
FillCost(p) == At(p, "up_write") /\ WriteCost(Sanitize(raw.cost)) /\ Goto(p, "up_hash")
HashCost(p) ==
  /\ At(p, "up_hash")
  /\ LET old == dest.receipt
         files == [f \in DOMAIN old.files \cup {"cost"} |->
                     IF f = "cost" THEN dest.files["cost"] ELSE old.files[f]]
     IN Step(p, [pub[p] EXCEPT !.pc = "up_receipt",
               !.tmp.receipt = Receipt("final", files, old.proof, old.scan, raw.cost)])
  /\ OnlyPub
UpgradeReceipt(p) ==
  /\ At(p, "up_receipt")
  /\ dest' = [dest EXCEPT !.receipt = pub[p].tmp.receipt]
  /\ Step(p, Idle)
  /\ UNCHANGED <<runVars, rawVars, snap, rec, envVars>>

(* collect_final_cost: the query, then an exclusive write by way of a        *)
(* temporary file of a fixed name.                                           *)
BeginCost(p) ==
  /\ At(p, "idle") /\ settled /\ ctl.phase = "complete" /\ ctl.verified
  /\ ~costTmp /\ costTmp' = TRUE
  /\ Goto(p, "cost_link")
  /\ UNCHANGED <<runVars, raw, capResult, settled, outVars, envVars>>
LinkCost(p) ==
  /\ At(p, "cost_link")
  /\ raw' = IF raw.cost = None
            THEN [raw EXCEPT !.cost = [ver |-> 0, kind |-> "ident"]] ELSE raw
  /\ costTmp' = FALSE /\ Step(p, Idle)
  /\ UNCHANGED <<runVars, capResult, settled, outVars, envVars>>

(* publish_failed: take the snapshot, or reuse the one that is there. Its    *)
(* files are copied one by one while the run may go on.                      *)
SnapshotScan(p) ==
  /\ At(p, "idle") /\ ScanUsable
  /\ IF snap = NoSnap
     THEN Step(p, Cmd("snap_ctl", "failed", [NoDir EXCEPT !.receipt = [scan |-> scan]]))
     ELSE Step(p, Cmd("failed", "failed", NoDir))
  /\ OnlyPub
SnapshotController(p) ==
  /\ At(p, "snap_ctl") /\ ctl.phase # "none" /\ snap = NoSnap
  /\ snap' = [scan |-> pub[p].tmp.receipt.scan, ctl |-> ctl]
  /\ Step(p, Cmd("failed", "failed", NoDir))
  /\ UNCHANGED <<runVars, rawVars, dest, rec, envVars>>
InstallFailed(p) ==
  /\ At(p, "failed") /\ Observed(snap) /\ CanInstall
  /\ dest' = [NoDir EXCEPT !.receipt = FailedReceipt(snap)]
  /\ Step(p, Idle)
  /\ UNCHANGED <<runVars, rawVars, snap, rec, envVars>>

(* collect_recovery: after a failed packet, with a dead controller and no    *)
(* Terraform process, list the state and then take the inventory.            *)
\* Mutant: no look at the processes for Terraform.
QuietController == ~alive
Quiet == ~alive /\ ~tf
BeginRecovery(p) ==
  /\ At(p, "idle") /\ VerifiesFailed /\ Quiet
  /\ Goto(p, "rec_state") /\ OnlyPub
ListState(p) ==
  /\ At(p, "rec_state")
  /\ Step(p, [pub[p] EXCEPT !.pc = "rec_inventory", !.claim = "state" \notin res])
  /\ OnlyPub
TakeInventory(p) ==
  /\ At(p, "rec_inventory")
  /\ Step(p, [pub[p] EXCEPT !.pc = "rec_publish", !.claim = @ /\ res = {}])
  /\ OnlyPub
PublishRecovery(p) ==
  /\ At(p, "rec_publish") /\ VerifiesFailed
  /\ rec' = rec \cup {IF pub[p].claim THEN "recovered" ELSE "cleanup_unverified"}
  /\ Step(p, Idle)
  /\ UNCHANGED <<runVars, rawVars, snap, dest, envVars>>

RunNext ==
  \/ WriteSession \/ WriteScanReceipt \/ StartApply \/ ApplyUnconfirmed \/ StopLive
  \/ \E ok \in BOOLEAN : ApplyEnds(ok) \/ Destroy(ok) \/ Finish(ok)
  \/ TfCreates \/ TfOrphanEnds \/ CtlExits \/ CtlKilled \/ ManualDown
  \/ Bootstrap \/ CaptureExports \/ EditRaw \/ Settle
PublishNext(p) ==
  \/ \E phase \in Passing : BeginPublish(p, phase)
  \/ CopyText(p) \/ WriteReceipt(p) \/ VerifyPacket(p) \/ Install(p)
  \/ TestCost(p) \/ OpenCost(p) \/ FillCost(p) \/ HashCost(p) \/ UpgradeReceipt(p)
  \/ BeginCost(p) \/ LinkCost(p)
  \/ SnapshotScan(p) \/ SnapshotController(p) \/ InstallFailed(p)
  \/ BeginRecovery(p) \/ ListState(p) \/ TakeInventory(p) \/ PublishRecovery(p)
  \/ Refuse(p) \/ Kill(p)
Next == RunNext \/ \E p \in Proc : PublishNext(p)

Spec == Init /\ [][Next]_vars

-----------------------------------------------------------------------------
(* Properties.                                                               *)

(* No text of a public packet holds an identifier or a credential, although  *)
(* the private texts it was made from change after they were scanned, and    *)
(* whichever command was killed: publish scans before it copies and again    *)
(* before it installs, and the cost an upgrade writes in place is sanitized  *)
(* from a private text that nobody rewrites.                                 *)
NothingLeaks ==
  \A f \in DOMAIN dest.files : dest.files[f].kind \in {"clean", "partial"}

(* A packet that says the demonstration passed is about a run that did, with *)
(* its cleanup verified, and carries the export the capture receipt names,   *)
(* not one written over it between validate_proof and the copy.              *)
PassIsProven ==
  dest.receipt.phase \in Passing =>
    /\ ctl.phase = "complete" /\ ctl.passed
    /\ dest.files["cap"] = Sanitize(capResult)

(* Whatever public record says that cleanup is verified, nothing that the    *)
(* run paid for is left, then or later: failed_summary reads it from the     *)
(* observation it shares with its receipt; the recovery lists state and      *)
(* inventory only once no process is left that could create more.            *)
ClaimsHold ==
  (\/ dest.receipt.phase = "failed" /\ dest.receipt.claim
   \/ dest.receipt.phase \in Passing
   \/ "recovered" \in rec)
  => res = {}

Passes(d) == d.receipt.phase \in Passing
Cost(d) == d.files["cost"]

Grows ==
  dest # NoDir =>
    /\ Passes(dest) => Passes(dest') /\ dest'.receipt.proof = dest.receipt.proof
    /\ ~Passes(dest) => dest' = dest
    /\ \A f \in DOMAIN dest.files :
         /\ f \in DOMAIN dest'.files
         /\ f # "cost" => dest'.files[f] = dest.files[f]
    /\ dest.receipt.phase = "final" => /\ dest'.receipt.phase = "final"
                                       /\ raced \/ dest' = dest
    /\ dest'.receipt.phase = "final" =>
         /\ "cost" \in DOMAIN dest'.files
         /\ raced' \/ (Cost(dest') = Sanitize(raw.cost) /\ dest'.receipt.files = dest'.files)
(* A packet is never replaced, by no command whatever else runs or is        *)
(* killed: its texts other than the cost and the proof its receipt names     *)
(* stay, and a provisional packet becomes final only with its whole cost and *)
(* a receipt that names the hash of every text; a final one does not change  *)
(* any more. The last two fail only once two upgrades were past their        *)
(* tests for the cost at the same time: the second truncates and rewrites    *)
(* the cost of a packet that the first has finished (m4-evidence.py:1549).   *)
PacketsOnlyGrow == [][Grows]_dest
=============================================================================
