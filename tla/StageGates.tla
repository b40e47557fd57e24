----------------------------- MODULE StageGates -----------------------------
(***************************************************************************)
(* Staging of one AWS run, up to the terraform apply that starts to cost   *)
(* money: scripts/m4-preflight.py, m4-aws-account.py, m4-aws-inventory.py, *)
(* m4-stage.py, check-aws-plan.py and aws-terraform-guard.sh.  Each is a   *)
(* command of its own in a terminal of its own; they share the worktree,   *)
(* the evidence directory of the run, the saved plan and the image         *)
(* registry, and no lock keeps two of them apart.  The operator starts     *)
(* them in any order, twice if need be, at once if need be, and may stop   *)
(* any of them.  aws-live-run checks everything that was staged, spends    *)
(* the run's one session, checks it again and applies the plan.            *)
(*                                                                         *)
(* A file is what was observed when it was written, so that two files have *)
(* the same hash exactly when they are equal.                              *)
(***************************************************************************)
EXTENDS Naturals, FiniteSets

CONSTANTS Dated,        \* the dated observations: of "identity", "prices" and "inventory"
          MaxAge,       \* how old an observation may be (24 hours)
          Margin,       \* what is left of it before a session starts (15 minutes)
          MaxTime,      \* bound on the clock
          MaxPlans,     \* bound on the number of aws-plan commands
          MaxAdverse,   \* bound on edits, rebuilds and repeated observations
          MaxCommands   \* bound on the commands that run at once

ASSUME StageConstants ==
  /\ Dated \subseteq {"identity", "prices", "inventory"}
  /\ {MaxAge, Margin, MaxTime, MaxPlans, MaxAdverse, MaxCommands} \subseteq Nat
  /\ Margin <= MaxAge

VARIABLES
  clock,
  source,     \* "approved": HEAD is the approved commit and the worktree is clean
  local,      \* the revision the local image tag names
  registry,   \* the revision behind the immutable tag of the approved commit
  adverse,    \* how many edits, rebuilds and repeated observations there were
  receipt,    \* the evidence files of the observations, the preflight and the images
  plan,       \* the saved plan
  summary,    \* the reviewed summary of it
  packet,     \* the GO packet
  planned,    \* how many aws-plan commands removed the earlier plan
  mixed,      \* those of them that ran beside another one
  stage, planner, go, run   \* the commands: what each is at and holds

files    == <<receipt, plan, summary, packet>>
plans    == <<planned, mixed>>
commands == <<stage, planner, go, run>>
vars     == <<clock, source, local, registry, adverse, files, plans, commands>>

Absent == [file |-> "absent"]
Idle   == [at |-> "idle"]
Inputs == Dated \union {"preflight", "images"}

Present(f) == f # Absent
Fresh(t, now) == now - t <= MaxAge

Plans == 1..MaxPlans
Planning == \E k \in Plans : planner[k] # Idle

Running == {c \in {<<"stage", stage>>, <<"go", go>>, <<"run", run>>}
                    \union {<<"plan", planner[k], k>> : k \in Plans} :
              c[2].at \notin {"idle", "over"}}

MayStart   == Cardinality(Running) < MaxCommands
Clean      == source = "approved"
Preflighted == Present(receipt["preflight"]) /\ receipt["preflight"].good

Init ==
  /\ clock = 0 /\ source = "approved" /\ adverse = 0 /\ planned = 0 /\ mixed = {}
  /\ local = "approved" /\ registry = "absent"
  /\ receipt = [n \in Inputs |-> Absent]
  /\ plan = Absent /\ summary = Absent /\ packet = Absent
  /\ stage = Idle /\ planner = [k \in Plans |-> Idle] /\ go = Idle /\ run = Idle

-----------------------------------------------------------------------------
(* The world around the commands.                                          *)

Tick ==
  /\ clock < MaxTime
  /\ clock' = clock + 1
  /\ UNCHANGED <<source, local, registry, adverse, files, plans, commands>>

EditSource ==
  /\ adverse < MaxAdverse
  /\ source' = IF Clean THEN "edited" ELSE "approved"
  /\ adverse' = adverse + 1
  /\ UNCHANGED <<clock, local, registry, files, plans, commands>>

\* make m4-aws-images: a rebuild moves the local tag.
Rebuild ==
  /\ adverse < MaxAdverse
  /\ local' = IF local = "approved" THEN "other" ELSE "approved"
  /\ adverse' = adverse + 1
  /\ UNCHANGED <<clock, source, registry, files, plans, commands>>

-----------------------------------------------------------------------------
(* The preflight is run once: its receipt, passed or failed, stays.  One    *)
(* that fails writes its receipt too, whatever it failed at.               *)

Preflight(good) ==
  /\ ~Present(receipt["preflight"])
  /\ good => Clean
  /\ receipt' = [receipt EXCEPT !["preflight"] = [good |-> good]]
  /\ UNCHANGED <<clock, source, local, registry, adverse, plan, summary, packet,
                 plans, commands>>

-----------------------------------------------------------------------------
(* The dated observations.  Account and inventory are stamped, and written *)
(* also when they fail their gate, the account only of a clean worktree;   *)
(* prices carry the time of the review the operator did, and are refused   *)
(* when they fail or are too old.                                          *)

Observe(n, good, at) ==
  /\ n \in Dated
  /\ MayStart /\ Preflighted
  /\ Present(receipt[n]) => adverse < MaxAdverse
  /\ receipt' = [receipt EXCEPT ![n] = [good |-> good, at |-> at]]
  /\ adverse' = IF Present(receipt[n]) THEN adverse + 1 ELSE adverse
  /\ UNCHANGED <<clock, source, local, registry, plan, summary, packet,
                 plans, commands>>

ObserveAws(n, good) == (n = "identity" => Clean) /\ Observe(n, good, clock)

ObservePrices(at) ==
  /\ Fresh(at, clock)
  /\ Observe("prices", TRUE, at)
  /\ Present(receipt["prices"]) => receipt["prices"].at <= at

-----------------------------------------------------------------------------
(* stage-images: an image already behind the tag is pulled and inspected;  *)
(* otherwise the local one is inspected, tagged and pushed.                *)

\* Mutant: an image that is already in the registry is not inspected again.
TrustRegistry(revision) == TRUE

Acceptable(revision) == revision = "approved"

StartStage ==
  /\ MayStart /\ stage = Idle /\ Preflighted /\ Clean
  /\ IF registry = "absent"
     THEN local = "approved" /\ stage' = [at |-> "push", blind |-> FALSE]
     ELSE Acceptable(registry) /\ stage' = [at |-> "write", blind |-> FALSE]
  /\ UNCHANGED <<clock, source, local, registry, adverse, files, plans,
                 planner, go, run>>

\* The tag may have moved since it was inspected ("blind").
Push ==
  /\ stage.at = "push"
  /\ registry' = local
  /\ stage' = [at |-> "write", blind |-> local # "approved"]
  /\ UNCHANGED <<clock, source, local, adverse, files, plans,
                 planner, go, run>>

WriteImages ==
  /\ stage.at = "write"
  /\ receipt' = [receipt EXCEPT !["images"] =
                   [good |-> registry = "approved", blind |-> stage.blind]]
  /\ stage' = Idle
  /\ UNCHANGED <<clock, source, local, registry, adverse, plan, summary, packet,
                 plans, planner, go, run>>

-----------------------------------------------------------------------------
(* aws-plan: the earlier plan, summary and packet go first, then the new   *)
(* plan is saved, shown and judged, hashed, and its summary written.       *)
(* Terraform's state lock is held while a plan is made and no longer, so   *)
(* that two commands interleave at every other step; "mixed" are those     *)
(* that did.                                                               *)

\* Mutant: a re-plan leaves the earlier files until it replaces them.
Keep == UNCHANGED <<plan, summary, packet>>

Discard == plan' = Absent /\ summary' = Absent /\ packet' = Absent

StartPlan ==
  /\ MayStart /\ Clean
  /\ planned < MaxPlans
  /\ planned' = planned + 1
  /\ mixed' = IF Planning THEN mixed \union {planned + 1} \union {k \in Plans : planner[k] # Idle}
                         ELSE mixed
  /\ Discard
  /\ planner' = [planner EXCEPT ![planned + 1] = [at |-> "plan"]]
  /\ UNCHANGED <<clock, source, local, registry, adverse, receipt, stage, go, run>>

\* A step of one aws-plan that writes nothing, or one file.
PlanStep(k, from, next) ==
  /\ planner[k].at = from
  /\ planner' = [planner EXCEPT ![k] = next]
  /\ UNCHANGED <<clock, source, local, registry, adverse, receipt, packet, plans,
                 stage, go, run>>

SavePlan(k, good) ==
  /\ PlanStep(k, "plan", [at |-> "show"])
  /\ plan' = [number |-> k, good |-> good, at |-> clock]
  /\ UNCHANGED summary

\* The gate of check-aws-plan: counts, deletions, tags, nodes and cost.
PlanGate(p) == p.good

\* The plan that is there is shown, and judged.
ShowPlan(k) ==
  /\ Present(plan)
  /\ PlanStep(k, "show", [at |-> "hash", good |-> PlanGate(plan)])
  /\ UNCHANGED <<plan, summary>>

\* What check-aws-plan writes: the verdict on the plan it was shown, beside the
\* time and the hash of the file, which it reads afterwards.
SummaryOf(good) == [plan |-> plan, good |-> good]

HashPlan(k) ==
  /\ Present(plan)
  /\ PlanStep(k, "hash", [at |-> "write", summary |-> SummaryOf(planner[k].good)])
  /\ UNCHANGED <<plan, summary>>

WriteSummary(k) ==
  /\ PlanStep(k, "write", Idle)
  /\ summary' = planner[k].summary
  /\ UNCHANGED plan

-----------------------------------------------------------------------------
(* aws-go-no-go: reads and judges the inputs, hashes the files, writes.    *)

ObservationsPass ==
  \A n \in Dated : Present(receipt[n]) /\ receipt[n].good /\ Fresh(receipt[n].at, clock)

PlanPasses == Present(summary) /\ summary.good /\ Fresh(summary.plan.at, clock)

\* The image evidence names the approved revision whenever it is written.
ImagesPass == Present(receipt["images"])

InputsPass == Preflighted /\ ObservationsPass /\ PlanPasses /\ ImagesPass

StartGo ==
  /\ MayStart /\ go = Idle /\ Clean
  /\ InputsPass
  /\ go' = [at |-> "hash", plan |-> summary.plan, read |-> receipt]
  /\ UNCHANGED <<clock, source, local, registry, adverse, files, plans,
                 stage, planner, run>>

\* The files are hashed as they are now.  "torn" marks the packet that binds
\* an observation which replaced the one that was judged.
HashInputs ==
  /\ go.at = "hash"
  /\ go' = IF Present(summary)
           THEN [at |-> "write",
                 packet |-> [plan |-> go.plan, sum |-> summary, read |-> receipt,
                             torn |-> go.read # receipt, at |-> clock]]
           ELSE Idle
  /\ UNCHANGED <<clock, source, local, registry, adverse, files, plans,
                 stage, planner, run>>

WriteGo ==
  /\ go.at = "write"
  /\ packet' = go.packet
  /\ go' = Idle
  /\ UNCHANGED <<clock, source, local, registry, adverse, receipt, plan, summary,
                 plans, stage, planner, run>>

-----------------------------------------------------------------------------
(* aws-live-run and the apply it guards.                                   *)

\* Mutant: only the plan and its summary are compared with the packet.
BoundPlan ==
  /\ Present(packet) /\ Present(summary)
  /\ packet.plan = summary.plan /\ packet.sum = summary

\* verify_go_receipt: what the packet binds is still there ...
Bound ==
  /\ Present(packet) /\ Present(summary)
  /\ packet.plan = summary.plan /\ packet.sum = summary
  /\ packet.read = receipt

\* ... and none of it is older than a day at the given time.
Current(now) ==
  /\ Fresh(packet.at, now) /\ Fresh(summary.plan.at, now)
  /\ \A n \in Dated : Present(receipt[n]) /\ Fresh(receipt[n].at, now)

SamePlan == Present(plan) /\ packet.plan = plan

\* A step of the run ends it, or sends it on.
Check(from, next) ==
  /\ run.at = from
  /\ run' = next
  /\ UNCHANGED <<clock, source, local, registry, adverse, files, plans,
                 stage, planner, go>>

\* verify-go-no-go --before-session, which takes its time once: it checks what is
\* there at that time ...
StartRun ==
  /\ MayStart /\ Preflighted /\ Clean
  /\ Bound /\ SamePlan /\ Current(clock)
  /\ Check("idle", [at |-> "reserve", checked |-> clock])

\* Mutant: the session is started on inputs that are about to expire.
CurrentNow == Current(run.checked)

\* ... then again, that it is all there, for the time when the apply may still be
\* under way ...
CurrentForApply == Current(run.checked + Margin)

CheckReserve ==
  /\ Check("reserve", [at |-> "address", checked |-> run.checked])
  /\ Bound /\ SamePlan /\ CurrentForApply

\* ... and at last the worktree, and the operator's address against the plan.
CheckAddress ==
  /\ Clean /\ Present(plan)
  /\ Check("address", [at |-> "session", checked |-> run.checked])

\* A check that fails before the session leaves the run unspent.
RefuseRun == \E pc \in {"reserve", "address", "session"} : Check(pc, Idle)

\* The session starts with a time of its own; the run is spent.
StartSession ==
  Check("session", [at |-> "source", checked |-> run.checked, session |-> clock])

\* A check of the guard that fails ends the run, and the reason is kept.
Over(why) == [at |-> "over", why |-> why]
To(pc)    == [at |-> pc, checked |-> run.checked, session |-> run.session]

CheckSource ==
  Check("source", IF Clean /\ Present(plan) /\ Present(summary) THEN To("show")
                                                                ELSE Over("source"))

\* Whether an aws-plan was at work at a time, or has been begun since.
Since     == [planning |-> Planning, began |-> planned]
Beside(s) == s.planning \/ s.began # planned

\* check-aws-plan once more: what is there is shown and judged ...
ShownTo(pc, shown) == [at |-> pc, checked |-> run.checked, session |-> run.session,
                       shown |-> shown]

ShowAgain ==
  Check("show", IF Present(plan) /\ PlanGate(plan) THEN ShownTo("compare", Since)
                                                  ELSE Over("plan"))

\* ... and its summary, with the hash taken now, compared with the reviewed one.
SameSummary == Present(plan) /\ summary = SummaryOf(TRUE)

CompareAgain ==
  Check("compare", IF SameSummary THEN ShownTo("verify", run.shown) ELSE Over("plan"))

\* The age of the packet is looked at first, the others once it is all there.
Expired ==
  Present(packet) /\ (~Fresh(packet.at, clock) \/ (Bound /\ ~Current(clock)))

\* verify-go-no-go, after one more comparison of the plan's hash.
VerifyGo ==
  Check("verify", IF ~(Present(plan) /\ Present(summary) /\ summary.plan = plan)
                    THEN Over("plan")
                  ELSE IF Expired
                    THEN [at |-> "over", why |-> "age", checked |-> run.checked,
                          session |-> run.session, when |-> clock]
                  ELSE IF ~(Bound /\ SamePlan)
                    THEN Over("packet")
                  ELSE [at |-> "apply", read |-> receipt, torn |-> packet.torn,
                        shown |-> run.shown, verified |-> Since])

\* The controller, budget and EKS support checks come last.
GuardShapeFails == Check("apply", Over("guard"))

\* terraform apply reads the plan file as it is then.  "overlap" and "beside": an
\* aws-plan ran since the packet was verified, or since the plan was judged again.
Apply ==
  Check("apply", IF ~Present(plan) THEN Over("plan")
                 ELSE [at |-> "over", why |-> "applied", plan |-> plan, latest |-> planned,
                       overlap |-> Beside(run.verified), beside |-> Beside(run.shown),
                       mixed |-> plan.number \in mixed,
                       torn |-> run.torn \/ run.read # receipt,
                       sound |-> \A n \in Dated : receipt[n].good])

-----------------------------------------------------------------------------
\* A command that fails or is stopped leaves the files as they are.
Stopped ==
  /\ \/ /\ stage # Idle   /\ stage' = Idle   /\ UNCHANGED <<planner, go>>
     \/ /\ go # Idle      /\ go' = Idle      /\ UNCHANGED <<stage, planner>>
     \/ \E k \in Plans :
          /\ planner[k] # Idle
          /\ planner' = [planner EXCEPT ![k] = Idle]
          /\ UNCHANGED <<stage, go>>
  /\ UNCHANGED <<clock, source, local, registry, adverse, files, plans, run>>

Next ==
  \/ Tick \/ EditSource \/ Rebuild
  \/ \E good \in BOOLEAN : Preflight(good)
  \/ \E n \in Dated \ {"prices"}, good \in BOOLEAN : ObserveAws(n, good)
  \/ \E at \in 0..clock : ObservePrices(at)
  \/ StartStage \/ Push \/ WriteImages
  \/ StartPlan
  \/ \E k \in Plans, good \in BOOLEAN : SavePlan(k, good)
  \/ \E k \in Plans : ShowPlan(k) \/ HashPlan(k) \/ WriteSummary(k)
  \/ StartGo \/ HashInputs \/ WriteGo
  \/ StartRun \/ CheckReserve \/ CheckAddress \/ RefuseRun \/ StartSession
  \/ CheckSource \/ ShowAgain \/ CompareAgain
  \/ VerifyGo \/ GuardShapeFails \/ Apply
  \/ Stopped

Spec == Init /\ [][Next]_vars

-----------------------------------------------------------------------------
Applied == run.at = "over" /\ run.why = "applied"

(* The plan that terraform applies passed the plan gate itself, is the one *)
(* its summary and the GO packet were written about, and no aws-plan was   *)
(* begun after it, even one that failed (aws-terraform-guard.sh:178-179),  *)
(* unless an aws-plan runs while the apply is being guarded, or the plan   *)
(* was made by one of two that ran at once: nothing in the code keeps them *)
(* apart, and the plan file is read last by terraform.  One that was made  *)
(* by two has still passed the gate, when the guard judged it again,       *)
(* unless an aws-plan ran since then (aws-terraform-guard.sh:264-279).     *)
AppliesReviewedPlan ==
  Applied =>
    /\ run.overlap \/ run.mixed \/ (run.plan.good /\ run.plan.number = run.latest)
    /\ run.beside \/ run.plan.good

(* An apply never starts on an observation that failed, not even when the  *)
(* failing one replaced, after the GO, the one that was judged, unless it  *)
(* replaced it while the packet was being built or after it was verified   *)
(* for the last time (m4-stage.py:844-1161, 1209-1216).                    *)
InputsHold == Applied => run.torn \/ run.sound

(* The one session of the run is not lost to the clock: an apply that is   *)
(* guarded within the reserve is never refused because something staged    *)
(* has expired, also when it was staged again or replaced meanwhile.  The  *)
(* reserve counts from the time of the check before the session, which it  *)
(* is added to (m4-stage.py:1253-1270), and not from the session.          *)
NoExpiryWithinReserve ==
  run.at = "over" /\ run.why = "age" => run.when > run.checked + Margin

(* The image evidence is about the approved revision whoever pushed the    *)
(* image, also after an earlier push that was stopped half way, unless the *)
(* image was rebuilt during the very push it reports: that one records the *)
(* inspection made before the push (m4-stage.py:437-448).                  *)
ImagesAreApproved ==
  Present(receipt["images"]) => receipt["images"].good \/ receipt["images"].blind
=============================================================================
