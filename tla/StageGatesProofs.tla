-------------------------- MODULE StageGatesProofs --------------------------
(***************************************************************************)
(* What an apply starts from, for any allowance and age, any number of     *)
(* plans, edits and repeated observations, and any number of commands that *)
(* run at once.                                                            *)
(*                                                                         *)
(* None of the properties is inductive: what the apply reads was judged    *)
(* by one command, bound by a second and compared by a third, each of them *)
(* on files that others were replacing.                                    *)
(***************************************************************************)
EXTENDS StageGates, TLAPS

GoodReceipts(read) == \A n \in Dated : read[n].good

(* The files: one value per input, each dated one with its time.           *)
ReceiptsOK ==
  /\ clock \in Nat /\ planned \in Nat
  /\ receipt = [n \in Inputs |-> receipt[n]]
  /\ \A n \in Dated : Present(receipt[n]) => receipt[n].at \in Nat

(* An aws-plan that ran beside no other is the last one begun, and nobody *)
(* else writes: its plan is the last one, and a good summary tells of a    *)
(* good plan, unless the plan is one of two made at once.                  *)
Sound(p)       == p.number \notin mixed => p.good
GoodSummary(s) == s.good => Sound(s.plan)

Alone(k) == k = planned /\ \A j \in Plans : j # k => planner[j] = Idle

PlansOK ==
  /\ planner = [k \in Plans |-> planner[k]]
  /\ \A k \in Plans : planner[k] # Idle => k <= planned /\ (k \in mixed \/ Alone(k))
  /\ Present(plan) => plan.at \in Nat /\ (plan.number \in mixed \/ Alone(plan.number))
  /\ Present(summary) => GoodSummary(summary)
  /\ \A k \in Plans :
       /\ planner[k].at = "hash" /\ planner[k].good /\ Present(plan) /\ plan.number = k
            => plan.good
       /\ planner[k].at = "write" => GoodSummary(planner[k].summary)

(* A packet binds a plan that passed and, unless it is torn, observations  *)
(* that passed.                                                            *)
PacketOK(p) ==
  /\ p.at \in Nat /\ p.at <= clock
  /\ Sound(p.plan)
  /\ p.torn \/ GoodReceipts(p.read)

PacketsOK ==
  /\ Present(packet) => PacketOK(packet)
  /\ go.at = "hash" => Sound(go.plan) /\ GoodReceipts(go.read)
  /\ go.at = "write" => /\ PacketOK(go.packet)
                        /\ Present(packet) => packet.at <= go.packet.at

(* Once the reserve has been checked, nothing that the run may still be    *)
(* compared with expires within it: what replaces a file is as young as    *)
(* the check, or younger than the file.                                    *)
Lasts(t) == run.checked + Margin <= t + MaxAge

Reserved == {"address", "session", "source", "show", "compare", "verify"}

SessionOK ==
  /\ run.at \in Reserved \union {"reserve"} => run.checked \in Nat /\ run.checked <= clock
  /\ run.at \in Reserved =>
       /\ \A n \in Dated : Present(receipt[n]) /\ Lasts(receipt[n].at)
       /\ Present(plan) => Lasts(plan.at)
       /\ Present(packet) => Lasts(packet.at)
       /\ go.at = "write" => Lasts(go.packet.at)

(* As long as no aws-plan runs, the plan is the one that was judged again, *)
(* and the one that the packet binds.                                      *)
Undisturbed(s) == ~Beside(s) => ~Planning

ApplyOK ==
  /\ run.at \in {"compare", "verify", "apply"} =>
       /\ run.shown.began \in Nat /\ run.shown.began <= planned
       /\ Undisturbed(run.shown)
       /\ ~Beside(run.shown) /\ Present(plan) => plan.good
  /\ run.at = "apply" =>
       /\ run.verified.began \in Nat /\ run.verified.began <= planned
       /\ Undisturbed(run.verified)
       /\ ~Beside(run.verified) /\ Present(plan) => Sound(plan)
       /\ run.torn \/ GoodReceipts(run.read)

(* Only a tag that was inspected is reported, unless it moved in the push. *)
ImagesOK ==
  /\ stage.at = "write" => registry = "approved" \/ stage.blind
  /\ ImagesAreApproved

Outcomes == AppliesReviewedPlan /\ InputsHold /\ NoExpiryWithinReserve

IInv == ReceiptsOK /\ PlansOK /\ PacketsOK /\ SessionOK /\ ApplyOK /\ ImagesOK /\ Outcomes

-----------------------------------------------------------------------------
LEMMA Names == /\ {"images", "preflight"} \subseteq Inputs /\ Dated \subseteq Inputs
               /\ "images" \notin Dated /\ "preflight" \notin Dated
BY StageConstants DEF StageConstants, Inputs

LEMMA PresentFiles == /\ \A n, g, t : Present([number |-> n, good |-> g, at |-> t])
                      /\ \A g, t : Present([good |-> g, at |-> t])
BY DEF Present, Absent

LEMMA InitOK == Init => IInv
<1> SUFFICES ASSUME Init PROVE IInv OBVIOUS
<1>1. ReceiptsOK /\ ImagesOK
  BY Names DEF Init, ReceiptsOK, ImagesOK, ImagesAreApproved, Present, Idle
<1>2. PlansOK /\ PacketsOK
  BY DEF Init, PlansOK, PacketsOK, Present, Idle
<1>3. SessionOK /\ ApplyOK /\ Outcomes
  BY DEF Init, SessionOK, Reserved, ApplyOK, Outcomes, AppliesReviewedPlan, InputsHold,
         NoExpiryWithinReserve, Applied, Idle
<1> QED BY <1>1, <1>2, <1>3 DEF IInv

-----------------------------------------------------------------------------
(* A step of the world, or of nobody.                                      *)

\* What the files and the commands at work say of one another.
LEMMA FilesKeep ==
  ASSUME IInv, clock' \in Nat, clock' >= clock,
         UNCHANGED <<plan, summary, packet, plans, planner, go>>
  PROVE  PlansOK' /\ PacketsOK'
<1>1. UNCHANGED <<planned, mixed>> BY DEF plans
<1>2. PlansOK'
  BY <1>1 DEF IInv, PlansOK, Alone, GoodSummary, Sound, Present
<1>3. PacketsOK'
  BY <1>1 DEF IInv, ReceiptsOK, PacketsOK, PacketOK, Sound, GoodReceipts, Present
<1> QED BY <1>2, <1>3

LEMMA ApplyStays ==
  ASSUME IInv, UNCHANGED <<plan, plans, planner, run>>
  PROVE  ApplyOK' /\ Outcomes'
<1>1. UNCHANGED <<planned, mixed>> BY DEF plans
<1>2. ApplyOK'
  BY <1>1 DEF IInv, ApplyOK, Undisturbed, Beside, Planning, Sound, GoodReceipts, Present
<1>3. Outcomes'
  BY DEF IInv, Outcomes, AppliesReviewedPlan, InputsHold, NoExpiryWithinReserve, Applied
<1> QED BY <1>2, <1>3

LEMMA FrameKeeps ==
  ASSUME IInv, clock' \in Nat, clock' >= clock,
         UNCHANGED <<registry, receipt, plan, summary, packet, plans,
                     stage, planner, go, run>>
  PROVE  IInv'
<1>1. ReceiptsOK' /\ ImagesOK'
  BY DEF IInv, ReceiptsOK, ImagesOK, ImagesAreApproved, Present, plans
<1>2. SessionOK'
  BY DEF IInv, ReceiptsOK, SessionOK, Lasts, Present
<1> QED BY <1>1, <1>2, FilesKeep, ApplyStays DEF IInv

LEMMA WorldKeeps ==
  ASSUME IInv, Tick \/ EditSource \/ Rebuild \/ UNCHANGED vars
  PROVE  IInv'
BY FrameKeeps DEF IInv, ReceiptsOK, Tick, EditSource, Rebuild, vars, files, commands, plans

-----------------------------------------------------------------------------
(* The writers of the evidence.                                            *)

\* A new file does not lie further back than the session, or than the file it
\* replaces.
LEMMA EvidenceKeeps ==
  ASSUME IInv, NEW n \in Inputs, NEW f,
         receipt' = [receipt EXCEPT ![n] = f], Present(f),
         n \in Dated => /\ f.at \in Nat
                        /\ \/ f.at = clock
                           \/ Present(receipt[n]) => f.at >= receipt[n].at,
         n = "images" => f.good \/ f.blind,
         UNCHANGED <<clock, plan, summary, packet, plans, planner, go, run>>,
         UNCHANGED <<registry, stage>> \/ stage' = Idle
  PROVE  IInv'
<1>1. \A m \in Inputs : receipt'[m] = IF m = n THEN f ELSE receipt[m]
  BY DEF IInv, ReceiptsOK
<1>2. ReceiptsOK'
  BY <1>1, Names DEF IInv, ReceiptsOK, plans
<1>3. PlansOK' /\ PacketsOK' /\ ApplyOK' /\ Outcomes'
  BY FilesKeep, ApplyStays DEF IInv, ReceiptsOK
<1>4. SessionOK'
  <2> SUFFICES ASSUME run.at \in Reserved, NEW m \in Dated
               PROVE  Present(receipt'[m]) /\ Lasts(receipt'[m].at)
    BY DEF IInv, SessionOK, Reserved, Lasts, Present
  <2>1. /\ run.checked \in Nat /\ run.checked <= clock
        /\ Present(receipt[m]) /\ Lasts(receipt[m].at)
    BY DEF IInv, SessionOK
  <2>2. CASE m # n
    BY <1>1, <2>1, <2>2, Names
  <2>3. CASE m = n
    <3>1. receipt'[m] = f /\ f.at \in Nat /\ (f.at = clock \/ f.at >= receipt[m].at)
      BY <1>1, <2>1, <2>3
    <3>2. {clock, receipt[m].at, Margin, MaxAge} \subseteq Nat /\ Margin <= MaxAge
      BY <2>1, StageConstants DEF StageConstants, IInv, ReceiptsOK
    <3>3. Lasts(f.at)
      BY <2>1, <3>1, <3>2 DEF Lasts
    <3> QED BY <3>1, <3>3
  <2> QED BY <2>2, <2>3
<1>5. ImagesOK'
  BY <1>1, Names DEF IInv, ImagesOK, ImagesAreApproved, Idle, Present
<1> QED BY <1>2, <1>3, <1>4, <1>5 DEF IInv

LEMMA PreflightKeeps ==
  ASSUME IInv, NEW good \in BOOLEAN, Preflight(good)
  PROVE  IInv'
<1>1. Present([good |-> good]) BY DEF Present, Absent
<1> QED BY <1>1, Names, EvidenceKeeps DEF Preflight, commands

LEMMA ObservationsKeep ==
  ASSUME IInv,
         \/ \E n \in Dated \ {"prices"}, good \in BOOLEAN : ObserveAws(n, good)
         \/ \E at \in 0..clock : ObservePrices(at)
  PROVE  IInv'
<1>1. ASSUME NEW n \in {"identity", "inventory", "prices"}, NEW good \in BOOLEAN,
             NEW at \in Nat, Observe(n, good, at),
             at = clock \/ (Present(receipt[n]) => at >= receipt[n].at)
      PROVE  IInv'
  <2>1. n \in Inputs BY <1>1, Names DEF Observe
  <2> QED BY <1>1, <2>1, Names, PresentFiles, EvidenceKeeps DEF Observe, commands
<1>2. clock \in Nat BY DEF IInv, ReceiptsOK
<1>3. CASE \E n \in Dated \ {"prices"}, good \in BOOLEAN : ObserveAws(n, good)
  <2>1. PICK n \in Dated, good \in BOOLEAN : Observe(n, good, clock)
    BY <1>3 DEF ObserveAws
  <2>2. n \in {"identity", "inventory", "prices"}
    BY StageConstants
  <2> QED BY <1>1, <1>2, <2>1, <2>2
<1>4. CASE \E at \in 0..clock : ObservePrices(at)
  <2>1. PICK at \in 0..clock : ObservePrices(at)
    BY <1>4
  <2>2. at \in Nat
    BY <1>2
  <2>3. Observe("prices", TRUE, at)
    BY <2>1, Zenon DEF ObservePrices
  <2>4. Present(receipt["prices"]) => at >= receipt["prices"].at
    BY <2>1 DEF ObservePrices
  <2>5. "prices" \in {"identity", "inventory", "prices"} /\ TRUE \in BOOLEAN
    OBVIOUS
  <2> QED BY <1>1, <2>2, <2>3, <2>4, <2>5, Zenon
<1> QED BY <1>3, <1>4

LEMMA StageKeeps ==
  ASSUME IInv, StartStage \/ Push \/ WriteImages
  PROVE  IInv'
<1>1. CASE WriteImages
  <2>1. Present([good |-> registry = "approved", blind |-> stage.blind])
    BY DEF Present, Absent
  <2>2. registry = "approved" \/ stage.blind
    BY <1>1 DEF WriteImages, IInv, ImagesOK
  <2> QED BY <1>1, <2>1, <2>2, Names, EvidenceKeeps DEF WriteImages, Idle
<1>2. CASE StartStage \/ Push
  <2>1. UNCHANGED <<clock, receipt, plan, summary, packet, plans, planner, go, run>>
    BY <1>2 DEF StartStage, Push, files
  <2>2. ImagesOK'
    <3>1. ImagesAreApproved'
      BY <2>1 DEF IInv, ImagesOK, ImagesAreApproved, Present
    <3>2. CASE StartStage
      BY <3>1, <3>2 DEF ImagesOK, StartStage, Acceptable
    <3>3. CASE Push
      <4>1. registry' = local /\ (stage'.blind <=> local # "approved")
        BY <3>3 DEF Push
      <4> QED BY <3>1, <4>1 DEF ImagesOK
    <3> QED BY <1>2, <3>2, <3>3
  <2>3. ReceiptsOK' /\ SessionOK'
    BY <2>1 DEF IInv, ReceiptsOK, SessionOK, Lasts, Present, plans
  <2>4. PlansOK' /\ PacketsOK' /\ ApplyOK' /\ Outcomes'
    BY <2>1, FilesKeep, ApplyStays DEF IInv, ReceiptsOK
  <2> QED BY <2>2, <2>3, <2>4 DEF IInv
<1> QED BY <1>1, <1>2

-----------------------------------------------------------------------------
(* The plan and its summary.                                               *)

LEMMA ElsewhereKeeps ==
  ASSUME IInv, UNCHANGED <<clock, receipt, registry, stage, run>>
  PROVE  ImagesOK' /\ Outcomes'
BY DEF IInv, ImagesOK, ImagesAreApproved, Outcomes, AppliesReviewedPlan, InputsHold,
       NoExpiryWithinReserve, Applied, Present

\* A plan that is begun takes away what was staged, and is noticed by an apply.
LEMMA StartPlanKeeps ==
  ASSUME IInv, StartPlan
  PROVE  IInv'
<1>1. /\ UNCHANGED <<clock, receipt, registry, stage, go, run>>
      /\ planned \in Nat /\ planned' = planned + 1
      /\ ~Present(plan') /\ ~Present(summary') /\ ~Present(packet')
      /\ mixed \subseteq mixed'
  BY DEF StartPlan, Discard, Present, IInv, ReceiptsOK
<1>2. planner' = [k \in Plans |-> IF k = planned + 1 THEN [at |-> "plan"] ELSE planner[k]]
  BY DEF StartPlan, IInv, PlansOK
<1>3. [at |-> "plan"] # Idle BY DEF Idle
<1>4. ImagesOK' /\ Outcomes'
  BY <1>1, ElsewhereKeeps
<1>5. ReceiptsOK'
  BY <1>1 DEF IInv, ReceiptsOK
<1>6. PlansOK'
  <2>1. \A k \in Plans : planner'[k] # Idle => k <= planned' /\ (k \in mixed' \/ Alone(k)')
    <3> SUFFICES ASSUME NEW k \in Plans, planner'[k] # Idle
                 PROVE  k <= planned' /\ (k \in mixed' \/ Alone(k)')
      OBVIOUS
    <3>0. k \in Nat BY DEF Plans
    <3>1. k = planned + 1 \/ planner[k] # Idle BY <1>2
    <3>2. k <= planned' BY <1>1, <3>0, <3>1 DEF IInv, PlansOK
    <3>3. CASE Planning
      <4>1. mixed' = mixed \union {planned + 1} \union {j \in Plans : planner[j] # Idle}
        BY <3>3 DEF StartPlan
      <4> QED BY <3>1, <3>2, <4>1
    <3>4. CASE ~Planning
      BY <1>1, <1>2, <3>1, <3>4 DEF Planning, Alone
    <3> QED BY <3>2, <3>3, <3>4
  <2>2. (\A k \in Plans : planner[k].at = "write" => GoodSummary(planner[k].summary))'
    BY <1>1, <1>2 DEF IInv, PlansOK, GoodSummary, Sound
  <2> QED BY <1>1, <1>2, <2>1, <2>2 DEF PlansOK
<1>7. PacketsOK'
  BY <1>1 DEF IInv, PacketsOK, PacketOK, Sound, GoodReceipts, Present
<1>8. SessionOK'
  BY <1>1 DEF IInv, SessionOK, Lasts, Present
<1>9. ApplyOK'
  BY <1>1 DEF IInv, ApplyOK, Undisturbed, Beside, GoodReceipts
<1> QED BY <1>4, <1>5, <1>6, <1>7, <1>8, <1>9 DEF IInv

\* A step of an aws-plan: what is left to show are its plan and its summary.
LEMMA PlanStepKeeps ==
  ASSUME IInv, NEW k \in Plans, NEW from, NEW next, from # "idle", PlanStep(k, from, next),
         Present(plan') => plan'.at \in Nat
                           /\ (plan' = plan \/ (plan'.number = k /\ plan'.at = clock)),
         Present(summary') /\ summary'.good /\ summary'.plan.number \notin mixed
           => summary'.plan.good,
         next.at = "hash" /\ next.good /\ Present(plan') /\ plan'.number = k => plan'.good,
         next.at = "write" => GoodSummary(next.summary)
  PROVE  IInv'
<1>1. /\ UNCHANGED <<clock, receipt, registry, stage, go, run, packet, planned, mixed>>
      /\ planner' = [j \in Plans |-> IF j = k THEN next ELSE planner[j]]
      /\ planner[k] # Idle
  BY DEF PlanStep, plans, Idle, IInv, PlansOK
<1>2. k \in mixed \/ Alone(k)
  BY <1>1 DEF IInv, PlansOK
<1>3. ImagesOK' /\ Outcomes'
  BY <1>1, ElsewhereKeeps
<1>4. ReceiptsOK'
  BY <1>1 DEF IInv, ReceiptsOK
<1>5. PlansOK'
  <2>1. \A j \in Plans : planner'[j] # Idle => planner[j] # Idle
    BY <1>1
  <2>2. \A n : Alone(n) => Alone(n)'
    BY <1>1, <2>1 DEF Alone
  <2>3. \A j \in Plans : planner'[j] # Idle => j <= planned' /\ (j \in mixed' \/ Alone(j)')
    BY <1>1, <2>1, <2>2 DEF IInv, PlansOK
  <2>4. (Present(plan) => plan.number \in mixed \/ Alone(plan.number))'
    <3> SUFFICES ASSUME Present(plan') PROVE plan'.number \in mixed \/ Alone(plan.number)'
      BY <1>1 DEF Present
    <3>1. PICK n : n = plan'.number OBVIOUS
    <3>2. n \in mixed \/ Alone(n)
      BY <1>2, <3>1 DEF IInv, PlansOK
    <3>3. CASE n \in mixed BY <3>1, <3>3
    <3>4. CASE Alone(n) BY <1>1, <2>1, <3>1, <3>4 DEF Alone
    <3> QED BY <3>2, <3>3, <3>4
  <2>5. ASSUME NEW j \in Plans, planner'[j].at = "hash", planner'[j].good,
               Present(plan'), plan'.number = j
        PROVE  plan'.good
    BY <1>1, <2>5 DEF IInv, PlansOK
  <2>7. (\A j \in Plans : planner[j].at = "write" => GoodSummary(planner[j].summary))'
    <3> SUFFICES ASSUME NEW j \in Plans, planner'[j].at = "write"
                 PROVE  GoodSummary(planner[j].summary)'
      OBVIOUS
    <3>1. PICK s : s = planner'[j].summary OBVIOUS
    <3>2. GoodSummary(s)
      BY <1>1, <3>1 DEF IInv, PlansOK
    <3> QED BY <1>1, <3>1, <3>2 DEF GoodSummary, Sound
  <2>8. (Present(summary) => GoodSummary(summary))'
    BY <1>1 DEF GoodSummary, Sound, Present
  <2> QED BY <1>1, <2>3, <2>4, <2>5, <2>7, <2>8 DEF PlansOK, Present
<1>6. PacketsOK'
  BY <1>1 DEF IInv, PacketsOK, PacketOK, Sound, GoodReceipts, Present
<1>7. SessionOK'
  <2> SUFFICES ASSUME run.at \in Reserved, Present(plan') PROVE Lasts(plan'.at)
    BY <1>1 DEF IInv, SessionOK, Lasts, Present
  <2>1. CASE plan' = plan
    BY <2>1 DEF IInv, SessionOK
  <2>2. CASE plan'.at = clock
    BY <2>2, StageConstants DEF IInv, ReceiptsOK, SessionOK, Lasts, StageConstants
  <2> QED BY <2>1, <2>2
<1>8. ApplyOK'
  <2>1. Planning BY <1>1 DEF Planning
  <2>2. \A s : Undisturbed(s) => Beside(s)' BY <1>1, <2>1 DEF Undisturbed, Beside
  <2> QED BY <1>1, <2>2 DEF IInv, ApplyOK, Undisturbed, GoodReceipts
<1> QED BY <1>3, <1>4, <1>5, <1>6, <1>7, <1>8 DEF IInv

LEMMA PlanningKeeps ==
  ASSUME IInv, NEW k \in Plans,
         \/ \E good \in BOOLEAN : SavePlan(k, good)
         \/ ShowPlan(k) \/ HashPlan(k) \/ WriteSummary(k)
  PROVE  IInv'
<1>1. ASSUME NEW good \in BOOLEAN, SavePlan(k, good) PROVE IInv'
  <2>1. PICK next : next = [at |-> "show"] OBVIOUS
  <2>2. PlanStep(k, "plan", next) /\ summary' = summary
    BY <1>1, <2>1 DEF SavePlan
  <2>3. plan'.number = k /\ plan'.at = clock /\ clock \in Nat
    BY <1>1 DEF SavePlan, IInv, ReceiptsOK
  <2>4. Present(summary) => GoodSummary(summary)
    BY DEF IInv, PlansOK
  <2> QED BY <2>1, <2>2, <2>3, <2>4, PlanStepKeeps DEF GoodSummary, Sound
<1>2. CASE ShowPlan(k)
  <2>1. PICK next : next = [at |-> "hash", good |-> PlanGate(plan)] OBVIOUS
  <2>2. PlanStep(k, "show", next) /\ plan' = plan /\ summary' = summary
    BY <1>2, <2>1 DEF ShowPlan
  <2>3. next.at = "hash" /\ (next.good => plan.good)
    BY <2>1 DEF PlanGate
  <2>4. (Present(summary) => GoodSummary(summary)) /\ (Present(plan) => plan.at \in Nat)
    BY DEF IInv, PlansOK
  <2> QED BY <2>2, <2>3, <2>4, PlanStepKeeps DEF GoodSummary, Sound
<1>3. CASE HashPlan(k)
  <2>1. PICK next : next = [at |-> "write", summary |-> SummaryOf(planner[k].good)] OBVIOUS
  <2>2. PlanStep(k, "hash", next) /\ plan' = plan /\ summary' = summary /\ Present(plan)
    BY <1>3, <2>1 DEF HashPlan
  <2>3. next.at = "write" /\ next.summary.plan = plan /\ next.summary.good = planner[k].good
    BY <2>1 DEF SummaryOf
  <2>4. planner[k].at = "hash" /\ planner[k] # Idle
    BY <2>2 DEF PlanStep, Idle
  <2>5. plan.number \notin mixed => plan.number = k
    BY <2>2, <2>4 DEF IInv, PlansOK, Alone
  <2>6. GoodSummary(next.summary)
    BY <2>2, <2>3, <2>4, <2>5 DEF IInv, PlansOK, GoodSummary, Sound
  <2>7. (Present(summary) => GoodSummary(summary)) /\ (Present(plan) => plan.at \in Nat)
    BY DEF IInv, PlansOK
  <2> QED BY <2>2, <2>3, <2>6, <2>7, PlanStepKeeps DEF GoodSummary, Sound
<1>4. CASE WriteSummary(k)
  <2>1. PICK next : next = Idle OBVIOUS
  <2>2. PlanStep(k, "write", next) /\ plan' = plan /\ summary' = planner[k].summary
    BY <1>4, <2>1 DEF WriteSummary
  <2>3. next.at = "idle"
    BY <2>1 DEF Idle
  <2>4. GoodSummary(planner[k].summary) /\ (Present(plan) => plan.at \in Nat)
    BY <2>2 DEF PlanStep, IInv, PlansOK
  <2> QED BY <2>2, <2>3, <2>4, PlanStepKeeps DEF GoodSummary, Sound
<1> QED BY <1>1, <1>2, <1>3, <1>4

-----------------------------------------------------------------------------
(* The packet.                                                             *)

LEMMA GoKeeps ==
  ASSUME IInv, StartGo \/ HashInputs \/ WriteGo
  PROVE  IInv'
<1>1. UNCHANGED <<clock, receipt, registry, stage, run, plan, summary, plans, planned,
                  mixed, planner>>
  BY DEF StartGo, HashInputs, WriteGo, files, plans
<1>2. ImagesOK' /\ Outcomes'
  BY <1>1, ElsewhereKeeps
<1>3. ReceiptsOK' /\ PlansOK' /\ ApplyOK'
  BY <1>1, ApplyStays DEF IInv, ReceiptsOK, PlansOK, Alone, GoodSummary, Sound, Present
<1>4. PacketsOK'
  <2>1. CASE StartGo
    <3>1. packet' = packet /\ go'.at = "hash" /\ go'.plan = summary.plan /\ go'.read = receipt
      BY <2>1 DEF StartGo, files
    <3>2. Sound(summary.plan) /\ GoodReceipts(receipt)
      BY <2>1 DEF StartGo, InputsPass, PlanPasses, ObservationsPass, GoodReceipts, IInv, PlansOK,
                  GoodSummary
    <3> QED BY <1>1, <3>1, <3>2 DEF IInv, PacketsOK, PacketOK, Sound, GoodReceipts, Present
  <2>2. CASE HashInputs
    <3>1. CASE go' = Idle
      BY <1>1, <2>2, <3>1 DEF HashInputs, files, Idle, IInv, PacketsOK, PacketOK, Sound, GoodReceipts, Present
    <3>2. CASE go' # Idle
      <4>1. /\ packet' = packet /\ go.at = "hash" /\ go'.at = "write"
            /\ go'.packet.plan = go.plan /\ go'.packet.read = receipt
            /\ go'.packet.torn <=> go.read # receipt
            /\ go'.packet.at = clock
        BY <2>2, <3>2 DEF HashInputs, files
      <4>2. Sound(go.plan) /\ GoodReceipts(go.read)
        BY <4>1 DEF IInv, PacketsOK
      <4>3. PacketOK(go'.packet)
        BY <4>1, <4>2 DEF PacketOK, GoodReceipts, IInv, ReceiptsOK
      <4> QED BY <1>1, <4>1, <4>3 DEF IInv, PacketsOK, PacketOK, Sound, GoodReceipts, Present
    <3> QED BY <3>1, <3>2
  <2>3. CASE WriteGo
    BY <1>1, <2>3 DEF WriteGo, Idle, IInv, PacketsOK, PacketOK, Sound, GoodReceipts, Present
  <2> QED BY <2>1, <2>2, <2>3
<1>5. SessionOK'
  <2> SUFFICES ASSUME run.at \in Reserved
               PROVE  /\ Present(packet') => Lasts(packet'.at)
                      /\ go'.at = "write" => Lasts(go'.packet.at)
    BY <1>1 DEF IInv, SessionOK, Reserved, Lasts, Present
  <2>1. /\ run.checked \in Nat /\ run.checked <= clock
        /\ Present(packet) => Lasts(packet.at)
        /\ go.at = "write" => Lasts(go.packet.at)
    BY DEF IInv, SessionOK, Reserved
  <2>2. CASE StartGo
    BY <2>1, <2>2 DEF StartGo, files, Present
  <2>3. CASE HashInputs
    <3>1. packet' = packet /\ (go'.at = "write" => go'.packet.at = clock)
      BY <2>3 DEF HashInputs, Idle, files
    <3>2. Lasts(clock)
      BY <2>1, StageConstants DEF Lasts, StageConstants, IInv, ReceiptsOK
    <3> QED BY <2>1, <3>1, <3>2 DEF Present
  <2>4. CASE WriteGo
    BY <2>1, <2>4 DEF WriteGo, Idle, Present
  <2> QED BY <2>2, <2>3, <2>4
<1> QED BY <1>2, <1>3, <1>4, <1>5 DEF IInv

-----------------------------------------------------------------------------
(* The run.                                                                *)

\* What a step of the run leaves alone, but for the run itself.
LEMMA RunKeeps ==
  ASSUME IInv, UNCHANGED <<clock, receipt, registry, stage, plan, summary, packet,
                           plans, planner, go>>
  PROVE  ReceiptsOK' /\ PlansOK' /\ PacketsOK' /\ ImagesOK'
<1>1. ReceiptsOK' /\ ImagesOK'
  BY DEF IInv, ReceiptsOK, ImagesOK, ImagesAreApproved, Present, plans
<1> QED BY <1>1, FilesKeep DEF IInv, ReceiptsOK

LEMMA CheckLeaves ==
  ASSUME IInv, NEW from, NEW next, Check(from, next)
  PROVE  /\ run.at = from /\ run' = next
         /\ UNCHANGED <<clock, receipt, registry, stage, plan, summary, packet, plans,
                        planned, mixed, planner, go>>
         /\ ReceiptsOK' /\ PlansOK' /\ PacketsOK' /\ ImagesOK'
<1>1. /\ run.at = from /\ run' = next
      /\ UNCHANGED <<clock, receipt, registry, stage, plan, summary, packet, plans,
                     planned, mixed, planner, go>>
  BY DEF Check, files, plans
<1> QED BY <1>1, RunKeeps

\* The time of the check is taken.
LEMMA StartRunKeeps ==
  ASSUME IInv, StartRun
  PROVE  IInv'
<1>1. PICK next : next = [at |-> "reserve", checked |-> clock] OBVIOUS
<1>2. Check("idle", next) BY <1>1 DEF StartRun
<1>3. /\ run' = next /\ clock' = clock
      /\ ReceiptsOK' /\ PlansOK' /\ PacketsOK' /\ ImagesOK'
  BY <1>2, CheckLeaves
<1>4. SessionOK' /\ ApplyOK' /\ Outcomes'
  BY <1>1, <1>3 DEF IInv, ReceiptsOK, SessionOK, Reserved, ApplyOK, Outcomes,
                    AppliesReviewedPlan, InputsHold, NoExpiryWithinReserve, Applied
<1> QED BY <1>3, <1>4 DEF IInv

\* What passes for the end of the reserve lasts for all of it.
LEMMA CheckReserveKeeps ==
  ASSUME IInv, CheckReserve
  PROVE  IInv'
<1>0. PICK next : next = [at |-> "address", checked |-> run.checked] OBVIOUS
<1>1. Check("reserve", next) BY <1>0 DEF CheckReserve
<1>2. /\ UNCHANGED <<clock, receipt, plan, summary, packet, planned, planner, go>>
      /\ run.at = "reserve" /\ run' = next
      /\ ReceiptsOK' /\ PlansOK' /\ PacketsOK' /\ ImagesOK'
  BY <1>1, CheckLeaves
<1>3. Present(plan) /\ Present(summary) /\ Present(packet) /\ plan = summary.plan
  BY DEF CheckReserve, Bound, SamePlan
<1>4. /\ Fresh(packet.at, run.checked + Margin) /\ Fresh(plan.at, run.checked + Margin)
      /\ \A n \in Dated : Present(receipt[n]) /\ Fresh(receipt[n].at, run.checked + Margin)
  BY <1>3 DEF CheckReserve, CurrentForApply, Current
<1>5. {run.checked, Margin, MaxAge, packet.at, plan.at} \subseteq Nat /\ run.checked <= clock
  BY <1>2, <1>3, StageConstants
     DEF StageConstants, IInv, SessionOK, PlansOK, PacketsOK, PacketOK
<1>6. run'.checked = run.checked /\ run'.at = "address" BY <1>0, <1>2
<1>7. \A t \in Nat : Fresh(t, run.checked + Margin) => Lasts(t)'
  BY <1>5, <1>6 DEF Fresh, Lasts
<1>8. SessionOK'
  <2>1. \A n \in Dated : Lasts(receipt[n].at)'
    BY <1>2, <1>4, <1>7 DEF IInv, ReceiptsOK
  <2>2. Lasts(packet.at)' /\ Lasts(plan.at)'
    BY <1>2, <1>4, <1>5, <1>7
  <2>3. go.at = "write" => Lasts(go.packet.at)'
    <3> SUFFICES ASSUME go.at = "write" PROVE Lasts(go.packet.at)'
      OBVIOUS
    <3>1. go.packet.at \in Nat /\ packet.at <= go.packet.at
      BY <1>3 DEF IInv, PacketsOK, PacketOK
    <3> QED BY <1>2, <1>5, <1>6, <2>2, <3>1 DEF Lasts
  <2> QED BY <1>2, <1>4, <1>5, <1>6, <2>1, <2>2, <2>3 DEF SessionOK, Reserved
<1>9. ApplyOK' /\ Outcomes'
  BY <1>6 DEF ApplyOK, Outcomes, AppliesReviewedPlan, InputsHold, NoExpiryWithinReserve, Applied
<1> QED BY <1>2, <1>8, <1>9 DEF IInv

\* A check that sends the run on with the time it has taken, or ends it for a reason
\* other than age.
LEMMA CheckKeeps ==
  ASSUME IInv, NEW from \in Reserved, NEW next, Check(from, next),
         \/ /\ next.at \in Reserved \ {"compare", "verify"}
            /\ next.checked = run.checked
         \/ next.at = "idle"
         \/ next.at = "over" /\ next.why \in {"source", "plan", "packet"}
  PROVE  IInv'
<1>1. /\ UNCHANGED <<clock, receipt, plan, packet, planned, planner, go>>
      /\ run.at = from /\ run' = next
      /\ ReceiptsOK' /\ PlansOK' /\ PacketsOK' /\ ImagesOK'
  BY CheckLeaves
<1>2. SessionOK' /\ ApplyOK' /\ Outcomes'
  BY <1>1 DEF IInv, SessionOK, Reserved, Lasts, ApplyOK, Outcomes, AppliesReviewedPlan,
              InputsHold, NoExpiryWithinReserve, Applied, Present
<1> QED BY <1>1, <1>2 DEF IInv

LEMMA SessionKeeps ==
  ASSUME IInv, CheckAddress \/ RefuseRun \/ StartSession
  PROVE  IInv'
<1>1. PICK a : a = [at |-> "session", checked |-> run.checked] OBVIOUS
<1>2. PICK s : s = [at |-> "source", checked |-> run.checked, session |-> clock] OBVIOUS
<1>3. CASE CheckAddress
  <2>1. Check("address", a) BY <1>1, <1>3 DEF CheckAddress
  <2> QED BY <1>1, <2>1, CheckKeeps DEF Reserved
<1>4. CASE StartSession
  <2>1. Check("session", s) BY <1>2, <1>4 DEF StartSession
  <2> QED BY <1>2, <2>1, CheckKeeps DEF Reserved
<1>5. CASE RefuseRun
  <2>1. PICK pc \in {"reserve", "address", "session"} : Check(pc, Idle) BY <1>5 DEF RefuseRun
  <2>2. Idle.at = "idle" BY DEF Idle
  <2>3. /\ run' = Idle /\ clock' = clock
        /\ ReceiptsOK' /\ PlansOK' /\ PacketsOK' /\ ImagesOK'
    BY <2>1, CheckLeaves
  <2>4. SessionOK' /\ ApplyOK' /\ Outcomes'
    BY <2>2, <2>3 DEF SessionOK, Reserved, ApplyOK, Outcomes, AppliesReviewedPlan,
                      InputsHold, NoExpiryWithinReserve, Applied
  <2> QED BY <2>3, <2>4 DEF IInv
<1> QED BY <1>3, <1>4, <1>5

\* The plan is judged again; from here on the run knows whether one was at work.
LEMMA JudgedKeeps ==
  ASSUME IInv, NEW from \in {"show", "compare"}, NEW pc \in {"compare", "verify"}, NEW shown,
         Check(from, ShownTo(pc, shown)),
         shown.began \in Nat, shown.began <= planned, Undisturbed(shown),
         ~Beside(shown) /\ Present(plan) => plan.good
  PROVE  IInv'
<1>1. PICK next : next = ShownTo(pc, shown) OBVIOUS
<1>2. Check(from, next) BY <1>1
<1>3. next.at = pc /\ next.checked = run.checked /\ next.shown = shown
  BY <1>1 DEF ShownTo
<1>4. /\ UNCHANGED <<clock, receipt, plan, packet, planned, planner, go>>
      /\ run.at = from /\ run' = next
      /\ ReceiptsOK' /\ PlansOK' /\ PacketsOK' /\ ImagesOK'
  BY <1>2, CheckLeaves
<1>5. SessionOK'
  BY <1>3, <1>4 DEF IInv, SessionOK, Reserved, Lasts, Present
<1>6. ApplyOK'
  <2>1. Beside(shown)' <=> Beside(shown) BY <1>4 DEF Beside
  <2>2. Undisturbed(shown)' BY <1>4 DEF Undisturbed, Beside, Planning
  <2> QED BY <1>3, <1>4, <2>1, <2>2 DEF ApplyOK
<1>7. Outcomes'
  BY <1>3, <1>4 DEF Outcomes, AppliesReviewedPlan, InputsHold, NoExpiryWithinReserve, Applied
<1> QED BY <1>4, <1>5, <1>6, <1>7 DEF IInv

\* Nothing runs beside a check unless something is at work, or is begun.
LEMMA SinceNow ==
  ASSUME IInv
  PROVE  Since.began = planned /\ planned \in Nat /\ Undisturbed(Since)
         /\ (Since.planning <=> Planning)
BY DEF Since, Undisturbed, Beside, IInv, ReceiptsOK

LEMMA OverKeeps ==
  ASSUME IInv, NEW from \in Reserved, NEW why \in {"source", "plan", "packet"},
         Check(from, Over(why))
  PROVE  IInv'
<1>1. PICK next : next = Over(why) OBVIOUS
<1>2. Check(from, next) /\ next.at = "over" /\ next.why = why BY <1>1 DEF Over
<1> QED BY <1>2, CheckKeeps

LEMMA ShowAgainKeeps ==
  ASSUME IInv, ShowAgain
  PROVE  IInv'
<1>1. CASE Present(plan) /\ PlanGate(plan)
  <2>1. Check("show", ShownTo("compare", Since)) /\ plan.good
    BY <1>1 DEF ShowAgain, PlanGate
  <2>2. PICK s : s = Since OBVIOUS
  <2>3. s.began \in Nat /\ s.began <= planned /\ Undisturbed(s)
    BY <2>2, SinceNow
  <2> QED BY <2>1, <2>2, <2>3, JudgedKeeps
<1>2. CASE ~(Present(plan) /\ PlanGate(plan))
  BY <1>2, OverKeeps DEF ShowAgain, Reserved
<1> QED BY <1>1, <1>2

LEMMA ChecksKeep ==
  ASSUME IInv, CheckSource \/ CompareAgain
  PROVE  IInv'
<1>1. CASE CheckSource
  <2>1. Check("source", To("show")) \/ Check("source", Over("source"))
    BY <1>1 DEF CheckSource
  <2>2. CASE Check("source", To("show"))
    <3>1. PICK next : next = To("show") OBVIOUS
    <3>2. Check("source", next) /\ next.at = "show" /\ next.checked = run.checked
      BY <2>2, <3>1 DEF To
    <3> QED BY <3>2, CheckKeeps DEF Reserved
  <2> QED BY <2>1, <2>2, OverKeeps DEF Reserved
<1>2. CASE CompareAgain
  <2>1. Check("compare", ShownTo("verify", run.shown)) \/ Check("compare", Over("plan"))
    BY <1>2 DEF CompareAgain
  <2>2. CASE Check("compare", ShownTo("verify", run.shown))
    <3>1. run.at = "compare" BY <2>2 DEF Check
    <3> QED BY <2>2, <3>1, JudgedKeeps DEF IInv, ApplyOK
  <2> QED BY <2>1, <2>2, OverKeeps DEF Reserved
<1> QED BY <1>1, <1>2

\* It is refused for an age only when the reserve is over.
LEMMA ExpiredKeeps ==
  ASSUME IInv, NEW next, Check("verify", next), Expired,
         Present(plan), Present(summary), summary.plan = plan,
         next.at = "over", next.why = "age", next.checked = run.checked, next.when = clock
  PROVE  IInv'
<1>1. /\ run.at = "verify" /\ run' = next /\ clock' = clock
      /\ ReceiptsOK' /\ PlansOK' /\ PacketsOK' /\ ImagesOK'
  BY CheckLeaves
<1>2. run.checked \in Nat
  BY <1>1 DEF IInv, SessionOK, Reserved
<1>3. PICK t \in Nat : Lasts(t) /\ ~Fresh(t, clock)
  <2>1. CASE ~Fresh(packet.at, clock)
    BY <1>1, <2>1 DEF Expired, IInv, PacketsOK, PacketOK, SessionOK, Reserved
  <2>2. CASE ~Fresh(plan.at, clock)
    BY <1>1, <2>2 DEF IInv, PlansOK, SessionOK, Reserved
  <2>3. CASE \E n \in Dated : ~(Present(receipt[n]) /\ Fresh(receipt[n].at, clock))
    BY <1>1, <2>3 DEF IInv, ReceiptsOK, SessionOK, Reserved
  <2> QED BY <2>1, <2>2, <2>3 DEF Expired, Current
<1>4. clock > run.checked + Margin
  BY <1>2, <1>3, StageConstants DEF Lasts, Fresh, StageConstants, IInv, ReceiptsOK
<1>5. SessionOK' /\ ApplyOK' /\ Outcomes'
  BY <1>1, <1>4 DEF SessionOK, Reserved, ApplyOK, Outcomes, AppliesReviewedPlan, InputsHold,
                    NoExpiryWithinReserve, Applied
<1> QED BY <1>1, <1>5 DEF IInv

\* The apply starts on what the packet binds.
LEMMA VerifiedKeeps ==
  ASSUME IInv, NEW next, Check("verify", next), Bound, SamePlan,
         next.at = "apply", next.read = receipt, next.torn = packet.torn,
         next.shown = run.shown, next.verified = Since
  PROVE  IInv'
<1>1. /\ UNCHANGED <<plan, planned, mixed, planner>>
      /\ run.at = "verify" /\ run' = next
      /\ ReceiptsOK' /\ PlansOK' /\ PacketsOK' /\ ImagesOK'
  BY CheckLeaves
<1>2. PacketOK(packet) /\ packet.plan = plan /\ packet.read = receipt
  BY DEF Bound, SamePlan, IInv, PacketsOK
<1>3. SessionOK' /\ Outcomes'
  BY <1>1 DEF SessionOK, Reserved, Outcomes, AppliesReviewedPlan, InputsHold,
              NoExpiryWithinReserve, Applied
<1>4. ApplyOK'
  <2>1. PICK s : s = Since OBVIOUS
  <2>2. s.began \in Nat /\ s.began <= planned /\ Undisturbed(s) /\ run'.verified = s
    BY <1>1, <2>1, SinceNow
  <2>3. \A r : (Undisturbed(r)' <=> Undisturbed(r)) /\ (Beside(r)' <=> Beside(r))
    BY <1>1 DEF Undisturbed, Beside, Planning
  <2>4. Sound(plan)' /\ (run'.torn \/ GoodReceipts(run'.read))
    BY <1>1, <1>2 DEF PacketOK, Sound
  <2>5. /\ run.shown.began \in Nat /\ run.shown.began <= planned
        /\ Undisturbed(run.shown)
        /\ ~Beside(run.shown) /\ Present(plan) => plan.good
    BY <1>1 DEF IInv, ApplyOK
  <2>6. run'.shown = run.shown /\ run'.at = "apply" BY <1>1
  <2> QED BY <1>1, <2>2, <2>3, <2>4, <2>5, <2>6 DEF ApplyOK, GoodReceipts, Present
<1> QED BY <1>1, <1>3, <1>4 DEF IInv

LEMMA VerifyKeeps ==
  ASSUME IInv, VerifyGo
  PROVE  IInv'
<1> DEFINE same == Present(plan) /\ Present(summary) /\ summary.plan = plan
<1>1. PICK age : age = [at |-> "over", why |-> "age", checked |-> run.checked,
                        session |-> run.session, when |-> clock]
  OBVIOUS
<1>2. PICK go_on : go_on = [at |-> "apply", read |-> receipt, torn |-> packet.torn,
                            shown |-> run.shown, verified |-> Since]
  OBVIOUS
<1>3. \/ Check("verify", Over("plan")) \/ Check("verify", Over("packet"))
      \/ same /\ Expired /\ Check("verify", age)
      \/ Bound /\ SamePlan /\ Check("verify", go_on)
  BY <1>1, <1>2 DEF VerifyGo
<1>4. CASE Check("verify", Over("plan")) \/ Check("verify", Over("packet"))
  BY <1>4, OverKeeps DEF Reserved
<1>5. CASE same /\ Expired /\ Check("verify", age)
  BY <1>1, <1>5, ExpiredKeeps
<1>6. CASE Bound /\ SamePlan /\ Check("verify", go_on)
  BY <1>2, <1>6, VerifiedKeeps
<1> QED BY <1>3, <1>4, <1>5, <1>6

\* Terraform applies the plan that is there, on the observations that are there.
LEMMA ApplyKeeps ==
  ASSUME IInv, Apply \/ GuardShapeFails
  PROVE  IInv'
<1>1. PICK done : done = [at |-> "over", why |-> "applied", plan |-> plan, latest |-> planned,
                          overlap |-> Beside(run.verified), beside |-> Beside(run.shown),
                          mixed |-> plan.number \in mixed,
                          torn |-> run.torn \/ run.read # receipt,
                          sound |-> \A n \in Dated : receipt[n].good]
  OBVIOUS
<1>2. PICK next : /\ Check("apply", next)
                  /\ \/ next.at = "over" /\ next.why \in {"plan", "guard"}
                     \/ Present(plan) /\ next = done
  <2>1. \A why : Over(why).at = "over" /\ Over(why).why = why BY DEF Over
  <2>2. Apply => (Present(plan) /\ Check("apply", done)) \/ Check("apply", Over("plan"))
    BY <1>1 DEF Apply
  <2>3. GuardShapeFails => Check("apply", Over("guard")) BY DEF GuardShapeFails
  <2> QED BY <2>1, <2>2, <2>3
<1>3. /\ run.at = "apply" /\ run' = next
      /\ ReceiptsOK' /\ PlansOK' /\ PacketsOK' /\ ImagesOK'
  BY <1>2, CheckLeaves
<1>4. next.at = "over" /\ next.why # "age" BY <1>1, <1>2
<1>5. SessionOK' /\ ApplyOK' BY <1>3, <1>4 DEF SessionOK, Reserved, ApplyOK
<1>6. CASE next.why # "applied"
  BY <1>3, <1>4, <1>5, <1>6 DEF IInv, Outcomes, AppliesReviewedPlan, InputsHold,
                                NoExpiryWithinReserve, Applied
<1>7. CASE next.why = "applied"
  <2>1. Present(plan) /\ next = done BY <1>2, <1>7
  <2>2. /\ next.plan = plan /\ next.latest = planned
        /\ next.overlap <=> Beside(run.verified)
        /\ next.beside <=> Beside(run.shown)
        /\ next.mixed <=> plan.number \in mixed
        /\ next.torn <=> run.torn \/ run.read # receipt
        /\ next.sound <=> GoodReceipts(receipt)
    BY <1>1, <2>1 DEF GoodReceipts
  <2>3. AppliesReviewedPlan'
    BY <1>3, <2>1, <2>2 DEF AppliesReviewedPlan, IInv, ApplyOK, PlansOK, Alone, Sound
  <2>4. InputsHold'
    BY <1>3, <2>2 DEF InputsHold, IInv, ApplyOK
  <2> QED BY <1>3, <1>4, <1>5, <2>3, <2>4 DEF IInv, Outcomes, NoExpiryWithinReserve
<1> QED BY <1>6, <1>7

\* A command that is stopped leaves what it has written.
LEMMA StoppedKeeps ==
  ASSUME IInv, Stopped
  PROVE  IInv'
<1>1. /\ UNCHANGED <<clock, receipt, registry, plan, summary, packet, plans, planned, mixed, run>>
      /\ stage' \in {stage, Idle} /\ go' \in {go, Idle}
  BY DEF Stopped, files, plans
<1>2. /\ planner' = [k \in Plans |-> planner'[k]]
      /\ \A k \in Plans : planner'[k] \in {planner[k], Idle}
  BY DEF Stopped, IInv, PlansOK
<1>3. PlansOK'
  <2>1. \A n : Alone(n) => Alone(n)'
    BY <1>1, <1>2 DEF Alone
  <2> QED BY <1>1, <1>2, <2>1 DEF Idle, IInv, PlansOK, GoodSummary, Sound, Present
<1>4. ReceiptsOK' /\ PacketsOK'
  BY <1>1 DEF Idle, IInv, ReceiptsOK, PacketsOK, PacketOK, Sound, GoodReceipts, Present
<1>5. SessionOK'
  BY <1>1 DEF Idle, IInv, SessionOK, Lasts, Present
<1>6. ApplyOK'
  <2>1. Planning' => Planning
    BY <1>2 DEF Planning
  <2> QED BY <1>1, <2>1 DEF IInv, ApplyOK, Undisturbed, Beside, Sound, GoodReceipts, Present
<1>7. ImagesOK' /\ Outcomes'
  BY <1>1 DEF Idle, IInv, ImagesOK, ImagesAreApproved, Outcomes, AppliesReviewedPlan,
              InputsHold, NoExpiryWithinReserve, Applied, Present
<1> QED BY <1>3, <1>4, <1>5, <1>6, <1>7 DEF IInv

-----------------------------------------------------------------------------
(* The inductive invariant: what the files say of one another, and what    *)
(* each command that is at work has judged of them.                        *)
THEOREM StagingInvariant == Spec => []IInv
<1>1. IInv /\ [Next]_vars => IInv'
  <2> SUFFICES ASSUME IInv, [Next]_vars PROVE IInv'
    OBVIOUS
  <2>1. CASE Tick \/ EditSource \/ Rebuild \/ UNCHANGED vars
    BY <2>1, WorldKeeps
  <2>2. CASE \E good \in BOOLEAN : Preflight(good)
    BY <2>2, PreflightKeeps
  <2>3. CASE \/ \E n \in Dated \ {"prices"}, good \in BOOLEAN : ObserveAws(n, good)
             \/ \E at \in 0..clock : ObservePrices(at)
    BY <2>3, ObservationsKeep
  <2>4. CASE StartStage \/ Push \/ WriteImages
    BY <2>4, StageKeeps
  <2>5. CASE \/ StartPlan
             \/ \E k \in Plans, good \in BOOLEAN : SavePlan(k, good)
             \/ \E k \in Plans : ShowPlan(k) \/ HashPlan(k) \/ WriteSummary(k)
    BY <2>5, StartPlanKeeps, PlanningKeeps
  <2>6. CASE StartGo \/ HashInputs \/ WriteGo
    BY <2>6, GoKeeps
  <2>7. CASE \/ StartRun \/ CheckReserve \/ CheckAddress \/ RefuseRun \/ StartSession
             \/ CheckSource \/ ShowAgain \/ CompareAgain
    BY <2>7, StartRunKeeps, CheckReserveKeeps, SessionKeeps, ShowAgainKeeps, ChecksKeep
  <2>8. CASE VerifyGo \/ GuardShapeFails \/ Apply
    BY <2>8, VerifyKeeps, ApplyKeeps
  <2>9. CASE Stopped
    BY <2>9, StoppedKeeps
  <2> QED BY <2>1, <2>2, <2>3, <2>4, <2>5, <2>6, <2>7, <2>8, <2>9 DEF Next
<1> QED BY InitOK, <1>1, PTL DEF Spec

(* What terraform applies passed the plan gate and is the plan of the last *)
(* aws-plan, unless one runs beside the guard or two made it at once; and  *)
(* also then it has passed the gate, unless an aws-plan ran since the      *)
(* guard judged it again (aws-terraform-guard.sh:178-179, 264-279).        *)
THEOREM OnlyReviewedPlans == Spec => []AppliesReviewedPlan
<1>1. IInv => AppliesReviewedPlan BY DEF IInv, Outcomes
<1> QED BY <1>1, StagingInvariant, PTL

(* No apply starts on a failed observation, unless it replaced a good one  *)
(* while the packet was built or after the last check (m4-stage.py:1209).  *)
THEOREM OnlyGoodInputs == Spec => []InputsHold
<1>1. IInv => InputsHold BY DEF IInv, Outcomes
<1> QED BY <1>1, StagingInvariant, PTL

(* The session is not lost to an expiry within the reserve, counted from   *)
(* the check before it, whatever the reserve and the age are               *)
(* (m4-stage.py:1253-1270).                                                *)
THEOREM RunOutlivesGuard == Spec => []NoExpiryWithinReserve
<1>1. IInv => NoExpiryWithinReserve BY DEF IInv, Outcomes
<1> QED BY <1>1, StagingInvariant, PTL

(* The image evidence is about the approved revision, or about a tag that  *)
(* was rebuilt during the very push it reports (m4-stage.py:437-448).      *)
THEOREM OnlyApprovedImages == Spec => []ImagesAreApproved
<1>1. IInv => ImagesAreApproved BY DEF IInv, ImagesOK
<1> QED BY <1>1, StagingInvariant, PTL
=============================================================================
