------------------------ MODULE RelayShutdownProofs ------------------------
(***************************************************************************)
(* The promises of RelayShutdown for all budgets and any number of         *)
(* requests.  In each step of the sequence the time since SIGTERM and the  *)
(* time left of the step add up to no more than the budgets so far.  In    *)
(* the ingest steps before the closes they add up to exactly those, which  *)
(* is why an acceptance Shutdown did not wait for has begun too late.      *)
(***************************************************************************)
EXTENDS RelayShutdown, TLAPS

Types ==
  /\ mode \in {"ingest", "deliver"} /\ signalled \in BOOLEAN
  /\ elapsed \in Nat /\ timer \in Nat /\ waited \in Nat /\ step \in Steps
  /\ work \in [Work -> Jobs]
  /\ left \in [Work -> Nat] /\ began \in [Work -> Nat]

\* What can go on in which mode and step.
Shape ==
  /\ ~signalled => elapsed = 0
  /\ mode = "ingest" => step # "health" /\ \A w \in Work : work[w] # "writing"
  /\ mode = "deliver" => /\ step \notin {"grace", "http"}
                         /\ \A w \in Work : work[w] # "reading"
                         /\ step # "run" => Idle
                         /\ \A v, w \in Work : work[v] # "none" /\ work[w] # "none" => v = w

IngestClock ==
  /\ step = "run" => elapsed = 0
  /\ step \in {"grace", "http"} => signalled
  /\ step = "grace" => elapsed + timer = Grace
  /\ step = "http" => elapsed + timer = Grace + HTTPTime
  /\ step = "close" => elapsed + timer <= Grace + HTTPTime + CloseTime
  /\ step = "flush" => elapsed + timer <= IngestDrainBudget
  /\ step = "exited" => elapsed <= IngestDrainBudget

DeliverClock ==
  /\ step = "run" /\ Idle => elapsed = 0
  /\ \A w \in Work :
       /\ work[w] = "busy" => elapsed + left[w] <= RecordTime
       /\ work[w] = "writing" => elapsed + left[w] <= RecordTime + WriteTime
  /\ step = "health" => elapsed + timer <= RecordTime + WriteTime + HealthTime
  /\ step = "close" => elapsed + timer <= RecordTime + WriteTime + HealthTime + CloseTime
  /\ step = "flush" => elapsed + timer <= DeliverDrainBudget
  /\ step = "exited" => elapsed <= DeliverDrainBudget

Closing == {"close", "flush", "exited"}

\* An acceptance that still runs during the closes has begun too late.
Acceptances ==
  /\ \A w \in Work : work[w] = "busy" => left[w] + elapsed <= began[w] + AcceptTime
  /\ step \in Closing => \A w \in Work :
       /\ work[w] # "none" => elapsed >= Grace + HTTPTime
       /\ work[w] = "busy" => began[w] + AcceptTime >= Grace + HTTPTime

Closers ==
  /\ begun \in 0 .. Resources /\ ended \in 0 .. Resources
  /\ ended <= begun /\ begun <= ended + 1
  /\ begun > 0 => step \in Closing
  /\ step \notin Closing => waited = 0
  /\ step = "close" => waited + timer = CloseTime
  /\ LeavesNothingOpen

IInv ==
  /\ Types /\ Shape /\ Closers
  /\ mode = "ingest" => IngestClock /\ Acceptances
  /\ mode = "deliver" => DeliverClock

-----------------------------------------------------------------------------
LEMMA Times ==
  /\ TimeOf["grace"] = Grace /\ TimeOf["http"] = HTTPTime /\ TimeOf["health"] = HealthTime
  /\ TimeOf["close"] = CloseTime /\ TimeOf["flush"] = FlushTime
  /\ Grace \in Nat /\ HTTPTime \in Nat /\ AcceptTime \in Nat /\ RecordTime \in Nat
  /\ WriteTime \in Nat /\ HealthTime \in Nat /\ CloseTime \in Nat /\ FlushTime \in Nat
BY TimesAssumption DEF TimeOf, Timed

LEMMA Initially == Init => IInv
<1> SUFFICES ASSUME Init PROVE IInv
  OBVIOUS
<1>1. Types
  BY DEF Init, Types, Steps, Jobs
<1>2. Shape
  BY DEF Init, Shape, Idle
<1>3. Closers
  BY ResourcesAssumption DEF Init, Closers, LeavesNothingOpen
<1>4. IngestClock /\ Acceptances
  BY Times DEF Init, IngestClock, Acceptances, Closing
<1>5. DeliverClock
  BY DEF Init, DeliverClock
<1> QED BY <1>1, <1>2, <1>3, <1>4, <1>5 DEF IInv

LEMMA TickKeeps ==
  ASSUME IInv, Tick
  PROVE  IInv'
<1> USE Times DEF IInv, Types
<1>1. /\ step \in Timed => timer > 0 /\ timer' = timer - 1
      /\ step \notin Timed => timer' = timer
  BY DEF Tick, Due
<1>2. \A w \in Work : work[w] \in Deadlines => left[w] > 0 /\ left'[w] = left[w] - 1
  BY DEF Tick, Due
<1>3. \/ signalled /\ elapsed' = elapsed + 1
      \/ ~signalled /\ elapsed' = elapsed /\ elapsed = 0
  BY DEF Tick, Shape
<1>4. /\ UNCHANGED <<mode, signalled, step, work, began, begun, ended>>
      /\ step = "close" => waited' = waited + 1
      /\ step # "close" => waited' = waited
  BY DEF Tick
<1>5. Types'
  <2>1. left' \in [Work -> Nat]
    BY <1>2 DEF Tick
  <2>2. timer' \in Nat /\ waited' \in Nat
    BY <1>1, <1>4
  <2> QED BY <1>3, <1>4, <2>1, <2>2
<1>6. Shape'
  BY <1>3, <1>4 DEF Shape, Idle
<1>7. Closers'
  BY <1>1, <1>4 DEF Closers, LeavesNothingOpen, Timed, Closing
<1>8. ASSUME mode = "ingest" PROVE IngestClock'
  <2>1. step = "run" => ~signalled
    BY <1>8 DEF Tick, Due
  <2> QED BY <1>1, <1>3, <1>4, <1>8, <2>1 DEF IngestClock, Tick, Timed, IngestDrainBudget
<1>9. ASSUME mode = "ingest" PROVE Acceptances'
  BY <1>2, <1>3, <1>4, <1>9 DEF Acceptances, Deadlines
<1>10. ASSUME mode = "deliver" PROVE DeliverClock'
  <2>1. step = "run" /\ Idle => ~signalled
    BY <1>10 DEF Tick, Due
  <2>2. Idle' <=> Idle
    BY <1>4 DEF Idle
  <2>3. \A w \in Work :
          /\ work'[w] = "busy" => elapsed' + left'[w] <= RecordTime
          /\ work'[w] = "writing" => elapsed' + left'[w] <= RecordTime + WriteTime
    BY <1>2, <1>3, <1>4, <1>10 DEF DeliverClock, Deadlines
  <2> QED BY <1>1, <1>3, <1>4, <1>10, <2>1, <2>2, <2>3
          DEF DeliverClock, Tick, Timed, DeliverDrainBudget
<1> QED BY <1>4, <1>5, <1>6, <1>7, <1>8, <1>9, <1>10

-----------------------------------------------------------------------------
(* Work comes and goes.                                                    *)

\* A job of w changes; nothing else does but, perhaps, w's beginning.
LEMMA IngestWorkKeeps ==
  ASSUME IInv, NEW w \in Work, Connect(w) \/ Accept(w) \/ Respond(w)
  PROVE  IInv'
<1> USE Times DEF IInv, Becomes
<1>1. /\ mode = "ingest" /\ step # "exited"
      /\ UNCHANGED <<mode, signalled, elapsed, step, timer, begun, ended, waited>>
  BY DEF Connect, Accept, Respond, closeVars
<1>2. \E job \in {"reading", "busy", "none"}, t \in Nat :
        work' = [work EXCEPT ![w] = job] /\ left' = [left EXCEPT ![w] = t]
  BY DEF Connect, Accept, Respond
<1>3. began' \in [Work -> Nat]
  BY DEF Connect, Accept, Respond, Types
<1>4. Types'
  BY <1>1, <1>2, <1>3 DEF Types, Jobs
<1>5. Shape'
  BY <1>1, <1>2 DEF Shape, Types, Jobs
<1>6. Closers'
  BY <1>1 DEF Closers, LeavesNothingOpen
<1>7. IngestClock'
  BY <1>1 DEF IngestClock
<1>8. Acceptances'
  <2>1. CASE Connect(w)
    BY <1>1, <2>1 DEF Connect, Acceptances, Types, Closing
  <2>2. CASE Accept(w)
    <3>1. /\ work' = [work EXCEPT ![w] = "busy"] /\ left' = [left EXCEPT ![w] = AcceptTime]
          /\ began' = [began EXCEPT ![w] = elapsed]
          /\ work[w] = "reading"
      BY <2>2 DEF Accept
    <3> QED BY <1>1, <3>1 DEF Acceptances, Types
  <2>3. CASE Respond(w)
    BY <1>1, <2>3 DEF Respond, Acceptances, Types
  <2> QED BY <2>1, <2>2, <2>3
<1> QED BY <1>1, <1>4, <1>5, <1>6, <1>7, <1>8

LEMMA RecordKeeps ==
  ASSUME IInv, NEW w \in Work,
         Fetch(w) \/ RecordDone(w) \/ RecordFails(w) \/ WriteInterrupted(w)
  PROVE  IInv'
<1> USE Times DEF IInv, Becomes
<1>1. /\ mode = "deliver" /\ step = "run"
      /\ UNCHANGED <<mode, signalled, elapsed, begun, ended, waited>>
      /\ \A v \in Work : work[v] # "none" => v = w
  BY DEF Fetch, RecordDone, RecordFails, WriteInterrupted, closeVars, Shape, Idle
<1>2. Closers'
  BY <1>1 DEF Closers, LeavesNothingOpen, Closing, RecordDone, RecordFails, Fetch,
     WriteInterrupted, Enter
<1>3. CASE Fetch(w)
  <2>1. /\ work' = [work EXCEPT ![w] = "busy"] /\ left' = [left EXCEPT ![w] = RecordTime]
        /\ began' = [began EXCEPT ![w] = elapsed] /\ UNCHANGED <<step, timer>> /\ Idle
    BY <1>3 DEF Fetch
  <2>2. Types'
    BY <1>1, <2>1 DEF Types, Jobs
  <2>3. Shape'
    BY <1>1, <2>1 DEF Shape, Types, Idle
  <2>4. DeliverClock'
    BY <1>1, <2>1 DEF DeliverClock, Types, Idle
  <2> QED BY <1>1, <1>2, <2>2, <2>3, <2>4
<1>4. CASE WriteInterrupted(w)
  <2>1. /\ work' = [work EXCEPT ![w] = "writing"] /\ left' = [left EXCEPT ![w] = WriteTime]
        /\ UNCHANGED <<step, timer, began>> /\ work[w] = "busy" /\ left[w] = 0
    BY <1>4 DEF WriteInterrupted
  <2>2. Types'
    BY <1>1, <2>1 DEF Types, Jobs
  <2>3. Shape'
    BY <1>1, <2>1 DEF Shape, Types, Idle
  <2>4. DeliverClock'
    BY <1>1, <2>1 DEF DeliverClock, Types, Idle
  <2> QED BY <1>1, <1>2, <2>2, <2>3, <2>4
<1>5. CASE RecordDone(w) \/ RecordFails(w)
  <2>1. /\ work' = [work EXCEPT ![w] = "none"] /\ left' = [left EXCEPT ![w] = 0]
        /\ UNCHANGED began /\ work[w] \in {"busy", "writing"}
    BY <1>5 DEF RecordDone, RecordFails
  <2>2. Idle'
    BY <1>1, <2>1 DEF Idle, Types
  <2>3. \/ step' = "health" /\ timer' = HealthTime
        \/ ~signalled /\ UNCHANGED <<step, timer>>
    BY <1>5 DEF RecordDone, RecordFails, Enter
  <2>4. Types'
    BY <1>1, <2>1, <2>3 DEF Types, Jobs, Steps
  <2>5. Shape'
    BY <1>1, <2>1, <2>2, <2>3 DEF Shape, Types, Idle
  <2>6. DeliverClock'
    BY <1>1, <2>1, <2>2, <2>3 DEF DeliverClock, Shape, Types, Idle
  <2> QED BY <1>1, <1>2, <2>4, <2>5, <2>6
<1> QED BY <1>3, <1>4, <1>5

-----------------------------------------------------------------------------
(* The sequence.                                                           *)

LEMMA SequenceKeeps ==
  ASSUME IInv, Shutdown \/ ListenerFails
  PROVE  IInv'
<1> USE Times DEF IInv, Enter
<1>1. UNCHANGED <<mode, signalled, elapsed, work, left, began, begun, ended>>
  BY DEF Shutdown, StopFetching, WithdrawReadiness, GraceEnds, ServerShutDown,
     HealthServerShutDown, Closed, Exit, ListenerFails, workVars, closeVars
<1>2. Idle' <=> Idle
  BY <1>1 DEF Idle
<1>3. CASE StopFetching
  <2>1. /\ mode = "deliver" /\ step = "run" /\ Idle /\ step' = "health" /\ timer' = HealthTime
        /\ UNCHANGED waited
    BY <1>3 DEF StopFetching, closeVars
  <2> QED BY <1>1, <1>2, <2>1 DEF Types, Shape, Closers, DeliverClock, LeavesNothingOpen,
       Closing, Steps, Idle
<1>4. CASE WithdrawReadiness
  <2>1. /\ mode = "ingest" /\ step = "run" /\ step' = "grace" /\ timer' = Grace /\ signalled
        /\ UNCHANGED waited
    BY <1>4 DEF WithdrawReadiness, closeVars
  <2> QED BY <1>1, <2>1 DEF Types, Shape, Closers, IngestClock, Acceptances, LeavesNothingOpen,
       Closing, Steps
<1>5. CASE GraceEnds
  <2>1. /\ mode = "ingest" /\ step = "grace" /\ timer = 0
        /\ step' = "http" /\ timer' = HTTPTime
        /\ UNCHANGED waited
    BY <1>5 DEF GraceEnds, closeVars, Shape, Types
  <2> QED BY <1>1, <2>1 DEF Types, Shape, Closers, IngestClock, Acceptances, LeavesNothingOpen,
       Closing, Steps
<1>6. CASE ServerShutDown
  <2>1. /\ mode = "ingest" /\ step = "http" /\ (Idle \/ timer = 0)
        /\ step' = "close" /\ timer' = CloseTime
        /\ UNCHANGED waited
    BY <1>6 DEF ServerShutDown, closeVars, Shape, Types
  <2>2. elapsed + timer = Grace + HTTPTime
    BY <2>1 DEF IngestClock
  <2>3. Types' /\ Shape' /\ Closers'
    BY <1>1, <2>1 DEF Types, Shape, Closers, LeavesNothingOpen, Closing, Steps
  <2>4. IngestClock'
    BY <1>1, <2>1, <2>2 DEF IngestClock, Types
  <2>5. Acceptances'
    <3>1. CASE Idle
      BY <1>1, <2>1, <3>1 DEF Acceptances, Idle
    <3>2. CASE timer = 0
      BY <1>1, <2>1, <2>2, <3>2 DEF Acceptances, Types
    <3> QED BY <2>1, <3>1, <3>2
  <2> QED BY <1>1, <2>1, <2>3, <2>4, <2>5
<1>7. CASE HealthServerShutDown
  <2>1. /\ mode = "deliver" /\ step = "health" /\ step' = "close" /\ timer' = CloseTime
        /\ UNCHANGED waited
    BY <1>7 DEF HealthServerShutDown, closeVars, Shape, Types
  <2> QED BY <1>1, <1>2, <2>1 DEF Types, Shape, Closers, DeliverClock, LeavesNothingOpen,
       Closing, Steps, Idle
<1>8. CASE Closed
  <2>1. /\ step = "close" /\ step' = "flush" /\ timer' = FlushTime
        /\ UNCHANGED waited /\ (ended = Resources \/ timer = 0)
    BY <1>8 DEF Closed, closeVars
  <2>2. Types' /\ Shape'
    BY <1>1, <1>2, <2>1 DEF Types, Shape, Steps, Idle
  <2>3. Closers'
    BY <1>1, <2>1 DEF Closers, LeavesNothingOpen, Closing, Types
  <2>4. mode = "ingest" => IngestClock' /\ Acceptances'
    BY <1>1, <2>1 DEF IngestClock, Acceptances, IngestDrainBudget, Closing, Types
  <2>5. mode = "deliver" => DeliverClock'
    BY <1>1, <1>2, <2>1 DEF DeliverClock, DeliverDrainBudget, Types
  <2> QED BY <1>1, <2>2, <2>3, <2>4, <2>5
<1>9. CASE Exit
  <2>1. step = "flush" /\ step' = "exited" /\ UNCHANGED <<timer, waited>>
    BY <1>9 DEF Exit, closeVars
  <2>2. Types' /\ Shape' /\ Closers'
    BY <1>1, <1>2, <2>1 DEF Types, Shape, Steps, Idle, Closers, LeavesNothingOpen, Closing
  <2>3. mode = "ingest" => IngestClock' /\ Acceptances'
    BY <1>1, <2>1 DEF IngestClock, Acceptances, IngestDrainBudget, Closing, Types
  <2>4. mode = "deliver" => DeliverClock'
    BY <1>1, <1>2, <2>1 DEF DeliverClock, DeliverDrainBudget, Types
  <2> QED BY <1>1, <2>2, <2>3, <2>4
<1>10. CASE ListenerFails
  <2>1. /\ mode = "ingest" /\ step = "run" /\ Idle /\ step' = "close" /\ timer' = CloseTime
        /\ UNCHANGED waited
    BY <1>10 DEF ListenerFails, closeVars
  <2>2. Types' /\ Shape' /\ Closers'
    BY <1>1, <2>1 DEF Types, Shape, Closers, LeavesNothingOpen, Closing, Steps
  <2>3. IngestClock' /\ Acceptances'
    BY <1>1, <2>1 DEF IngestClock, Acceptances, Idle, Closing, Types
  <2> QED BY <1>1, <2>1, <2>2, <2>3
<1> QED BY <1>3, <1>4, <1>5, <1>6, <1>7, <1>8, <1>9, <1>10 DEF Shutdown

LEMMA RestKeeps ==
  ASSUME IInv, Sigterm \/ BeginClose \/ EndClose \/ Exited \/ UNCHANGED vars
  PROVE  IInv'
<1> USE DEF IInv, workVars
<1>1. CASE Sigterm
  BY <1>1 DEF Sigterm, closeVars, Types, Shape, Closers, IngestClock, DeliverClock, Acceptances,
     LeavesNothingOpen, Idle
<1>2. CASE BeginClose \/ EndClose
  <2>1. /\ UNCHANGED <<mode, signalled, elapsed, step, timer, work, left, began, waited>>
        /\ step \in Closing
    BY <1>2 DEF BeginClose, EndClose, Closing
  <2>2. Closers'
    BY <1>2, <2>1, ResourcesAssumption DEF BeginClose, EndClose, Closers, LeavesNothingOpen, Closing
  <2> QED BY <2>1, <2>2 DEF Types, Shape, IngestClock, DeliverClock, Acceptances, Idle
<1>3. CASE Exited \/ UNCHANGED vars
  BY <1>3 DEF Exited, vars, Types, Shape, Closers, IngestClock, DeliverClock, Acceptances,
     LeavesNothingOpen, Idle
<1> QED BY <1>1, <1>2, <1>3

THEOREM Invariance == Spec => []IInv
<1>1. IInv /\ [Next]_vars => IInv'
  BY TickKeeps, IngestWorkKeeps, RecordKeeps, SequenceKeeps, RestKeeps DEF Next, Serve
<1> QED BY Initially, <1>1, PTL DEF Spec

-----------------------------------------------------------------------------
\* Type correctness.
THEOREM TypeCorrect == Spec => []TypeOK
<1>1. IInv => TypeOK
  BY DEF IInv, Types, Closers, TypeOK
<1> QED BY Invariance, <1>1, PTL

\* A process ends within the sum of its steps' budgets of a SIGTERM, whatever it
\* does when the signal comes and whatever never answers (DeliverDrainBudget,
\* IngestDrainBudget, closeBounded).
THEOREM EndsInTime == Spec => []ExitsInTime
<1>1. IInv => ExitsInTime
  <2> SUFFICES ASSUME IInv PROVE ExitsInTime
    OBVIOUS
  <2> USE Times DEF IInv, Types
  <2>1. CASE mode = "ingest"
    BY <2>1 DEF ExitsInTime, IngestClock, IngestDrainBudget, Steps, Shape
  <2>2. CASE mode = "deliver"
    <3>1. CASE step = "run" /\ ~Idle
      <4>1. PICK w \in Work : work[w] # "none"
        BY <3>1 DEF Idle
      <4>2. work[w] \in {"busy", "writing"}
        BY <2>2, <4>1 DEF Shape, Jobs
      <4>3. elapsed <= RecordTime + WriteTime
        BY <2>2, <4>2 DEF DeliverClock
      <4> QED BY <2>2, <4>3 DEF ExitsInTime, DeliverDrainBudget
    <3>2. CASE ~(step = "run" /\ ~Idle)
      BY <2>2, <3>2 DEF ExitsInTime, DeliverClock, DeliverDrainBudget, Steps, Shape
    <3> QED BY <3>1, <3>2
  <2> QED BY <2>1, <2>2
<1> QED BY Invariance, <1>1, PTL

\* The closes take nothing from the work that Shutdown promised to wait for
\* (serveUntilShutdown returns after Shutdown; Run returns before the closes).
THEOREM WorkIsNotCutOff == Spec => []WorkKeepsResources
<1>1. IInv => WorkKeepsResources
  BY DEF IInv, Types, Closers, Shape, Acceptances, Idle, Closing, WorkKeepsResources, Deadlines
<1> QED BY Invariance, <1>1, PTL

\* What is left open is what would not close in time, after an error too
\* (executeShutdownSequence goes on to the next step).
THEOREM NothingLeftOpen == Spec => []LeavesNothingOpen
<1>1. IInv => LeavesNothingOpen
  BY DEF IInv, Closers
<1> QED BY Invariance, <1>1, PTL
=============================================================================
