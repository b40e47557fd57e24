--------------------------- MODULE RelayShutdown ---------------------------
(***************************************************************************)
(* The life of a relay process from the moment it serves until it exits:   *)
(* runIngest, runDeliver, serveUntilShutdown, executeShutdownSequence and  *)
(* closeBounded of cmd/relay/main.go with the budgets of config/retry.go.  *)
(*                                                                         *)
(* Time passes in ticks.  A timer or a deadline that has run out stops the *)
(* clock until the code has reacted to it; everything else may take any    *)
(* number of ticks, or for ever.  Kubernetes, the callers and what they    *)
(* wait for (Kafka, Postgres, the collector) are external.                 *)
(***************************************************************************)
EXTENDS Naturals

CONSTANTS
  Work,          \* ingest: requests at the server; deliver: the record in hand
  Grace,         \* IngestReadinessGrace
  HTTPTime,      \* IngestServerShutdownTimeout
  AcceptTime,    \* IngestAcceptanceTimeout
  RecordTime,    \* DefaultStallBudget, the complete work on one record
  WriteTime,     \* InterruptedAttemptWriteTimeout
  HealthTime,    \* HealthShutdownTimeout
  CloseTime,     \* ResourceCloseTimeout
  FlushTime,     \* TraceFlushTimeout
  Resources      \* how many closers there are; the pool's runs last

ASSUME TimesAssumption ==
  {Grace, HTTPTime, AcceptTime, RecordTime, WriteTime, HealthTime, CloseTime, FlushTime} \subseteq Nat
ASSUME ResourcesAssumption == Resources \in Nat \ {0}

VARIABLES
  mode,        \* RELAY_MODE
  signalled,   \* SIGTERM has cancelled the context
  elapsed,     \* ticks since then
  step,        \* the step of the sequence the process is in
  timer,       \* ticks left of that step, if it has a timer
  work,        \* work[w]: what the handler or the consumer does
  left,        \* left[w]: ticks left of its deadline, if it has one
  began,       \* began[w]: elapsed when it began
  begun,       \* closers that have been called
  ended,       \* closers that have returned
  waited       \* ticks that closeBounded has waited for them

workVars == <<work, left, began>>
closeVars == <<begun, ended, waited>>
vars == <<mode, signalled, elapsed, step, timer, work, left, began, begun, ended, waited>>

Steps == {"run", "grace", "http", "health", "close", "flush", "exited"}
Timed == {"grace", "http", "health", "close", "flush"}
TimeOf == [s \in Timed |->
  CASE s = "grace"  -> Grace
    [] s = "http"   -> HTTPTime
    [] s = "health" -> HealthTime
    [] s = "close"  -> CloseTime
    [] s = "flush"  -> FlushTime]

Jobs == {"none",
         "reading",  \* ingest: a request whose body has not come in, in no hurry
         "busy",     \* ingest: a detached acceptance; deliver: the record
         "writing"}  \* deliver: the history of an interrupted attempt
Deadlines == {"busy", "writing"}

Init ==
  /\ mode \in {"ingest", "deliver"}
  /\ signalled = FALSE /\ elapsed = 0
  /\ step = "run" /\ timer = 0
  /\ work = [w \in Work |-> "none"]
  /\ left = [w \in Work |-> 0] /\ began = left
  /\ begun = 0 /\ ended = 0 /\ waited = 0

Enter(s) == step' = s /\ timer' = TimeOf[s]

Idle == \A w \in Work : work[w] = "none"

-----------------------------------------------------------------------------
(* Time.                                                                   *)

\* What the process reacts to at once: the signal, in a server or in a
\* FetchMessage that waits; a timer; a deadline.
Due ==
  \/ signalled /\ step = "run" /\ (mode = "ingest" \/ Idle)
  \/ step \in Timed /\ timer = 0
  \/ \E w \in Work : work[w] \in Deadlines /\ left[w] = 0

Tick ==
  /\ step # "exited" /\ ~Due
  /\ timer' = IF step \in Timed THEN timer - 1 ELSE timer
  /\ left' = [w \in Work |-> IF work[w] \in Deadlines THEN left[w] - 1 ELSE left[w]]
  /\ elapsed' = IF signalled THEN elapsed + 1 ELSE elapsed
  /\ waited' = IF step = "close" THEN waited + 1 ELSE waited
  /\ UNCHANGED <<mode, signalled, step, work, began, begun, ended>>

\* SIGTERM; NotifyContext keeps the ones that follow from ending the process.
Sigterm ==
  /\ ~signalled /\ step # "exited"
  /\ signalled' = TRUE
  /\ UNCHANGED <<mode, elapsed, step, timer, workVars, closeVars>>

-----------------------------------------------------------------------------
(* Ingest: requests.                                                       *)

Becomes(w, job, time) ==
  /\ work' = [work EXCEPT ![w] = job]
  /\ left' = [left EXCEPT ![w] = time]

\* The listener is open until Shutdown closes it.
Connect(w) ==
  /\ mode = "ingest" /\ step \in {"run", "grace"} /\ work[w] = "none"
  /\ Becomes(w, "reading", 0)
  /\ UNCHANGED <<mode, signalled, elapsed, step, timer, began, closeVars>>

\* The body is there: the acceptance leaves the request's context.  The server
\* bounds the time of the header, and not that of the body.
Accept(w) ==
  /\ mode = "ingest" /\ step # "exited" /\ work[w] = "reading"
  /\ Becomes(w, "busy", AcceptTime)
  /\ began' = [began EXCEPT ![w] = elapsed]
  /\ UNCHANGED <<mode, signalled, elapsed, step, timer, closeVars>>

\* The request is answered: accepted, refused, failed or out of time.
Respond(w) ==
  /\ mode = "ingest" /\ step # "exited" /\ work[w] \in {"reading", "busy"}
  /\ Becomes(w, "none", 0)
  /\ UNCHANGED <<mode, signalled, elapsed, step, timer, began, closeVars>>

-----------------------------------------------------------------------------
(* Deliver: Consumer.Run, one record after the other.                      *)

Fetch(w) ==
  /\ mode = "deliver" /\ step = "run" /\ Idle
  /\ Becomes(w, "busy", RecordTime)
  /\ began' = [began EXCEPT ![w] = elapsed]
  /\ UNCHANGED <<mode, signalled, elapsed, step, timer, closeVars>>

\* The record is handled and committed.  Run returns if the context has ended.
RecordDone(w) ==
  /\ mode = "deliver" /\ work[w] = "busy"
  /\ Becomes(w, "none", 0)
  /\ IF signalled THEN Enter("health") ELSE UNCHANGED <<step, timer>>
  /\ UNCHANGED <<mode, signalled, elapsed, began, closeVars>>

\* Something failed or the deadline has passed: Run returns.
RecordFails(w) ==
  /\ mode = "deliver" /\ work[w] \in {"busy", "writing"}
  /\ Becomes(w, "none", 0)
  /\ Enter("health")
  /\ UNCHANGED <<mode, signalled, elapsed, began, closeVars>>

\* Mutant: the write gets a record's time.
WriteAtLeisure(w) ==
  /\ mode = "deliver" /\ work[w] = "busy" /\ left[w] = 0
  /\ Becomes(w, "writing", RecordTime)
  /\ UNCHANGED <<mode, signalled, elapsed, step, timer, began, closeVars>>

\* The deadline has interrupted an attempt, which is written to the history in
\* a time of its own.
WriteInterrupted(w) ==
  /\ mode = "deliver" /\ work[w] = "busy" /\ left[w] = 0
  /\ Becomes(w, "writing", WriteTime)
  /\ UNCHANGED <<mode, signalled, elapsed, step, timer, began, closeVars>>

\* FetchMessage returns with the context's error.
StopFetching ==
  /\ mode = "deliver" /\ step = "run" /\ signalled /\ Idle
  /\ Enter("health")
  /\ UNCHANGED <<mode, signalled, elapsed, workVars, closeVars>>

-----------------------------------------------------------------------------
(* The shutdown sequence.                                                  *)

\* drain fails readiness; requests still come in for the time of the grace.
WithdrawReadiness ==
  /\ mode = "ingest" /\ step = "run" /\ signalled
  /\ Enter("grace")
  /\ UNCHANGED <<mode, signalled, elapsed, workVars, closeVars>>

\* The listener cannot be opened: there is nothing to drain.
ListenerFails ==
  /\ mode = "ingest" /\ step = "run" /\ Idle
  /\ Enter("close")
  /\ UNCHANGED <<mode, signalled, elapsed, workVars, closeVars>>

GraceEnds ==
  /\ step = "grace" /\ timer = 0
  /\ Enter("http")
  /\ UNCHANGED <<mode, signalled, elapsed, workVars, closeVars>>

\* Mutant: serveUntilShutdown returns when ListenAndServe does.
ServerReturns ==
  /\ step = "http"
  /\ Enter("close")
  /\ UNCHANGED <<mode, signalled, elapsed, workVars, closeVars>>

\* Shutdown returns when no request is left, or at the end of its time.
ServerShutDown ==
  /\ step = "http" /\ (Idle \/ timer = 0)
  /\ Enter("close")
  /\ UNCHANGED <<mode, signalled, elapsed, workVars, closeVars>>

HealthServerShutDown ==
  /\ step = "health"
  /\ Enter("close")
  /\ UNCHANGED <<mode, signalled, elapsed, workVars, closeVars>>

\* The closers' goroutine, of which closeOnce starts one, runs them one after
\* the other.
BeginClose ==
  /\ step \in {"close", "flush"} /\ begun = ended /\ begun < Resources
  /\ begun' = begun + 1
  /\ UNCHANGED <<mode, signalled, elapsed, step, timer, workVars, ended, waited>>

\* A closer returns, or never does; the pool's waits for its connections.
EndClose ==
  /\ step \in {"close", "flush"} /\ ended < begun
  /\ begun = Resources => \A w \in Work : work[w] \notin Deadlines
  /\ ended' = ended + 1
  /\ UNCHANGED <<mode, signalled, elapsed, step, timer, workVars, begun, waited>>

\* Mutant: there is no waiting for the closers.
ClosedInBackground ==
  /\ step = "close"
  /\ Enter("flush")
  /\ UNCHANGED <<mode, signalled, elapsed, workVars, closeVars>>

\* closeBounded returns when they are done, or at the end of its time.
Closed ==
  /\ step = "close" /\ (ended = Resources \/ timer = 0)
  /\ Enter("flush")
  /\ UNCHANGED <<mode, signalled, elapsed, workVars, closeVars>>

Exit ==
  /\ step = "flush"
  /\ step' = "exited"
  /\ UNCHANGED <<mode, signalled, elapsed, timer, workVars, closeVars>>

-----------------------------------------------------------------------------
Serve(w) ==
  \/ Connect(w) \/ Accept(w) \/ Respond(w)
  \/ Fetch(w) \/ RecordDone(w) \/ RecordFails(w) \/ WriteInterrupted(w)

Shutdown ==
  \/ StopFetching \/ WithdrawReadiness \/ GraceEnds \/ ServerShutDown
  \/ HealthServerShutDown \/ Closed \/ Exit

Exited == step = "exited" /\ UNCHANGED vars

Next ==
  \/ Tick \/ Sigterm \/ (\E w \in Work : Serve(w))
  \/ ListenerFails \/ Shutdown \/ BeginClose \/ EndClose
  \/ Exited

Spec == Init /\ [][Next]_vars

-----------------------------------------------------------------------------
TypeOK ==
  /\ mode \in {"ingest", "deliver"}
  /\ signalled \in BOOLEAN
  /\ {elapsed, timer, waited} \subseteq Nat
  /\ step \in Steps
  /\ work \in [Work -> Jobs]
  /\ left \in [Work -> Nat] /\ began \in [Work -> Nat]
  /\ {begun, ended} \subseteq 0 .. Resources
  /\ ended <= begun /\ begun <= ended + 1

\* The sum that k8s/validate compares with terminationGracePeriodSeconds.
IngestDrainBudget == Grace + HTTPTime + CloseTime + FlushTime
DeliverDrainBudget == RecordTime + WriteTime + HealthTime + CloseTime + FlushTime

\* Within that time of a SIGTERM the process has ended, be it serving, with a
\* record just fetched, or on its way out already, and whatever never answers.
ExitsInTime ==
  elapsed <= IF mode = "ingest" THEN IngestDrainBudget ELSE DeliverDrainBudget

\* Shutdown does not take the pool or the Kafka clients from a record, nor from
\* an acceptance that began early enough for Shutdown to wait for its end.
WorkKeepsResources ==
  begun > 0 => \A w \in Work : work[w] \in Deadlines =>
    mode = "ingest" /\ began[w] + AcceptTime >= Grace + HTTPTime

\* However the process comes to its end, after a signal or a failure and however
\* long the steps before took, it has closed everything (a consumer has left its
\* group), unless what it closes has used up a time of its own.
LeavesNothingOpen == step \in {"flush", "exited"} => ended = Resources \/ waited = CloseTime
=============================================================================
