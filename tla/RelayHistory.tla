---------------------------- MODULE RelayHistory ----------------------------
(***************************************************************************)
(* Acceptance together with the other writer of its rows:                  *)
(* Store.RecordAttempt (internal/history/store.go), which a delivery       *)
(* goroutine calls for every request it has sent.  Both lock the event's   *)
(* relay_events row, acceptance for as long as it publishes, RecordAttempt *)
(* for as long as it numbers an attempt.                                   *)
(***************************************************************************)
EXTENDS RelayAcceptance, Sequences

CONSTANTS Recorder,   \* delivery goroutines, of one subscription, in any process
          MaxRows     \* bound on the attempts of one event

VARIABLES
  rec,       \* where recorder c is in RecordAttempt
  event,     \* the event it was delivering
  number,    \* the attempt number its INSERT has taken
  attempts   \* attempts[t]: committed attempt numbers of event t, in that order
recVars == <<rec, event, number, attempts>>
allVars == <<vars, recVars>>

HistoryInit ==
  /\ Init
  /\ rec = [c \in Recorder |-> "idle"]
  /\ event \in [Recorder -> Req]
  /\ number = [c \in Recorder |-> 0]
  /\ attempts = [t \in Req |-> <<>>]

Locks(c, t) == rec[c] \in {"locked", "inserted"} /\ event[c] = t

\* The row is free of attempts being recorded.
FreeOfRecorders(t) == \A c \in Recorder : ~Locks(c, t)

\* Acceptance steps as before, except that its SELECT ... FOR UPDATE also waits
\* for the recorders.
Acceptance ==
  /\ Next /\ UNCHANGED recVars
  /\ \A r \in Req : pc[r] = "lock" /\ pc'[r] # "lock" /\ answer'[r] \notin {"unavailable", "cut"} =>
       \E t \in Req : Found(r, t) /\ FreeOfRecorders(t)

\* A record of event t was fetched and a request for it has been sent.
Attempt(c) ==
  /\ rec[c] = "idle"
  /\ \E t \in Req :
       /\ copies[t] > 0 /\ Len(attempts[t]) < MaxRows
       /\ event' = [event EXCEPT ![c] = t]
  /\ rec' = [rec EXCEPT ![c] = "lock"]
  /\ UNCHANGED <<vars, number, attempts>>

\* Mutant: the row is looked up without FOR UPDATE.
FindEvent(c) ==
  /\ rec[c] = "lock" /\ row[event[c]] # "absent"
  /\ rec' = [rec EXCEPT ![c] = "locked"]
  /\ UNCHANGED <<vars, event, number, attempts>>

\* Mutant: only published events get a history, and an attempt waits for that.
LockPublishedEvent(c) ==
  /\ rec[c] = "lock" /\ row[event[c]] = "published"
  /\ owner[event[c]] = NoOwner /\ FreeOfRecorders(event[c])
  /\ rec' = [rec EXCEPT ![c] = "locked"]
  /\ UNCHANGED <<vars, event, number, attempts>>

LockEvent(c) ==
  /\ rec[c] = "lock" /\ row[event[c]] # "absent"
  /\ owner[event[c]] = NoOwner /\ FreeOfRecorders(event[c])
  /\ rec' = [rec EXCEPT ![c] = "locked"]
  /\ UNCHANGED <<vars, event, number, attempts>>

\* COALESCE(MAX(attempt_number), 0) + 1 over the committed rows.
InsertAttempt(c) ==
  /\ rec[c] = "locked"
  /\ LET old == attempts[event[c]]
     IN number' = [number EXCEPT ![c] = IF old = <<>> THEN 1 ELSE old[Len(old)] + 1]
  /\ rec' = [rec EXCEPT ![c] = "inserted"]
  /\ UNCHANGED <<vars, event, attempts>>

CommitAttempt(c) ==
  /\ rec[c] = "inserted"
  /\ attempts' = [attempts EXCEPT ![event[c]] = Append(@, number[c])]
  /\ rec' = [rec EXCEPT ![c] = "idle"]
  /\ UNCHANGED <<vars, event, number>>

\* ErrEventNotFound, or the statement fails, its context ends or its process
\* dies: the transaction is rolled back, unless it was the commit that landed.
RecordFails(c) ==
  /\ \/ rec[c] = "lock" /\ row[event[c]] = "absent" /\ UNCHANGED adverse
     \/ rec[c] # "idle" /\ Adversity
  /\ attempts' \in {attempts} \cup
       (IF rec[c] = "inserted" THEN {[attempts EXCEPT ![event[c]] = Append(@, number[c])]} ELSE {})
  /\ rec' = [rec EXCEPT ![c] = "idle"]
  /\ UNCHANGED <<pc, pod, rowVars, chosen, answer, hungup, logVars, readVars, event, number>>

Record(c) == LockEvent(c) \/ InsertAttempt(c) \/ CommitAttempt(c) \/ RecordFails(c)

HistoryNext == Acceptance \/ \E c \in Recorder : Attempt(c) \/ Record(c)

HistorySpec ==
  /\ HistoryInit /\ [][HistoryNext]_allVars
  /\ \A r \in Req : WF_allVars(Acceptance /\ Handle(r))
  /\ \A c \in Recorder : WF_allVars(Record(c))

-----------------------------------------------------------------------------
HistoryTypeOK ==
  /\ TypeOK
  /\ rec \in [Recorder -> {"idle", "lock", "locked", "inserted"}]
  /\ event \in [Recorder -> Req] /\ number \in [Recorder -> Nat]
  /\ attempts \in [Req -> Seq(Nat)]

\* Attempts are numbered 1, 2, 3 ... without a gap or a repetition, however many
\* redeliveries of the event record theirs at once and fail half way.
GapFree == \A t \in Req : \A i \in 1 .. Len(attempts[t]) : attempts[t][i] = i

\* Whatever acceptance puts on the topic, a delivery finds its row: the missing
\* histories that the consumer dead-letters are not of ingest's making.
NoOrphans == \A c \in Recorder : rec[c] # "idle" => row[event[c]] # "absent"

\* An attempt is recorded or fails: publishers and recorders of one row never
\* wait for each other in a circle.
AttemptsEnd == \A c \in Recorder : rec[c] = "lock" ~> rec[c] = "idle"
=============================================================================
