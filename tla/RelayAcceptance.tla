-------------------------- MODULE RelayAcceptance --------------------------
(***************************************************************************)
(* The ingest side of services/relay: Server.postEvent                     *)
(* (internal/ingest/server.go) and Store.AcceptEvent                       *)
(* (internal/history/store.go), for requests that several pods handle at   *)
(* the same time over one database and one Kafka topic.                    *)
(*                                                                         *)
(* An event's row is committed before the event is published, requests     *)
(* with one tenant and key are serialised by the row's lock, and           *)
(* published_at is set only after Kafka has acknowledged.  Every request   *)
(* that fails or is conflicting stands for any of the ones a caller sends; *)
(* a retry is another request with the same key and body.                  *)
(*                                                                         *)
(* Postgres is external: INSERT ... ON CONFLICT DO NOTHING is atomic,      *)
(* SELECT ... FOR UPDATE waits for the row and then reads its latest       *)
(* committed version, and a lost connection rolls its transaction back.    *)
(* So is kafka.Writer: a write that is given up may still land later.      *)
(***************************************************************************)
EXTENDS Naturals, FiniteSets

CONSTANTS
  Req,        \* POST /v1/events requests; Req also names their candidate events
  Read,       \* GET /v1/events/{id}/attempts requests
  Pod,        \* ingest replicas, each with its pool and its acceptance slots
  KeyOf,      \* KeyOf[r]: the tenant and idempotency key, NoKey if blank
  BodyOf,     \* BodyOf[r]: the type and JSON data, up to jsonb equality
  NoKey,
  Malformed,  \* the body of a request that postEvent rejects
  NoOwner,
  Impatient,  \* the requests whose callers may hang up
  MaxConns,   \* connections in a pod's pool
  MaxAdverse  \* bound on failures, lost connections, deadlines and crashes

ASSUME FiniteAssumption == IsFiniteSet(Req) /\ IsFiniteSet(Read)
ASSUME NamesAssumption == NoOwner \notin Req /\ Req \cap Read = {}
ASSUME KeysAssumption == DOMAIN KeyOf = Req /\ DOMAIN BodyOf = Req
ASSUME BoundsAssumption == MaxConns \in Nat \ {0} /\ MaxAdverse \in Nat

VARIABLES
  pc,       \* where request r is in AcceptEvent
  pod,      \* the pod that handles it
  row,      \* row[t]: the relay_events row with candidate t's id
  owner,    \* owner[t]: the request whose transaction has t's row locked
  chosen,   \* the event r has locked, or was told of
  answer,   \* what postEvent answered
  hungup,   \* the caller has gone away
  copies,   \* copies[t]: records of event t on the topic
  late,     \* late[t]: records given up by WriteMessages that may still land
  reading,  \* where read q is in Attempts
  rpod,     \* the pod that handles it
  adverse   \* faults so far

rowVars == <<row, owner>>
logVars == <<copies, late>>
readVars == <<reading, rpod>>
vars == <<pc, pod, row, owner, chosen, answer, hungup, copies, late, reading,
          rpod, adverse>>

Phases == {"new",      \* not received yet
           "slot",     \* waiting for an acceptance slot
           "insert",   \* about to insert the row, in need of a connection
           "begin",    \* about to begin the transaction, in need of a connection
           "lock",     \* SELECT ... FOR UPDATE
           "publish",  \* the row is locked, WriteMessages is running
           "mark",     \* Kafka has acknowledged; UPDATE and COMMIT
           "done"}
Answers == {"none", "accepted", "deduplicated", "conflict", "invalid",
            "unavailable", "cut"}
RowStates == {"absent", "pending", "published"}

Init ==
  /\ pc = [r \in Req |-> "new"]
  /\ pod \in [Req -> Pod]
  /\ row = [r \in Req |-> "absent"]
  /\ owner = [r \in Req |-> NoOwner]
  /\ chosen = [r \in Req |-> r]
  /\ answer = [r \in Req |-> "none"]
  /\ hungup = [r \in Req |-> FALSE]
  /\ copies = [r \in Req |-> 0]
  /\ late = [r \in Req |-> 0]
  /\ reading = [q \in Read |-> "new"]
  /\ rpod \in [Read -> Pod]
  /\ adverse = 0

Adversity == adverse < MaxAdverse /\ adverse' = adverse + 1

\* Mutant: every connection is a slot.
SlotPerConnection == MaxConns

\* All but one connection, and never none.
Slots == IF MaxConns > 1 THEN MaxConns - 1 ELSE 1

InAcceptance == {"insert", "begin", "lock", "publish", "mark"}
HoldsConnection == {"lock", "publish", "mark"}

SlotsInUse(p) == Cardinality({r \in Req : pod[r] = p /\ pc[r] \in InAcceptance})
FreeConnection(p) ==
  Cardinality({r \in Req : pod[r] = p /\ pc[r] \in HoldsConnection})
    + Cardinality({q \in Read : rpod[q] = p /\ reading[q] = "listing"}) < MaxConns

\* Row t is the one r's INSERT conflicts with and its SELECT finds: by id
\* without a key, by tenant and key otherwise.
Found(r, t) ==
  /\ row[t] # "absent"
  /\ IF KeyOf[r] = NoKey THEN t = r ELSE KeyOf[t] = KeyOf[r]

Goto(r, x) == pc' = [pc EXCEPT ![r] = x]

\* Mutant: the rollback is forgotten.
AnswerKeepingLock(r, a, t) ==
  /\ Goto(r, "done")
  /\ answer' = [answer EXCEPT ![r] = a]
  /\ chosen' = [chosen EXCEPT ![r] = t]
  /\ UNCHANGED <<pod, owner, hungup, readVars>>

\* postEvent answers; the transaction, if any, ends and lets go of its row.
Answer(r, a, t) ==
  /\ Goto(r, "done")
  /\ answer' = [answer EXCEPT ![r] = a]
  /\ chosen' = [chosen EXCEPT ![r] = t]
  /\ owner' = [u \in Req |-> IF owner[u] = r THEN NoOwner ELSE owner[u]]
  /\ UNCHANGED <<pod, hungup, readVars>>

-----------------------------------------------------------------------------
(* postEvent and AcceptEvent.                                              *)

\* The body does not decode, is followed by another one, or fails Validate.
Reject(r) ==
  /\ pc[r] = "new" /\ BodyOf[r] = Malformed
  /\ Answer(r, "invalid", r)
  /\ UNCHANGED <<row, logVars, adverse>>

Receive(r) ==
  /\ pc[r] = "new" /\ BodyOf[r] # Malformed
  /\ Goto(r, "slot")
  /\ UNCHANGED <<pod, rowVars, chosen, answer, hungup, logVars, readVars, adverse>>

AcquireSlot(r) ==
  /\ pc[r] = "slot" /\ SlotsInUse(pod[r]) < Slots
  /\ Goto(r, "insert")
  /\ UNCHANGED <<pod, rowVars, chosen, answer, hungup, logVars, readVars, adverse>>

\* Mutant: there is no unique index on the claimed keys.
InsertAlways(r) ==
  /\ pc[r] = "insert" /\ FreeConnection(pod[r])
  /\ Goto(r, "begin")
  /\ row' = [row EXCEPT ![r] = "pending"]
  /\ UNCHANGED <<pod, owner, chosen, answer, hungup, logVars, readVars, adverse>>

\* The row is committed on its own, unless the key already has one.
Insert(r) ==
  /\ pc[r] = "insert" /\ FreeConnection(pod[r])
  /\ Goto(r, "begin")
  /\ row' = IF \E t \in Req : Found(r, t) THEN row ELSE [row EXCEPT ![r] = "pending"]
  /\ UNCHANGED <<pod, owner, chosen, answer, hungup, logVars, readVars, adverse>>

Begin(r) ==
  /\ pc[r] = "begin" /\ FreeConnection(pod[r])
  /\ Goto(r, "lock")
  /\ UNCHANGED <<pod, rowVars, chosen, answer, hungup, logVars, readVars, adverse>>

\* The locked row has another type or other data: the transaction rolls back.
Conflict(r) ==
  /\ pc[r] = "lock"
  /\ \E t \in Req : Found(r, t) /\ owner[t] = NoOwner /\ BodyOf[t] # BodyOf[r]
  /\ Answer(r, "conflict", r)
  /\ UNCHANGED <<row, logVars, adverse>>

\* An earlier request has published the event: nothing is written.
Deduplicate(r) ==
  /\ pc[r] = "lock"
  /\ \E t \in Req :
       /\ Found(r, t) /\ owner[t] = NoOwner /\ BodyOf[t] = BodyOf[r]
       /\ row[t] = "published"
       /\ Answer(r, "deduplicated", t)
  /\ UNCHANGED <<row, logVars, adverse>>

\* Mutant: published_at is not looked at.
LockAnyRow(r) ==
  /\ pc[r] = "lock"
  /\ \E t \in Req :
       /\ Found(r, t) /\ owner[t] = NoOwner /\ BodyOf[t] = BodyOf[r]
       /\ owner' = [owner EXCEPT ![t] = r]
       /\ chosen' = [chosen EXCEPT ![r] = t]
  /\ Goto(r, "publish")
  /\ UNCHANGED <<pod, row, answer, hungup, logVars, readVars, adverse>>

\* The row, r's own or one that an earlier request left pending, is r's to
\* publish.
LockRow(r) ==
  /\ pc[r] = "lock"
  /\ \E t \in Req :
       /\ Found(r, t) /\ owner[t] = NoOwner /\ BodyOf[t] = BodyOf[r]
       /\ row[t] = "pending"
       /\ owner' = [owner EXCEPT ![t] = r]
       /\ chosen' = [chosen EXCEPT ![r] = t]
  /\ Goto(r, "publish")
  /\ UNCHANGED <<pod, row, answer, hungup, logVars, readVars, adverse>>

\* WriteMessages returns nil: every in-sync replica has the record, and has it
\* twice when the writer repeated a write whose acknowledgement was lost.
Publish(r) ==
  /\ pc[r] = "publish"
  /\ \/ copies' = [copies EXCEPT ![chosen[r]] = @ + 1] /\ UNCHANGED adverse
     \/ copies' = [copies EXCEPT ![chosen[r]] = @ + 2] /\ Adversity
  /\ Goto(r, "mark")
  /\ UNCHANGED <<pod, rowVars, chosen, answer, hungup, late, readVars>>

\* published_at is set and the transaction commits, if it still exists.
Mark(r) ==
  /\ pc[r] = "mark" /\ owner[chosen[r]] = r
  /\ row' = [row EXCEPT ![chosen[r]] = "published"]
  /\ Answer(r, "accepted", chosen[r])
  /\ UNCHANGED <<logVars, adverse>>

-----------------------------------------------------------------------------
(* What goes wrong.                                                        *)

\* The deadline passes or the database fails.  The INSERT may have landed.
StatementFails(r) ==
  /\ pc[r] \in {"slot", "insert", "begin", "lock"}
  /\ Adversity
  /\ \/ UNCHANGED row
     \/ /\ pc[r] = "insert" /\ \A t \in Req : ~Found(r, t)
        /\ row' = [row EXCEPT ![r] = "pending"]
  /\ Answer(r, "unavailable", r)
  /\ UNCHANGED logVars

\* Mutant: the broker's error is taken for a success.
PublishErrorIgnored(r) ==
  /\ pc[r] = "publish"
  /\ Adversity
  /\ Goto(r, "mark")
  /\ UNCHANGED <<pod, rowVars, chosen, answer, hungup, logVars, readVars>>

\* Mutant: the event is withdrawn when its publication seems to have failed.
WithdrawEvent(r) ==
  /\ pc[r] = "publish"
  /\ Adversity
  /\ copies' \in {copies, [copies EXCEPT ![chosen[r]] = @ + 1]}
  /\ row' = [row EXCEPT ![chosen[r]] = "absent"]
  /\ Answer(r, "unavailable", r)
  /\ UNCHANGED late

\* WriteMessages gives up.  The record was not written, was written, or is
\* still in the writer's or the broker's hands.  The row stays pending.
PublishFails(r) ==
  /\ pc[r] = "publish"
  /\ Adversity
  /\ \/ UNCHANGED logVars
     \/ copies' = [copies EXCEPT ![chosen[r]] = @ + 1] /\ UNCHANGED late
     \/ late' = [late EXCEPT ![chosen[r]] = @ + 1] /\ UNCHANGED copies
  /\ Answer(r, "unavailable", r)
  /\ UNCHANGED row

\* Mutant: the row is marked on a best effort.
MarkErrorIgnored(r) ==
  /\ pc[r] = "mark"
  /\ (owner[chosen[r]] # r /\ UNCHANGED adverse) \/ Adversity
  /\ Answer(r, "accepted", chosen[r])
  /\ UNCHANGED <<row, logVars>>

\* The UPDATE or the COMMIT fails: certainly when the connection is gone, and
\* otherwise with a commit that may have landed.
MarkFails(r) ==
  /\ pc[r] = "mark"
  /\ \/ owner[chosen[r]] # r /\ UNCHANGED <<row, adverse>>
     \/ /\ owner[chosen[r]] = r /\ Adversity
        /\ row' \in {row, [row EXCEPT ![chosen[r]] = "published"]}
  /\ Answer(r, "unavailable", r)
  /\ UNCHANGED logVars

\* The server drops the transaction while the request waits for Kafka and so
\* does not notice: the row is free, the request goes on.
ConnectionLost(r) ==
  /\ pc[r] = "publish" /\ owner[chosen[r]] = r
  /\ Adversity
  /\ owner' = [owner EXCEPT ![chosen[r]] = NoOwner]
  /\ UNCHANGED <<pc, pod, row, chosen, answer, hungup, logVars, readVars>>

\* The caller goes away; WithoutCancel keeps the acceptance going.
Hangup(r) ==
  /\ r \in Impatient /\ pc[r] \notin {"new", "done"} /\ ~hungup[r]
  /\ hungup' = [hungup EXCEPT ![r] = TRUE]
  /\ UNCHANGED <<pc, pod, rowVars, chosen, answer, logVars, readVars, adverse>>

\* A pod dies and is replaced: its requests are cut off, Postgres rolls their
\* transactions back, and what they were writing to Kafka may be on its way.
Crash(p) ==
  LET lost == {r \in Req : pod[r] = p /\ pc[r] \notin {"new", "done"}}
      writing == {r \in lost : pc[r] = "publish"}
  IN /\ Adversity
     /\ pc' = [r \in Req |-> IF r \in lost THEN "done" ELSE pc[r]]
     /\ answer' = [r \in Req |-> IF r \in lost THEN "cut" ELSE answer[r]]
     /\ chosen' = [r \in Req |-> IF r \in lost THEN r ELSE chosen[r]]
     /\ owner' = [t \in Req |-> IF owner[t] \in lost THEN NoOwner ELSE owner[t]]
     /\ \E sent \in SUBSET writing :
          late' = [t \in Req |-> late[t] + Cardinality({r \in sent : chosen[r] = t})]
     /\ reading' = [q \in Read |-> IF rpod[q] = p /\ reading[q] # "new"
                                   THEN "done" ELSE reading[q]]
     /\ UNCHANGED <<pod, row, hungup, copies, rpod>>

\* A record that was given up reaches the topic, or never does.
LateLands(t) ==
  /\ late[t] > 0
  /\ late' = [late EXCEPT ![t] = @ - 1]
  /\ copies' \in {copies, [copies EXCEPT ![t] = @ + 1]}
  /\ UNCHANGED <<pc, pod, rowVars, chosen, answer, hungup, readVars, adverse>>

-----------------------------------------------------------------------------
(* Attempts: the event is looked up, then its rows are listed.             *)

OtherThanReads == <<pc, pod, rowVars, chosen, answer, hungup, logVars, rpod, adverse>>

ReceiveRead(q) ==
  /\ reading[q] = "new"
  /\ reading' = [reading EXCEPT ![q] = "finding"]
  /\ UNCHANGED OtherThanReads

\* Not found is answered at once.
Find(q) ==
  /\ reading[q] = "finding" /\ FreeConnection(rpod[q])
  /\ \E x \in {"found", "done"} : reading' = [reading EXCEPT ![q] = x]
  /\ UNCHANGED OtherThanReads

List(q) ==
  /\ reading[q] = "found" /\ FreeConnection(rpod[q])
  /\ reading' = [reading EXCEPT ![q] = "listing"]
  /\ UNCHANGED OtherThanReads

Listed(q) ==
  /\ reading[q] = "listing"
  /\ reading' = [reading EXCEPT ![q] = "done"]
  /\ UNCHANGED OtherThanReads

-----------------------------------------------------------------------------
Handle(r) ==
  \/ AcquireSlot(r) \/ Insert(r) \/ Begin(r)
  \/ Conflict(r) \/ Deduplicate(r) \/ LockRow(r)
  \/ Publish(r) \/ Mark(r)
  \/ StatementFails(r) \/ PublishFails(r) \/ MarkFails(r)

HandleRead(q) == Find(q) \/ List(q) \/ Listed(q)

\* Every request has been answered and nothing is on its way.
Quiet ==
  /\ \A r \in Req : pc[r] = "done"
  /\ \A q \in Read : reading[q] = "done"
  /\ UNCHANGED vars

Next ==
  \/ \E r \in Req : \/ Receive(r) \/ Reject(r) \/ Handle(r)
                    \/ ConnectionLost(r) \/ Hangup(r) \/ LateLands(r)
  \/ \E p \in Pod : Crash(p)
  \/ \E q \in Read : ReceiveRead(q) \/ HandleRead(q)
  \/ Quiet

Spec == Init /\ [][Next]_vars

\* Postgres and Kafka answer, one way or the other, and goroutines run.
Fairness == (\A r \in Req : WF_vars(Handle(r))) /\ (\A q \in Read : WF_vars(HandleRead(q)))
FairSpec == Spec /\ Fairness

-----------------------------------------------------------------------------
(* What acceptance promises.                                               *)

TypeOK ==
  /\ pc \in [Req -> Phases] /\ pod \in [Req -> Pod]
  /\ row \in [Req -> RowStates]
  /\ owner \in [Req -> Req \cup {NoOwner}]
  /\ \A t \in Req : owner[t] # NoOwner =>
       pc[owner[t]] \in {"publish", "mark"} /\ chosen[owner[t]] = t
  /\ chosen \in [Req -> Req] /\ answer \in [Req -> Answers]
  /\ \A r \in Req : pc[r] = "done" <=> answer[r] # "none"
  /\ hungup \in [Req -> BOOLEAN]
  /\ copies \in [Req -> Nat] /\ late \in [Req -> Nat]
  /\ reading \in [Read -> {"new", "finding", "found", "listing", "done"}]
  /\ rpod \in [Read -> Pod]
  /\ adverse \in Nat

Accepted(r) == answer[r] \in {"accepted", "deduplicated"}

\* A caller never receives a success for an event that was not durably written:
\* the event it was told of is on the topic and its row says so, however many
\* requests, failures and crashes came between.
AcceptedIsDurable ==
  \A r \in Req : Accepted(r) => row[chosen[r]] = "published" /\ copies[chosen[r]] > 0

\* Two accepted requests with one tenant and key were told of one event, and it
\* has the body of both; a request without a key is told of its own.
SameKeySameEvent ==
  \A r, s \in Req : Accepted(r) /\ Accepted(s) =>
    IF KeyOf[r] = NoKey THEN chosen[r] = r
    ELSE KeyOf[s] = KeyOf[r] => chosen[s] = chosen[r] /\ BodyOf[s] = BodyOf[r]

\* An event counts as newly accepted once, even when a lost connection or a
\* lost reply makes several requests publish it.
AcceptedOnce ==
  \A r, s \in Req : answer[r] = "accepted" /\ answer[s] = "accepted"
                      /\ chosen[r] = chosen[s] => r = s

\* Every request that was received is answered: the waits for a slot, a
\* connection and a row lock never close a circle.
EveryRequestAnswered == \A r \in Req : pc[r] = "slot" ~> pc[r] = "done"

\* However long Kafka takes to answer, the acceptances that wait for it leave a
\* connection of their pod's pool to the reads of the attempt history.
ReadsKeepAConnection ==
  MaxConns > 1 =>
    \A p \in Pod : Cardinality({r \in Req : pod[r] = p /\ pc[r] \in HoldsConnection}) < MaxConns

Contract ==
  INSTANCE IngestContract WITH
    reserved <- {t \in Req : row[t] # "absent"},
    logged <- {t \in Req : copies[t] > 0},
    told <- [r \in Req |-> IF Accepted(r) THEN chosen[r] ELSE r]

\* Every step of every pod is one of the idempotency contract's, or invisible.
KeepsIngestContract == Contract!Spec
=============================================================================
