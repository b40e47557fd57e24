----------------------- MODULE RelayAcceptanceProofs -----------------------
(***************************************************************************)
(* Type correctness of RelayAcceptance, its safety promises and its        *)
(* implementation of the idempotency contract, for any requests, pods,     *)
(* keys, pool sizes and number of faults; and the attempts that            *)
(* RelayHistory numbers in the same rows.                                  *)
(*                                                                         *)
(* SameKeySameEvent is not inductive: two acceptances are told of one      *)
(* event because the key has one row (the unique index) and every request  *)
(* at work on a row is one of that row's key and body.  AcceptedOnce needs *)
(* that a locked row is pending: the second to mark it would have to own   *)
(* a row that is published already.                                        *)
(***************************************************************************)
EXTENDS RelayHistory, FiniteSetTheorems, TLAPS

-----------------------------------------------------------------------------
(* The inductive invariant.                                                *)

Same(r, t) == IF KeyOf[r] = NoKey THEN t = r ELSE KeyOf[t] = KeyOf[r]
Fits(r, t) == Same(r, t) /\ BodyOf[t] = BodyOf[r]

EventHolds(t) ==
  /\ row[t] = "published" => copies[t] > 0
  /\ copies[t] > 0 \/ late[t] > 0 => row[t] # "absent"
  /\ owner[t] # NoOwner => row[t] = "pending"

RequestHolds(r) ==
  /\ pc[r] \in {"publish", "mark"} => row[chosen[r]] # "absent" /\ Fits(r, chosen[r])
  /\ pc[r] = "mark" => copies[chosen[r]] > 0
  /\ Accepted(r) => row[chosen[r]] = "published" /\ Fits(r, chosen[r])

\* A key has at most one row.
UniqueKeys ==
  \A t, u \in Req :
    row[t] # "absent" /\ row[u] # "absent" /\ KeyOf[t] = KeyOf[u] /\ KeyOf[t] # NoKey => t = u

IInv ==
  /\ TypeOK
  /\ \A t \in Req : EventHolds(t)
  /\ \A r \in Req : RequestHolds(r)
  /\ UniqueKeys
  /\ AcceptedOnce

-----------------------------------------------------------------------------
(* Type correctness.                                                       *)

LEMMA InitType == Init => TypeOK
BY NamesAssumption, BoundsAssumption DEF Init, TypeOK, Phases, Answers, RowStates

\* An answered request owns no row any more, and the others keep theirs.
LEMMA AnswerType ==
  ASSUME TypeOK, NEW r \in Req, NEW t \in Req, NEW a \in Answers \ {"none"}, Answer(r, a, t)
  PROVE  /\ pc' \in [Req -> Phases] /\ pod' \in [Req -> Pod]
         /\ owner' \in [Req -> Req \cup {NoOwner}]
         /\ \A u \in Req : owner'[u] # NoOwner =>
              pc'[owner'[u]] \in {"publish", "mark"} /\ chosen'[owner'[u]] = u
         /\ chosen' \in [Req -> Req] /\ answer' \in [Req -> Answers]
         /\ \A s \in Req : pc'[s] = "done" <=> answer'[s] # "none"
         /\ hungup' \in [Req -> BOOLEAN]
         /\ reading' \in [Read -> {"new", "finding", "found", "listing", "done"}]
         /\ rpod' \in [Read -> Pod]
BY NamesAssumption DEF TypeOK, Answer, Goto, Phases, readVars

LEMMA AdverseType ==
  ASSUME TypeOK, Adversity \/ UNCHANGED adverse
  PROVE  adverse' \in Nat
BY DEF TypeOK, Adversity

LEMMA NextType == TypeOK /\ [Next]_vars => TypeOK'
<1> SUFFICES ASSUME TypeOK, [Next]_vars PROVE TypeOK'
  OBVIOUS
<1> USE DEF rowVars, logVars, readVars
<1>1. CASE \E r \in Req : Receive(r) \/ AcquireSlot(r) \/ Insert(r) \/ Begin(r)
  BY <1>1, NamesAssumption DEF Receive, AcquireSlot, Insert, Begin, Goto, TypeOK, Phases, RowStates
<1>2. CASE \E r \in Req : LockRow(r)
  BY <1>2, NamesAssumption DEF LockRow, Goto, TypeOK, Phases
<1>3. CASE \E r \in Req : Publish(r)
  BY <1>3, AdverseType DEF Publish, Goto, TypeOK, Phases
<1>4. CASE \E r \in Req : Reject(r) \/ Conflict(r) \/ Deduplicate(r)
  BY <1>4, AnswerType DEF Reject, Conflict, Deduplicate, TypeOK, Answers
<1>5. CASE \E r \in Req : Mark(r) \/ StatementFails(r) \/ PublishFails(r) \/ MarkFails(r)
  <2>1. PICK r \in Req : Mark(r) \/ StatementFails(r) \/ PublishFails(r) \/ MarkFails(r)
    BY <1>5
  <2>2. PICK t \in Req, a \in Answers \ {"none"} : Answer(r, a, t)
    BY <2>1 DEF Mark, StatementFails, PublishFails, MarkFails, TypeOK, Answers
  <2>3. row' \in [Req -> RowStates]
    BY <2>1 DEF Mark, StatementFails, PublishFails, MarkFails, TypeOK, RowStates
  <2>4. copies' \in [Req -> Nat] /\ late' \in [Req -> Nat]
    BY <2>1 DEF Mark, StatementFails, PublishFails, MarkFails, TypeOK
  <2>5. adverse' \in Nat
    BY <2>1, AdverseType DEF Mark, StatementFails, PublishFails, MarkFails
  <2> QED BY <2>2, <2>3, <2>4, <2>5, AnswerType DEF TypeOK
<1>6. CASE \E r \in Req : ConnectionLost(r) \/ Hangup(r) \/ LateLands(r)
  <2>1. PICK r \in Req : ConnectionLost(r) \/ Hangup(r) \/ LateLands(r)
    BY <1>6
  <2>2. CASE ConnectionLost(r)
    BY <2>2, AdverseType, NamesAssumption DEF ConnectionLost, TypeOK
  <2>3. CASE Hangup(r)
    BY <2>3 DEF Hangup, TypeOK
  <2>4. CASE LateLands(r)
    BY <2>4 DEF LateLands, TypeOK
  <2> QED BY <2>1, <2>2, <2>3, <2>4
<1>7. CASE \E p \in Pod : Crash(p)
  <2>1. PICK p \in Pod : Crash(p)
    BY <1>7
  <2>2. late' \in [Req -> Nat]
    <3>1. PICK sent \in SUBSET Req :
            late' = [t \in Req |-> late[t] + Cardinality({r \in sent : chosen[r] = t})]
      BY <2>1 DEF Crash
    <3>2. \A t \in Req : Cardinality({r \in sent : chosen[r] = t}) \in Nat
      <4>1. \A t \in Req : {r \in sent : chosen[r] = t} \subseteq Req
        OBVIOUS
      <4> QED BY <4>1, FiniteAssumption, FS_Subset, FS_CardinalityType
    <3> QED BY <3>1, <3>2 DEF TypeOK
  <2>3. /\ owner' \in [Req -> Req \cup {NoOwner}]
        /\ \A u \in Req : owner'[u] # NoOwner =>
              pc'[owner'[u]] \in {"publish", "mark"} /\ chosen'[owner'[u]] = u
    BY <2>1, NamesAssumption DEF Crash, TypeOK
  <2> QED BY <2>1, <2>2, <2>3, AdverseType DEF Crash, TypeOK, Phases, Answers
<1>8. CASE \E q \in Read : ReceiveRead(q) \/ HandleRead(q)
  BY <1>8 DEF ReceiveRead, HandleRead, Find, List, Listed, OtherThanReads, TypeOK
<1>9. CASE Quiet \/ UNCHANGED vars
  BY <1>9 DEF Quiet, vars, TypeOK, Accepted
<1> QED BY <1>1, <1>2, <1>3, <1>4, <1>5, <1>6, <1>7, <1>8, <1>9 DEF Next, Handle

\* Type correctness, which includes that only a request at work on a row has it
\* locked, and that a request is finished exactly when it has its answer.
THEOREM TypeCorrect == Spec => []TypeOK
<1> QED BY InitType, NextType, PTL DEF Spec

-----------------------------------------------------------------------------
(* What only ever grows.                                                   *)

\* Rows are not lost and do not go back, and the topic keeps its records.
Grows ==
  \A t \in Req :
    /\ row[t] # "absent" => row'[t] # "absent"
    /\ row[t] = "published" => row'[t] = "published"
    /\ copies[t] > 0 => copies'[t] > 0

LEMMA NextGrows ==
  ASSUME TypeOK, \A t \in Req : EventHolds(t), [Next]_vars
  PROVE  Grows
<1> USE DEF rowVars, logVars, readVars, Grows
<1>1. CASE \E r \in Req : Receive(r) \/ AcquireSlot(r) \/ Begin(r) \/ LockRow(r)
                           \/ Reject(r) \/ Conflict(r) \/ Deduplicate(r)
                           \/ ConnectionLost(r) \/ Hangup(r)
  BY <1>1 DEF Receive, AcquireSlot, Begin, LockRow, Reject, Conflict, Deduplicate,
     ConnectionLost, Hangup
<1>2. CASE \E r \in Req : Insert(r) \/ StatementFails(r)
  BY <1>2 DEF Insert, StatementFails, Found, TypeOK
<1>3. CASE \E r \in Req : Publish(r) \/ PublishFails(r) \/ LateLands(r)
  BY <1>3 DEF Publish, PublishFails, LateLands, TypeOK
<1>4. CASE \E r \in Req : Mark(r) \/ MarkFails(r)
  BY <1>4 DEF Mark, MarkFails, EventHolds, TypeOK
<1>5. CASE \E p \in Pod : Crash(p)
  BY <1>5 DEF Crash
<1>6. CASE \E q \in Read : ReceiveRead(q) \/ HandleRead(q)
  BY <1>6 DEF ReceiveRead, HandleRead, Find, List, Listed, OtherThanReads
<1>7. CASE Quiet \/ UNCHANGED vars
  BY <1>7 DEF Quiet, vars
<1> QED BY <1>1, <1>2, <1>3, <1>4, <1>5, <1>6, <1>7 DEF Next, Handle

-----------------------------------------------------------------------------
(* Each part of the invariant is kept.                                     *)

\* A row is only inserted where the key has none.
LEMMA NextUnique ==
  ASSUME IInv, [Next]_vars
  PROVE  UniqueKeys'
<1> USE DEF rowVars, logVars, readVars
<1>1. CASE \E r \in Req : Insert(r) \/ StatementFails(r)
  <2>1. PICK r \in Req : Insert(r) \/ StatementFails(r)
    BY <1>1
  <2>2. row' = row \/ ((\A t \in Req : ~Found(r, t)) /\ row' = [row EXCEPT ![r] = "pending"])
    BY <2>1 DEF Insert, StatementFails
  <2> QED BY <2>2 DEF IInv, UniqueKeys, Found, TypeOK
<1>2. CASE \E r \in Req : Mark(r) \/ MarkFails(r)
  <2>1. \A t \in Req : row'[t] # "absent" => row[t] # "absent"
    BY <1>2 DEF Mark, MarkFails, IInv, TypeOK, EventHolds, RequestHolds
  <2> QED BY <2>1 DEF IInv, UniqueKeys
<1>3. row' = row \/ (\E r \in Req : Insert(r) \/ StatementFails(r) \/ Mark(r) \/ MarkFails(r))
  BY DEF Next, Handle, Receive, AcquireSlot, Begin, LockRow, Reject, Conflict, Deduplicate,
     ConnectionLost, Hangup, Publish, PublishFails, LateLands, Crash, ReceiveRead,
     HandleRead, Find, List, Listed, OtherThanReads, Quiet, vars
<1> QED BY <1>1, <1>2, <1>3 DEF IInv, UniqueKeys

\* Every record on the topic, or on its way there, has its row, every published
\* row its record, and a locked row is still pending.
LEMMA NextEvents ==
  ASSUME IInv, [Next]_vars, NEW t \in Req
  PROVE  EventHolds(t)'
<1> USE DEF rowVars, logVars, readVars
<1>1. CASE \E r \in Req : Receive(r) \/ AcquireSlot(r) \/ Begin(r) \/ Hangup(r)
  BY <1>1 DEF Receive, AcquireSlot, Begin, Hangup, IInv, EventHolds
<1>2. CASE \E r \in Req : Reject(r) \/ Conflict(r) \/ Deduplicate(r) \/ ConnectionLost(r)
  BY <1>2, NamesAssumption DEF Reject, Conflict, Deduplicate, ConnectionLost, Answer, IInv,
     EventHolds, TypeOK
<1>3. CASE \E r \in Req : Insert(r) \/ StatementFails(r)
  BY <1>3, NamesAssumption DEF Insert, StatementFails, Found, Answer, IInv, EventHolds, TypeOK
<1>4. CASE \E r \in Req : LockRow(r)
  BY <1>4 DEF LockRow, IInv, EventHolds, TypeOK
<1>5. CASE \E r \in Req : Publish(r)
  BY <1>5 DEF Publish, IInv, EventHolds, RequestHolds, TypeOK
<1>6. CASE \E r \in Req : PublishFails(r)
  <2>1. PICK r \in Req : PublishFails(r)
    BY <1>6
  <2>2. owner'[t] # NoOwner => owner[t] # NoOwner
    BY <2>1 DEF PublishFails, Answer, IInv, TypeOK
  <2>3. copies'[t] > 0 \/ late'[t] > 0 => copies[t] > 0 \/ late[t] > 0 \/ t = chosen[r]
    BY <2>1 DEF PublishFails, IInv, TypeOK
  <2>4. copies[t] > 0 => copies'[t] > 0
    BY <2>1 DEF PublishFails, IInv, TypeOK
  <2>5. row' = row /\ row[chosen[r]] # "absent"
    BY <2>1 DEF PublishFails, IInv, RequestHolds
  <2> QED BY <2>2, <2>3, <2>4, <2>5 DEF IInv, EventHolds
<1>7. CASE \E r \in Req : Mark(r) \/ MarkFails(r)
  <2>1. PICK r \in Req : Mark(r) \/ MarkFails(r)
    BY <1>7
  <2>2. pc[r] = "mark" /\ chosen[r] \in Req /\ copies[chosen[r]] > 0 /\ row[chosen[r]] # "absent"
    BY <2>1 DEF Mark, MarkFails, IInv, RequestHolds, TypeOK
  <2>3. \/ row' = row
        \/ owner[chosen[r]] = r /\ row' = [row EXCEPT ![chosen[r]] = "published"]
    BY <2>1 DEF Mark, MarkFails
  <2>4. owner'[t] # NoOwner => owner[t] # NoOwner /\ owner[t] # r
    BY <2>1, NamesAssumption DEF Mark, MarkFails, Answer, IInv, TypeOK
  <2>5. UNCHANGED <<copies, late>>
    BY <2>1 DEF Mark, MarkFails
  <2> QED BY <2>2, <2>3, <2>4, <2>5 DEF IInv, EventHolds, TypeOK
<1>8. CASE \E p \in Pod : Crash(p)
  <2>1. PICK p \in Pod : Crash(p)
    BY <1>8
  <2>2. owner'[t] # NoOwner => owner[t] # NoOwner
    BY <2>1 DEF Crash, IInv, TypeOK
  <2>3. row' = row /\ copies' = copies
    BY <2>1 DEF Crash
  <2>4. late'[t] > 0 => late[t] > 0 \/ \E r \in Req : pc[r] = "publish" /\ chosen[r] = t
    <3>1. PICK sent \in SUBSET {r \in Req : pc[r] = "publish"} :
            late' = [u \in Req |-> late[u] + Cardinality({r \in sent : chosen[r] = u})]
      BY <2>1 DEF Crash
    <3>2. CASE {r \in sent : chosen[r] = t} = {}
      BY <3>1, <3>2, FS_EmptySet DEF IInv, TypeOK
    <3>3. CASE {r \in sent : chosen[r] = t} # {}
      BY <3>3
    <3> QED BY <3>2, <3>3
  <2> QED BY <2>2, <2>3, <2>4 DEF IInv, EventHolds, RequestHolds
<1>9. CASE \E u \in Req : LateLands(u)
  BY <1>9 DEF LateLands, IInv, EventHolds, TypeOK
<1>10. CASE \E q \in Read : ReceiveRead(q) \/ HandleRead(q)
  BY <1>10 DEF ReceiveRead, HandleRead, Find, List, Listed, OtherThanReads, IInv, EventHolds
<1>11. CASE Quiet \/ UNCHANGED vars
  BY <1>11 DEF Quiet, vars, IInv, EventHolds
<1> QED BY <1>1, <1>2, <1>3, <1>4, <1>5, <1>6, <1>7, <1>8, <1>9, <1>10, <1>11 DEF Next, Handle

\* What holds of a request goes on holding when others step, and when it is
\* answered with anything but a success.
LEMMA RequestFrame ==
  ASSUME IInv, Grows, NEW r \in Req,
         pc'[r] = pc[r] \/ pc'[r] \notin {"publish", "mark"},
         \/ chosen'[r] = chosen[r] /\ answer'[r] = answer[r]
         \/ pc'[r] = "done" /\ ~Accepted(r)'
  PROVE  RequestHolds(r)'
BY DEF IInv, Grows, RequestHolds, Accepted, Fits, Same, TypeOK

\* An answered request leaves the others as they are.
LEMMA AnswerFrame ==
  ASSUME TypeOK, NEW r \in Req, NEW t \in Req, NEW a, Answer(r, a, t)
  PROVE  /\ pc'[r] = "done" /\ answer'[r] = a /\ chosen'[r] = t
         /\ \A s \in Req \ {r} : pc'[s] = pc[s] /\ chosen'[s] = chosen[s] /\ answer'[s] = answer[s]
BY DEF TypeOK, Answer, Goto

LEMMA NextRequests ==
  ASSUME IInv, [Next]_vars, NEW s \in Req
  PROVE  RequestHolds(s)'
<1> USE DEF rowVars, logVars, readVars
<1>0. Grows
  BY NextGrows DEF IInv
<1>1. CASE \E r \in Req : Receive(r) \/ AcquireSlot(r) \/ Insert(r) \/ Begin(r)
  BY <1>0, <1>1, RequestFrame DEF Receive, AcquireSlot, Insert, Begin, Goto, IInv, TypeOK
<1>2. CASE \E r \in Req : ConnectionLost(r) \/ Hangup(r) \/ LateLands(r)
  BY <1>0, <1>2, RequestFrame DEF ConnectionLost, Hangup, LateLands
<1>3. CASE \E r \in Req : Reject(r) \/ Conflict(r) \/ StatementFails(r) \/ PublishFails(r)
                           \/ MarkFails(r)
  <2>1. PICK r \in Req, a \in {"invalid", "conflict", "unavailable"} : Answer(r, a, r)
    BY <1>3 DEF Reject, Conflict, StatementFails, PublishFails, MarkFails
  <2>2. CASE s = r
    BY <1>0, <2>1, <2>2, AnswerFrame, RequestFrame DEF IInv, Accepted
  <2>3. CASE s # r
    BY <1>0, <2>1, <2>3, AnswerFrame, RequestFrame DEF IInv
  <2> QED BY <2>2, <2>3
<1>4. CASE \E r \in Req : Deduplicate(r) \/ Mark(r)
  <2>1. PICK r \in Req : Deduplicate(r) \/ Mark(r)
    BY <1>4
  <2>2. PICK t \in Req, a \in {"accepted", "deduplicated"} :
          Answer(r, a, t) /\ Fits(r, t) /\ row'[t] = "published"
    <3>1. CASE Deduplicate(r)
      BY <3>1 DEF Deduplicate, Found, Fits, Same
    <3>2. CASE Mark(r)
      BY <3>2 DEF Mark, IInv, RequestHolds, TypeOK
    <3> QED BY <2>1, <3>1, <3>2
  <2>3. CASE s = r
    BY <2>2, <2>3, AnswerFrame DEF RequestHolds, Fits, Same, IInv
  <2>4. CASE s # r
    BY <1>0, <2>2, <2>4, AnswerFrame, RequestFrame DEF IInv
  <2> QED BY <2>3, <2>4
<1>5. CASE \E r \in Req : LockRow(r)
  <2>1. PICK r \in Req : LockRow(r)
    BY <1>5
  <2>2. CASE s = r
    BY <2>1, <2>2 DEF LockRow, Goto, Found, Fits, Same, RequestHolds, Accepted, IInv, TypeOK
  <2>3. CASE s # r
    BY <1>0, <2>1, <2>3, RequestFrame DEF LockRow, Goto, IInv, TypeOK
  <2> QED BY <2>2, <2>3
<1>6. CASE \E r \in Req : Publish(r)
  <2>1. PICK r \in Req : Publish(r)
    BY <1>6
  <2>2. CASE s = r
    BY <2>1, <2>2 DEF Publish, Goto, Fits, Same, RequestHolds, Accepted, IInv, TypeOK
  <2>3. CASE s # r
    BY <1>0, <2>1, <2>3, RequestFrame DEF Publish, Goto, IInv, TypeOK
  <2> QED BY <2>2, <2>3
<1>7. CASE \E p \in Pod : Crash(p)
  BY <1>0, <1>7, RequestFrame DEF Crash, Accepted
<1>8. CASE \E q \in Read : ReceiveRead(q) \/ HandleRead(q)
  BY <1>0, <1>8, RequestFrame DEF ReceiveRead, HandleRead, Find, List, Listed, OtherThanReads
<1>9. CASE Quiet \/ UNCHANGED vars
  BY <1>0, <1>9, RequestFrame DEF Quiet, vars
<1> QED BY <1>1, <1>2, <1>3, <1>4, <1>5, <1>6, <1>7, <1>8, <1>9 DEF Next, Handle

\* Only the owner of a pending row is newly accepted with it.
LEMMA NextOnce ==
  ASSUME IInv, [Next]_vars
  PROVE  AcceptedOnce'
<1> USE DEF rowVars, logVars, readVars
<1>1. CASE \E r \in Req : Mark(r)
  <2>1. PICK r \in Req : Mark(r)
    BY <1>1
  <2>2. row[chosen[r]] = "pending" /\ chosen[r] \in Req
    BY <2>1, NamesAssumption DEF Mark, IInv, EventHolds, TypeOK
  <2>3. \A s \in Req : answer[s] = "accepted" => chosen[s] # chosen[r]
    BY <2>2 DEF IInv, RequestHolds, Accepted
  <2>4. /\ \A s \in Req \ {r} : chosen'[s] = chosen[s] /\ answer'[s] = answer[s]
        /\ chosen'[r] = chosen[r]
    BY <2>1, <2>2, AnswerFrame DEF Mark, IInv
  <2> QED BY <2>3, <2>4 DEF IInv, AcceptedOnce
<1>2. CASE ~\E r \in Req : Mark(r)
  <2>1. \A s \in Req : answer'[s] = "accepted" => answer[s] = "accepted" /\ chosen'[s] = chosen[s]
    <3>1. CASE \E r \in Req : Reject(r) \/ Conflict(r) \/ Deduplicate(r) \/ StatementFails(r)
                              \/ PublishFails(r) \/ MarkFails(r)
      <4>1. PICK r \in Req, t \in Req, a \in Answers \ {"accepted"} : Answer(r, a, t)
        BY <3>1 DEF Reject, Conflict, Deduplicate, StatementFails, PublishFails, MarkFails, Answers
      <4> QED BY <4>1, AnswerFrame DEF IInv
    <3>2. CASE \E r \in Req : LockRow(r)
      BY <3>2 DEF LockRow, IInv, TypeOK
    <3>3. CASE \E p \in Pod : Crash(p)
      BY <3>3 DEF Crash
    <3>4. CASE UNCHANGED <<answer, chosen>>
      BY <3>4
    <3> QED BY <1>2, <3>1, <3>2, <3>3, <3>4
        DEF Next, Handle, Receive, AcquireSlot, Insert, Begin, Publish, ConnectionLost, Hangup,
            LateLands, ReceiveRead, HandleRead, Find, List, Listed, OtherThanReads, Quiet, vars
  <2> QED BY <2>1 DEF IInv, AcceptedOnce
<1> QED BY <1>1, <1>2

-----------------------------------------------------------------------------
(* The theorems.                                                           *)

LEMMA InitInvariant == Init => IInv
BY InitType DEF Init, IInv, EventHolds, RequestHolds, UniqueKeys, AcceptedOnce, Accepted

LEMMA NextInvariant == IInv /\ [Next]_vars => IInv'
BY NextType, NextEvents, NextRequests, NextUnique, NextOnce DEF IInv

\* The strengthened invariant, from which the safety promises follow.
THEOREM Invariance == Spec => []IInv
<1> QED BY InitInvariant, NextInvariant, PTL DEF Spec

\* A request is answered with success only for an event that is on the topic and
\* marked as published (Store.AcceptEvent returns nil only after the commit).
THEOREM DurableAcceptance == Spec => []AcceptedIsDurable
<1>1. IInv => AcceptedIsDurable
  BY DEF IInv, RequestHolds, EventHolds, AcceptedIsDurable, TypeOK
<1> QED BY <1>1, Invariance, PTL

\* Requests accepted under one tenant and key were told of one event with their
\* body (the unique index and the row lock of lockAcceptedEvent).
THEOREM OneEventPerKey == Spec => []SameKeySameEvent
<1>1. IInv => SameKeySameEvent
  <2> SUFFICES ASSUME IInv, NEW r \in Req, NEW s \in Req, Accepted(r), Accepted(s)
               PROVE  IF KeyOf[r] = NoKey THEN chosen[r] = r
                      ELSE KeyOf[s] = KeyOf[r] => chosen[s] = chosen[r] /\ BodyOf[s] = BodyOf[r]
    BY DEF SameKeySameEvent
  <2>1. /\ Fits(r, chosen[r]) /\ row[chosen[r]] # "absent" /\ chosen[r] \in Req
        /\ Fits(s, chosen[s]) /\ row[chosen[s]] # "absent" /\ chosen[s] \in Req
    BY DEF IInv, RequestHolds, TypeOK
  <2> QED BY <2>1 DEF Fits, Same, IInv, UniqueKeys
<1> QED BY <1>1, Invariance, PTL

\* An event is newly accepted by one request at most (published_at is looked at
\* under the row's lock, and set by the transaction that holds it).
THEOREM NewlyAcceptedOnce == Spec => []AcceptedOnce
<1>1. IInv => AcceptedOnce
  BY DEF IInv
<1> QED BY <1>1, Invariance, PTL

-----------------------------------------------------------------------------
(* The idempotency contract.                                               *)

Reserved == {t \in Req : row[t] # "absent"}
Logged == {t \in Req : copies[t] > 0}
Told == [r \in Req |-> IF Accepted(r) THEN chosen[r] ELSE r]

LEMMA TellRefines ==
  ASSUME IInv, NEW r \in Req, NEW t \in Req, NEW a \in Answers \ {"none"}, Answer(r, a, t),
         pc[r] # "done", a \in {"accepted", "deduplicated"} \/ t = r
  PROVE  Contract!Tell(r, a, t)
<1>1. answer[r] = "none" /\ answer' = [answer EXCEPT ![r] = a]
  BY DEF IInv, TypeOK, Answer
<1>2. Told' = [Told EXCEPT ![r] = t]
  <2>1. \A s \in Req : Told'[s] = IF s = r THEN t ELSE Told[s]
    BY AnswerFrame DEF IInv, Told, Accepted
  <2> QED BY <2>1 DEF Told
<1> QED BY <1>1, <1>2 DEF Contract!Tell, Told

LEMMA AnswerRefines ==
  ASSUME IInv, NEW r \in Req, Reject(r) \/ Conflict(r) \/ Deduplicate(r) \/ Mark(r)
  PROVE  Contract!Next
<1>1. CASE Reject(r)
  <2>1. Contract!Tell(r, "invalid", r)
    BY <1>1, TellRefines DEF Reject, Answers
  <2>2. Contract!Reject(r)
    BY <1>1, <2>1 DEF Contract!Reject, Reject, logVars
  <2> QED BY <2>2 DEF Contract!Next
<1>2. CASE Conflict(r)
  <2>1. Contract!Tell(r, "conflict", r)
    BY <1>2, TellRefines DEF Conflict, Answers
  <2>2. Contract!Conflict(r)
    BY <1>2, <2>1 DEF Contract!Conflict, Contract!Same, Conflict, Found, logVars
  <2> QED BY <2>2 DEF Contract!Next
<1>3. CASE Deduplicate(r)
  <2>1. PICK t \in Req : /\ Found(r, t) /\ BodyOf[t] = BodyOf[r] /\ row[t] = "published"
                         /\ Answer(r, "deduplicated", t)
    BY <1>3 DEF Deduplicate
  <2>2. Contract!Tell(r, "deduplicated", t)
    BY <1>3, <2>1, TellRefines DEF Deduplicate, Answers
  <2>3. copies[t] > 0
    BY <2>1 DEF IInv, EventHolds
  <2>4. Contract!Accept(r, "deduplicated", t)
    BY <1>3, <2>1, <2>2, <2>3 DEF Contract!Accept, Contract!Same, Deduplicate, Found, logVars
  <2> QED BY <2>4 DEF Contract!Next
<1>4. CASE Mark(r)
  <2>1. PICK t \in Req : /\ t = chosen[r] /\ Answer(r, "accepted", t)
                         /\ Fits(r, t) /\ copies[t] > 0 /\ row[t] # "absent"
    BY <1>4 DEF Mark, IInv, RequestHolds, TypeOK
  <2>2. Contract!Tell(r, "accepted", t)
    BY <1>4, <2>1, TellRefines DEF Mark, Answers
  <2>3. {u \in Req : row'[u] # "absent"} = {u \in Req : row[u] # "absent"}
    BY <1>4, <2>1 DEF Mark, IInv, TypeOK
  <2>4. Contract!Accept(r, "accepted", t)
    BY <1>4, <2>1, <2>2, <2>3 DEF Contract!Accept, Contract!Same, Fits, Same, Mark, logVars
  <2> QED BY <2>4 DEF Contract!Next
<1> QED BY <1>1, <1>2, <1>3, <1>4

LEMMA FailureRefines ==
  ASSUME IInv, NEW r \in Req, StatementFails(r) \/ PublishFails(r) \/ MarkFails(r)
  PROVE  Contract!Fail(r)
<1>1. Contract!Tell(r, "unavailable", r)
  BY TellRefines DEF StatementFails, PublishFails, MarkFails, Answers
<1>2. CASE StatementFails(r)
  <2>1. \/ Reserved' = Reserved
        \/ (\A t \in Reserved : ~Contract!Same(r, t)) /\ Reserved' = Reserved \cup {r}
    BY <1>2 DEF StatementFails, Reserved, Found, Contract!Same, IInv, TypeOK
  <2>2. Logged' = Logged
    BY <1>2 DEF StatementFails, Logged, logVars
  <2> QED BY <1>1, <2>1, <2>2 DEF Contract!Fail, Reserved, Logged
<1>3. CASE PublishFails(r)
  <2>1. Reserved' = Reserved /\ chosen[r] \in Reserved /\ Contract!Same(r, chosen[r])
    BY <1>3 DEF PublishFails, Reserved, IInv, RequestHolds, Fits, Same, Contract!Same, TypeOK
  <2>2. Logged' = Logged \/ Logged' = Logged \cup {chosen[r]}
    BY <1>3 DEF PublishFails, Logged, logVars, IInv, TypeOK
  <2> QED BY <1>1, <2>1, <2>2 DEF Contract!Fail, Reserved, Logged
<1>4. CASE MarkFails(r)
  <2>1. Reserved' = Reserved
    BY <1>4 DEF MarkFails, Reserved, IInv, RequestHolds, TypeOK
  <2>2. Logged' = Logged
    BY <1>4 DEF MarkFails, Logged, logVars
  <2> QED BY <1>1, <2>1, <2>2 DEF Contract!Fail, Reserved, Logged
<1> QED BY <1>2, <1>3, <1>4

\* A step that tells nobody anything reserves a row, adds a record to the topic,
\* or is invisible.
LEMMA SilentRefines ==
  ASSUME IInv, answer' = answer, Told' = Told,
         \/ UNCHANGED <<Reserved, Logged>>
         \/ \E r \in Req : /\ \A t \in Reserved : ~Contract!Same(r, t)
                           /\ Reserved' = Reserved \cup {r} /\ UNCHANGED Logged
         \/ \E t \in Reserved : Logged' = Logged \cup {t} /\ UNCHANGED Reserved
  PROVE  Contract!Next \/ UNCHANGED Contract!ivars
BY DEF Contract!Next, Contract!Reserve, Contract!Append, Contract!ivars, Reserved, Logged, Told

\* The steps of a request that answer nothing.
LEMMA WorkRefines ==
  ASSUME IInv, NEW r \in Req,
         Receive(r) \/ AcquireSlot(r) \/ Insert(r) \/ Begin(r) \/ LockRow(r) \/ Publish(r)
  PROVE  Contract!Next \/ UNCHANGED Contract!ivars
<1> USE DEF rowVars, logVars
<1>1. answer' = answer
  BY DEF Receive, AcquireSlot, Insert, Begin, LockRow, Publish
<1>2. Told' = Told
  <2>1. \A s \in Req : Accepted(s)' = Accepted(s)
    BY <1>1 DEF Accepted
  <2>2. \A s \in Req : Accepted(s) => chosen'[s] = chosen[s]
    <3>1. CASE LockRow(r)
      BY <3>1 DEF LockRow, Accepted, IInv, TypeOK
    <3>2. CASE UNCHANGED chosen
      BY <3>2
    <3> QED BY <3>1, <3>2 DEF Receive, AcquireSlot, Insert, Begin, Publish
  <2> QED BY <2>1, <2>2 DEF Told
<1>3. CASE Receive(r) \/ AcquireSlot(r) \/ Begin(r) \/ LockRow(r)
  <2>1. UNCHANGED <<Reserved, Logged>>
    BY <1>3 DEF Receive, AcquireSlot, Begin, LockRow, Reserved, Logged
  <2> QED BY <1>1, <1>2, <2>1, SilentRefines
<1>4. CASE Insert(r)
  <2>1. UNCHANGED Logged
    BY <1>4 DEF Insert, Logged
  <2>2. CASE \E t \in Req : Found(r, t)
    BY <1>1, <1>2, <1>4, <2>1, <2>2, SilentRefines DEF Insert, Reserved
  <2>3. CASE ~\E t \in Req : Found(r, t)
    <3>1. \A t \in Reserved : ~Contract!Same(r, t)
      BY <2>3 DEF Reserved, Found, Contract!Same
    <3>2. Reserved' = Reserved \cup {r}
      BY <1>4, <2>3 DEF Insert, Reserved, IInv, TypeOK
    <3> QED BY <1>1, <1>2, <2>1, <3>1, <3>2, SilentRefines
  <2> QED BY <2>2, <2>3
<1>5. CASE Publish(r)
  <2>1. chosen[r] \in Reserved /\ UNCHANGED Reserved
    BY <1>5 DEF Publish, Reserved, IInv, RequestHolds, TypeOK
  <2>2. Logged' = Logged \cup {chosen[r]}
    BY <1>5, <2>1 DEF Publish, Logged, Reserved, IInv, TypeOK
  <2> QED BY <1>1, <1>2, <2>1, <2>2, SilentRefines
<1> QED BY <1>3, <1>4, <1>5

LEMMA WorldRefines ==
  ASSUME IInv,
         \/ \E r \in Req : ConnectionLost(r) \/ Hangup(r) \/ LateLands(r)
         \/ \E q \in Read : ReceiveRead(q) \/ HandleRead(q)
         \/ Quiet \/ UNCHANGED vars
  PROVE  Contract!Next \/ UNCHANGED Contract!ivars
<1> USE DEF rowVars, logVars
<1>1. UNCHANGED <<answer, chosen, row>>
  BY DEF ConnectionLost, Hangup, LateLands, ReceiveRead, HandleRead, Find, List, Listed,
     OtherThanReads, Quiet, vars
<1>2. UNCHANGED <<answer, Told, Reserved>>
  BY <1>1 DEF Told, Accepted, Reserved
<1>3. UNCHANGED Logged \/ \E t \in Reserved : Logged' = Logged \cup {t}
  <2>1. CASE \E t \in Req : LateLands(t)
    <3>1. PICK t \in Req : LateLands(t)
      BY <2>1
    <3>2. t \in Reserved
      BY <3>1 DEF LateLands, Reserved, IInv, EventHolds
    <3>3. UNCHANGED Logged \/ Logged' = Logged \cup {t}
      BY <3>1 DEF LateLands, Logged, IInv, TypeOK
    <3> QED BY <3>2, <3>3
  <2>2. CASE UNCHANGED copies
    BY <2>2 DEF Logged
  <2> QED BY <2>1, <2>2 DEF ConnectionLost, Hangup, ReceiveRead, HandleRead, Find, List,
       Listed, OtherThanReads, Quiet, vars
<1> QED BY <1>2, <1>3, SilentRefines

LEMMA CrashRefines ==
  ASSUME IInv, NEW p \in Pod, Crash(p)
  PROVE  Contract!Next
<1> DEFINE lost == {r \in Req : pod[r] = p /\ pc[r] \notin {"new", "done"}}
<1>1. \A r \in lost : answer[r] = "none"
  BY DEF IInv, TypeOK
<1>2. answer' = [r \in Req |-> IF r \in lost THEN "cut" ELSE answer[r]]
  BY DEF Crash
<1>3. UNCHANGED <<Reserved, Logged>>
  BY DEF Crash, Reserved, Logged
<1>4. Told' = Told
  <2>1. \A r \in Req : Accepted(r)' <=> Accepted(r)
    BY <1>1, <1>2 DEF Accepted
  <2>2. \A r \in Req : Accepted(r) => chosen'[r] = chosen[r]
    BY <1>1 DEF Crash, Accepted
  <2> QED BY <2>1, <2>2 DEF Told
<1>5. Contract!Cut(lost)
  BY <1>1, <1>2, <1>3, <1>4 DEF Contract!Cut, Reserved, Logged, Told
<1> QED BY <1>5 DEF Contract!Next

\* Pods, locks, connections, retries and lost answers add nothing to the
\* idempotency contract.
THEOREM ImplementsContract == Spec => KeepsIngestContract
<1>1. Init => Contract!Init
  BY DEF Init, Contract!Init, Accepted
<1>2. IInv /\ [Next]_vars => [Contract!Next]_(Contract!ivars)
  <2> SUFFICES ASSUME IInv, [Next]_vars PROVE Contract!Next \/ UNCHANGED Contract!ivars
    OBVIOUS
  <2>1. CASE \E r \in Req : Reject(r) \/ Conflict(r) \/ Deduplicate(r) \/ Mark(r)
    BY <2>1, AnswerRefines
  <2>2. CASE \E r \in Req : StatementFails(r) \/ PublishFails(r) \/ MarkFails(r)
    BY <2>2, FailureRefines DEF Contract!Next
  <2>3. CASE \E r \in Req : Receive(r) \/ AcquireSlot(r) \/ Insert(r) \/ Begin(r)
                             \/ LockRow(r) \/ Publish(r)
    BY <2>3, WorkRefines
  <2>4. CASE \E p \in Pod : Crash(p)
    BY <2>4, CrashRefines
  <2>5. CASE \/ \E r \in Req : ConnectionLost(r) \/ Hangup(r) \/ LateLands(r)
             \/ \E q \in Read : ReceiveRead(q) \/ HandleRead(q)
             \/ Quiet \/ UNCHANGED vars
    BY <2>5, WorldRefines
  <2> QED BY <2>1, <2>2, <2>3, <2>4, <2>5 DEF Next, Handle
<1> QED BY <1>1, <1>2, Invariance, PTL DEF Spec, KeepsIngestContract, Contract!Spec
-----------------------------------------------------------------------------
(* The pool.                                                               *)

Accepting(p) == {r \in Req : pod[r] = p /\ pc[r] \in InAcceptance}

\* The slots of every pod are kept: what the semaphore is for.
SlotsKept == \A p \in Pod : SlotsInUse(p) <= Slots

LEMMA AcceptingFinite == \A p : IsFiniteSet(Accepting(p)) /\ Cardinality(Accepting(p)) \in Nat
<1>1. \A p : Accepting(p) \subseteq Req
  BY DEF Accepting
<1> QED BY <1>1, FiniteAssumption, FS_Subset, FS_CardinalityType

\* As long as nobody comes to be in acceptance, no slot is taken.
LEMMA NobodyEnters ==
  ASSUME SlotsKept, pod' = pod,
         \A r \in Req : pc'[r] \in InAcceptance => pc[r] \in InAcceptance
  PROVE  SlotsKept'
<1> SUFFICES ASSUME NEW p \in Pod PROVE SlotsInUse(p)' <= Slots
  BY DEF SlotsKept, Slots
<1>1. Accepting(p)' \subseteq Accepting(p)
  BY DEF Accepting
<1>2. Cardinality(Accepting(p)') <= Cardinality(Accepting(p))
  BY <1>1, AcceptingFinite, FS_Subset
<1>3. /\ Cardinality(Accepting(p)) <= Slots
      /\ Cardinality(Accepting(p)) \in Nat /\ Cardinality(Accepting(p)') \in Nat
      /\ Slots \in Nat
  <2>1. Cardinality(Accepting(p)) \in Nat
    BY AcceptingFinite
  <2>2. Accepting(p)' \subseteq Req
    BY DEF Accepting
  <2>3. Cardinality(Accepting(p)') \in Nat
    BY <2>2, FiniteAssumption, FS_Subset, FS_CardinalityType
  <2> QED BY <2>1, <2>3, BoundsAssumption DEF SlotsKept, SlotsInUse, Accepting, Slots
<1> QED BY <1>2, <1>3 DEF SlotsInUse, Accepting

LEMMA SlotTaken ==
  ASSUME SlotsKept, TypeOK, NEW r \in Req, AcquireSlot(r)
  PROVE  SlotsKept'
<1> SUFFICES ASSUME NEW p \in Pod PROVE SlotsInUse(p)' <= Slots
  BY DEF SlotsKept, Slots
<1>1. /\ pod' = pod
      /\ pc' = [pc EXCEPT ![r] = "insert"] /\ pc[r] = "slot"
      /\ SlotsInUse(pod[r]) < Slots
  BY DEF AcquireSlot, Goto
<1>2. Slots \in Nat
  BY BoundsAssumption DEF Slots
<1>3. CASE p = pod[r]
  <2>1. Accepting(p)' = Accepting(p) \cup {r} /\ r \notin Accepting(p)
    BY <1>1, <1>3 DEF Accepting, InAcceptance, TypeOK
  <2>2. Cardinality(Accepting(p)') = Cardinality(Accepting(p)) + 1
    BY <2>1, AcceptingFinite, FS_AddElement
  <2>3. Cardinality(Accepting(p)) < Slots
    BY <1>1, <1>3 DEF SlotsInUse, Accepting
  <2>4. Cardinality(Accepting(p)) \in Nat
    BY AcceptingFinite
  <2> QED BY <1>2, <2>2, <2>3, <2>4 DEF SlotsInUse, Accepting
<1>4. CASE p # pod[r]
  <2>1. Accepting(p)' = Accepting(p)
    BY <1>1, <1>4 DEF Accepting, TypeOK
  <2> QED BY <2>1 DEF SlotsKept, SlotsInUse, Accepting
<1> QED BY <1>3, <1>4

LEMMA NextKeepsSlots == SlotsKept /\ TypeOK /\ [Next]_vars => SlotsKept'
<1> SUFFICES ASSUME SlotsKept, TypeOK, [Next]_vars PROVE SlotsKept'
  OBVIOUS
<1> USE DEF InAcceptance
<1>1. CASE \E r \in Req : AcquireSlot(r)
  BY <1>1, SlotTaken
<1>2. CASE \E r \in Req : Receive(r) \/ Insert(r) \/ Begin(r) \/ LockRow(r) \/ Publish(r)
  <2>1. PICK r \in Req : Receive(r) \/ Insert(r) \/ Begin(r) \/ LockRow(r) \/ Publish(r)
    BY <1>2
  <2>2. pod' = pod /\ \A s \in Req : pc'[s] \in InAcceptance => pc[s] \in InAcceptance
    BY <2>1 DEF Receive, Insert, Begin, LockRow, Publish, Goto, TypeOK
  <2> QED BY <2>2, NobodyEnters
<1>3. CASE \E r \in Req : \/ Reject(r) \/ Conflict(r) \/ Deduplicate(r) \/ Mark(r)
                           \/ StatementFails(r) \/ PublishFails(r) \/ MarkFails(r)
  <2>1. PICK r \in Req : \E t, a : Answer(r, a, t)
    BY <1>3 DEF Reject, Conflict, Deduplicate, Mark, StatementFails, PublishFails, MarkFails
  <2>2. pod' = pod /\ \A s \in Req : pc'[s] \in InAcceptance => pc[s] \in InAcceptance
    BY <2>1 DEF Answer, Goto, TypeOK
  <2> QED BY <2>2, NobodyEnters
<1>4. CASE \E p \in Pod : Crash(p)
  <2>1. pod' = pod /\ \A s \in Req : pc'[s] \in InAcceptance => pc[s] \in InAcceptance
    BY <1>4 DEF Crash
  <2> QED BY <2>1, NobodyEnters
<1>5. CASE \/ \E r \in Req : ConnectionLost(r) \/ Hangup(r) \/ LateLands(r)
           \/ \E q \in Read : ReceiveRead(q) \/ HandleRead(q)
           \/ Quiet \/ UNCHANGED vars
  <2>1. pod' = pod /\ pc' = pc
    BY <1>5 DEF ConnectionLost, Hangup, LateLands, ReceiveRead, HandleRead, Find, List, Listed,
       OtherThanReads, Quiet, vars
  <2> QED BY <2>1, NobodyEnters
<1> QED BY <1>1, <1>2, <1>3, <1>4, <1>5 DEF Next, Handle

LEMMA SlotsLeaveAConnection == SlotsKept => ReadsKeepAConnection
<1> SUFFICES ASSUME SlotsKept, MaxConns > 1, NEW p \in Pod
             PROVE  Cardinality({r \in Req : pod[r] = p /\ pc[r] \in HoldsConnection}) < MaxConns
  BY DEF ReadsKeepAConnection
<1> DEFINE held == {r \in Req : pod[r] = p /\ pc[r] \in HoldsConnection}
<1>1. held \subseteq Accepting(p)
  BY DEF Accepting, HoldsConnection, InAcceptance
<1>2. Cardinality(held) <= Cardinality(Accepting(p)) /\ IsFiniteSet(held)
  BY <1>1, AcceptingFinite, FS_Subset
<1>3. Cardinality(held) \in Nat /\ Cardinality(Accepting(p)) \in Nat
  BY <1>2, AcceptingFinite, FS_CardinalityType
<1>4. Cardinality(Accepting(p)) <= MaxConns - 1
  BY DEF SlotsKept, SlotsInUse, Accepting, Slots
<1> QED BY <1>2, <1>3, <1>4, BoundsAssumption

\* Acceptances that wait for Kafka, however many there are, leave a connection
\* of their pod to the reads (Store.acquireAcceptanceSlot, New).
THEOREM ReadsStayServed == Spec => []ReadsKeepAConnection
<1>1. Init => SlotsKept
  <2> SUFFICES ASSUME Init, NEW p \in Pod PROVE SlotsInUse(p) <= Slots
    BY DEF SlotsKept
  <2>1. {r \in Req : pod[r] = p /\ pc[r] \in InAcceptance} = {}
    BY DEF Init, InAcceptance
  <2>2. SlotsInUse(p) = 0
    BY <2>1, FS_EmptySet DEF SlotsInUse
  <2> QED BY <2>2, BoundsAssumption DEF Slots
<1> QED BY <1>1, NextKeepsSlots, SlotsLeaveAConnection, TypeCorrect, PTL DEF Spec
-----------------------------------------------------------------------------
(* The history beside acceptance: numbering of attempts, for every number  *)
(* of concurrent deliveries.  At most one recorder has the event's row, so *)
(* what it read as the last number is still the last one when it commits.  *)
(* Acceptance keeps its own invariant next to the recorders, and with it   *)
(* the row of every event that is on the topic.                            *)

RecorderTypes ==
  /\ rec \in [Recorder -> {"idle", "lock", "locked", "inserted"}]
  /\ event \in [Recorder -> Req]
  /\ number \in [Recorder -> Nat]
  /\ attempts \in [Req -> Seq(Nat)]

Exclusive == \A c, d \in Recorder, t \in Req : Locks(c, t) /\ Locks(d, t) => c = d

\* The number that was inserted is still the next one.
Current ==
  \A c \in Recorder : rec[c] = "inserted" => number[c] = Len(attempts[event[c]]) + 1

RecInv == RecorderTypes /\ Exclusive /\ Current /\ GapFree

HInv == IInv /\ RecInv /\ NoOrphans

-----------------------------------------------------------------------------
LEMMA HistoryInitially == HistoryInit => HInv
<1> SUFFICES ASSUME HistoryInit PROVE HInv
  OBVIOUS
<1>1. IInv
  BY InitInvariant DEF HistoryInit
<1>2. RecorderTypes
  BY DEF HistoryInit, RecorderTypes
<1>3. Exclusive /\ Current /\ NoOrphans
  BY DEF HistoryInit, Exclusive, Current, NoOrphans, Locks
<1>4. GapFree
  BY DEF HistoryInit, GapFree
<1> QED BY <1>1, <1>2, <1>3, <1>4 DEF HInv, RecInv

LEMMA RecordersFrame ==
  ASSUME RecInv, UNCHANGED recVars
  PROVE  RecInv'
BY DEF RecInv, RecorderTypes, Exclusive, Current, GapFree, Locks, recVars

LEMMA AcceptanceFrame ==
  ASSUME IInv, UNCHANGED vars
  PROVE  IInv'
BY NextInvariant

LEMMA AcceptanceKeeps ==
  ASSUME HInv, Acceptance
  PROVE  HInv'
<1>1. IInv' /\ RecInv'
  BY NextInvariant, RecordersFrame DEF Acceptance, HInv
<1>2. NoOrphans'
  <2>1. Grows
    BY NextGrows DEF Acceptance, HInv, IInv
  <2> QED
    BY <2>1 DEF HInv, NoOrphans, Grows, Acceptance, recVars, RecInv, RecorderTypes
<1> QED BY <1>1, <1>2 DEF HInv

\* A delivery starts with a record it has read, and that has a row.
LEMMA AttemptKeeps ==
  ASSUME HInv, NEW c \in Recorder, Attempt(c)
  PROVE  HInv'
<1>1. PICK t \in Req : copies[t] > 0 /\ event' = [event EXCEPT ![c] = t]
  BY DEF Attempt
<1>2. rec' = [rec EXCEPT ![c] = "lock"] /\ UNCHANGED <<vars, number, attempts>>
  BY DEF Attempt
<1>3. IInv'
  BY <1>2, AcceptanceFrame DEF HInv
<1>4. NoOrphans'
  <2>1. row[t] # "absent"
    BY <1>1 DEF HInv, IInv, EventHolds
  <2> QED
    BY <1>1, <1>2, <2>1 DEF HInv, NoOrphans, RecInv, RecorderTypes, vars
<1>5. RecInv'
  BY <1>1, <1>2 DEF HInv, RecInv, RecorderTypes, Exclusive, Current, GapFree, Locks
<1> QED BY <1>3, <1>4, <1>5 DEF HInv

LEMMA LockKeeps ==
  ASSUME HInv, NEW c \in Recorder, LockEvent(c)
  PROVE  HInv'
<1>1. IInv'
  BY AcceptanceFrame DEF HInv, LockEvent
<1>2. NoOrphans'
  BY DEF LockEvent, HInv, NoOrphans, RecInv, RecorderTypes, vars
<1>3. RecInv'
  BY DEF LockEvent, FreeOfRecorders, HInv, RecInv, RecorderTypes, Exclusive, Current,
     GapFree, Locks
<1> QED BY <1>1, <1>2, <1>3 DEF HInv

LEMMA InsertKeeps ==
  ASSUME HInv, NEW c \in Recorder, InsertAttempt(c)
  PROVE  HInv'
<1>1. IInv'
  BY AcceptanceFrame DEF HInv, InsertAttempt
<1>2. NoOrphans'
  BY DEF InsertAttempt, HInv, NoOrphans, RecInv, RecorderTypes, vars
<1>3. PICK t \in Req : t = event[c]
  BY DEF HInv, RecInv, RecorderTypes
<1>4. attempts[t] \in Seq(Nat) /\ \A i \in 1 .. Len(attempts[t]) : attempts[t][i] = i
  BY DEF HInv, RecInv, RecorderTypes, GapFree
<1>5. number' = [number EXCEPT ![c] = Len(attempts[t]) + 1]
  <2>1. CASE attempts[t] = <<>>
    BY <1>3, <2>1 DEF InsertAttempt
  <2>2. CASE attempts[t] # <<>>
    <3>1. Len(attempts[t]) \in 1 .. Len(attempts[t])
      BY <1>4, <2>2
    <3>2. attempts[t][Len(attempts[t])] = Len(attempts[t])
      BY <1>4, <3>1
    <3> QED BY <1>3, <2>2, <3>2 DEF InsertAttempt
  <2> QED BY <2>1, <2>2
<1>6. RecInv'
  <2>1. RecorderTypes'
    BY <1>4, <1>5 DEF InsertAttempt, HInv, RecInv, RecorderTypes
  <2>2. Exclusive' /\ GapFree'
    BY DEF InsertAttempt, HInv, RecInv, RecorderTypes, Exclusive, GapFree, Locks
  <2>3. Current'
    BY <1>3, <1>5 DEF InsertAttempt, HInv, RecInv, RecorderTypes, Current
  <2> QED BY <2>1, <2>2, <2>3 DEF RecInv
<1> QED BY <1>1, <1>2, <1>6 DEF HInv

\* The attempt that was inserted becomes visible, by COMMIT or by one whose reply
\* is lost; nobody else has one of this event inserted.
LEMMA CommitKeeps ==
  ASSUME RecInv, NEW c \in Recorder, rec[c] = "inserted",
         attempts' = [attempts EXCEPT ![event[c]] = Append(@, number[c])],
         rec' = [rec EXCEPT ![c] = "idle"], UNCHANGED <<event, number>>
  PROVE  RecInv'
<1>1. PICK t \in Req : t = event[c]
  BY DEF RecInv, RecorderTypes
<1>2. /\ attempts[t] \in Seq(Nat) /\ number[c] = Len(attempts[t]) + 1
      /\ \A i \in 1 .. Len(attempts[t]) : attempts[t][i] = i
  BY <1>1 DEF RecInv, RecorderTypes, Current, GapFree
<1>3. /\ attempts'[t] = Append(attempts[t], number[c]) /\ number[c] \in Nat
      /\ \A u \in Req \ {t} : attempts'[u] = attempts[u]
  BY <1>1, <1>2 DEF RecInv, RecorderTypes
<1>4. RecorderTypes'
  BY <1>1, <1>2, <1>3 DEF RecInv, RecorderTypes
<1>5. Exclusive'
  BY DEF RecInv, RecorderTypes, Exclusive, Locks
<1>6. Current'
  <2> SUFFICES ASSUME NEW d \in Recorder, rec'[d] = "inserted"
               PROVE  number'[d] = Len(attempts'[event'[d]]) + 1
    BY DEF Current
  <2>1. d # c /\ rec[d] = "inserted"
    BY DEF RecInv, RecorderTypes
  <2>2. event[d] # t
    BY <1>1, <2>1 DEF RecInv, RecorderTypes, Exclusive, Locks
  <2> QED BY <1>3, <2>1, <2>2 DEF RecInv, RecorderTypes, Current
<1>7. GapFree'
  <2> SUFFICES ASSUME NEW u \in Req, NEW i \in 1 .. Len(attempts'[u])
               PROVE  attempts'[u][i] = i
    BY DEF GapFree
  <2>1. CASE u # t
    BY <1>3, <2>1 DEF RecInv, GapFree
  <2>2. CASE u = t
    <3>1. i \in 1 .. Len(attempts[t]) \/ i = Len(attempts[t]) + 1
      BY <1>2, <1>3, <2>2
    <3> QED BY <1>2, <1>3, <2>2, <3>1
  <2> QED BY <2>1, <2>2
<1> QED BY <1>4, <1>5, <1>6, <1>7 DEF RecInv

\* A rollback leaves the history as it was.
LEMMA RollbackKeeps ==
  ASSUME RecInv, NEW c \in Recorder, UNCHANGED <<attempts, event, number>>,
         rec' = [rec EXCEPT ![c] = "idle"]
  PROVE  RecInv'
BY DEF RecInv, RecorderTypes, Exclusive, Current, GapFree, Locks

LEMMA EndKeeps ==
  ASSUME HInv, NEW c \in Recorder, CommitAttempt(c) \/ RecordFails(c)
  PROVE  HInv'
<1>1. IInv'
  <2>1. CASE CommitAttempt(c)
    BY <2>1, AcceptanceFrame DEF HInv, CommitAttempt
  <2>2. CASE RecordFails(c)
    <3>1. /\ UNCHANGED <<pc, pod, row, owner, chosen, answer, hungup, copies, late, reading, rpod>>
          /\ adverse' \in Nat
      BY <2>2 DEF RecordFails, rowVars, logVars, readVars, Adversity, HInv, IInv, TypeOK
    <3>2. TypeOK'
      BY <3>1 DEF HInv, IInv, TypeOK
    <3>3. (\A t \in Req : EventHolds(t)') /\ UniqueKeys' /\ AcceptedOnce'
      BY <3>1 DEF HInv, IInv, EventHolds, UniqueKeys, AcceptedOnce
    <3>4. \A r \in Req : RequestHolds(r)'
      BY <3>1 DEF HInv, IInv, RequestHolds, Accepted, Fits, Same
    <3> QED BY <3>2, <3>3, <3>4 DEF IInv
  <2> QED BY <2>1, <2>2
<1>2. NoOrphans'
  BY DEF CommitAttempt, RecordFails, HInv, NoOrphans, RecInv, RecorderTypes, vars, rowVars
<1>3. RecInv'
  <2>1. UNCHANGED <<event, number>> /\ rec' = [rec EXCEPT ![c] = "idle"]
    BY DEF CommitAttempt, RecordFails
  <2>2. \/ attempts' = attempts
        \/ rec[c] = "inserted" /\ attempts' = [attempts EXCEPT ![event[c]] = Append(@, number[c])]
    BY DEF CommitAttempt, RecordFails
  <2> QED BY <2>1, <2>2, CommitKeeps, RollbackKeeps DEF HInv
<1> QED BY <1>1, <1>2, <1>3 DEF HInv

\* The invariant of acceptance and recorders together.
THEOREM HistoryInvariance == HistorySpec => []HInv
<1>1. HInv /\ [HistoryNext]_allVars => HInv'
  <2> SUFFICES ASSUME HInv, [HistoryNext]_allVars PROVE HInv'
    OBVIOUS
  <2>1. CASE UNCHANGED allVars
    <3>1. IInv' /\ RecInv'
      BY <2>1, AcceptanceFrame, RecordersFrame DEF HInv, allVars
    <3>2. NoOrphans'
      BY <2>1 DEF HInv, NoOrphans, allVars, vars, recVars
    <3> QED BY <3>1, <3>2 DEF HInv
  <2> QED
    BY <2>1, AcceptanceKeeps, AttemptKeeps, LockKeeps, InsertKeeps, EndKeeps
    DEF HistoryNext, Record
<1> QED BY HistoryInitially, <1>1, PTL DEF HistorySpec

\* An event's attempts are numbered without a gap or a repetition, whatever
\* fails and however many deliveries of it go on (Store.RecordAttempt).
THEOREM NumberedWithoutGaps == HistorySpec => []GapFree
<1>1. HInv => GapFree
  BY DEF HInv, RecInv
<1> QED BY <1>1, HistoryInvariance, PTL

\* A delivery finds the row of every event that acceptance has put on the topic
\* (the row is committed before Publisher is called).
THEOREM NobodyOrphaned == HistorySpec => []NoOrphans
<1>1. HInv => NoOrphans
  BY DEF HInv
<1> QED BY <1>1, HistoryInvariance, PTL
=============================================================================
