--------------------------- MODULE IngestContract ---------------------------
(***************************************************************************)
(* The ingest idempotency contract (docs/goal-relay.md), without pods,     *)
(* locks, transactions or retries: a request reserves an event unless its  *)
(* key already has one; reserved events, and no others, reach the log; a   *)
(* request is accepted with an event of its own key and body that is on    *)
(* the log, and refused as a conflict only when its key's event differs.   *)
(* Nothing promises that a refused request left nothing behind, nor that   *)
(* an event reaches the log once.                                          *)
(***************************************************************************)
CONSTANTS Req,    \* requests; the event a request reserves has its name
          KeyOf, BodyOf, NoKey

VARIABLES reserved,  \* events with a durable row
          logged,    \* events on the delivery log
          answer,    \* what the caller of each request was told
          told       \* the event id in the answer
ivars == <<reserved, logged, answer, told>>

\* The event a request stands for.
Same(r, t) == IF KeyOf[r] = NoKey THEN t = r ELSE KeyOf[t] = KeyOf[r]

Init ==
  /\ reserved = {} /\ logged = {}
  /\ answer = [r \in Req |-> "none"]
  /\ told = [r \in Req |-> r]

Reserve(r) ==
  /\ \A t \in reserved : ~Same(r, t)
  /\ reserved' = reserved \cup {r}
  /\ UNCHANGED <<logged, answer, told>>

Append(t) ==
  /\ t \in reserved
  /\ logged' = logged \cup {t}
  /\ UNCHANGED <<reserved, answer, told>>

Tell(r, a, t) ==
  /\ answer[r] = "none"
  /\ answer' = [answer EXCEPT ![r] = a]
  /\ told' = [told EXCEPT ![r] = t]

Accept(r, a, t) ==
  /\ t \in reserved \cap logged
  /\ Same(r, t) /\ BodyOf[t] = BodyOf[r]
  /\ Tell(r, a, t)
  /\ UNCHANGED <<reserved, logged>>

Conflict(r) ==
  /\ \E t \in reserved : Same(r, t) /\ BodyOf[t] # BodyOf[r]
  /\ Tell(r, "conflict", r)
  /\ UNCHANGED <<reserved, logged>>

\* 503: what the request reserved or wrote so far stays, and the statement or
\* the publication that failed may have taken effect.
Fail(r) ==
  /\ Tell(r, "unavailable", r)
  /\ \/ UNCHANGED <<reserved, logged>>
     \/ (\A t \in reserved : ~Same(r, t)) /\ reserved' = reserved \cup {r} /\ UNCHANGED logged
     \/ (\E t \in reserved : Same(r, t) /\ logged' = logged \cup {t}) /\ UNCHANGED reserved

\* A pod dies with the requests it was handling.
Cut(R) ==
  /\ \A r \in R : answer[r] = "none"
  /\ answer' = [r \in Req |-> IF r \in R THEN "cut" ELSE answer[r]]
  /\ UNCHANGED <<reserved, logged, told>>

Reject(r) ==
  /\ Tell(r, "invalid", r)
  /\ UNCHANGED <<reserved, logged>>

Next ==
  \/ \E r \in Req : Reserve(r) \/ Append(r) \/ Conflict(r) \/ Fail(r) \/ Reject(r)
  \/ \E r, t \in Req, a \in {"accepted", "deduplicated"} : Accept(r, a, t)
  \/ \E R \in SUBSET Req : Cut(R)

Spec == Init /\ [][Next]_ivars
=============================================================================
