---------------------------- MODULE RelayReplay ----------------------------
(***************************************************************************)
(* Replay: scripts/relay-replay.sh stops the consumer, runs relay-replay   *)
(* (cmd/relay-replay, internal/replay) to move the group's offsets, and    *)
(* starts the consumer again.                                              *)
(*                                                                         *)
(* The consumer is one process, with of its life (RelayDelivery) what      *)
(* matters to replay: it takes a record, commits it, drains on SIGTERM and *)
(* may be fenced while it does so, in which case kafka-go joins the group  *)
(* anew and commits what it has in hand in the new generation.             *)
(*                                                                         *)
(* Kafka is external.  An offset commit by no member is refused while the  *)
(* group has members, and each ListOffsets lookup is answered by itself.   *)
(* Offsets count from 0, as the broker's do.                               *)
(***************************************************************************)
EXTENDS Integers, Sequences

CONSTANTS
  Partition,
  Log0,         \* Log0[p]: records at the start, "old" or "new": at or after --since
  Processed,    \* Processed[p]: how many of them the group has delivered and committed
  Since,        \* what --since may be: "earliest", a "timestamp" or either
  MaxLen,       \* bound on a partition's length
  MaxAdverse,   \* bound on failures
  None

ASSUME LogAssumption ==
  /\ Log0 \in [Partition -> Seq({"old", "new"})]
  /\ Processed \in [Partition -> Nat]
  /\ \A p \in Partition : Processed[p] <= Len(Log0[p])
ASSUME SinceAssumption == Since \subseteq {"earliest", "timestamp"}
ASSUME BoundsAssumption == {MaxLen, MaxAdverse} \subseteq Nat /\ None \notin Nat

VARIABLES
  log, committed,  \* the topic and the group's offsets
  delivered,       \* delivered[p]: offsets delivered at least once
  again,           \* again[p]: offsets delivered since the last reset of p
  since,           \* the --since of this replay
  wanted,          \* the consumer is meant to run
  proc, member,    \* its process, and whether it is a member of the group
  fenced,          \* its session has expired under it
  position, hand,  \* its next offsets, and the record it has in hand
  script,          \* where relay-replay.sh is
  stopped,         \* its consumer_stopped
  cmd,             \* where relay-replay is
  todo,            \* lookups that have not been answered
  found, end,      \* the answers
  adverse

kafkaVars == <<log, committed, delivered, again>>
procVars == <<proc, member, fenced, position, hand>>
cmdVars == <<cmd, todo, found, end>>
vars == <<log, committed, delivered, again, since, wanted, proc, member, fenced,
          position, hand, script, stopped, cmd, todo, found, end, adverse>>

Init ==
  /\ log = Log0 /\ committed = Processed
  /\ delivered = [p \in Partition |-> 0 .. Processed[p] - 1]
  /\ again = [p \in Partition |-> {}]
  /\ since \in Since /\ wanted = TRUE
  /\ proc = "in" /\ member = TRUE /\ fenced = FALSE
  /\ position = Processed /\ hand = None
  /\ script = "start" /\ stopped = FALSE
  /\ cmd = "none" /\ todo = {}
  /\ found = [p \in Partition |-> None] /\ end = found
  /\ adverse = 0

Adversity == adverse < MaxAdverse /\ adverse' = adverse + 1

-----------------------------------------------------------------------------
(* Ingest and the consumer.                                                *)

Produce(p) ==
  /\ Len(log[p]) < MaxLen
  /\ log' = [log EXCEPT ![p] = Append(@, "new")]
  /\ UNCHANGED <<committed, delivered, again, since, wanted, procVars, script, stopped,
                 cmdVars, adverse>>

Join ==
  /\ wanted /\ proc = "out"
  /\ proc' = "in" /\ member' = TRUE /\ position' = committed
  /\ UNCHANGED <<kafkaVars, since, wanted, fenced, hand, script, stopped, cmdVars, adverse>>

Take(p) ==
  /\ wanted /\ proc = "in" /\ member /\ hand = None
  /\ position[p] < Len(log[p])
  /\ hand' = [partition |-> p, offset |-> position[p]]
  /\ position' = [position EXCEPT ![p] = @ + 1]
  /\ delivered' = [delivered EXCEPT ![p] = @ \cup {position[p]}]
  /\ again' = [again EXCEPT ![p] = @ \cup {position[p]}]
  /\ UNCHANGED <<log, committed, since, wanted, fenced, proc, member, script, stopped,
                 cmdVars, adverse>>

CommitRecord ==
  /\ hand # None /\ member
  /\ committed' = [committed EXCEPT ![hand.partition] = hand.offset + 1]
  /\ hand' = None
  /\ UNCHANGED <<log, delivered, again, since, wanted, fenced, proc, member, position, script,
                 stopped, cmdVars, adverse>>

\* SIGTERM has been received and the record in hand is done.
Leave ==
  /\ ~wanted /\ proc = "in" /\ hand = None
  /\ proc' = "out" /\ member' = FALSE
  /\ UNCHANGED <<kafkaVars, since, wanted, fenced, position, hand, script, stopped, cmdVars, adverse>>

\* The process dies; its session lives on.
Die ==
  /\ proc = "in" /\ Adversity
  /\ proc' = "out" /\ hand' = None
  /\ UNCHANGED <<kafkaVars, since, wanted, fenced, member, position, script, stopped, cmdVars>>

Expire ==
  /\ member
  /\ \/ proc = "out" /\ UNCHANGED <<fenced, adverse>>
     \/ proc = "in" /\ Adversity /\ fenced' = TRUE
  /\ member' = FALSE
  /\ UNCHANGED <<kafkaVars, since, wanted, proc, position, hand, script, stopped, cmdVars>>

\* The reader of a process that was fenced joins again, with a record in hand
\* or without.
Rejoin ==
  /\ proc = "in" /\ ~member
  /\ member' = TRUE /\ position' = committed
  /\ UNCHANGED <<kafkaVars, since, wanted, fenced, proc, hand, script, stopped, cmdVars, adverse>>

-----------------------------------------------------------------------------
(* relay-replay.                                                           *)

\* WaitInactive has seen the group without members.
Inactive ==
  /\ cmd = "wait" /\ ~member
  /\ cmd' = "list"
  /\ todo' = Partition \X (IF since = "timestamp" THEN {"time", "end"} ELSE {"first"})
  /\ UNCHANGED <<kafkaVars, since, wanted, procVars, script, stopped, found, end, adverse>>

News(p) == {i \in 1 .. Len(log[p]) : log[p][i] = "new"}

\* None is the broker's -1: no record at or after the timestamp.
FirstNew(p) ==
  IF News(p) = {} THEN None
  ELSE (CHOOSE i \in News(p) : \A j \in News(p) : i <= j) - 1

Answered(p, x) ==
  /\ cmd = "list" /\ <<p, x>> \in todo
  /\ todo' = todo \ {<<p, x>>}
  /\ cmd' = IF todo' = {} THEN "commit" ELSE "list"
  /\ UNCHANGED <<kafkaVars, since, wanted, procVars, script, stopped, adverse>>

\* Mutant: the group is sent to the end of the log.
LookUpLast(p) ==
  /\ Answered(p, "first")
  /\ found' = [found EXCEPT ![p] = Len(log[p])] /\ UNCHANGED end

LookUpFirst(p) ==
  /\ Answered(p, "first")
  /\ found' = [found EXCEPT ![p] = 0] /\ UNCHANGED end

LookUpTime(p) ==
  /\ Answered(p, "time")
  /\ found' = [found EXCEPT ![p] = FirstNew(p)] /\ UNCHANGED end

LookUpEnd(p) ==
  /\ Answered(p, "end")
  /\ end' = [end EXCEPT ![p] = Len(log[p])] /\ UNCHANGED found

\* offsetsFor
Offset(p) == IF found[p] # None THEN found[p] ELSE end[p]

\* The broker moves the partitions in ps.
Move(ps) ==
  /\ committed' = [p \in Partition |-> IF p \in ps THEN Offset(p) ELSE committed[p]]
  /\ again' = [p \in Partition |-> IF p \in ps THEN {} ELSE again[p]]

\* Mutant: partition errors in the response are not looked at.
CommitUnchecked ==
  /\ cmd = "commit" /\ ~member
  /\ \E ps \in SUBSET Partition : Move(ps) /\ ((ps = Partition /\ UNCHANGED adverse) \/ Adversity)
  /\ cmd' = "ok"
  /\ UNCHANGED <<log, delivered, since, wanted, procVars, script, stopped, todo, found, end>>

CommitOffsets ==
  /\ cmd = "commit" /\ ~member
  /\ Move(Partition)
  /\ cmd' = "ok"
  /\ UNCHANGED <<log, delivered, since, wanted, procVars, script, stopped, todo, found, end, adverse>>

\* The group stays active for the time of --wait or is active again, or a
\* request fails.  A commit may have landed
\* for some partitions, or for all with its response lost.
CommandFails ==
  /\ cmd \in {"wait", "list", "commit"}
  /\ \/ /\ cmd \in {"wait", "commit"} /\ member
        /\ UNCHANGED <<committed, again, adverse>>
     \/ Adversity /\ UNCHANGED <<committed, again>>
     \/ /\ cmd = "commit" /\ ~member /\ Adversity
        /\ \E ps \in SUBSET Partition : Move(ps)
  /\ cmd' = "error"
  /\ UNCHANGED <<log, delivered, since, wanted, procVars, script, stopped, todo, found, end>>

-----------------------------------------------------------------------------
(* relay-replay.sh.                                                        *)

scriptVars == <<kafkaVars, since, procVars, todo, found, end>>

\* The lever in stop_consumer has taken effect.
StopConsumer ==
  /\ script = "start"
  /\ wanted' = FALSE /\ script' = "stopped"
  /\ UNCHANGED <<scriptVars, stopped, cmd, adverse>>

\* consumer_stopped=1, and relay-replay is started.
StartCommand ==
  /\ script = "stopped"
  /\ stopped' = TRUE /\ script' = "run" /\ cmd' = "wait"
  /\ UNCHANGED <<scriptVars, wanted, adverse>>

CommandEnds ==
  /\ script = "run" /\ cmd \in {"ok", "error"}
  /\ script' = IF cmd = "ok" THEN "restore" ELSE "exit"
  /\ UNCHANGED <<scriptVars, wanted, stopped, cmd, adverse>>

RestoreConsumer ==
  /\ script = "restore"
  /\ wanted' = TRUE /\ stopped' = FALSE /\ script' = "done"
  /\ UNCHANGED <<scriptVars, cmd, adverse>>

\* A command of the script fails, with or without its effect: set -e.
ScriptFails ==
  /\ script \in {"start", "restore"} /\ Adversity
  /\ wanted' \in {wanted, script = "restore"}
  /\ script' = "exit"
  /\ UNCHANGED <<scriptVars, stopped, cmd>>

\* SIGINT or SIGTERM, handled between two commands.  The client of a relay-replay
\* under way is killed, and with it the command or, across kubectl exec, not.
Interrupt ==
  /\ script \in {"start", "stopped", "run", "restore"}
  /\ script' = "exit"
  /\ cmd' \in {cmd, "none"}
  /\ UNCHANGED <<scriptVars, wanted, stopped, adverse>>

\* The EXIT trap; its own failure is ignored.
Cleanup ==
  /\ script = "exit"
  /\ \/ wanted' = (wanted \/ stopped) /\ UNCHANGED adverse
     \/ stopped /\ UNCHANGED wanted /\ Adversity
  /\ script' = "failed"
  /\ UNCHANGED <<scriptVars, stopped, cmd>>

-----------------------------------------------------------------------------
Consume == Join \/ (\E p \in Partition : Take(p)) \/ CommitRecord \/ Leave \/ Rejoin
Command ==
  \/ Inactive \/ CommitOffsets
  \/ \E p \in Partition : LookUpFirst(p) \/ LookUpTime(p) \/ LookUpEnd(p)
  \/ CommandFails
Script == StartCommand \/ CommandEnds \/ RestoreConsumer \/ Cleanup
Session == proc = "out" /\ Expire

\* The script has ended and the consumer has nothing left to do.
Quiet ==
  /\ script \in {"done", "failed"} /\ cmd \in {"none", "ok", "error"}
  /\ UNCHANGED vars

Next ==
  \/ \E p \in Partition : Produce(p)
  \/ Consume \/ Die \/ Expire
  \/ Command \/ Script \/ StopConsumer \/ ScriptFails \/ Interrupt
  \/ Quiet

Spec == Init /\ [][Next]_vars
FairSpec ==
  Spec /\ WF_vars(Consume) /\ WF_vars(Session) /\ WF_vars(Command) /\ WF_vars(Script)

-----------------------------------------------------------------------------
TypeOK ==
  /\ \A p \in Partition :
       /\ log[p] \in Seq({"old", "new"})
       /\ {committed[p], position[p]} \subseteq 0 .. Len(log[p])
       /\ again[p] \subseteq delivered[p] /\ delivered[p] \subseteq 0 .. Len(log[p]) - 1
       /\ {found[p], end[p]} \subseteq (0 .. Len(log[p])) \cup {None}
  /\ since \in Since /\ {wanted, member, fenced, stopped} \subseteq BOOLEAN
  /\ proc \in {"in", "out"}
  /\ hand = None \/ (proc = "in" /\ hand.offset \in delivered[hand.partition])
  /\ script \in {"start", "stopped", "run", "restore", "exit", "done", "failed"}
  /\ script \in {"run", "restore"} => stopped /\ ~wanted
  /\ cmd \in {"none", "wait", "list", "commit", "ok", "error"}
  /\ adverse \in Nat

\* At least once: no offset the group has passed was never delivered.  A reset
\* to the beginning moves the group back in time whatever it interferes with;
\* MCRelayReplay has what a reset to a timestamp does.
NothingSkipped ==
  since = "earliest" => \A p \in Partition : \A o \in 0 .. committed[p] - 1 : o \in delivered[p]

\* The records that were asked for.
Window(p) ==
  {o \in 0 .. Len(log[p]) - 1 : since = "earliest" \/ log[p][o + 1] = "new"}

\* Of a partition that had no record in the window: those that were appended before
\* its end was looked up, and behind which the reset puts the group.
PassedOver(p) ==
  {o \in Window(p) : found[p] = None /\ end[p] # None /\ o < end[p]}

\* When the script reports success, everything in the window but what was passed
\* over is delivered again, though ingest went on and the consumer died meanwhile;
\* unless the consumer was fenced, which lets it commit over the reset.
WindowDeliveredAgain ==
  script = "done" /\ ~fenced ~>
    \A p \in Partition : Window(p) \subseteq again[p] \cup PassedOver(p)
=============================================================================
