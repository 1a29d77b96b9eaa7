-------------------------- MODULE TelemetryConsumers --------------------------
(***************************************************************************)
(* The telemetry consumer process: one consumer per topic, each reading    *)
(* its partition with manual commits, writing ProcessedEvent nodes and     *)
(* engineer-to-engineer edges to Neo4j, routing failures to a dead-letter  *)
(* queue, all in one asyncio process that Docker restarts on failure.      *)
(*                                                                         *)
(* Every await of _handle_message and process is a step of its own, so the *)
(* consumers interleave and the process can die between any two of them.   *)
(* An await that raises may have taken effect on the server or not.        *)
(* Positions count messages: position[t] is the number of messages the     *)
(* iterator has returned, so log[t][position[t]] is the one in hand.       *)
(* Left out: Prometheus metrics and the best-effort lag gauge.             *)
(***************************************************************************)
EXTENDS Naturals, Sequences, FiniteSets

CONSTANTS
  Topic,        \* the topics, one consumer each (topics.ALL_TOPICS)
  Event,        \* events with distinct event_ids
  TopicOf,      \* [Event -> Topic]
  Engineer,     \* engineer ids an event may name
  PairOf,       \* [Event -> Engineer \X Engineer]: the two ends of the edge
  Registered,   \* the engineers that are nodes of the graph
  Malformed,    \* events whose bytes do not deserialize
  Unresolved,   \* Slack events with resolved = false
  MaxFaults,    \* bound: awaits that raise, and producer retries
  MaxDeaths     \* bound: signals and kills (a failed consumer also ends the
                \* process, and costs a fault)

ASSUME ConstantsAssumption ==
  /\ TopicOf \in [Event -> Topic]
  /\ PairOf \in [Event -> Engineer \X Engineer]
  /\ Registered \subseteq Engineer
  /\ Malformed \subseteq Event
  /\ Unresolved \subseteq Event
  /\ MaxFaults \in Nat
  /\ MaxDeaths \in Nat

VARIABLES
  log,          \* log[t]: messages of topic t, in partition order
  committed,    \* committed[t]: messages the group has committed (broker)
  dlq,          \* dlq[t]: positions in stas.dlq.<group>, oldest first
  processed,    \* ids of the ProcessedEvent nodes
  isNew,        \* those of them whose is_new property is true
  weight,       \* weight[<<t, pair>>]: r.weight of that edge, 0 if absent
  proc,         \* the container: "running", "crashed" or "exited"
  pc,           \* pc[t]: what t's consumer task awaits
  position,     \* position[t]: messages t's iterator has returned
  faults,       \* awaits that have raised so far
  deaths,       \* process ends so far
  wrote         \* history: positions whose edge has been written

graph == <<processed, isNew, weight, wrote>>
broker == <<log, committed, dlq>>
vars == <<log, committed, dlq, processed, isNew, weight, proc, pc, position,
          faults, deaths, wrote>>

Link == {<<TopicOf[e], PairOf[e]>> : e \in Event}
LinkOf(e) == <<TopicOf[e], PairOf[e]>>

PCs == {"off", "starting", "poll", "mark", "upsert", "commit", "dlq",
        "recommit", "failed"}

TypeOK ==
  /\ log \in [Topic -> Seq(Event)]
  /\ committed \in [Topic -> Nat]
  /\ dlq \in [Topic -> Seq(Nat)]
  /\ processed \in SUBSET Event
  /\ isNew \in SUBSET Event
  /\ weight \in [Link -> Nat]
  /\ proc \in {"running", "crashed", "exited"}
  /\ pc \in [Topic -> PCs]
  /\ position \in [Topic -> Nat]
  /\ faults \in 0..MaxFaults
  /\ deaths \in Nat
  /\ wrote \in [Topic -> SUBSET Nat]

Init ==
  /\ log = [t \in Topic |-> <<>>]
  /\ committed = [t \in Topic |-> 0]
  /\ dlq = [t \in Topic |-> <<>>]
  /\ processed = {}
  /\ isNew = {}
  /\ weight = [l \in Link |-> 0]
  /\ proc = "running"
  /\ pc = [t \in Topic |-> "starting"]
  /\ position = [t \in Topic |-> 0]
  /\ faults = 0
  /\ deaths = 0
  /\ wrote = [t \in Topic |-> {}]

------------------------------------------------------------------------------
(* Helpers *)

InHand(t) == log[t][position[t]]

\* Every edge MERGE is preceded by a MATCH of both engineers.
BothRegistered(e) == PairOf[e][1] \in Registered /\ PairOf[e][2] \in Registered

Goto(t, label) == pc' = [pc EXCEPT ![t] = label]

\* An await raises: one of the MaxFaults failures a behaviour may have.
Raise == faults < MaxFaults /\ faults' = faults + 1

NoRaise == faults' = faults

\* Variant: the reading of the docstrings, is_new for the creating MERGE only.
DocumentedIsNew(e) == e \notin processed

\* MERGE (ev:ProcessedEvent) ON CREATE SET ev.is_new = true RETURN ev.is_new:
\* the property is set when the node is created and no statement ever
\* clears it, so a later MERGE reads true again.
ReturnedIsNew(e) == e \in isNew \/ e \notin processed

\* Variant: auto_offset_reset applied although the group has an offset.
ResumeFromEarliest(t) == 0

\* The group resumes after the messages it has committed.
ResumeAt(t) == committed[t]

\* Variant: a message that does not deserialize is passed over.
RouteSkippingMalformed(e) ==
  IF e \in Malformed THEN "poll" ELSE IF e \in Unresolved THEN "commit" ELSE "mark"

\* Where a delivered message goes: deserialize and the resolved test.
Route(e) ==
  IF e \in Malformed THEN "dlq" ELSE IF e \in Unresolved THEN "commit" ELSE "mark"

\* Variants: a failing dead-letter send is ignored, or retried.
SwallowedFailure == "recommit"
RetriedFailure == "retry"

\* A failure in the except block leaves run(): nothing catches it.
UncaughtFailure == "failed"

MergeProcessedEvent(e) ==
  /\ processed' = processed \cup {e}
  /\ isNew' = IF e \in processed THEN isNew ELSE isNew \cup {e}

\* MATCH both engineers, MERGE the edge, weight 1 or weight + 1.
MergeEdge(t, e) ==
  IF BothRegistered(e)
  THEN /\ weight' = [weight EXCEPT ![LinkOf(e)] = @ + 1]
       /\ wrote' = [wrote EXCEPT ![t] = @ \cup {position[t]}]
  ELSE UNCHANGED <<weight, wrote>>

------------------------------------------------------------------------------
(* Producers *)

\* send_and_wait of a fresh event appends it to its topic.
Publish(e) ==
  LET t == TopicOf[e] IN
  /\ \A i \in 1..Len(log[t]) : log[t][i] # e
  /\ log' = [log EXCEPT ![t] = Append(@, e)]
  /\ UNCHANGED <<committed, dlq, graph, proc, pc, position, faults, deaths>>

\* The client resends a batch whose acknowledgement was lost: the same event
\* is in the log twice (the producers do not enable idempotence).
ProducerRetry(e) ==
  LET t == TopicOf[e] IN
  /\ \E i \in 1..Len(log[t]) : log[t][i] = e
  /\ Raise
  /\ log' = [log EXCEPT ![t] = Append(@, e)]
  /\ UNCHANGED <<committed, dlq, graph, proc, pc, position, deaths>>

------------------------------------------------------------------------------
(* One consumer task *)

\* start(): subscribe with auto_offset_reset="earliest"; the group resumes
\* after its committed messages.
Start(t) ==
  /\ pc[t] = "starting"
  /\ \/ /\ Goto(t, "poll")
        /\ position' = [position EXCEPT ![t] = ResumeAt(t)]
        /\ NoRaise
     \/ /\ Raise
        /\ Goto(t, "failed")
        /\ UNCHANGED position
  /\ UNCHANGED <<broker, graph, proc, deaths>>

\* The iterator returns the next message; deserialize and the resolved test
\* run before the next await.
Deliver(t) ==
  LET e == log[t][position[t] + 1] IN
  /\ pc[t] = "poll"
  /\ position[t] < Len(log[t])
  /\ position' = [position EXCEPT ![t] = @ + 1]
  /\ Goto(t, Route(e))
  /\ UNCHANGED <<broker, graph, proc, faults, deaths>>

\* First transaction of process(): check and mark the event_id.
Mark(t) ==
  LET e == InHand(t) IN
  /\ pc[t] = "mark"
  /\ \/ /\ MergeProcessedEvent(e)
        /\ Goto(t, IF ReturnedIsNew(e) THEN "upsert" ELSE "commit")
        /\ NoRaise
     \/ /\ Raise
        /\ MergeProcessedEvent(e) \/ UNCHANGED <<processed, isNew>>
        /\ Goto(t, "dlq")
  /\ UNCHANGED <<broker, weight, wrote, proc, position, deaths>>

\* Second transaction of process(): the edge.
Upsert(t) ==
  LET e == InHand(t) IN
  /\ pc[t] = "upsert"
  /\ \/ /\ MergeEdge(t, e)
        /\ Goto(t, "commit")
        /\ NoRaise
     \/ /\ Raise
        /\ MergeEdge(t, e) \/ UNCHANGED <<weight, wrote>>
        /\ Goto(t, "dlq")
  /\ UNCHANGED <<broker, processed, isNew, proc, position, deaths>>

\* Variants: the commit is left out, or takes the end of the partition.
CommitNothing(t) == committed' = committed
CommitToEnd(t) == committed' = [committed EXCEPT ![t] = Len(log[t])]

\* commit() settles everything the iterator has returned.
CommitTo(t) == committed' = [committed EXCEPT ![t] = position[t]]

\* The commit inside the try: its failure is caught like one of process(), so
\* the message goes to the dead-letter queue as well.
Commit(t) ==
  /\ pc[t] = "commit"
  /\ \/ /\ CommitTo(t)
        /\ Goto(t, "poll")
        /\ NoRaise
     \/ /\ Raise
        /\ CommitTo(t) \/ UNCHANGED committed
        /\ Goto(t, "dlq")
  /\ UNCHANGED <<log, dlq, graph, proc, position, deaths>>

SendToDlq(t) == dlq' = [dlq EXCEPT ![t] = Append(@, position[t])]

\* _route_to_dlq, in the except block: nothing catches its failure.
RouteToDlq(t) ==
  /\ pc[t] = "dlq"
  /\ \/ /\ SendToDlq(t)
        /\ Goto(t, "recommit")
        /\ NoRaise
     \/ /\ Raise
        /\ SendToDlq(t) \/ UNCHANGED dlq
        /\ Goto(t, UncaughtFailure)
  /\ UNCHANGED <<log, committed, graph, proc, position, deaths>>

\* The commit after _route_to_dlq: nothing catches its failure either.
Recommit(t) ==
  /\ pc[t] = "recommit"
  /\ \/ /\ CommitTo(t)
        /\ Goto(t, "poll")
        /\ NoRaise
     \/ /\ Raise
        /\ CommitTo(t) \/ UNCHANGED committed
        /\ Goto(t, "failed")
  /\ UNCHANGED <<log, dlq, graph, proc, position, deaths>>

ConsumerStep(t) ==
  \/ Start(t)
  \/ Deliver(t)
  \/ Mark(t)
  \/ Upsert(t)
  \/ Commit(t)
  \/ RouteToDlq(t)
  \/ Recommit(t)

------------------------------------------------------------------------------
(* The process *)

Stop(state) ==
  /\ proc = "running"
  /\ proc' = state
  /\ pc' = [t \in Topic |-> "off"]
  /\ deaths' = deaths + 1
  /\ UNCHANGED <<broker, graph, position, faults>>

\* main(): a finished consumer task ends the wait; the other tasks are
\* cancelled where they stand (CancelledError is no Exception, so nothing is
\* routed or committed) and main returns, so the exit status is 0.
Shutdown == (\E t \in Topic : pc[t] = "failed") /\ Stop("exited")

\* SIGINT or SIGTERM sets stop_event: the same path.
Signal == deaths < MaxDeaths /\ Stop("exited")

\* The process is killed (out of memory, node lost): no clean-up runs.
Kill == deaths < MaxDeaths /\ Stop("crashed")

\* restart: on-failure starts the container again after a non-zero exit;
\* main() raises again when Neo4j cannot be reached.
Boot ==
  /\ proc = "crashed"
  /\ \/ /\ proc' = "running"
        /\ pc' = [t \in Topic |-> "starting"]
        /\ NoRaise
     \/ /\ Raise
        /\ UNCHANGED <<proc, pc>>
  /\ UNCHANGED <<broker, graph, position, deaths>>

\* An operator restarts the service, as the runbook prescribes.
OperatorRestart ==
  /\ proc = "exited"
  /\ proc' = "running"
  /\ pc' = [t \in Topic |-> "starting"]
  /\ UNCHANGED <<broker, graph, position, faults, deaths>>

Next ==
  \/ \E e \in Event : Publish(e) \/ ProducerRetry(e)
  \/ \E t \in Topic : ConsumerStep(t)
  \/ Shutdown
  \/ Signal
  \/ Kill
  \/ Boot
  \/ OperatorRestart

\* The event loop runs every task whose await is over, main() reacts to a
\* finished task, and Docker restarts a crashed container. Publishing,
\* failures, signals and the operator are not fair.
Fairness ==
  /\ \A t \in Topic : WF_vars(ConsumerStep(t))
  /\ WF_vars(Shutdown)
  /\ WF_vars(Boot)

Spec == Init /\ [][Next]_vars /\ Fairness
------------------------------------------------------------------------------
(* Properties *)

DeadLettered(t) == {dlq[t][k] : k \in 1..Len(dlq[t])}

\* A well-formed event that asks for no edge: an unresolved thread, or one
\* whose engineers are not both in the graph.
NeedsNoEdge(e) == e \notin Malformed /\ (e \in Unresolved \/ ~BothRegistered(e))

Handled(t, i) ==
  i \in wrote[t] \cup DeadLettered(t) \/ NeedsNoEdge(log[t][i])

\* No settled message is lost: whatever failed and whenever the process died,
\* a committed message has its edge written, sits in the dead-letter queue, or
\* asked for no edge. (The commits of _handle_message come after the effect.)
NoSilentLoss ==
  \A t \in Topic : \A i \in 1..committed[t] : Handled(t, i)

WrittenOn(l) == {i \in wrote[l[1]] : PairOf[log[l[1]][i]] = l[2]}

\* Over-counting is bounded by restarts: an edge's weight is at least the
\* number of its messages that were written and exceeds it by at most one per
\* end of the process, because one process writes a message at most once.
WeightWithinReplays ==
  \A l \in Link :
    LET n == Cardinality(WrittenOn(l)) IN
    n <= weight[l] /\ weight[l] <= n + deaths

\* The dead-letter queue keeps the order of the topic, and a message is in it
\* at most once per life of the process that could have read it.
DlqInOrder ==
  \A t \in Topic :
    /\ \A j, k \in 1..Len(dlq[t]) : j <= k => dlq[t][j] <= dlq[t][k]
    /\ \A i \in DeadLettered(t) :
         Cardinality({k \in 1..Len(dlq[t]) : dlq[t][k] = i}) <= 1 + deaths

\* A commit settles the message in hand and nothing else: offsets move by one,
\* forward, and never past what the consumer has been given.
CommitAdvancesByOne ==
  [][\A t \in Topic : committed'[t] # committed[t] =>
       committed'[t] = committed[t] + 1 /\ committed'[t] = position[t]]_vars

\* Every published message is settled in the end, whatever it contains,
\* unless the process has stopped with status 0 and stays so.
EverySettled ==
  []<>(proc # "exited") => \A t \in Topic : []<>(committed[t] = Len(log[t]))

Ledger == INSTANCE EventLedger WITH
  Ignorable <- {e \in Event : NeedsNoEdge(e)},
  settled <- committed,
  recorded <- [t \in Topic |-> wrote[t] \cup DeadLettered(t)]

\* The process implements the ledger: in order, one at a time, nothing
\* settled before its effect is on record, nothing older touched again.
ImplementsLedger == Ledger!LedgerSpec

\* pr_review.py promises that repeat processing of an event_id is a no-op.
CountedOnce ==
  \A l \in Link :
    weight[l] <= Cardinality({e \in Event :
                    LinkOf(e) = l /\ \E i \in 1..Len(log[l[1]]) : log[l[1]][i] = e})

\* docker-compose.yml asks for the service to be restarted on failure.
RestartedOnFailure ==
  (\E t \in Topic : pc[t] = "failed") ~>
    (proc = "running" /\ \A t \in Topic : pc[t] # "failed")
==============================================================================
