---------------------- MODULE TelemetryConsumers_proofs ----------------------
(***************************************************************************)
(* For every choice of topics, events, engineers and bounds: the consumer  *)
(* process keeps its types, loses no settled message, never takes the      *)
(* duplicate branch of process(), and implements EventLedger; and what an   *)
(* alert of the health check beside it means.                              *)
(***************************************************************************)
EXTENDS TelemetryHealth, FiniteSetTheorems, TLAPS

\* Where a topic's consumer stands, by its program counter, and the
\* strengthening of NoSilentLoss that makes it inductive: the message in hand
\* is the first uncommitted one (or, after a commit that took effect although
\* it raised, the last committed one), and a consumer about to commit has
\* handled it.
TopicInv(t) ==
  /\ committed[t] <= Len(log[t])
  /\ pc[t] = "poll" => position[t] = committed[t]
  /\ pc[t] \in {"mark", "upsert", "commit"} => position[t] = committed[t] + 1
  /\ pc[t] \in {"dlq", "recommit"} =>
       position[t] = committed[t] \/ position[t] = committed[t] + 1
  /\ pc[t] \in {"mark", "upsert", "commit", "dlq", "recommit"} =>
       position[t] \in 1..Len(log[t])
  /\ pc[t] \in {"mark", "upsert"} =>
       InHand(t) \notin Malformed \cup Unresolved
  /\ pc[t] = "commit" => Handled(t, position[t])
  /\ pc[t] = "recommit" => position[t] \in DeadLettered(t)
  /\ \A i \in 1..committed[t] : Handled(t, i)

\* No statement resets is_new, so every ProcessedEvent node has it.
NeverReset == isNew = processed

IInv == TypeOK /\ NeverReset /\ \A t \in Topic : TopicInv(t)

------------------------------------------------------------------------------
(* What a step leaves alone stays as it was. *)

\* A topic whose log, offset, queue, edges, counter and position a step does
\* not touch keeps its invariant: the consumers share no Kafka state.
LEMMA Frame ==
  ASSUME NEW u \in Topic, TopicInv(u),
         log'[u] = log[u], committed'[u] = committed[u], dlq'[u] = dlq[u],
         wrote'[u] = wrote[u], pc'[u] = pc[u], position'[u] = position[u]
  PROVE  TopicInv(u)'
BY DEF TopicInv, Handled, DeadLettered, InHand, NeedsNoEdge, BothRegistered

\* A message already handled stays handled when the log and the queue grow
\* and more edges are written.
LEMMA HandledStays ==
  ASSUME NEW t \in Topic, NEW i \in Nat, Handled(t, i),
         log'[t][i] = log[t][i],
         DeadLettered(t) \subseteq DeadLettered(t)',
         wrote[t] \subseteq wrote'[t]
  PROVE  Handled(t, i)'
BY DEF Handled, NeedsNoEdge, BothRegistered

\* Appending to a sequence adds its last element and keeps the others in place
\* (a partition or a dead-letter queue that grows by one message).
LEMMA AppendKeeps ==
  ASSUME NEW S, NEW s \in Seq(S), NEW x \in S
  PROVE  /\ Append(s, x) \in Seq(S)
         /\ Len(Append(s, x)) = Len(s) + 1
         /\ \A i \in 1..Len(s) : Append(s, x)[i] = s[i]
         /\ Append(s, x)[Len(s) + 1] = x
OBVIOUS

\* The edge an event increments is one the weights are kept for.
LEMMA LinkOfInLink == \A e \in Event : LinkOf(e) \in Link
BY DEF LinkOf, Link

\* Whatever a message's MERGE finds, it returns is_new = true.
LEMMA AlwaysNew == NeverReset => \A e \in Event : ReturnedIsNew(e)
BY DEF NeverReset, ReturnedIsNew

\* An await that raises, or one that does not, keeps the fault count in range.
LEMMA FaultsInRange ==
  ASSUME TypeOK, Raise \/ NoRaise
  PROVE  faults' \in 0..MaxFaults
BY ConstantsAssumption DEF TypeOK, Raise, NoRaise

\* The process as it starts on empty topics satisfies the invariant.
LEMMA InitIInv == Init => IInv
BY ConstantsAssumption
   DEF Init, IInv, TypeOK, NeverReset, TopicInv, PCs, Link, LinkOf

------------------------------------------------------------------------------
(* One lemma per kind of step. *)

\* Publishing, or publishing again, only makes a log longer.
LEMMA AppendStep ==
  ASSUME IInv, NEW e \in Event, Publish(e) \/ ProducerRetry(e)
  PROVE  IInv'
<1> DEFINE t == TopicOf[e]
<1>1. /\ t \in Topic
      /\ log' = [log EXCEPT ![t] = Append(@, e)]
      /\ UNCHANGED <<committed, dlq, graph, proc, pc, position, deaths>>
  BY ConstantsAssumption DEF Publish, ProducerRetry
<1>2. faults' \in 0..MaxFaults
  <2>1. faults' = faults \/ Raise
    BY DEF Publish, ProducerRetry
  <2>. QED BY <2>1, FaultsInRange DEF IInv, NoRaise
<1>3. /\ log[t] \in Seq(Event)
      /\ log'[t] = Append(log[t], e)
      /\ \A u \in Topic \ {t} : log'[u] = log[u]
  BY <1>1 DEF IInv, TypeOK
<1>4. TypeOK'
  <2>1. log' \in [Topic -> Seq(Event)]
    BY <1>1, <1>3, AppendKeeps DEF IInv, TypeOK
  <2>. QED BY <1>1, <1>2, <2>1 DEF IInv, TypeOK, graph
<1>5. NeverReset'
  BY <1>1 DEF IInv, NeverReset, graph
<1>6. ASSUME NEW u \in Topic
      PROVE  TopicInv(u)'
  <2>0. TopicInv(u)
    BY DEF IInv
  <2>1. CASE u # t
    BY <1>1, <1>3, <2>0, <2>1, Frame DEF graph
  <2>2. CASE u = t
    <3>1. /\ Len(log'[t]) = Len(log[t]) + 1
          /\ \A i \in 1..Len(log[t]) : log'[t][i] = log[t][i]
      BY <1>3, AppendKeeps
    <3>2. /\ Len(log[t]) \in Nat
          /\ committed[t] \in Nat
          /\ position[t] \in Nat
      BY <1>1, <1>3 DEF IInv, TypeOK
    <3>3. ASSUME NEW i \in 1..Len(log[t]), Handled(t, i)
          PROVE  Handled(t, i)'
      BY <1>1, <3>1, <3>2, <3>3, HandledStays DEF graph, DeadLettered
    <3>4. InHand(t)' = InHand(t) \/ position[t] \notin 1..Len(log[t])
      BY <1>1, <3>1 DEF InHand
    <3>5. DeadLettered(t)' = DeadLettered(t)
      BY <1>1 DEF DeadLettered
    <3>. QED
      BY <1>1, <2>0, <2>2, <3>1, <3>2, <3>3, <3>4, <3>5 DEF TopicInv
  <2>. QED BY <2>1, <2>2
<1>. QED BY <1>4, <1>5, <1>6 DEF IInv

\* A step of one consumer touches nothing of the other topics.
LEMMA OthersUntouched ==
  ASSUME IInv, NEW t \in Topic, ConsumerStep(t), NEW u \in Topic \ {t}
  PROVE  /\ log'[u] = log[u] /\ committed'[u] = committed[u] /\ dlq'[u] = dlq[u]
         /\ wrote'[u] = wrote[u] /\ pc'[u] = pc[u] /\ position'[u] = position[u]
         /\ proc' = proc /\ deaths' = deaths
<1>1. /\ log'[u] = log[u]
      /\ pc'[u] = pc[u]
      /\ position'[u] = position[u]
      /\ proc' = proc /\ deaths' = deaths
  BY DEF IInv, TypeOK, ConsumerStep, Start, Deliver, Mark, Upsert, Commit,
         RouteToDlq, Recommit, Goto, broker
<1>2. committed'[u] = committed[u]
  BY DEF IInv, TypeOK, ConsumerStep, Start, Deliver, Mark, Upsert, Commit,
         RouteToDlq, Recommit, CommitTo, broker
<1>3. dlq'[u] = dlq[u]
  BY DEF IInv, TypeOK, ConsumerStep, Start, Deliver, Mark, Upsert, Commit,
         RouteToDlq, Recommit, SendToDlq, broker
<1>4. wrote'[u] = wrote[u]
  BY DEF IInv, TypeOK, ConsumerStep, Start, Deliver, Mark, Upsert, Commit,
         RouteToDlq, Recommit, MergeEdge, graph
<1>. QED BY <1>1, <1>2, <1>3, <1>4

\* A step of one consumer leaves the other topics alone.
LEMMA OtherTopics ==
  ASSUME IInv, NEW t \in Topic, ConsumerStep(t), NEW u \in Topic \ {t}
  PROVE  TopicInv(u)'
<1>1. TopicInv(u)
  BY DEF IInv
<1>. QED BY <1>1, OthersUntouched, Frame

\* The facts about the message in hand that every step of a handler needs.
LEMMA HandFacts ==
  ASSUME IInv, NEW t \in Topic
  PROVE  /\ TopicInv(t)
         /\ log[t] \in Seq(Event) /\ Len(log[t]) \in Nat
         /\ committed[t] \in Nat /\ position[t] \in Nat
         /\ dlq[t] \in Seq(Nat) /\ wrote[t] \in SUBSET Nat
         /\ position[t] \in 1..Len(log[t]) => InHand(t) \in Event
BY DEF IInv, TypeOK, InHand

\* start() resumes at the first uncommitted message.
LEMMA StartStep ==
  ASSUME IInv, NEW t \in Topic, Start(t)
  PROVE  TypeOK' /\ NeverReset' /\ TopicInv(t)'
<1>1. TypeOK'
  <2>1. faults' \in 0..MaxFaults
    BY FaultsInRange DEF IInv, Start
  <2>. QED BY <2>1 DEF IInv, TypeOK, Start, Goto, ResumeAt, PCs, broker, graph
<1>2. NeverReset'
  BY DEF IInv, NeverReset, Start, graph
<1>3. /\ (pc'[t] = "poll" /\ position'[t] = committed[t]) \/ pc'[t] = "failed"
      /\ log'[t] = log[t] /\ committed'[t] = committed[t]
      /\ dlq'[t] = dlq[t] /\ wrote'[t] = wrote[t]
  BY DEF IInv, TypeOK, Start, Goto, ResumeAt, broker, graph
<1>4. \A i \in Nat : Handled(t, i) => Handled(t, i)'
  BY <1>3, HandledStays DEF DeadLettered
<1>. QED BY <1>1, <1>2, <1>3, <1>4, HandFacts DEF TopicInv

\* The iterator hands over the first uncommitted message, and what goes to
\* commit without effect needs none.
LEMMA DeliverStep ==
  ASSUME IInv, NEW t \in Topic, Deliver(t)
  PROVE  TypeOK' /\ NeverReset' /\ TopicInv(t)'
<1> DEFINE e == log[t][position[t] + 1]
<1>1. /\ pc[t] = "poll" /\ position[t] < Len(log[t])
      /\ position' = [position EXCEPT ![t] = @ + 1]
      /\ pc' = [pc EXCEPT ![t] = Route(e)]
      /\ UNCHANGED <<broker, graph, proc, faults, deaths>>
  BY DEF Deliver, Goto
<1>2. /\ Route(e) \in {"dlq", "commit", "mark"}
      /\ Route(e) = "commit" => e \in Unresolved \ Malformed
      /\ Route(e) = "mark" => e \notin Malformed \cup Unresolved
  BY DEF Route
<1>3. TypeOK'
  BY <1>1, <1>2 DEF IInv, TypeOK, PCs, broker, graph
<1>4. NeverReset'
  BY <1>1 DEF IInv, NeverReset, graph
<1>5. /\ position'[t] = position[t] + 1 /\ pc'[t] = Route(e)
      /\ log' = log /\ committed' = committed /\ dlq' = dlq /\ wrote' = wrote
  BY <1>1 DEF IInv, TypeOK, broker, graph
<1>6. \A i \in Nat : Handled(t, i) => Handled(t, i)'
  BY <1>5, HandledStays DEF DeadLettered
<1>7. InHand(t)' = e
  BY <1>5 DEF InHand
<1>8. Route(e) = "commit" => Handled(t, position[t])'
  BY <1>2, <1>5 DEF Handled, NeedsNoEdge
<1>9. /\ position[t] = committed[t]
      /\ committed[t] \in Nat /\ Len(log[t]) \in Nat
      /\ \A i \in 1..committed[t] : Handled(t, i)
  BY <1>1, HandFacts DEF TopicInv
<1>10. ASSUME NEW i \in 1..committed[t]
       PROVE  Handled(t, i)'
  BY <1>6, <1>9
<1>11. TopicInv(t)'
  <2> HIDE DEF e
  <2>1. CASE Route(e) = "dlq"
    BY <1>1, <1>5, <1>9, <1>10, <2>1 DEF TopicInv
  <2>2. CASE Route(e) = "commit"
    BY <1>1, <1>5, <1>8, <1>9, <1>10, <2>2 DEF TopicInv
  <2>3. CASE Route(e) = "mark"
    <3>1. InHand(t)' \notin Malformed \cup Unresolved
      BY <1>2, <1>7, <2>3
    <3>. QED BY <1>1, <1>5, <1>9, <1>10, <2>3, <3>1 DEF TopicInv
  <2>. QED BY <1>2, <2>1, <2>2, <2>3
<1>. QED BY <1>3, <1>4, <1>11

\* The first transaction of process() never leads straight to the commit.
LEMMA MarkStep ==
  ASSUME IInv, NEW t \in Topic, Mark(t)
  PROVE  TypeOK' /\ NeverReset' /\ TopicInv(t)'
<1> DEFINE e == InHand(t)
<1>1. /\ pc[t] = "mark"
      /\ position[t] \in 1..Len(log[t]) /\ position[t] = committed[t] + 1
      /\ e \in Event /\ e \notin Malformed \cup Unresolved
  BY HandFacts DEF Mark, TopicInv
<1>2. /\ UNCHANGED <<broker, weight, wrote, proc, position, deaths>>
      /\ MergeProcessedEvent(e) \/ UNCHANGED <<processed, isNew>>
      /\ pc' = [pc EXCEPT ![t] = "upsert"] \/ pc' = [pc EXCEPT ![t] = "dlq"]
      /\ Raise \/ NoRaise
  BY <1>1, AlwaysNew DEF IInv, Mark, Goto
<1>3. TypeOK'
  <2>1. faults' \in 0..MaxFaults
    BY <1>2, FaultsInRange DEF IInv
  <2>. QED BY <1>1, <1>2, <2>1 DEF IInv, TypeOK, PCs, MergeProcessedEvent, broker
<1>4. NeverReset'
  BY <1>2 DEF IInv, NeverReset, MergeProcessedEvent
<1>5. /\ log' = log /\ committed' = committed /\ dlq' = dlq /\ wrote' = wrote
      /\ position' = position /\ pc'[t] \in {"upsert", "dlq"}
  BY <1>2 DEF IInv, TypeOK, broker
<1>6. \A i \in Nat : Handled(t, i) => Handled(t, i)'
  BY <1>5, HandledStays DEF DeadLettered
<1>7. InHand(t)' = e
  BY <1>5 DEF InHand
<1>. QED BY <1>1, <1>3, <1>4, <1>5, <1>6, <1>7, HandFacts DEF TopicInv

\* The second transaction leads to the commit only after the edge is written
\* or its engineers are missing.
LEMMA UpsertStep ==
  ASSUME IInv, NEW t \in Topic, Upsert(t)
  PROVE  TypeOK' /\ NeverReset' /\ TopicInv(t)'
<1> DEFINE e == InHand(t)
<1>1. /\ pc[t] = "upsert"
      /\ position[t] \in 1..Len(log[t]) /\ position[t] = committed[t] + 1
      /\ e \in Event /\ e \notin Malformed \cup Unresolved
  BY HandFacts DEF Upsert, TopicInv
<1>2. /\ UNCHANGED <<broker, processed, isNew, proc, position, deaths>>
      /\ MergeEdge(t, e) \/ UNCHANGED <<weight, wrote>>
      /\ \/ pc' = [pc EXCEPT ![t] = "commit"] /\ MergeEdge(t, e)
         \/ pc' = [pc EXCEPT ![t] = "dlq"]
      /\ Raise \/ NoRaise
  BY DEF Upsert, Goto
<1>3. /\ wrote' \in [Topic -> SUBSET Nat] /\ weight' \in [Link -> Nat]
      /\ wrote[t] \subseteq wrote'[t]
  <2>1. LinkOf(e) \in Link
    BY <1>1, LinkOfInLink
  <2>2. CASE UNCHANGED <<weight, wrote>>
    BY <2>2 DEF IInv, TypeOK
  <2>3. CASE /\ weight' = [weight EXCEPT ![LinkOf(e)] = @ + 1]
             /\ wrote' = [wrote EXCEPT ![t] = @ \cup {position[t]}]
    <3>1. position[t] \in Nat
      BY DEF IInv, TypeOK
    <3>. QED BY <2>1, <2>3, <3>1 DEF IInv, TypeOK
  <2>. QED BY <1>2, <2>2, <2>3 DEF MergeEdge
<1>4. TypeOK'
  <2>1. faults' \in 0..MaxFaults
    BY <1>2, FaultsInRange DEF IInv
  <2>. QED BY <1>2, <1>3, <2>1 DEF IInv, TypeOK, PCs, broker
<1>5. NeverReset'
  BY <1>2 DEF IInv, NeverReset
<1>6. /\ log' = log /\ committed' = committed /\ dlq' = dlq
      /\ position' = position /\ pc'[t] \in {"commit", "dlq"}
  BY <1>2 DEF IInv, TypeOK, broker
<1>7. \A i \in Nat : Handled(t, i) => Handled(t, i)'
  BY <1>3, <1>6, HandledStays DEF DeadLettered
<1>8. MergeEdge(t, e) => Handled(t, position[t])'
  <2>1. CASE BothRegistered(e)
    BY <1>6, <2>1 DEF MergeEdge, Handled, IInv, TypeOK
  <2>2. CASE ~BothRegistered(e)
    BY <1>1, <1>6, <2>2 DEF Handled, NeedsNoEdge, BothRegistered, InHand
  <2>. QED BY <2>1, <2>2
<1>9. pc'[t] = "commit" => MergeEdge(t, e)
  BY <1>2 DEF IInv, TypeOK
<1>. QED
  BY <1>1, <1>4, <1>5, <1>6, <1>7, <1>8, <1>9, HandFacts DEF TopicInv

\* A commit, inside the try or after the dead letter, settles a message that
\* is handled: one step lemma for both.
LEMMA CommitKeeps ==
  ASSUME IInv, NEW t \in Topic, pc[t] \in {"commit", "recommit"},
         CommitTo(t) \/ UNCHANGED committed,
         UNCHANGED <<log, dlq, graph, proc, position, deaths>>
  PROVE  /\ committed' \in [Topic -> Nat]
         /\ committed'[t] \in {committed[t], position[t]}
         /\ CommitTo(t) => committed'[t] = position[t]
         /\ \A i \in 1..committed'[t] : Handled(t, i)'
<1>1. /\ position[t] = committed[t] \/ position[t] = committed[t] + 1
      /\ position[t] \in Nat /\ committed[t] \in Nat
      /\ Handled(t, position[t])
      /\ \A i \in 1..committed[t] : Handled(t, i)
  BY HandFacts DEF TopicInv, Handled
<1>2. /\ committed' \in [Topic -> Nat]
      /\ committed'[t] \in {committed[t], position[t]}
      /\ CommitTo(t) => committed'[t] = position[t]
  BY <1>1 DEF IInv, TypeOK, CommitTo
<1>3. \A i \in Nat : Handled(t, i) => Handled(t, i)'
  BY HandledStays DEF DeadLettered, graph
<1>4. ASSUME NEW i \in 1..committed'[t]
      PROVE  Handled(t, i)'
  <2>1. i \in 1..committed[t] \/ i = position[t]
    BY <1>1, <1>2
  <2>. QED BY <1>1, <1>3, <2>1
<1>. QED BY <1>2, <1>4

\* The commit in the try settles the message in hand, which was handled.
LEMMA CommitStep ==
  ASSUME IInv, NEW t \in Topic, Commit(t)
  PROVE  TypeOK' /\ NeverReset' /\ TopicInv(t)'
<1>1. /\ pc[t] = "commit"
      /\ UNCHANGED <<log, dlq, graph, proc, position, deaths>>
      /\ \/ pc' = [pc EXCEPT ![t] = "poll"] /\ CommitTo(t)
         \/ /\ pc' = [pc EXCEPT ![t] = "dlq"]
            /\ CommitTo(t) \/ UNCHANGED committed
      /\ Raise \/ NoRaise
  BY DEF Commit, Goto
<1>2. /\ committed' \in [Topic -> Nat]
      /\ committed'[t] \in {committed[t], position[t]}
      /\ CommitTo(t) => committed'[t] = position[t]
      /\ \A i \in 1..committed'[t] : Handled(t, i)'
  BY <1>1, CommitKeeps
<1>3. TypeOK'
  <2>1. faults' \in 0..MaxFaults
    BY <1>1, FaultsInRange DEF IInv
  <2>. QED BY <1>1, <1>2, <2>1 DEF IInv, TypeOK, PCs, graph
<1>4. NeverReset'
  BY <1>1 DEF IInv, NeverReset, graph
<1>5. /\ log' = log /\ position' = position
      /\ pc'[t] \in {"poll", "dlq"}
      /\ pc'[t] = "poll" => committed'[t] = position[t]
  BY <1>1, <1>2 DEF IInv, TypeOK
<1>6. /\ position[t] = committed[t] + 1
      /\ position[t] \in 1..Len(log[t])
      /\ committed[t] \in Nat /\ Len(log[t]) \in Nat
  BY <1>1, HandFacts DEF TopicInv
<1>. QED BY <1>2, <1>3, <1>4, <1>5, <1>6 DEF TopicInv

\* Routing leads to the second commit only with the message in the queue.
LEMMA RouteToDlqStep ==
  ASSUME IInv, NEW t \in Topic, RouteToDlq(t)
  PROVE  TypeOK' /\ NeverReset' /\ TopicInv(t)'
<1>1. /\ pc[t] = "dlq"
      /\ UNCHANGED <<log, committed, graph, proc, position, deaths>>
      /\ \/ pc' = [pc EXCEPT ![t] = "recommit"] /\ SendToDlq(t)
         \/ /\ pc' = [pc EXCEPT ![t] = "failed"]
            /\ SendToDlq(t) \/ UNCHANGED dlq
      /\ Raise \/ NoRaise
  BY DEF RouteToDlq, Goto, UncaughtFailure
<1>2. /\ position[t] \in Nat /\ dlq[t] \in Seq(Nat)
      /\ TopicInv(t)
  BY HandFacts
<1>3. /\ Append(dlq[t], position[t]) \in Seq(Nat)
      /\ Len(Append(dlq[t], position[t])) = Len(dlq[t]) + 1
      /\ \A k \in 1..Len(dlq[t]) : Append(dlq[t], position[t])[k] = dlq[t][k]
      /\ Append(dlq[t], position[t])[Len(dlq[t]) + 1] = position[t]
  BY <1>2, AppendKeeps
<1>4. SendToDlq(t) => /\ dlq' \in [Topic -> Seq(Nat)]
                      /\ dlq'[t] = Append(dlq[t], position[t])
  BY <1>2, <1>3 DEF IInv, TypeOK, SendToDlq
<1>5. SendToDlq(t) => position[t] \in DeadLettered(t)'
  <2>1. Len(dlq[t]) \in Nat
    BY <1>2
  <2>2. SUFFICES ASSUME SendToDlq(t)
                 PROVE  \E k \in 1..Len(dlq'[t]) : dlq'[t][k] = position[t]
    BY Zenon DEF DeadLettered
  <2>3. /\ Len(dlq'[t]) = Len(dlq[t]) + 1
        /\ dlq'[t][Len(dlq[t]) + 1] = position[t]
    BY <1>3, <1>4, <2>2
  <2>. QED BY <2>1, <2>3
<1>6. DeadLettered(t) \subseteq DeadLettered(t)'
  <2>1. Len(dlq[t]) \in Nat
    BY <1>2
  <2>2. CASE SendToDlq(t)
    <3>1. dlq'[t] = Append(dlq[t], position[t])
      BY <1>4, <2>2
    <3>2. Len(dlq'[t]) = Len(dlq[t]) + 1
      BY <1>3, <3>1, Zenon
    <3>3. \A k \in 1..Len(dlq[t]) : k \in 1..Len(dlq'[t])
      BY <2>1, <3>2
    <3>4. \A k \in 1..Len(dlq[t]) : dlq'[t][k] = dlq[t][k]
      BY <1>3, <3>1, Zenon
    <3>. QED BY <3>3, <3>4, Zenon DEF DeadLettered
  <2>3. CASE UNCHANGED dlq
    BY <2>3 DEF DeadLettered
  <2>. QED BY <1>1, <2>2, <2>3
<1>7. TypeOK'
  <2>1. faults' \in 0..MaxFaults
    BY <1>1, FaultsInRange DEF IInv
  <2>2. dlq' \in [Topic -> Seq(Nat)]
    BY <1>1, <1>4 DEF IInv, TypeOK
  <2>. QED BY <1>1, <2>1, <2>2 DEF IInv, TypeOK, PCs, graph
<1>8. NeverReset'
  BY <1>1 DEF IInv, NeverReset, graph
<1>9. /\ log' = log /\ position' = position /\ committed' = committed
      /\ wrote' = wrote
      /\ pc'[t] \in {"recommit", "failed"}
      /\ pc'[t] = "recommit" => SendToDlq(t)
  BY <1>1 DEF IInv, TypeOK, graph
<1>10. ASSUME NEW i \in 1..committed[t]
       PROVE  Handled(t, i)'
  <2>1. Handled(t, i) /\ i \in Nat
    BY <1>2 DEF TopicInv
  <2>. QED BY <1>6, <1>9, <2>1, HandledStays
<1>. QED
  BY <1>1, <1>2, <1>5, <1>7, <1>8, <1>9, <1>10 DEF TopicInv

\* The second commit settles a message that is in the dead-letter queue.
LEMMA RecommitStep ==
  ASSUME IInv, NEW t \in Topic, Recommit(t)
  PROVE  TypeOK' /\ NeverReset' /\ TopicInv(t)'
<1>1. /\ pc[t] = "recommit"
      /\ UNCHANGED <<log, dlq, graph, proc, position, deaths>>
      /\ \/ pc' = [pc EXCEPT ![t] = "poll"] /\ CommitTo(t)
         \/ /\ pc' = [pc EXCEPT ![t] = "failed"]
            /\ CommitTo(t) \/ UNCHANGED committed
      /\ Raise \/ NoRaise
  BY DEF Recommit, Goto
<1>2. /\ committed' \in [Topic -> Nat]
      /\ committed'[t] \in {committed[t], position[t]}
      /\ CommitTo(t) => committed'[t] = position[t]
      /\ \A i \in 1..committed'[t] : Handled(t, i)'
  BY <1>1, CommitKeeps
<1>3. TypeOK'
  <2>1. faults' \in 0..MaxFaults
    BY <1>1, FaultsInRange DEF IInv
  <2>. QED BY <1>1, <1>2, <2>1 DEF IInv, TypeOK, PCs, graph
<1>4. NeverReset'
  BY <1>1 DEF IInv, NeverReset, graph
<1>5. /\ log' = log /\ position' = position
      /\ pc'[t] \in {"poll", "failed"}
      /\ pc'[t] = "poll" => committed'[t] = position[t]
  BY <1>1, <1>2 DEF IInv, TypeOK
<1>6. /\ position[t] \in 1..Len(log[t]) /\ committed[t] <= Len(log[t])
      /\ committed[t] \in Nat /\ Len(log[t]) \in Nat
  BY <1>1, HandFacts DEF TopicInv
<1>. QED BY <1>2, <1>3, <1>4, <1>5, <1>6 DEF TopicInv

\* The process stopping or starting touches neither broker nor graph.
LEMMA ProcessStep ==
  ASSUME IInv, Shutdown \/ Signal \/ Kill \/ Boot \/ OperatorRestart
  PROVE  IInv'
<1>1. /\ UNCHANGED <<broker, graph, position>>
      /\ proc' \in {"running", "crashed", "exited"}
      /\ \/ pc' = pc
         \/ pc' = [t \in Topic |-> "off"]
         \/ pc' = [t \in Topic |-> "starting"]
      /\ deaths' \in Nat
      /\ faults' = faults \/ Raise
  BY DEF IInv, TypeOK, Shutdown, Signal, Kill, Stop, Boot, OperatorRestart,
         NoRaise
<1>2. TypeOK'
  <2>1. faults' \in 0..MaxFaults
    BY <1>1, FaultsInRange DEF IInv, NoRaise
  <2>. QED BY <1>1, <2>1 DEF IInv, TypeOK, PCs, broker, graph
<1>3. NeverReset'
  BY <1>1 DEF IInv, NeverReset, graph
<1>4. ASSUME NEW t \in Topic
      PROVE  TopicInv(t)'
  <2>1. TopicInv(t) /\ committed[t] \in Nat
    BY HandFacts
  <2>2. \A i \in Nat : Handled(t, i) => Handled(t, i)'
    BY <1>1, HandledStays DEF DeadLettered, broker, graph
  <2>3. CASE pc' = pc
    BY <1>1, <2>1, <2>3, Frame DEF broker, graph
  <2>4. CASE pc'[t] \in {"off", "starting"}
    BY <1>1, <2>1, <2>2, <2>4 DEF TopicInv, broker
  <2>. QED BY <1>1, <2>3, <2>4
<1>. QED BY <1>2, <1>3, <1>4 DEF IInv

\* Every step of one consumer task keeps the invariant.
LEMMA ConsumerStepKeeps ==
  ASSUME IInv, NEW t \in Topic, ConsumerStep(t)
  PROVE  IInv'
<1>1. TypeOK' /\ NeverReset' /\ TopicInv(t)'
  BY StartStep, DeliverStep, MarkStep, UpsertStep, CommitStep, RouteToDlqStep,
     RecommitStep DEF ConsumerStep
<1>2. \A u \in Topic \ {t} : TopicInv(u)'
  BY OtherTopics
<1>. QED BY <1>1, <1>2 DEF IInv

\* The invariant is inductive.
LEMMA NextIInv == IInv /\ [Next]_vars => IInv'
<1> SUFFICES ASSUME IInv, [Next]_vars
             PROVE  IInv'
  OBVIOUS
<1>1. ASSUME NEW e \in Event, Publish(e) \/ ProducerRetry(e)
      PROVE  IInv'
  BY <1>1, AppendStep
<1>2. ASSUME NEW t \in Topic, ConsumerStep(t)
      PROVE  IInv'
  BY <1>2, ConsumerStepKeeps
<1>3. CASE Shutdown \/ Signal \/ Kill \/ Boot \/ OperatorRestart
  BY <1>3, ProcessStep
<1>4. CASE UNCHANGED vars
  <2>1. /\ TypeOK' /\ NeverReset'
        /\ UNCHANGED <<log, committed, dlq, wrote, pc, position>>
    BY <1>4 DEF vars, IInv, TypeOK, NeverReset
  <2>2. \A t \in Topic : TopicInv(t)'
    BY <2>1, Frame DEF IInv
  <2>. QED BY <2>1, <2>2 DEF IInv
<1>. QED BY <1>1, <1>2, <1>3, <1>4 DEF Next

------------------------------------------------------------------------------
(* The results. *)

\* The inductive invariant holds in every state of every behaviour.
THEOREM Invariance == Spec => []IInv
<1>1. Init => IInv
  BY InitIInv
<1>2. IInv /\ [Next]_vars => IInv'
  BY NextIInv
<1>. QED BY <1>1, <1>2, PTL DEF Spec

\* Every variable keeps its type, whatever fails and whenever the process ends.
THEOREM TypeCorrect == Spec => []TypeOK
<1>1. IInv => TypeOK
  BY DEF IInv
<1>. QED BY <1>1, Invariance, PTL

\* No committed message is lost, for any topics, events, faults and restarts.
THEOREM NothingLost == Spec => []NoSilentLoss
<1>1. IInv => NoSilentLoss
  BY DEF IInv, TopicInv, NoSilentLoss
<1>. QED BY <1>1, Invariance, PTL

\* The idempotency check of process() never takes its duplicate branch: no
\* reachable state has an event whose MERGE would return is_new = false.
THEOREM DuplicateBranchIsDead == Spec => [](\A e \in Event : ReturnedIsNew(e))
<1>1. IInv => \A e \in Event : ReturnedIsNew(e)
  BY AlwaysNew DEF IInv
<1>. QED BY <1>1, Invariance, PTL

LEMMA CommitByOne ==
  IInv /\ [Next]_vars =>
    \A t \in Topic : committed'[t] # committed[t] =>
      committed'[t] = committed[t] + 1 /\ committed'[t] = position[t]
<1> SUFFICES ASSUME IInv, [Next]_vars, NEW u \in Topic, committed'[u] # committed[u]
             PROVE  committed'[u] = committed[u] + 1 /\ committed'[u] = position[u]
  OBVIOUS
<1>1. PICK t \in Topic : Commit(t) \/ Recommit(t)
  BY DEF Next, ConsumerStep, Publish, ProducerRetry, Start, Deliver, Mark,
         Upsert, RouteToDlq, Shutdown, Signal, Kill, Stop, Boot,
         OperatorRestart, broker, vars
<1>2. /\ CommitTo(t) \/ UNCHANGED committed
      /\ pc[t] \in {"commit", "recommit"}
  BY <1>1 DEF Commit, Recommit
<1>3. u = t /\ committed'[t] = position[t]
  BY <1>2 DEF IInv, TypeOK, CommitTo
<1>4. position[t] = committed[t] \/ position[t] = committed[t] + 1
  BY <1>2, HandFacts DEF TopicInv
<1>. QED BY <1>3, <1>4

\* A commit moves one topic's offset by one, to the message in hand.
THEOREM CommitsAdvanceByOne == Spec => CommitAdvancesByOne
<1> DEFINE ByOne == \A t \in Topic : committed'[t] # committed[t] =>
              committed'[t] = committed[t] + 1 /\ committed'[t] = position[t]
<1>1. IInv /\ [Next]_vars => [ByOne]_vars
  BY CommitByOne
<1>. QED BY <1>1, Invariance, PTL DEF Spec, CommitAdvancesByOne

------------------------------------------------------------------------------
(* The refinement of EventLedger. *)

Recorded == [t \in Topic |-> wrote[t] \cup DeadLettered(t)]

\* One consumer step is a Record, a Settle or a stutter of the ledger.
LEMMA ConsumerRefines ==
  ASSUME IInv, NEW t \in Topic, ConsumerStep(t)
  PROVE  \/ \E i \in 1..Len(log[t]) : Ledger!Record(t, i)
         \/ Ledger!Settle(t)
         \/ UNCHANGED <<log, committed, Recorded>>
<1> USE DEF Recorded
<1>0. /\ TopicInv(t)
      /\ position[t] \in Nat /\ committed[t] \in Nat /\ Len(log[t]) \in Nat
      /\ dlq[t] \in Seq(Nat) /\ wrote[t] \in SUBSET Nat
  BY HandFacts
<1>1. CASE Start(t) \/ Deliver(t) \/ Mark(t)
  BY <1>1 DEF Start, Deliver, Mark, broker, graph, DeadLettered
<1>2. CASE Upsert(t)
  <2>1. CASE wrote' = wrote
    BY <1>2, <2>1 DEF Upsert, broker, DeadLettered
  <2>2. CASE wrote' = [wrote EXCEPT ![t] = @ \cup {position[t]}]
    <3>1. /\ position[t] = committed[t] + 1
          /\ position[t] \in 1..Len(log[t])
      BY <1>0, <1>2 DEF Upsert, TopicInv
    <3>2. UNCHANGED <<log, committed, dlq>>
      BY <1>2 DEF Upsert, broker
    <3>3. Recorded' = [Recorded EXCEPT ![t] = @ \cup {position[t]}]
      BY <2>2, <3>2 DEF IInv, TypeOK, DeadLettered
    <3>4. Ledger!Record(t, position[t])
      BY <3>1, <3>2, <3>3 DEF Ledger!Record
    <3>5. \E i \in 1..Len(log[t]) : Ledger!Record(t, i)
      <4> DEFINE R(i) == Ledger!Record(t, i)
      <4>1. R(position[t]) /\ position[t] \in 1..Len(log[t])
        BY <3>1, <3>4
      <4> HIDE DEF R
      <4>2. \E i \in 1..Len(log[t]) : R(i)
        BY <4>1
      <4>. QED BY <4>2 DEF R
    <3>. QED BY <3>5
  <2>. QED BY <1>2, <2>1, <2>2 DEF Upsert, MergeEdge
<1>3. CASE Commit(t) \/ Recommit(t)
  <2>1. /\ CommitTo(t) \/ UNCHANGED committed
        /\ UNCHANGED <<log, dlq, wrote>>
        /\ position[t] = committed[t] \/ position[t] = committed[t] + 1
        /\ position[t] \in 1..Len(log[t])
        /\ Handled(t, position[t])
    BY <1>0, <1>3 DEF Commit, Recommit, graph, TopicInv, Handled
  <2>2. Recorded' = Recorded
    BY <2>1 DEF DeadLettered
  <2>3. CASE committed' = committed
    BY <2>1, <2>2, <2>3
  <2>4. CASE CommitTo(t) /\ position[t] = committed[t] + 1
    <3>1. \/ position[t] \in Recorded[t]
          \/ log[t][position[t]] \in {e \in Event : NeedsNoEdge(e)}
      BY <2>1 DEF Handled, IInv, TypeOK
    <3>. QED BY <2>1, <2>2, <2>4, <3>1 DEF Ledger!Settle, CommitTo
  <2>5. CASE CommitTo(t) /\ position[t] = committed[t]
    <3>1. committed' = committed
      BY <2>5 DEF IInv, TypeOK, CommitTo
    <3>. QED BY <2>3, <3>1
  <2>. QED BY <2>1, <2>3, <2>4, <2>5
<1>4. CASE RouteToDlq(t)
  <2>1. /\ SendToDlq(t) \/ UNCHANGED dlq
        /\ UNCHANGED <<log, committed, wrote>>
        /\ position[t] = committed[t] \/ position[t] = committed[t] + 1
        /\ position[t] \in 1..Len(log[t])
    BY <1>0, <1>4 DEF RouteToDlq, graph, TopicInv
  <2>2. CASE UNCHANGED dlq
    BY <2>1, <2>2 DEF DeadLettered
  <2>3. CASE SendToDlq(t)
    <3>1. dlq' = [dlq EXCEPT ![t] = Append(dlq[t], position[t])]
      BY <2>3 DEF SendToDlq
    <3>2. DeadLettered(t)' = DeadLettered(t) \cup {position[t]}
      <4>1. /\ dlq'[t] = Append(dlq[t], position[t])
            /\ Len(dlq[t]) \in Nat
        BY <1>0, <3>1 DEF IInv, TypeOK
      <4>2. /\ Len(dlq'[t]) = Len(dlq[t]) + 1
            /\ \A k \in 1..Len(dlq[t]) : dlq'[t][k] = dlq[t][k]
            /\ dlq'[t][Len(dlq[t]) + 1] = position[t]
        BY <1>0, <4>1, AppendKeeps
      <4>. QED BY <4>1, <4>2 DEF DeadLettered
    <3>3. \A u \in Topic \ {t} : DeadLettered(u)' = DeadLettered(u)
      BY <3>1 DEF DeadLettered, IInv, TypeOK
    <3>4. Recorded' = [Recorded EXCEPT ![t] = @ \cup {position[t]}]
      BY <2>1, <3>2, <3>3
    <3>5. Ledger!Record(t, position[t])
      BY <2>1, <3>4 DEF Ledger!Record
    <3>6. \E i \in 1..Len(log[t]) : Ledger!Record(t, i)
      <4> DEFINE R(i) == Ledger!Record(t, i)
      <4>1. R(position[t]) /\ position[t] \in 1..Len(log[t])
        BY <2>1, <3>5
      <4> HIDE DEF R
      <4>2. \E i \in 1..Len(log[t]) : R(i)
        BY <4>1
      <4>. QED BY <4>2 DEF R
    <3>. QED BY <3>6
  <2>. QED BY <2>1, <2>2, <2>3
<1>. QED BY <1>1, <1>2, <1>3, <1>4 DEF ConsumerStep

\* The process implements the ledger of its topics.
THEOREM Refinement == Spec => ImplementsLedger
<1>1. Init => Ledger!LedgerInit
  BY DEF Init, Ledger!LedgerInit, DeadLettered
<1>2. IInv /\ [Next]_vars => [Ledger!LedgerNext]_(Ledger!ledgerVars)
  <2> SUFFICES ASSUME IInv, [Next]_vars
               PROVE  Ledger!LedgerNext \/ UNCHANGED <<log, committed, Recorded>>
    BY DEF Ledger!ledgerVars, Recorded
  <2>1. ASSUME NEW e \in Event, Publish(e) \/ ProducerRetry(e)
        PROVE  Ledger!LedgerNext
    <3>1. /\ TopicOf[e] \in Topic
          /\ log' = [log EXCEPT ![TopicOf[e]] = Append(@, e)]
          /\ UNCHANGED <<committed, dlq, wrote>>
      BY <2>1, ConstantsAssumption DEF Publish, ProducerRetry, graph
    <3>2. Ledger!Publish(TopicOf[e], e)
      BY <3>1 DEF Ledger!Publish, DeadLettered
    <3>. QED BY <3>1, <3>2 DEF Ledger!LedgerNext
  <2>2. ASSUME NEW t \in Topic, ConsumerStep(t)
        PROVE  Ledger!LedgerNext \/ UNCHANGED <<log, committed, Recorded>>
    BY <2>2, ConsumerRefines DEF Ledger!LedgerNext
  <2>3. CASE \/ Shutdown \/ Signal \/ Kill \/ Boot \/ OperatorRestart
             \/ UNCHANGED vars
    BY <2>3 DEF Shutdown, Signal, Kill, Stop, Boot, OperatorRestart, vars,
                broker, graph, Recorded, DeadLettered
  <2>. QED BY <2>1, <2>2, <2>3 DEF Next
<1>. QED BY <1>1, <1>2, Invariance, PTL DEF Spec, ImplementsLedger, Ledger!LedgerSpec

------------------------------------------------------------------------------
(* Where edges and dead letters come from *)

\* Every message lies in the log of its own topic.
OwnLog(t) == \A i \in 1..Len(log[t]) : TopicOf[log[t][i]] = t

Handling == {"mark", "upsert", "commit", "dlq", "recommit"}

\* Edges and dead letters are of messages up to the one in hand, and a process
\* that does not run handles none.
TraceInv(t) ==
  /\ OwnLog(t)
  /\ proc # "running" => pc[t] = "off"
  /\ wrote[t] \subseteq 1..Len(log[t])
  /\ \A i \in wrote[t] \cup DeadLettered(t) :
       /\ i <= committed[t] + 1
       /\ pc[t] \in Handling => i <= position[t]

\* A topic that a step does not touch keeps it.
LEMMA TraceFrame ==
  ASSUME NEW u \in Topic, TraceInv(u),
         log'[u] = log[u], committed'[u] = committed[u], dlq'[u] = dlq[u],
         wrote'[u] = wrote[u], pc'[u] = pc[u], position'[u] = position[u],
         proc' = proc
  PROVE  TraceInv(u)'
BY DEF TraceInv, OwnLog, DeadLettered

TracesInv == \A t \in Topic : TraceInv(t)

LEMMA TraceInit == Init => TracesInv
BY DEF Init, TracesInv, TraceInv, OwnLog, DeadLettered

\* A log that grows keeps its messages in place.
LEMMA TraceAppend ==
  ASSUME IInv, \A u \in Topic : TraceInv(u), NEW e \in Event, Publish(e) \/ ProducerRetry(e),
         NEW t \in Topic
  PROVE  TraceInv(t)'
<1> DEFINE u == TopicOf[e]
<1>1. /\ u \in Topic /\ log' = [log EXCEPT ![u] = Append(log[u], e)]
      /\ UNCHANGED <<committed, dlq, graph, proc, pc, position, deaths>>
  BY ConstantsAssumption DEF Publish, ProducerRetry
<1>2. CASE t # u
  BY <1>1, <1>2, TraceFrame DEF IInv, TypeOK, graph
<1>3. CASE t = u
  <2>1. log[t] \in Seq(Event) /\ log'[t] = Append(log[t], e)
    BY <1>1, <1>3 DEF IInv, TypeOK
  <2>2. /\ Len(log[t]) \in Nat /\ Len(log'[t]) = Len(log[t]) + 1
        /\ \A i \in 1..Len(log[t]) : log'[t][i] = log[t][i]
        /\ log'[t][Len(log[t]) + 1] = e
    BY <2>1, AppendKeeps
  <2>3. OwnLog(t)'
    <3>1. ASSUME NEW i \in 1..Len(log'[t]) PROVE TopicOf[log'[t][i]] = t
      <4>1. CASE i = Len(log[t]) + 1
        BY <1>3, <2>2, <4>1
      <4>2. CASE i # Len(log[t]) + 1
        <5>1. i \in 1..Len(log[t])
          BY <2>2, <4>2
        <5>. QED BY <2>2, <5>1 DEF TraceInv, OwnLog
      <4>. QED BY <4>1, <4>2
    <3>. QED BY <3>1 DEF OwnLog
  <2>4. 1..Len(log[t]) \subseteq 1..Len(log'[t])
    BY <2>2
  <2>. QED BY <1>1, <2>3, <2>4 DEF TraceInv, DeadLettered, graph
<1>. QED BY <1>2, <1>3

\* A consumer writes and dead-letters the message in hand only.
LEMMA TraceConsumer ==
  ASSUME IInv, NEW t \in Topic, TraceInv(t), ConsumerStep(t)
  PROVE  TraceInv(t)'
<1>1. /\ TopicInv(t) /\ position[t] \in Nat /\ committed[t] \in Nat
      /\ dlq[t] \in Seq(Nat) /\ wrote[t] \in SUBSET Nat /\ Len(log[t]) \in Nat
  BY HandFacts
<1>2. UNCHANGED <<log, proc>> /\ proc = "running"
  BY DEF ConsumerStep, Start, Deliver, Mark, Upsert, Commit, RouteToDlq, Recommit, broker, TraceInv
<1>3. OwnLog(t)' /\ \A i \in wrote[t] \cup DeadLettered(t) : i \in Nat
  BY <1>1, <1>2 DEF TraceInv, OwnLog, DeadLettered
<1>4. CASE Start(t)
  <2>1. UNCHANGED <<committed, dlq, wrote>> /\ pc'[t] \notin Handling
    BY <1>4 DEF Start, broker, graph, Goto, IInv, TypeOK, Handling
  <2>. QED BY <1>2, <1>3, <2>1 DEF TraceInv, DeadLettered
<1>5. CASE Deliver(t)
  <2>1. UNCHANGED <<committed, dlq, wrote>> /\ position[t] = committed[t]
        /\ position'[t] = position[t] + 1
    BY <1>1, <1>5 DEF Deliver, broker, graph, IInv, TypeOK, TopicInv
  <2>. QED BY <1>1, <1>2, <1>3, <2>1 DEF TraceInv, DeadLettered
<1>6. CASE Mark(t)
  <2>1. UNCHANGED <<committed, dlq, wrote, position>> /\ pc[t] \in Handling
    BY <1>6 DEF Mark, broker, Handling
  <2>. QED BY <1>2, <1>3, <2>1 DEF TraceInv, DeadLettered
<1>7. CASE Upsert(t)
  <2>1. /\ UNCHANGED <<committed, dlq, position>> /\ pc[t] \in Handling
        /\ position[t] = committed[t] + 1 /\ position[t] \in 1..Len(log[t])
    BY <1>1, <1>7 DEF Upsert, broker, Handling, TopicInv
  <2>2. wrote'[t] \subseteq wrote[t] \cup {position[t]}
    BY <1>7 DEF Upsert, MergeEdge, IInv, TypeOK
  <2>. QED BY <1>1, <1>2, <1>3, <2>1, <2>2 DEF TraceInv, DeadLettered
<1>8. CASE Commit(t) \/ Recommit(t)
  <2>1. /\ UNCHANGED <<dlq, wrote, position>> /\ pc[t] \in Handling
        /\ position[t] = committed[t] \/ position[t] = committed[t] + 1
        /\ CommitTo(t) \/ UNCHANGED committed
    BY <1>1, <1>8 DEF Commit, Recommit, graph, Handling, TopicInv
  <2>2. committed'[t] \in {committed[t], position[t]}
    BY <2>1 DEF CommitTo, IInv, TypeOK
  <2>3. committed'[t] \in Nat /\ committed[t] <= committed'[t]
    BY <1>1, <2>1, <2>2
  <2>4. \A i \in wrote[t] \cup DeadLettered(t) : i <= position[t] /\ i <= committed'[t] + 1
    BY <1>1, <1>3, <2>1, <2>3 DEF TraceInv
  <2>. QED BY <1>2, <1>3, <2>1, <2>4 DEF TraceInv, DeadLettered
<1>9. CASE RouteToDlq(t)
  <2>1. /\ UNCHANGED <<committed, wrote, position>> /\ pc[t] \in Handling
        /\ position[t] = committed[t] \/ position[t] = committed[t] + 1
        /\ SendToDlq(t) \/ UNCHANGED dlq
    BY <1>1, <1>9 DEF RouteToDlq, graph, Handling, TopicInv
  <2>2. DeadLettered(t)' \subseteq DeadLettered(t) \cup {position[t]}
    <3>1. CASE UNCHANGED dlq
      BY <3>1 DEF DeadLettered
    <3>2. CASE SendToDlq(t)
      <4>1. dlq'[t] = Append(dlq[t], position[t])
        BY <3>2 DEF SendToDlq, IInv, TypeOK
      <4>2. /\ Len(dlq[t]) \in Nat /\ Len(dlq'[t]) = Len(dlq[t]) + 1
            /\ \A k \in 1..Len(dlq[t]) : dlq'[t][k] = dlq[t][k]
            /\ dlq'[t][Len(dlq[t]) + 1] = position[t]
        BY <1>1, <4>1, AppendKeeps
      <4>. QED BY <4>2 DEF DeadLettered
    <3>. QED BY <2>1, <3>1, <3>2
  <2>. QED BY <1>1, <1>2, <1>3, <2>1, <2>2 DEF TraceInv
<1>. QED BY <1>4, <1>5, <1>6, <1>7, <1>8, <1>9 DEF ConsumerStep

\* Ending and starting the process turns every consumer off or to its start.
LEMMA TraceProcess ==
  ASSUME NEW t \in Topic, TraceInv(t), Shutdown \/ Signal \/ Kill \/ Boot \/ OperatorRestart
  PROVE  TraceInv(t)'
<1>1. /\ UNCHANGED <<log, committed, dlq, wrote, position>>
      /\ \/ pc' = [u \in Topic |-> "off"]
         \/ pc' = [u \in Topic |-> "starting"] /\ proc' = "running"
         \/ UNCHANGED <<pc, proc>>
  BY DEF Shutdown, Signal, Kill, Stop, Boot, OperatorRestart, broker, graph
<1>2. OwnLog(t)' /\ DeadLettered(t)' = DeadLettered(t)
  BY <1>1 DEF TraceInv, OwnLog, DeadLettered
<1>3. CASE pc' = [u \in Topic |-> "off"]
  BY <1>1, <1>2, <1>3 DEF TraceInv, Handling
<1>4. CASE pc' = [u \in Topic |-> "starting"] /\ proc' = "running"
  BY <1>1, <1>2, <1>4 DEF TraceInv, Handling
<1>5. CASE UNCHANGED <<pc, proc>>
  BY <1>1, <1>2, <1>5 DEF TraceInv
<1>. QED BY <1>1, <1>3, <1>4, <1>5

LEMMA TraceNext == IInv /\ TracesInv /\ [Next]_vars => TracesInv'
<1> SUFFICES ASSUME IInv, \A u \in Topic : TraceInv(u), [Next]_vars, NEW t \in Topic
             PROVE  TraceInv(t)'
  BY DEF TracesInv
<1>1. ASSUME NEW e \in Event, Publish(e) \/ ProducerRetry(e) PROVE TraceInv(t)'
  BY <1>1, TraceAppend
<1>2. ASSUME NEW u \in Topic, ConsumerStep(u) PROVE TraceInv(t)'
  BY <1>2, TraceConsumer, TraceFrame, OthersUntouched
<1>3. CASE Shutdown \/ Signal \/ Kill \/ Boot \/ OperatorRestart
  BY <1>3, TraceProcess
<1>4. CASE UNCHANGED vars
  BY <1>4, TraceFrame DEF vars
<1>. QED BY <1>1, <1>2, <1>3, <1>4 DEF Next

LEMMA Traces == Spec => []TracesInv
BY TraceInit, TraceNext, Invariance, PTL DEF Spec
------------------------------------------------------------------------------
(* The dead-letter queue *)

\* The message a consumer reads next, or has in hand.
Upcoming(t) == IF pc[t] \in {"starting", "poll"} THEN committed[t] + 1 ELSE position[t]

\* Where a consumer has not sent that message in this life of the process.
Unsent == {"starting", "poll", "mark", "upsert", "commit", "dlq"}

Copies(t, i) == {k \in 1..Len(dlq[t]) : dlq[t][k] = i}
Times(t, i) == Cardinality(Copies(t, i))

\* A message is sent at most once in each life.
DlqInv(t) ==
  /\ \A j, k \in 1..Len(dlq[t]) : j <= k => dlq[t][j] <= dlq[t][k]
  /\ \A i \in Nat : Times(t, i) <= 1 + deaths
  /\ pc[t] \in Unsent => Times(t, Upcoming(t)) <= deaths
  /\ proc # "running" => \A i \in Nat : Times(t, i) <= deaths

LetterInv == \A t \in Topic : DlqInv(t)

LEMMA TimesType ==
  ASSUME TypeOK, NEW t \in Topic, NEW i
  PROVE  IsFiniteSet(Copies(t, i)) /\ Times(t, i) \in Nat
<1>1. Len(dlq[t]) \in Nat
  BY DEF TypeOK
<1>2. IsFiniteSet(1..Len(dlq[t]))
  BY <1>1, FS_Interval
<1>3. IsFiniteSet(Copies(t, i))
  BY <1>2, FS_Subset DEF Copies
<1>. QED BY <1>3, FS_CardinalityType DEF Times

\* What is not in the queue is there zero times.
LEMMA NoCopies ==
  ASSUME NEW t \in Topic, NEW i, i \notin DeadLettered(t)
  PROVE  Times(t, i) = 0
<1>1. Copies(t, i) = {}
  BY DEF Copies, DeadLettered
<1>. QED BY <1>1, FS_EmptySet DEF Times

\* Sending the message in hand adds one copy of it.
LEMMA SendCounts ==
  ASSUME IInv, NEW t \in Topic, SendToDlq(t)
  PROVE  /\ Len(dlq[t]) \in Nat /\ Len(dlq'[t]) = Len(dlq[t]) + 1
         /\ \A k \in 1..Len(dlq[t]) : dlq'[t][k] = dlq[t][k]
         /\ dlq'[t][Len(dlq[t]) + 1] = position[t]
         /\ \A i \in Nat : i # position[t] => Times(t, i)' = Times(t, i)
         /\ \A i \in Nat : Times(t, i)' \in {Times(t, i), Times(t, i) + 1}
<1>1. dlq[t] \in Seq(Nat) /\ dlq'[t] = Append(dlq[t], position[t]) /\ position[t] \in Nat
  BY DEF SendToDlq, IInv, TypeOK
<1>2. /\ Len(dlq[t]) \in Nat /\ Len(dlq'[t]) = Len(dlq[t]) + 1
      /\ \A k \in 1..Len(dlq[t]) : dlq'[t][k] = dlq[t][k]
      /\ dlq'[t][Len(dlq[t]) + 1] = position[t]
  BY <1>1, AppendKeeps
<1>3. ASSUME NEW i \in Nat
      PROVE  Copies(t, i)' = IF i = position[t] THEN Copies(t, i) \cup {Len(dlq[t]) + 1}
                                                ELSE Copies(t, i)
  BY <1>2 DEF Copies
<1>4. \A i \in Nat : i # position[t] => Times(t, i)' = Times(t, i)
  BY <1>3 DEF Times
<1>5. ASSUME NEW i \in Nat, i = position[t] PROVE Times(t, i)' = Times(t, i) + 1
  <2>1. IsFiniteSet(Copies(t, i)) /\ Len(dlq[t]) + 1 \notin Copies(t, i)
    <3>1. IsFiniteSet(Copies(t, i))
      BY TimesType DEF IInv
    <3>2. Len(dlq[t]) + 1 \notin 1..Len(dlq[t])
      BY <1>2
    <3>. QED BY <3>1, <3>2 DEF Copies
  <2>2. Copies(t, i)' = Copies(t, i) \cup {Len(dlq[t]) + 1}
    BY <1>3, <1>5
  <2>3. Cardinality(Copies(t, i) \cup {Len(dlq[t]) + 1}) = Cardinality(Copies(t, i)) + 1
    BY <2>1, FS_AddElement
  <2>. QED BY <2>2, <2>3 DEF Times
<1>6. \A i \in Nat : Times(t, i)' \in {Times(t, i), Times(t, i) + 1}
  <2> SUFFICES ASSUME NEW i \in Nat PROVE Times(t, i)' \in {Times(t, i), Times(t, i) + 1}
    OBVIOUS
  <2>1. Times(t, i) \in Nat
    BY TimesType DEF IInv
  <2>. QED BY <1>4, <1>5, <2>1
<1>. QED BY <1>2, <1>4, <1>6

\* While the queue of a topic stays as it is, the next message was not sent:
\* it is the same one, or one past everything in the queue.
LEMMA LetterKeeps ==
  ASSUME IInv, NEW t \in Topic, DlqInv(t), dlq'[t] = dlq[t], deaths' = deaths, proc' = proc,
         pc'[t] \in Unsent => \/ pc[t] \in Unsent /\ Upcoming(t)' = Upcoming(t)
                              \/ Upcoming(t)' \notin DeadLettered(t)
  PROVE  DlqInv(t)'
<1>1. \A i : Times(t, i)' = Times(t, i)
  BY DEF Times, Copies
<1>2. deaths \in Nat
  BY DEF IInv, TypeOK
<1>3. ASSUME pc'[t] \in Unsent PROVE Times(t, Upcoming(t))' <= deaths'
  <2>1. Times(t, Upcoming(t))' = Times(t, Upcoming(t)')
    BY DEF Times, Copies
  <2>2. CASE pc[t] \in Unsent /\ Upcoming(t)' = Upcoming(t)
    BY <2>1, <2>2 DEF DlqInv
  <2>3. CASE Upcoming(t)' \notin DeadLettered(t)
    BY <1>2, <2>1, <2>3, NoCopies
  <2>. QED BY <1>3, <2>2, <2>3
<1>. QED BY <1>1, <1>3 DEF DlqInv

LEMMA LetterInit == Init => LetterInv
<1> SUFFICES ASSUME Init, NEW t \in Topic PROVE DlqInv(t)
  BY DEF LetterInv
<1>1. dlq[t] = <<>> /\ deaths = 0 /\ proc = "running" /\ DeadLettered(t) = {}
  BY DEF Init, DeadLettered
<1>2. \A i : Times(t, i) = 0
  BY <1>1, NoCopies
<1>. QED BY <1>1, <1>2 DEF DlqInv

\* One step of a topic's own consumer.
LEMMA LetterConsumer ==
  ASSUME IInv, NEW t \in Topic, TraceInv(t), DlqInv(t), ConsumerStep(t)
  PROVE  DlqInv(t)'
<1>1. /\ TopicInv(t) /\ position[t] \in Nat /\ committed[t] \in Nat
      /\ dlq[t] \in Seq(Nat) /\ pc[t] \in PCs /\ deaths \in Nat
  BY HandFacts DEF IInv, TypeOK
<1>2. UNCHANGED <<log, proc, deaths>>
  BY DEF ConsumerStep, Start, Deliver, Mark, Upsert, Commit, RouteToDlq, Recommit, broker
<1>3. CASE Start(t)
  <2>1. UNCHANGED <<committed, dlq>> /\ pc[t] = "starting" /\ pc'[t] \in {"poll", "failed"}
    BY <1>3 DEF Start, broker, Goto, IInv, TypeOK
  <2>. QED BY <1>2, <2>1, LetterKeeps DEF Upcoming, Unsent
<1>4. CASE Deliver(t)
  <2>1. /\ UNCHANGED <<committed, dlq>> /\ position[t] = committed[t] /\ pc[t] = "poll"
        /\ position'[t] = position[t] + 1
        /\ pc'[t] \in {"dlq", "commit", "mark"}
    BY <1>1, <1>4 DEF Deliver, broker, Goto, Route, IInv, TypeOK, TopicInv
  <2>2. Upcoming(t)' = Upcoming(t)
    BY <2>1 DEF Upcoming
  <2>. QED BY <1>2, <2>1, <2>2, LetterKeeps DEF Unsent
<1>5. CASE Mark(t) \/ Upsert(t)
  <2>1. /\ UNCHANGED <<committed, dlq, position>> /\ pc[t] \in {"mark", "upsert"}
        /\ pc'[t] \in {"upsert", "commit", "dlq"}
    BY <1>5 DEF Mark, Upsert, broker, Goto, IInv, TypeOK
  <2>2. Upcoming(t)' = Upcoming(t)
    BY <2>1 DEF Upcoming
  <2>. QED BY <1>2, <2>1, <2>2, LetterKeeps DEF Unsent
<1>6. CASE Commit(t) \/ Recommit(t)
  <2>1. /\ UNCHANGED <<dlq, position>> /\ pc[t] \in {"commit", "recommit"}
        /\ \/ pc'[t] = "poll" /\ CommitTo(t)
           \/ pc'[t] = "dlq" /\ pc[t] = "commit"
           \/ pc'[t] = "failed"
    BY <1>6 DEF Commit, Recommit, graph, Goto, IInv, TypeOK
  <2>2. CASE pc'[t] = "poll" /\ CommitTo(t)
    <3>1. committed'[t] = position[t]
      BY <2>2 DEF CommitTo, IInv, TypeOK
    <3>2. Upcoming(t)' = position[t] + 1
      BY <2>2, <3>1 DEF Upcoming
    <3>3. \A i \in DeadLettered(t) : i <= position[t]
      BY <2>1 DEF TraceInv, Handling
    <3>4. Upcoming(t)' \notin DeadLettered(t)
      BY <1>1, <3>2, <3>3
    <3>. QED BY <1>2, <2>1, <3>4, LetterKeeps
  <2>3. CASE pc'[t] = "dlq" /\ pc[t] = "commit"
    <3>1. Upcoming(t)' = Upcoming(t)
      BY <2>1, <2>3 DEF Upcoming
    <3>. QED BY <1>2, <2>1, <2>3, <3>1, LetterKeeps DEF Unsent
  <2>4. CASE pc'[t] = "failed"
    BY <1>2, <2>1, <2>4, LetterKeeps DEF Unsent
  <2>. QED BY <2>1, <2>2, <2>3, <2>4
<1>7. CASE RouteToDlq(t)
  <2>1. /\ pc[t] = "dlq" /\ pc'[t] \in {"recommit", "failed"}
        /\ SendToDlq(t) \/ UNCHANGED dlq
        /\ UNCHANGED <<position, committed>>
    BY <1>7 DEF RouteToDlq, UncaughtFailure, Goto, IInv, TypeOK
  <2>2. CASE UNCHANGED dlq
    BY <1>2, <2>1, <2>2, LetterKeeps DEF Unsent
  <2>3. CASE SendToDlq(t)
    <3>1. /\ Len(dlq[t]) \in Nat /\ Len(dlq'[t]) = Len(dlq[t]) + 1
          /\ \A k \in 1..Len(dlq[t]) : dlq'[t][k] = dlq[t][k]
          /\ dlq'[t][Len(dlq[t]) + 1] = position[t]
          /\ \A i \in Nat : i # position[t] => Times(t, i)' = Times(t, i)
          /\ \A i \in Nat : Times(t, i)' \in {Times(t, i), Times(t, i) + 1}
      BY <2>3, SendCounts
    <3>2. ASSUME NEW j \in 1..Len(dlq'[t]), NEW k \in 1..Len(dlq'[t]), j <= k
          PROVE  dlq'[t][j] <= dlq'[t][k]
      <4>1. \A m \in 1..Len(dlq[t]) : dlq[t][m] \in Nat /\ dlq[t][m] <= position[t]
        BY <1>1, <2>1 DEF TraceInv, Handling, DeadLettered
      <4>2. CASE k = Len(dlq[t]) + 1
        <5>1. CASE j = Len(dlq[t]) + 1
          BY <1>1, <3>1, <4>2, <5>1
        <5>2. CASE j # Len(dlq[t]) + 1
          <6>1. j \in 1..Len(dlq[t])
            BY <3>1, <5>2
          <6>. QED BY <3>1, <4>1, <4>2, <6>1
        <5>. QED BY <5>1, <5>2
      <4>3. CASE k # Len(dlq[t]) + 1
        <5>1. j \in 1..Len(dlq[t]) /\ k \in 1..Len(dlq[t])
          BY <3>1, <3>2, <4>3
        <5>. QED BY <3>1, <3>2, <5>1 DEF DlqInv
      <4>. QED BY <4>2, <4>3
    <3>3. Times(t, position[t]) <= deaths
      BY <2>1 DEF DlqInv, Unsent, Upcoming
    <3>4. ASSUME NEW i \in Nat PROVE Times(t, i)' <= 1 + deaths
      <4>1. Times(t, i) \in Nat /\ Times(t, i)' \in {Times(t, i), Times(t, i) + 1}
        BY <3>1, TimesType DEF IInv
      <4>2. CASE i = position[t]
        <5>1. Times(t, i) <= deaths
          BY <3>3, <4>2
        <5>. QED BY <1>1, <4>1, <5>1
      <4>3. CASE i # position[t]
        BY <3>1, <4>3 DEF DlqInv
      <4>. QED BY <4>2, <4>3
    <3>5. proc = "running"
      BY <2>1 DEF TraceInv
    <3>. QED BY <1>2, <2>1, <3>2, <3>4, <3>5 DEF DlqInv, Unsent
  <2>. QED BY <2>1, <2>2, <2>3
<1>. QED BY <1>3, <1>4, <1>5, <1>6, <1>7 DEF ConsumerStep

\* Every end of the process allows one more copy of each message.
LEMMA LetterProcess ==
  ASSUME IInv, NEW t \in Topic, TraceInv(t), DlqInv(t),
         Shutdown \/ Signal \/ Kill \/ Boot \/ OperatorRestart
  PROVE  DlqInv(t)'
<1>1. /\ UNCHANGED <<dlq, committed, position>>
      /\ \/ pc' = [u \in Topic |-> "off"] /\ deaths' = deaths + 1
         \/ /\ pc' = [u \in Topic |-> "starting"] /\ proc' = "running" /\ proc # "running"
            /\ deaths' = deaths
         \/ UNCHANGED <<pc, proc, deaths>>
  BY DEF Shutdown, Signal, Kill, Stop, Boot, OperatorRestart, broker
<1>2. \A i : Times(t, i)' = Times(t, i)
  BY <1>1 DEF Times, Copies
<1>3. deaths \in Nat /\ committed[t] \in Nat
  BY DEF IInv, TypeOK
<1>4. CASE pc' = [u \in Topic |-> "off"] /\ deaths' = deaths + 1
  <2>1. ASSUME NEW i \in Nat PROVE Times(t, i)' <= deaths' /\ Times(t, i)' <= 1 + deaths'
    <3>1. Times(t, i) \in Nat /\ Times(t, i) <= 1 + deaths
      BY TimesType DEF IInv, DlqInv
    <3>. QED BY <1>2, <1>3, <1>4, <3>1
  <2>. QED BY <1>1, <1>4, <2>1 DEF DlqInv, Unsent
<1>5. CASE /\ pc' = [u \in Topic |-> "starting"] /\ proc' = "running" /\ proc # "running"
           /\ deaths' = deaths
  <2>1. Times(t, Upcoming(t))' = Times(t, committed[t] + 1)
    BY <1>1, <1>5 DEF Times, Copies, Upcoming
  <2>2. Times(t, committed[t] + 1) <= deaths
    BY <1>3, <1>5 DEF DlqInv
  <2>. QED BY <1>1, <1>2, <1>5, <2>1, <2>2 DEF DlqInv
<1>6. CASE UNCHANGED <<pc, proc, deaths>>
  BY <1>1, <1>6, LetterKeeps DEF Upcoming
<1>. QED BY <1>1, <1>4, <1>5, <1>6

LEMMA LetterNext == IInv /\ TracesInv /\ LetterInv /\ [Next]_vars => LetterInv'
<1> SUFFICES ASSUME IInv, TracesInv, LetterInv, [Next]_vars, NEW t \in Topic
             PROVE  DlqInv(t)'
  BY DEF LetterInv
<1>0. TraceInv(t) /\ DlqInv(t)
  BY DEF TracesInv, LetterInv
<1>1. ASSUME NEW e \in Event, Publish(e) \/ ProducerRetry(e) PROVE DlqInv(t)'
  BY <1>0, <1>1, LetterKeeps DEF Publish, ProducerRetry, Upcoming
<1>2. ASSUME NEW u \in Topic, ConsumerStep(u) PROVE DlqInv(t)'
  <2>1. CASE u = t
    BY <1>0, <1>2, <2>1, LetterConsumer
  <2>2. CASE u # t
    BY <1>0, <1>2, <2>2, LetterKeeps, OthersUntouched DEF Upcoming
  <2>. QED BY <2>1, <2>2
<1>3. CASE Shutdown \/ Signal \/ Kill \/ Boot \/ OperatorRestart
  BY <1>0, <1>3, LetterProcess
<1>4. CASE UNCHANGED vars
  BY <1>0, <1>4, LetterKeeps DEF vars, Upcoming
<1>. QED BY <1>1, <1>2, <1>3, <1>4 DEF Next

\* The dead-letter queue keeps the order of the topic, and a message is in it at
\* most once per life of the process: routing is followed by a commit past the
\* message or by the end of the process (_handle_message and main).
THEOREM LettersInOrder == Spec => []DlqInOrder
<1>1. IInv /\ LetterInv => DlqInOrder
  <2> SUFFICES ASSUME IInv, LetterInv, NEW t \in Topic
               PROVE  /\ \A j, k \in 1..Len(dlq[t]) : j <= k => dlq[t][j] <= dlq[t][k]
                      /\ \A i \in DeadLettered(t) :
                           Cardinality({k \in 1..Len(dlq[t]) : dlq[t][k] = i}) <= 1 + deaths
    BY DEF DlqInOrder
  <2>1. DlqInv(t) /\ dlq[t] \in Seq(Nat)
    BY DEF LetterInv, IInv, TypeOK
  <2>2. DeadLettered(t) \subseteq Nat
    BY <2>1 DEF DeadLettered
  <2>. QED BY <2>1, <2>2 DEF DlqInv, Times, Copies
<1>2. Spec => []LetterInv
  BY LetterInit, LetterNext, Traces, Invariance, PTL DEF Spec
<1>. QED BY <1>1, <1>2, Invariance, PTL

------------------------------------------------------------------------------
(* The weights *)

\* Where a consumer may still write the edge of its next message.
Unwritten == {"starting", "poll", "mark", "upsert"}

\* The next message of a topic was written by an earlier process.
Replay(t) == pc[t] \in Unwritten /\ Upcoming(t) \in wrote[t]

\* An edge is written twice only in different lives, and once more in each.
WeightInv(l) ==
  LET n == Cardinality(WrittenOn(l)) IN
  /\ n <= weight[l] /\ weight[l] <= n + deaths
  /\ proc # "running" => weight[l] + 1 <= n + deaths
  /\ Replay(l[1]) => weight[l] + 1 <= n + deaths

WeightsInv == \A l \in Link : WeightInv(l)

LEMMA LinkParts == \A l \in Link : l[1] \in Topic /\ l = <<l[1], l[2]>>
BY ConstantsAssumption DEF Link

LEMMA WrittenType ==
  ASSUME IInv, TracesInv, NEW l \in Link
  PROVE  /\ IsFiniteSet(WrittenOn(l)) /\ Cardinality(WrittenOn(l)) \in Nat
         /\ weight[l] \in Nat /\ deaths \in Nat
<1>1. l[1] \in Topic
  BY LinkParts
<1>2. WrittenOn(l) \subseteq 1..Len(log[l[1]]) /\ Len(log[l[1]]) \in Nat
  BY <1>1 DEF WrittenOn, TracesInv, TraceInv, IInv, TypeOK
<1>3. IsFiniteSet(WrittenOn(l))
  <2>1. IsFiniteSet(1..Len(log[l[1]]))
    BY <1>2, FS_Interval
  <2>. QED BY <1>2, <2>1, FS_Subset
<1>. QED BY <1>3, FS_CardinalityType DEF IInv, TypeOK

\* While the weight and the written messages of a link stay, so does its bound.
LEMMA WeightKeeps ==
  ASSUME IInv, NEW l \in Link, WeightInv(l), weight'[l] = weight[l],
         WrittenOn(l)' = WrittenOn(l), deaths' = deaths, proc' = proc,
         Replay(l[1])' => Replay(l[1])
  PROVE  WeightInv(l)'
BY DEF WeightInv

LEMMA WeightInit == Init => WeightsInv
<1> SUFFICES ASSUME Init, NEW l \in Link PROVE WeightInv(l)
  BY DEF WeightsInv
<1>1. l[1] \in Topic
  BY LinkParts
<1>2. /\ WrittenOn(l) = {} /\ weight[l] = 0 /\ deaths = 0 /\ proc = "running"
      /\ wrote[l[1]] = {}
  BY <1>1 DEF Init, WrittenOn
<1>3. Cardinality(WrittenOn(l)) = 0
  BY <1>2, FS_EmptySet
<1>. QED BY <1>2, <1>3 DEF WeightInv, Replay

\* A growing log leaves the written messages where they are.
LEMMA WeightAppend ==
  ASSUME IInv, TracesInv, NEW l \in Link, WeightInv(l),
         NEW e \in Event, Publish(e) \/ ProducerRetry(e)
  PROVE  WeightInv(l)'
<1> DEFINE u == TopicOf[e]
<1>1. /\ u \in Topic /\ l[1] \in Topic /\ log' = [log EXCEPT ![u] = Append(log[u], e)]
      /\ UNCHANGED <<committed, dlq, graph, proc, pc, position, deaths>>
  BY ConstantsAssumption, LinkParts DEF Publish, ProducerRetry
<1>2. log[u] \in Seq(Event) /\ log[l[1]] \in Seq(Event)
  BY <1>1 DEF IInv, TypeOK
<1>3. \A i \in 1..Len(log[u]) : log'[u][i] = log[u][i]
  BY <1>1, <1>2, AppendKeeps DEF IInv, TypeOK
<1>4. \A i \in wrote[l[1]] : log'[l[1]][i] = log[l[1]][i]
  BY <1>1, <1>3 DEF TracesInv, TraceInv, IInv, TypeOK
<1>5. WrittenOn(l)' = WrittenOn(l)
  BY <1>1, <1>4 DEF WrittenOn, graph
<1>. QED BY <1>1, <1>5, WeightKeeps DEF graph, Replay, Upcoming

\* The edge of the message in hand: written for the first time, or replayed.
LEMMA WeightMerge ==
  ASSUME IInv, TracesInv, NEW l \in Link, WeightInv(l), NEW t \in Topic, Upsert(t),
         BothRegistered(InHand(t)), MergeEdge(t, InHand(t))
  PROVE  WeightInv(l)'
<1> DEFINE e == InHand(t)
<1> DEFINE p == position[t]
<1>1. /\ pc[t] = "upsert" /\ UNCHANGED <<log, proc, deaths, position, committed>>
      /\ proc = "running"
      /\ pc'[t] \in {"commit", "dlq"} /\ \A u \in Topic \ {t} : pc'[u] = pc[u]
  BY DEF Upsert, broker, Goto, IInv, TypeOK, TracesInv, TraceInv
<1>2. /\ p \in 1..Len(log[t]) /\ e \in Event /\ TopicOf[e] = t
  BY <1>1, HandFacts DEF TopicInv, InHand, TracesInv, TraceInv, OwnLog
<1>3. /\ weight' = [weight EXCEPT ![LinkOf(e)] = @ + 1]
      /\ wrote' = [wrote EXCEPT ![t] = @ \cup {p}]
  BY DEF MergeEdge
<1>4. LinkOf(e) = <<t, PairOf[e]>> /\ LinkOf(e) \in Link /\ l[1] \in Topic /\ l = <<l[1], l[2]>>
  BY <1>2, LinkParts, LinkOfInLink DEF LinkOf
<1>5. ~Replay(t)'
  BY <1>1 DEF Replay, Unwritten
<1>6. CASE l = LinkOf(e)
  <2>1. l[1] = t /\ l[2] = PairOf[e] /\ weight'[l] = weight[l] + 1
    BY <1>3, <1>4, <1>6 DEF IInv, TypeOK
  <2>2. WrittenOn(l)' = WrittenOn(l) \cup {p}
    <3>1. WrittenOn(l)' = {i \in wrote[t] \cup {p} : PairOf[log[t][i]] = l[2]}
      BY <1>1, <1>3, <2>1 DEF WrittenOn, IInv, TypeOK
    <3>2. PairOf[log[t][p]] = l[2]
      BY <2>1 DEF InHand
    <3>. QED BY <2>1, <3>1, <3>2 DEF WrittenOn
  <2>3. p \in WrittenOn(l) <=> p \in wrote[t]
    BY <2>1 DEF WrittenOn, InHand
  <2>4. /\ IsFiniteSet(WrittenOn(l)) /\ Cardinality(WrittenOn(l)) \in Nat
        /\ weight[l] \in Nat /\ deaths \in Nat
    BY WrittenType
  <2>5. CASE p \in wrote[t]
    <3>1. WrittenOn(l)' = WrittenOn(l)
      BY <2>2, <2>3, <2>5
    <3>2. Replay(t)
      BY <1>1, <2>5 DEF Replay, Unwritten, Upcoming
    <3>3. weight[l] + 1 <= Cardinality(WrittenOn(l)) + deaths /\ Cardinality(WrittenOn(l)) <= weight[l]
      BY <2>1, <3>2 DEF WeightInv
    <3>. QED BY <1>1, <1>5, <2>1, <2>4, <3>1, <3>3 DEF WeightInv
  <2>6. CASE p \notin wrote[t]
    <3>1. Cardinality(WrittenOn(l) \cup {p}) = Cardinality(WrittenOn(l)) + 1
      BY <2>3, <2>4, <2>6, FS_AddElement
    <3>2. Cardinality(WrittenOn(l))' = Cardinality(WrittenOn(l)) + 1
      BY <2>2, <3>1
    <3>3. Cardinality(WrittenOn(l)) <= weight[l] /\ weight[l] <= Cardinality(WrittenOn(l)) + deaths
      BY DEF WeightInv
    <3>. QED BY <1>1, <1>5, <2>1, <2>4, <3>2, <3>3 DEF WeightInv
  <2>. QED BY <2>5, <2>6
<1>7. CASE l # LinkOf(e)
  <2>1. weight'[l] = weight[l]
    BY <1>3, <1>7 DEF IInv, TypeOK
  <2>2. CASE l[1] # t
    <3>1. wrote'[l[1]] = wrote[l[1]] /\ pc'[l[1]] = pc[l[1]]
      BY <1>1, <1>3, <1>4, <2>2 DEF IInv, TypeOK
    <3>2. WrittenOn(l)' = WrittenOn(l) /\ (Replay(l[1])' => Replay(l[1]))
      BY <1>1, <3>1 DEF WrittenOn, Replay, Upcoming
    <3>. QED BY <1>1, <2>1, <3>2, WeightKeeps
  <2>3. CASE l[1] = t
    <3>1. PairOf[log[t][p]] # l[2]
      BY <1>4, <1>7, <2>3 DEF InHand
    <3>2. WrittenOn(l)' = {i \in wrote[t] \cup {p} : PairOf[log[t][i]] = l[2]}
      BY <1>1, <1>3, <2>3 DEF WrittenOn, IInv, TypeOK
    <3>3. WrittenOn(l)' = WrittenOn(l)
      BY <2>3, <3>1, <3>2 DEF WrittenOn
    <3>. QED BY <1>1, <1>5, <2>1, <2>3, <3>3, WeightKeeps
  <2>. QED BY <2>2, <2>3
<1>. QED BY <1>6, <1>7

\* The other steps of a consumer write no edge, and start no replay.
LEMMA WeightConsumer ==
  ASSUME IInv, TracesInv, NEW l \in Link, WeightInv(l), NEW t \in Topic, ConsumerStep(t)
  PROVE  WeightInv(l)'
<1>1. CASE UNCHANGED <<weight, wrote>>
  <2>1. UNCHANGED <<log, proc, deaths>> /\ WrittenOn(l)' = WrittenOn(l)
    BY <1>1 DEF ConsumerStep, Start, Deliver, Mark, Upsert, Commit, RouteToDlq, Recommit, broker,
       WrittenOn
  <2>2. l[1] \in Topic
    BY LinkParts
  <2>3. Replay(t)' => Replay(t)
    <3>1. /\ TopicInv(t) /\ TraceInv(t) /\ position[t] \in Nat /\ committed[t] \in Nat
          /\ wrote[t] \in SUBSET Nat
      BY HandFacts DEF TracesInv
    <3>2. CASE Start(t)
      BY <1>1, <3>2 DEF Start, broker, Goto, IInv, TypeOK, Replay, Upcoming, Unwritten
    <3>3. CASE Deliver(t)
      <4>1. /\ UNCHANGED committed /\ position[t] = committed[t] /\ pc[t] = "poll"
            /\ position'[t] = position[t] + 1 /\ pc'[t] \in {"dlq", "commit", "mark"}
        BY <3>1, <3>3 DEF Deliver, broker, Goto, Route, IInv, TypeOK, TopicInv
      <4>. QED BY <1>1, <4>1 DEF Replay, Upcoming, Unwritten
    <3>4. CASE Mark(t) \/ Upsert(t)
      <4>1. /\ UNCHANGED position /\ pc[t] \in {"mark", "upsert"}
            /\ pc'[t] \in {"upsert", "commit", "dlq"}
        BY <3>4 DEF Mark, Upsert, Goto, IInv, TypeOK
      <4>. QED BY <1>1, <4>1 DEF Replay, Upcoming, Unwritten
    <3>5. CASE Commit(t) \/ Recommit(t)
      <4>1. /\ UNCHANGED position /\ pc[t] \in {"commit", "recommit"}
            /\ \/ pc'[t] = "poll" /\ CommitTo(t)
               \/ pc'[t] \in {"dlq", "failed"}
        BY <3>5 DEF Commit, Recommit, graph, Goto, IInv, TypeOK
      <4>2. CASE pc'[t] = "poll" /\ CommitTo(t)
        <5>1. committed'[t] = position[t]
          BY <4>2 DEF CommitTo, IInv, TypeOK
        <5>2. Upcoming(t)' = position[t] + 1
          BY <4>2, <5>1 DEF Upcoming
        <5>3. \A i \in wrote[t] : i <= position[t]
          BY <3>1, <4>1 DEF TraceInv, Handling
        <5>4. Upcoming(t)' \notin wrote[t]
          BY <3>1, <5>2, <5>3
        <5>. QED BY <1>1, <5>4 DEF Replay
      <4>3. CASE pc'[t] \in {"dlq", "failed"}
        BY <4>3 DEF Replay, Unwritten
      <4>. QED BY <4>1, <4>2, <4>3
    <3>6. CASE RouteToDlq(t)
      <4>1. pc'[t] \in {"recommit", "failed"}
        BY <3>6 DEF RouteToDlq, UncaughtFailure, Goto, IInv, TypeOK
      <4>. QED BY <4>1 DEF Replay, Unwritten
    <3>. QED BY <3>2, <3>3, <3>4, <3>5, <3>6 DEF ConsumerStep
  <2>4. Replay(l[1])' => Replay(l[1])
    <3>1. CASE l[1] = t
      BY <2>3, <3>1
    <3>2. CASE l[1] # t
      BY <1>1, <2>2, <3>2, OthersUntouched DEF Replay, Upcoming
    <3>. QED BY <3>1, <3>2
  <2>. QED BY <1>1, <2>1, <2>4, WeightKeeps
<1>2. CASE ~UNCHANGED <<weight, wrote>>
  <2>1. Upsert(t)
    BY <1>2 DEF ConsumerStep, Start, Deliver, Mark, Commit, RouteToDlq, Recommit, graph
  <2>2. BothRegistered(InHand(t)) /\ MergeEdge(t, InHand(t))
    BY <1>2, <2>1 DEF Upsert, MergeEdge
  <2>. QED BY <2>1, <2>2, WeightMerge
<1>. QED BY <1>1, <1>2

\* Every end of the process allows one more write of each edge.
LEMMA WeightProcess ==
  ASSUME IInv, TracesInv, NEW l \in Link, WeightInv(l),
         Shutdown \/ Signal \/ Kill \/ Boot \/ OperatorRestart
  PROVE  WeightInv(l)'
<1>1. /\ UNCHANGED <<log, weight, wrote, committed, position>>
      /\ \/ pc' = [u \in Topic |-> "off"] /\ deaths' = deaths + 1
         \/ /\ proc' = "running" /\ proc # "running" /\ deaths' = deaths
         \/ UNCHANGED <<pc, proc, deaths>>
  BY DEF Shutdown, Signal, Kill, Stop, Boot, OperatorRestart, broker, graph
<1>2. WrittenOn(l)' = WrittenOn(l) /\ l[1] \in Topic
  BY <1>1, LinkParts DEF WrittenOn
<1>3. Cardinality(WrittenOn(l)) \in Nat /\ weight[l] \in Nat /\ deaths \in Nat
  BY WrittenType
<1>4. CASE pc' = [u \in Topic |-> "off"] /\ deaths' = deaths + 1
  <2>1. ~Replay(l[1])'
    BY <1>2, <1>4 DEF Replay, Unwritten
  <2>2. Cardinality(WrittenOn(l)) <= weight[l] /\ weight[l] <= Cardinality(WrittenOn(l)) + deaths
    BY DEF WeightInv
  <2>. QED BY <1>1, <1>2, <1>3, <1>4, <2>1, <2>2 DEF WeightInv
<1>5. CASE proc' = "running" /\ proc # "running" /\ deaths' = deaths
  <2>1. /\ Cardinality(WrittenOn(l)) <= weight[l]
        /\ weight[l] <= Cardinality(WrittenOn(l)) + deaths
        /\ weight[l] + 1 <= Cardinality(WrittenOn(l)) + deaths
    BY <1>5 DEF WeightInv
  <2>. QED BY <1>1, <1>2, <1>5, <2>1 DEF WeightInv
<1>6. CASE UNCHANGED <<pc, proc, deaths>>
  BY <1>1, <1>2, <1>6, WeightKeeps DEF Replay, Upcoming
<1>. QED BY <1>1, <1>4, <1>5, <1>6

LEMMA WeightNext == IInv /\ TracesInv /\ WeightsInv /\ [Next]_vars => WeightsInv'
<1> SUFFICES ASSUME IInv, TracesInv, WeightsInv, [Next]_vars, NEW l \in Link
             PROVE  WeightInv(l)'
  BY DEF WeightsInv
<1>0. WeightInv(l)
  BY DEF WeightsInv
<1>1. ASSUME NEW e \in Event, Publish(e) \/ ProducerRetry(e) PROVE WeightInv(l)'
  BY <1>0, <1>1, WeightAppend
<1>2. ASSUME NEW t \in Topic, ConsumerStep(t) PROVE WeightInv(l)'
  BY <1>0, <1>2, WeightConsumer
<1>3. CASE Shutdown \/ Signal \/ Kill \/ Boot \/ OperatorRestart
  BY <1>0, <1>3, WeightProcess
<1>4. CASE UNCHANGED vars
  BY <1>0, <1>4, WeightKeeps DEF vars, Replay, Upcoming, WrittenOn
<1>. QED BY <1>1, <1>2, <1>3, <1>4 DEF Next

\* An edge's weight is at least the number of its messages that were written,
\* and over-counts by at most one for each end of the process: a life replays
\* at most the message the last one did not commit (run and process of base.py
\* and the consumers' upserts).
THEOREM OverCountBounded == Spec => []WeightWithinReplays
<1>1. WeightsInv => WeightWithinReplays
  BY DEF WeightsInv, WeightInv, WeightWithinReplays
<1>2. Spec => []WeightsInv
  BY WeightInit, WeightNext, Traces, Invariance, PTL DEF Spec
<1>. QED BY <1>1, <1>2, PTL

------------------------------------------------------------------------------
(* What EventLedger promises. *)

\* Whatever is settled left a trace or needed none, and nothing further than the
\* next message has left one.
Kept(t) ==
  /\ committed[t] <= Len(log[t])
  /\ \A i \in 1..committed[t] : Handled(t, i)
  /\ wrote[t] \cup DeadLettered(t) \subseteq 1..(committed[t] + 1)

LEMMA LedgerPromises ==
  Ledger!LedgerSpec => [](\A t \in Topic : Kept(t))
<1> DEFINE record == [t \in Topic |-> wrote[t] \cup DeadLettered(t)]
<1> DEFINE none == {e \in Event : NeedsNoEdge(e)}
<1> DEFINE Typed == log \in [Topic -> Seq(Event)] /\ committed \in [Topic -> Nat]
<1> DEFINE Promise(t) ==
      /\ committed[t] <= Len(log[t])
      /\ \A i \in 1..committed[t] : i \in record[t] \/ log[t][i] \in none
      /\ record[t] \subseteq 1..(committed[t] + 1)
<1> DEFINE Inv == Typed /\ \A t \in Topic : Promise(t)
<1>1. Ledger!LedgerInit => Inv
  <2> SUFFICES ASSUME Ledger!LedgerInit PROVE Inv
    OBVIOUS
  <2>1. /\ log = [t \in Topic |-> <<>>] /\ committed = [t \in Topic |-> 0]
        /\ record = [t \in Topic |-> {}]
    BY DEF Ledger!LedgerInit
  <2> HIDE DEF record
  <2>2. ASSUME NEW t \in Topic PROVE Promise(t)
    <3>1. committed[t] = 0 /\ log[t] = <<>> /\ record[t] = {}
      BY <2>1
    <3>. QED BY <3>1
  <2>. QED BY <2>1, <2>2
<1>2. Inv /\ [Ledger!LedgerNext]_<<log, committed, record>> => Inv'
  <2> SUFFICES ASSUME Inv, [Ledger!LedgerNext]_<<log, committed, record>> PROVE Inv'
    OBVIOUS
  <2>0. none' = none
    BY DEF NeedsNoEdge, BothRegistered
  <2>1. CASE UNCHANGED <<log, committed, record>>
    <3>1. log' = log /\ committed' = committed /\ record' = record
      BY <2>1
    <3> HIDE DEF record, none
    <3>. QED BY <2>0, <3>1
  <2>2. ASSUME NEW t \in Topic, NEW e \in Event, Ledger!Publish(t, e) PROVE Inv'
    <3>1. log' = [log EXCEPT ![t] = Append(@, e)] /\ committed' = committed /\ record' = record
      BY <2>2 DEF Ledger!Publish
    <3> HIDE DEF record, none
    <3>2. Typed'
      BY <3>1
    <3>3. ASSUME NEW u \in Topic PROVE Promise(u)'
      <4>1. log[u] \in Seq(Event) /\ committed[u] \in Nat /\ Promise(u)
        OBVIOUS
      <4>2. Len(log[u]) <= Len(log'[u]) /\ \A i \in 1..Len(log[u]) : log'[u][i] = log[u][i]
        <5>1. CASE u = t
          BY <3>1, <4>1, <5>1, AppendKeeps
        <5>2. CASE u # t
          BY <3>1, <4>1, <5>2
        <5>. QED BY <5>1, <5>2
      <4>3. log'[u] \in Seq(Event)
        BY <3>2
      <4>. QED BY <2>0, <3>1, <4>1, <4>2, <4>3
    <3>. QED BY <3>2, <3>3
  <2>3. ASSUME NEW t \in Topic, NEW i \in 1..Len(log[t]), Ledger!Record(t, i) PROVE Inv'
    <3>1. /\ i \in {committed[t], committed[t] + 1} /\ i \in 1..Len(log[t])
          /\ record' = [record EXCEPT ![t] = @ \cup {i}] /\ log' = log /\ committed' = committed
      BY <2>3 DEF Ledger!Record
    <3>2. DOMAIN record = Topic
      OBVIOUS
    <3> HIDE DEF record, none
    <3>3. ASSUME NEW u \in Topic PROVE Promise(u)'
      <4>1. committed[u] \in Nat /\ Promise(u)
        OBVIOUS
      <4>2. record'[u] = IF u = t THEN record[u] \cup {i} ELSE record[u]
        BY <3>1, <3>2
      <4>3. u = t => i \in 1..(committed[u] + 1)
        BY <3>1, <4>1
      <4>. QED BY <2>0, <3>1, <4>1, <4>2, <4>3
    <3>. QED BY <3>1, <3>3
  <2>4. ASSUME NEW t \in Topic, Ledger!Settle(t) PROVE Inv'
    <3>1. /\ committed[t] + 1 \in 1..Len(log[t])
          /\ committed[t] + 1 \in record[t] \/ log[t][committed[t] + 1] \in none
          /\ committed' = [committed EXCEPT ![t] = committed[t] + 1]
          /\ log' = log /\ record' = record
      BY <2>4 DEF Ledger!Settle
    <3> HIDE DEF record, none
    <3>2. Typed'
      BY <3>1
    <3>3. ASSUME NEW u \in Topic PROVE Promise(u)'
      <4>1. committed[u] \in Nat /\ Promise(u) /\ log[u] \in Seq(Event)
        OBVIOUS
      <4>2. CASE u = t
        BY <2>0, <3>1, <4>1, <4>2
      <4>3. CASE u # t
        BY <2>0, <3>1, <4>1, <4>3
      <4>. QED BY <4>2, <4>3
    <3>. QED BY <3>2, <3>3
  <2> HIDE DEF Inv, record
  <2>. QED BY <2>1, <2>2, <2>3, <2>4 DEF Ledger!LedgerNext
<1>3. Inv => \A t \in Topic : Kept(t)
  <2> SUFFICES ASSUME Inv, NEW t \in Topic PROVE Kept(t)
    OBVIOUS
  <2>1. Promise(t) /\ record[t] = wrote[t] \cup DeadLettered(t)
    OBVIOUS
  <2>2. committed[t] \in Nat /\ log[t] \in Seq(Event)
    OBVIOUS
  <2>3. \A i \in 1..committed[t] : i \in 1..Len(log[t]) /\ log[t][i] \in Event
    BY <2>1, <2>2
  <2> HIDE DEF record
  <2>. QED BY <2>1, <2>3 DEF Kept, Handled
<1>. QED BY <1>1, <1>2, <1>3, PTL DEF Ledger!LedgerSpec, Ledger!ledgerVars

\* No edge is written and nothing sent to the dead-letter queue ahead of the first
\* message that is not settled, whatever was replayed: the process implements the
\* ledger, which alone promises that (_handle_message and main).
THEOREM EffectsInOrder == Spec => [](\A t \in Topic : Kept(t))
BY Refinement, LedgerPromises, PTL DEF ImplementsLedger

------------------------------------------------------------------------------
(* The health check. *)

\* The check only reads: the consumers beside it do what they do without it.
THEOREM CheckIsAside == HealthSpec => Init /\ [][Next]_vars
<1>1. HealthInit => Init
  BY DEF HealthInit
<1>2. [HealthNext]_<<vars, healthVars>> => [Next]_vars
  BY DEF HealthNext, ReadEnd, ReadCommitted, ReadDepth, SendAlert
<1>. QED BY <1>1, <1>2, PTL DEF HealthSpec

\* A topic whose group is the consumers' own breaches only when they were behind
\* by more than the threshold; that of any other when more was ever published to it.
BreachMeans ==
  alerted # None =>
    \A t \in Topic :
      /\ CheckedGroup[t] = ConsumerGroup[t] => (t \in alerted.lag => backlog[t] > LagThreshold)
      /\ CheckedGroup[t] # ConsumerGroup[t] => (t \in alerted.lag <=> end[t] > LagThreshold)

\* The backlog of a topic whose end has been read can only have shrunk since.
CheckInv(t) ==
  /\ end[t] # None => end[t] \in Nat /\ end[t] <= backlog[t] + committed[t]
  /\ lag[t] # None =>
       /\ end[t] # None /\ lag[t] \in Nat
       /\ CheckedGroup[t] = ConsumerGroup[t] => lag[t] <= backlog[t]
       /\ CheckedGroup[t] # ConsumerGroup[t] => lag[t] = end[t]

HealthInv ==
  /\ DOMAIN end = Topic /\ DOMAIN lag = Topic /\ backlog \in [Topic -> Nat]
  /\ \A t \in Topic : CheckInv(t)
  /\ alerted # None => Measured /\ alerted.lag = {t \in Topic : lag[t] > LagThreshold}

LEMMA HealthStep ==
  ASSUME None \notin Nat, IInv, HealthInv, [HealthNext]_<<vars, healthVars>>
  PROVE  HealthInv'
<1>1. \A t \in Topic : committed[t] \in Nat /\ Len(log[t]) \in Nat /\ committed[t] <= Len(log[t])
  BY DEF IInv, TypeOK, TopicInv
<1>2. CASE UNCHANGED healthVars /\ [Next]_vars
  <2>1. UNCHANGED <<end, lag, depth, alerted, backlog>>
    BY <1>2 DEF healthVars
  <2>2. \A t \in Topic : committed'[t] \in Nat /\ committed[t] <= committed'[t]
    BY <1>1, <1>2, CommitByOne
  <2>3. \A t \in Topic : CheckInv(t)'
    BY <1>1, <2>1, <2>2 DEF HealthInv, CheckInv
  <2>. QED BY <2>1, <2>3 DEF HealthInv, Measured
<1>3. ASSUME NEW t \in Topic, ReadEnd(t) PROVE HealthInv'
  <2>1. /\ end' = [end EXCEPT ![t] = Len(log[t])] /\ end[t] = None
        /\ backlog' = [backlog EXCEPT ![t] = Len(log[t]) - committed[t]]
        /\ UNCHANGED <<vars, lag, depth, alerted>>
    BY <1>3 DEF ReadEnd
  <2>2. UNCHANGED <<committed, log>>
    BY <2>1 DEF vars
  <2>3. Len(log[t]) - committed[t] \in Nat
    BY <1>1
  <2>4. lag[t] = None
    BY <2>1 DEF HealthInv, CheckInv
  <2>5. \A u \in Topic : CheckInv(u)'
    BY <1>1, <2>1, <2>2, <2>3, <2>4 DEF HealthInv, CheckInv
  <2>6. DOMAIN end' = Topic /\ DOMAIN lag' = Topic /\ backlog' \in [Topic -> Nat]
    BY <2>1, <2>3 DEF HealthInv
  <2>. QED BY <2>1, <2>5, <2>6 DEF HealthInv, Measured
<1>4. ASSUME NEW t \in Topic, ReadCommitted(t) PROVE HealthInv'
  <2> DEFINE offset == GroupOffset(CheckedGroup[t], t)
  <2> DEFINE new == IF end[t] > offset THEN end[t] - offset ELSE 0
  <2>1. /\ lag' = [lag EXCEPT ![t] = new] /\ end[t] # None /\ lag[t] = None
        /\ UNCHANGED <<vars, end, depth, alerted, backlog>>
    BY <1>4 DEF ReadCommitted
  <2>2. UNCHANGED committed
    BY <2>1 DEF vars
  <2>3. /\ end[t] \in Nat /\ end[t] <= backlog[t] + committed[t] /\ backlog[t] \in Nat
    BY <2>1 DEF HealthInv, CheckInv
  <2>4. /\ new \in Nat
        /\ CheckedGroup[t] = ConsumerGroup[t] => new <= backlog[t]
        /\ CheckedGroup[t] # ConsumerGroup[t] => new = end[t]
    BY <1>1, <2>3 DEF GroupOffset
  <2> HIDE DEF new
  <2>5. \A u \in Topic : CheckInv(u)'
    BY <2>1, <2>2, <2>4 DEF HealthInv, CheckInv
  <2>6. alerted = None
    BY <2>1 DEF HealthInv, Measured
  <2>. QED BY <2>1, <2>5, <2>6 DEF HealthInv
<1>5. ASSUME NEW t \in Topic, ReadDepth(t) PROVE HealthInv'
  <2>1. depth[t] = None /\ UNCHANGED <<vars, end, lag, alerted, backlog>>
    BY <1>5 DEF ReadDepth
  <2>2. UNCHANGED committed
    BY <2>1 DEF vars
  <2>3. \A u \in Topic : CheckInv(u)'
    BY <2>1, <2>2 DEF HealthInv, CheckInv
  <2>4. alerted = None
    BY <2>1 DEF HealthInv, Measured
  <2>. QED BY <2>1, <2>3, <2>4 DEF HealthInv
<1>6. CASE SendAlert
  <2>1. /\ alerted'.lag = {t \in Topic : lag[t] > LagThreshold} /\ Measured
        /\ UNCHANGED <<vars, end, lag, depth, backlog>>
    BY <1>6 DEF SendAlert
  <2>2. UNCHANGED committed
    BY <2>1 DEF vars
  <2>3. \A u \in Topic : CheckInv(u)'
    BY <2>1, <2>2 DEF HealthInv, CheckInv
  <2>. QED BY <2>1, <2>3 DEF HealthInv, Measured
<1>. QED BY <1>2, <1>3, <1>4, <1>5, <1>6 DEF HealthNext

\* What a lag in the alert of check_consumer_lag says, for any topics, thresholds
\* and groups: of the consumers' own group it is never a false alarm, although
\* they go on committing between the two reads; of another group it says how much
\* was ever published (telemetry_health.py).
THEOREM BreachesMean ==
  ASSUME None \notin Nat, LagThreshold \in Nat
  PROVE  HealthSpec => []BreachMeans
<1>1. HealthInit => IInv /\ HealthInv
  BY InitIInv DEF HealthInit, HealthInv, CheckInv
<1>2. IInv /\ HealthInv /\ [HealthNext]_<<vars, healthVars>> => (IInv /\ HealthInv)'
  <2>1. [HealthNext]_<<vars, healthVars>> => [Next]_vars
    BY DEF HealthNext, ReadEnd, ReadCommitted, ReadDepth, SendAlert
  <2>. QED BY <2>1, NextIInv, HealthStep
<1>3. HealthInv => BreachMeans
  BY DEF HealthInv, CheckInv, BreachMeans, Measured
<1>. QED BY <1>1, <1>2, <1>3, PTL DEF HealthSpec
==============================================================================
