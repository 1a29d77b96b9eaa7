----------------------- MODULE SimulationStream_proofs -----------------------
(***************************************************************************)
(* For any number of requests, of progress reports and of worker threads:   *)
(* the streaming endpoint keeps its types (no more engines run than there   *)
(* are threads), a client that holds a result finds it in the cache, and    *)
(* the endpoint implements EventStream.                                    *)
(***************************************************************************)
EXTENDS SimulationStream, FiniteSetTheorems, TLAPS

Waiting == {backlog[k] : k \in 1..Len(backlog)}

\* Progress callbacks that the loop has not run yet: they come before the
\* completion of the run.
Reported(r) ==
  IF ready[r] # <<>> /\ ready[r][Len(ready[r])].type # "progress"
  THEN Len(ready[r]) - 1 ELSE Len(ready[r])

\* Progress events that have been put into the queue.
PutSoFar(r) == iterated[r] - Reported(r)

\* Progress events that have left it.
Taken(r) ==
  IF gen[r] = "yielding" /\ out[r].type = "progress"
  THEN Len(delivered[r]) + 1 ELSE Len(delivered[r])

\* The generator has not taken a terminal event yet.
Listening(r) == gen[r] = "waiting" \/ (gen[r] = "yielding" /\ out[r].type \notin Terminal)

\* sim_task, its thread and what they have handed to the loop: in order, and
\* the completion of the run last.
WorkInv(r) ==
  /\ task[r] \in {"none", "snapshot"} => queue[r] = <<>> /\ iterated[r] = 0
  /\ task[r] # "thread" => ready[r] = <<>> /\ ~thread[r] /\ r \notin Waiting
  /\ task[r] = "caching" => iterated[r] = Blocks[r]
  /\ r \in Waiting => ready[r] = <<>> /\ ~thread[r]
  /\ thread[r] => Reported(r) = Len(ready[r])
  /\ Reported(r) <= iterated[r]
  /\ \A k \in 1..Reported(r) : ready[r][k] = ProgressOf(PutSoFar(r) + k)
  /\ \A k \in 1..Len(ready[r]) : ready[r][k].type = "returned" => iterated[r] = Blocks[r]

\* What the generator has delivered, holds and will find in the queue is the
\* stream of the run so far.
StreamInv(r) ==
  /\ gen[r] = "none" <=> task[r] = "none"
  /\ gen[r] = "none" => delivered[r] = <<>>
  /\ gen[r] \in {"none", "waiting", "yielding"} =>
       \A k \in 1..Len(delivered[r]) : delivered[r][k].type = "progress"
  /\ gen[r] = "yielding" =>
       /\ out[r].type = "progress" => out[r] = ProgressOf(Len(delivered[r]) + 1)
       /\ out[r].type = "progress" => Len(delivered[r]) < Blocks[r]
       /\ out[r].type \in Terminal => out[r].n = 0
       /\ out[r].type = "result" => Len(delivered[r]) = Blocks[r]
  /\ Listening(r) =>
       /\ Taken(r) + Len(queue[r]) = PutSoFar(r) + (IF task[r] = "done" THEN 1 ELSE 0)
       /\ \A k \in 1..Len(queue[r]) :
            IF task[r] = "done" /\ k = Len(queue[r])
            THEN /\ queue[r][k] \in {Of("result"), Of("error")}
                 /\ queue[r][k].type = "result" => PutSoFar(r) = Blocks[r]
            ELSE queue[r][k] = ProgressOf(Taken(r) + k)

\* A result that is queued, held or delivered has been cached.
ResultInv(r) ==
  \/ r \in stored \cup cacheFailed
  \/ /\ \A k \in 1..Len(queue[r]) : queue[r][k].type # "result"
     /\ out[r].type # "result"
     /\ \A k \in 1..Len(delivered[r]) : delivered[r][k].type # "result"

\* No run waits twice for a thread.
BacklogInv == \A j, k \in 1..Len(backlog) : backlog[j] = backlog[k] => j = k

RequestInv(r) == WorkInv(r) /\ StreamInv(r) /\ ResultInv(r)

IInv == TypeOK /\ BacklogInv /\ \A r \in Request : RequestInv(r)

------------------------------------------------------------------------------
(* Sequences: the queue, the callbacks and the backlog *)

\* Appending adds the last element and keeps the others in place.
LEMMA AppendKeeps ==
  ASSUME NEW S, NEW s \in Seq(S), NEW x \in S
  PROVE  /\ Append(s, x) \in Seq(S)
         /\ Len(Append(s, x)) = Len(s) + 1
         /\ \A k \in 1..Len(s) : Append(s, x)[k] = s[k]
         /\ Append(s, x)[Len(s) + 1] = x
         /\ Append(s, x) # <<>>
OBVIOUS

\* Taking the first element moves the others up by one.
LEMMA TailMoves ==
  ASSUME NEW S, NEW s \in Seq(S), s # <<>>
  PROVE  /\ Tail(s) \in Seq(S) /\ Head(s) \in S /\ Head(s) = s[1]
         /\ Len(s) \in Nat \ {0} /\ Len(Tail(s)) = Len(s) - 1
         /\ \A k \in 1..Len(Tail(s)) : Tail(s)[k] = s[k + 1]
OBVIOUS

\* A sequence is empty when its length is zero.
LEMMA EmptyLength ==
  ASSUME NEW S, NEW s \in Seq(S)
  PROVE  Len(s) \in Nat /\ (Len(s) = 0 <=> s = <<>>)
OBVIOUS

------------------------------------------------------------------------------

\* An event is the type and the number it was made with.
LEMMA EventFields ==
  /\ \A n : ProgressOf(n).type = "progress" /\ ProgressOf(n).n = n
  /\ \A type : Of(type).type = type /\ Of(type).n = 0
BY DEF ProgressOf, Of

\* The components of one request, typed.
LEMMA Facts ==
  ASSUME TypeOK, NEW r \in Request
  PROVE  /\ gen[r] \in {"none", "waiting", "yielding", "closing", "done", "gone"}
         /\ out[r] \in Event \cup {Of("keepalive")}
         /\ queue[r] \in Seq(Event) /\ delivered[r] \in Seq(Event)
         /\ task[r] \in {"none", "snapshot", "thread", "caching", "done"}
         /\ thread[r] \in BOOLEAN
         /\ iterated[r] \in 0..Blocks[r] /\ Blocks[r] \in Nat /\ iterated[r] \in Nat
         /\ ready[r] \in Seq(Callback)
         /\ Len(queue[r]) \in Nat /\ Len(delivered[r]) \in Nat /\ Len(ready[r]) \in Nat
BY ConstantsAssumption DEF TypeOK

\* A request that a step does not touch keeps its invariant.
LEMMA Frame ==
  ASSUME NEW r \in Request, RequestInv(r),
         gen'[r] = gen[r], out'[r] = out[r], queue'[r] = queue[r], task'[r] = task[r],
         thread'[r] = thread[r], iterated'[r] = iterated[r], ready'[r] = ready[r],
         delivered'[r] = delivered[r], r \in Waiting' => r \in Waiting,
         stored \cup cacheFailed \subseteq stored' \cup cacheFailed'
  PROVE  RequestInv(r)'
<1>1. /\ Reported(r)' = Reported(r) /\ PutSoFar(r)' = PutSoFar(r)
      /\ Taken(r)' = Taken(r) /\ Listening(r)' = Listening(r)
  BY DEF Reported, PutSoFar, Taken, Listening
<1>2. WorkInv(r)'
  BY <1>1 DEF RequestInv, WorkInv
<1>3. StreamInv(r)'
  BY <1>1 DEF RequestInv, StreamInv
<1>4. ResultInv(r)'
  BY DEF RequestInv, ResultInv
<1>. QED BY <1>2, <1>3, <1>4 DEF RequestInv

\* The endpoint before its first request.
LEMMA InitIInv == Init => IInv
<1> SUFFICES ASSUME Init PROVE IInv
  OBVIOUS
<1>1. TypeOK
  <2>1. {r \in Request : thread[r]} = {}
    BY DEF Init
  <2>2. Cardinality({r \in Request : thread[r]}) <= PoolSize
    BY <2>1, FS_EmptySet, ConstantsAssumption
  <2>. QED BY <2>2, ConstantsAssumption DEF Init, TypeOK, Event, Message, Of
<1>2. BacklogInv
  BY DEF Init, BacklogInv
<1>3. \A r \in Request : RequestInv(r)
  BY DEF Init, RequestInv, WorkInv, StreamInv, ResultInv, Reported, PutSoFar, Taken, Listening,
         Waiting, Of, Terminal
<1>. QED BY <1>1, <1>2, <1>3 DEF IInv

------------------------------------------------------------------------------
(* The other requests *)

\* Only ThreadStart and Snapshot touch the backlog, and only at their request.
LEMMA BacklogStep ==
  ASSUME IInv, NEW r \in Request, Work(r), NEW u \in Request \ {r}
  PROVE  u \in Waiting' => u \in Waiting
<1>1. CASE backlog' = backlog
  BY <1>1 DEF Waiting
<1>2. CASE backlog' = Append(backlog, r)
  <2>1. /\ Len(backlog) \in Nat /\ Len(backlog') = Len(backlog) + 1
        /\ \A k \in 1..Len(backlog) : backlog'[k] = backlog[k]
        /\ backlog'[Len(backlog) + 1] = r
    BY <1>2, AppendKeeps, EmptyLength DEF IInv, TypeOK
  <2>. QED BY <2>1 DEF Waiting
<1>3. CASE backlog # <<>> /\ backlog' = Tail(backlog)
  <2>1. /\ Len(backlog) \in Nat \ {0} /\ Len(backlog') = Len(backlog) - 1
        /\ \A k \in 1..Len(backlog') : backlog'[k] = backlog[k + 1]
    BY <1>3, TailMoves DEF IInv, TypeOK
  <2>. QED BY <2>1 DEF Waiting
<1>. QED
  BY <1>1, <1>2, <1>3 DEF Work, Snapshot, Callbacks, CacheResult, ThreadStart, Iterate, ThreadEnd,
     worker

\* A step of one request leaves the others alone.
LEMMA OtherRequests ==
  ASSUME IInv, NEW r \in Request, Connect(r) \/ Work(r) \/ Serve(r) \/ Disconnect(r),
         NEW u \in Request \ {r}
  PROVE  RequestInv(u)'
<1>1. RequestInv(u)
  BY DEF IInv
<1>2. CASE Work(r)
  <2>1. u \in Waiting' => u \in Waiting
    BY <1>2, BacklogStep
  <2>2. gen'[u] = gen[u] /\ out'[u] = out[u] /\ delivered'[u] = delivered[u]
    BY <1>2 DEF Work, Snapshot, Callbacks, CacheResult, ThreadStart, Iterate, ThreadEnd, generator
  <2>3. queue'[u] = queue[u] /\ task'[u] = task[u]
    BY <1>2 DEF IInv, TypeOK, Work, Snapshot, Callbacks, CacheResult, ThreadStart, Iterate,
       ThreadEnd, Fail, Finish, Put, TaskAt, OnReturn
  <2>4. thread'[u] = thread[u] /\ iterated'[u] = iterated[u] /\ ready'[u] = ready[u]
    BY <1>2 DEF IInv, TypeOK, Work, Snapshot, Callbacks, CacheResult, ThreadStart, Iterate,
       ThreadEnd, Hand, worker
  <2>5. stored \cup cacheFailed \subseteq stored' \cup cacheFailed'
    BY <1>2 DEF Work, Snapshot, Callbacks, CacheResult, ThreadStart, Iterate, ThreadEnd, cache
  <2>. QED BY <1>1, <2>1, <2>2, <2>3, <2>4, <2>5, Frame
<1>3. CASE Connect(r) \/ Serve(r) \/ Disconnect(r)
  <2>1. UNCHANGED <<worker, ready, cache>> /\ Waiting' = Waiting
    BY <1>3 DEF Connect, Serve, Disconnect, Receive, Timeout, Yield, Close, worker, Waiting
  <2>2. gen'[u] = gen[u] /\ out'[u] = out[u] /\ delivered'[u] = delivered[u]
    BY <1>3 DEF IInv, TypeOK, Connect, Serve, Disconnect, Receive, Timeout, Yield, Close, GenAt
  <2>3. queue'[u] = queue[u] /\ task'[u] = task[u]
    BY <1>3 DEF IInv, TypeOK, Connect, Serve, Disconnect, Receive, Timeout, Yield, Close, TaskAt
  <2>. QED BY <1>1, <2>1, <2>2, <2>3, Frame DEF worker, cache
<1>. QED BY <1>2, <1>3

------------------------------------------------------------------------------
(* sim_task *)

\* An event that is put is the last of the queue.
LEMMA PutFacts ==
  ASSUME TypeOK, NEW r \in Request, NEW e \in Event, Put(r, e)
  PROVE  /\ queue' \in [Request -> Seq(Event)]
         /\ Len(queue'[r]) = Len(queue[r]) + 1
         /\ \A k \in 1..Len(queue[r]) : queue'[r][k] = queue[r][k]
         /\ queue'[r][Len(queue[r]) + 1] = e
<1>1. queue[r] \in Seq(Event) /\ queue' = [queue EXCEPT ![r] = Append(queue[r], e)]
  BY DEF TypeOK, Put
<1>2. Append(queue[r], e) \in Seq(Event)
  BY <1>1, AppendKeeps
<1>3. queue'[r] = Append(queue[r], e) /\ queue' \in [Request -> Seq(Event)]
  BY <1>1, <1>2 DEF TypeOK
<1>. QED BY <1>1, <1>3, AppendKeeps

\* The task ends with its last event: nothing is left to be handed over, and a
\* result is that of a complete run and cached.
LEMMA FinishKeeps ==
  ASSUME IInv, NEW r \in Request, NEW type \in Terminal, Finish(r, type),
         task[r] \in {"snapshot", "thread", "caching"},
         UNCHANGED <<gen, out, delivered, iterated>>,
         ready'[r] = <<>>, ~thread'[r], r \notin Waiting', Reported(r) = 0,
         type = "result" => iterated[r] = Blocks[r] /\ r \in stored' \cup cacheFailed',
         stored \cup cacheFailed \subseteq stored' \cup cacheFailed'
  PROVE  RequestInv(r)' /\ queue' \in [Request -> Seq(Event)]
<1>1. Of(type) \in Event /\ TypeOK /\ RequestInv(r)
  BY DEF Of, Event, Message, Terminal, IInv
<1>2. /\ queue' \in [Request -> Seq(Event)]
      /\ Len(queue'[r]) = Len(queue[r]) + 1
      /\ \A k \in 1..Len(queue[r]) : queue'[r][k] = queue[r][k]
      /\ queue'[r][Len(queue[r]) + 1] = Of(type)
  BY <1>1, PutFacts DEF Finish
<1>3. task'[r] = "done"
  BY <1>1 DEF Finish, TaskAt, TypeOK
<1>4. PutSoFar(r) = iterated[r] /\ PutSoFar(r)' = iterated[r] /\ Reported(r)' = 0
  BY <1>1, Facts DEF PutSoFar, Reported
<1>5. Taken(r)' = Taken(r) /\ Listening(r)' = Listening(r)
  BY DEF Taken, Listening
<1>6. WorkInv(r)'
  BY <1>1, <1>3, <1>4, Facts DEF WorkInv
<1>7. StreamInv(r)'
  <2>1. ASSUME Listening(r)
        PROVE  /\ Taken(r) + Len(queue'[r]) = iterated[r] + 1
               /\ \A k \in 1..Len(queue'[r]) :
                    IF k = Len(queue'[r])
                    THEN /\ queue'[r][k] \in {Of("result"), Of("error")}
                         /\ queue'[r][k].type = "result" => iterated[r] = Blocks[r]
                    ELSE queue'[r][k] = ProgressOf(Taken(r) + k)
    <3>1. /\ Taken(r) + Len(queue[r]) = iterated[r]
          /\ \A k \in 1..Len(queue[r]) : queue[r][k] = ProgressOf(Taken(r) + k)
      <4>1. task[r] # "done" /\ iterated[r] \in Nat
        BY <1>1, Facts
      <4>2. /\ Taken(r) + Len(queue[r]) = PutSoFar(r) + 0
            /\ \A k \in 1..Len(queue[r]) : queue[r][k] = ProgressOf(Taken(r) + k)
        BY <1>1, <2>1, <4>1 DEF RequestInv, StreamInv
      <4>. QED BY <1>4, <4>1, <4>2
    <3>2. Len(queue[r]) \in Nat /\ Taken(r) \in Nat
      BY <1>1, Facts DEF Taken
    <3>3. Of(type) \in {Of("result"), Of("error")} /\ (Of(type).type = "result" => type = "result")
      BY DEF Of, Terminal
    <3>4. ASSUME NEW k \in 1..Len(queue'[r])
          PROVE  IF k = Len(queue'[r])
                 THEN /\ queue'[r][k] \in {Of("result"), Of("error")}
                      /\ queue'[r][k].type = "result" => iterated[r] = Blocks[r]
                 ELSE queue'[r][k] = ProgressOf(Taken(r) + k)
      <4>1. CASE k = Len(queue'[r])
        BY <1>2, <3>2, <3>3, <4>1
      <4>2. CASE k # Len(queue'[r])
        <5>1. k \in 1..Len(queue[r])
          BY <1>2, <3>2, <4>2
        <5>. QED BY <1>2, <3>1, <4>2, <5>1
      <4>. QED BY <4>1, <4>2
    <3>. QED BY <1>2, <3>1, <3>2, <3>4
  <2>2. gen'[r] # "none" /\ task'[r] # "none"
    BY <1>1, <1>3 DEF RequestInv, StreamInv
  <2>3. gen[r] = gen'[r] /\ out[r] = out'[r] /\ delivered[r] = delivered'[r]
    OBVIOUS
  <2>. QED BY <1>1, <1>3, <1>4, <1>5, <2>1, <2>2, <2>3 DEF RequestInv, StreamInv
<1>8. ResultInv(r)'
  <2>1. CASE type = "result"
    BY <2>1 DEF ResultInv
  <2>2. CASE type = "error"
    <3>1. queue'[r][Len(queue[r]) + 1].type # "result" /\ Len(queue[r]) \in Nat
      BY <1>1, <1>2, <2>2, Facts DEF Of
    <3>. QED BY <1>1, <1>2, <3>1 DEF RequestInv, ResultInv
  <2>. QED BY <2>1, <2>2 DEF Terminal
<1>. QED BY <1>2, <1>6, <1>7, <1>8 DEF RequestInv

\* The team is read, or the task fails at once.
LEMMA SnapshotStep ==
  ASSUME IInv, NEW r \in Request, Snapshot(r)
  PROVE  TypeOK' /\ BacklogInv' /\ RequestInv(r)'
<1>1. /\ TypeOK /\ RequestInv(r) /\ BacklogInv /\ task[r] = "snapshot"
      /\ UNCHANGED <<gen, out, delivered, thread, iterated, ready, stored, cacheFailed>>
  BY DEF IInv, Snapshot, generator, cache
<1>2. /\ queue[r] = <<>> /\ iterated[r] = 0 /\ ready[r] = <<>> /\ ~thread[r]
      /\ r \notin Waiting /\ Reported(r) = 0 /\ gen[r] # "none"
  BY <1>1 DEF RequestInv, WorkInv, StreamInv, Reported
<1>3. CASE TaskAt(r, "thread") /\ backlog' = Append(backlog, r) /\ UNCHANGED queue
  <2>1. /\ backlog' \in Seq(Request) /\ Len(backlog) \in Nat /\ Len(backlog') = Len(backlog) + 1
        /\ \A k \in 1..Len(backlog) : backlog'[k] = backlog[k]
        /\ backlog'[Len(backlog) + 1] = r
    BY <1>1, <1>3, AppendKeeps, EmptyLength DEF TypeOK
  <2>2. task' \in [Request -> {"none", "snapshot", "thread", "caching", "done"}]
        /\ task'[r] = "thread"
    BY <1>1, <1>3 DEF TaskAt, TypeOK
  <2>3. TypeOK'
    BY <1>1, <1>3, <2>1, <2>2 DEF TypeOK
  <2>4. BacklogInv'
    BY <1>1, <1>2, <2>1 DEF BacklogInv, Waiting
  <2>5. /\ Reported(r)' = 0 /\ PutSoFar(r)' = PutSoFar(r)
        /\ Taken(r)' = Taken(r) /\ Listening(r)' = Listening(r)
    BY <1>1, <1>2 DEF Reported, PutSoFar, Taken, Listening
  <2>6. WorkInv(r)'
    BY <1>1, <1>2, <1>3, <2>2, <2>5 DEF WorkInv
  <2>7. StreamInv(r)'
    BY <1>1, <1>2, <1>3, <2>2, <2>5 DEF StreamInv, RequestInv
  <2>8. ResultInv(r)'
    BY <1>1, <1>3 DEF ResultInv, RequestInv
  <2>. QED BY <2>3, <2>4, <2>6, <2>7, <2>8 DEF RequestInv
<1>4. CASE Fail(r) /\ UNCHANGED backlog
  <2>1. RequestInv(r)' /\ queue' \in [Request -> Seq(Event)]
    BY <1>1, <1>2, <1>4, FinishKeeps DEF Fail, Waiting, Terminal
  <2>2. task' \in [Request -> {"none", "snapshot", "thread", "caching", "done"}]
    BY <1>1, <1>4 DEF Fail, Finish, TaskAt, TypeOK
  <2>3. TypeOK' /\ BacklogInv'
    BY <1>1, <1>4, <2>1, <2>2 DEF TypeOK, BacklogInv
  <2>. QED BY <2>1, <2>3
<1>. QED BY <1>3, <1>4 DEF Snapshot

\* The loop calls back: the events are put in the order they were handed over.
LEMMA CallbacksStep ==
  ASSUME IInv, NEW r \in Request, Callbacks(r)
  PROVE  TypeOK' /\ BacklogInv' /\ RequestInv(r)'
<1> DEFINE c == Head(ready[r])
<1>1. /\ TypeOK /\ RequestInv(r) /\ BacklogInv /\ ready[r] # <<>>
      /\ UNCHANGED <<gen, out, delivered, backlog, thread, iterated, stored, cacheFailed>>
      /\ ready' = [ready EXCEPT ![r] = Tail(@)]
  BY DEF IInv, Callbacks, generator, worker, cache
<1>2. /\ ready[r] \in Seq(Callback) /\ c \in Callback /\ c = ready[r][1]
      /\ Tail(ready[r]) \in Seq(Callback) /\ Len(ready[r]) \in Nat \ {0}
      /\ Len(Tail(ready[r])) = Len(ready[r]) - 1
      /\ \A k \in 1..Len(Tail(ready[r])) : Tail(ready[r])[k] = ready[r][k + 1]
  BY <1>1, Facts, TailMoves
<1>3. ready'[r] = Tail(ready[r]) /\ ready' \in [Request -> Seq(Callback)]
  BY <1>1, <1>2 DEF TypeOK
<1>4. task[r] = "thread" /\ r \notin Waiting /\ Waiting' = Waiting
  BY <1>1 DEF RequestInv, WorkInv, Waiting
<1>5. iterated[r] \in Nat /\ Reported(r) \in Nat /\ Reported(r) <= iterated[r]
  BY <1>1, <1>2, Facts DEF RequestInv, WorkInv, Reported
<1>51. \A k \in 1..Reported(r) : ready[r][k] = ProgressOf(PutSoFar(r) + k)
  BY <1>1 DEF RequestInv, WorkInv
<1>52. Reported(r) = Len(ready[r]) - 1 \/ Reported(r) = Len(ready[r])
  BY DEF Reported
<1>6. CASE c.type # "progress"
  <2>1. Reported(r) = 0 /\ Len(ready[r]) = 1
    <3>1. 1 \notin 1..Reported(r)
      <4>1. ASSUME 1 \in 1..Reported(r) PROVE FALSE
        <5>1. ready[r][1].type = "progress"
          BY <1>51, <4>1, EventFields
        <5>. QED BY <1>2, <1>6, <5>1
      <4>. QED BY <4>1
    <3>2. Reported(r) = 0
      BY <1>5, <3>1
    <3>. QED BY <1>2, <1>52, <3>2
  <2>2. ready'[r] = <<>> /\ ~thread[r]
    <3>1. ready'[r] = <<>>
      BY <1>2, <1>3, <2>1, EmptyLength
    <3>2. ~thread[r]
      BY <1>1, <2>1 DEF RequestInv, WorkInv
    <3>. QED BY <3>1, <3>2
  <2>3. CASE c.type = "raised" /\ Fail(r)
    <3>1. RequestInv(r)' /\ queue' \in [Request -> Seq(Event)]
      BY <1>1, <1>4, <2>1, <2>2, <2>3, FinishKeeps DEF Fail, Terminal
    <3>2. task' \in [Request -> {"none", "snapshot", "thread", "caching", "done"}]
      BY <1>1, <2>3 DEF Fail, Finish, TaskAt, TypeOK
    <3>. QED BY <1>1, <1>3, <3>1, <3>2 DEF TypeOK, BacklogInv
  <2>4. CASE c.type = "returned" /\ OnReturn(r)
    <3>1. /\ task' \in [Request -> {"none", "snapshot", "thread", "caching", "done"}]
          /\ task'[r] = "caching" /\ queue' = queue
      BY <1>1, <2>4 DEF OnReturn, TaskAt, TypeOK
    <3>2. iterated[r] = Blocks[r]
      BY <1>1, <1>2, <2>4 DEF RequestInv, WorkInv
    <3>3. /\ Reported(r)' = 0 /\ PutSoFar(r)' = PutSoFar(r)
          /\ Taken(r)' = Taken(r) /\ Listening(r)' = Listening(r)
      BY <1>1, <1>5, <2>1, <2>2 DEF Reported, PutSoFar, Taken, Listening
    <3>4. WorkInv(r)'
      BY <1>1, <1>4, <1>5, <2>2, <3>1, <3>2, <3>3 DEF WorkInv
    <3>5. StreamInv(r)'
      BY <1>1, <1>4, <3>1, <3>3 DEF StreamInv, RequestInv
    <3>6. ResultInv(r)'
      BY <1>1, <3>1 DEF ResultInv, RequestInv
    <3>. QED BY <1>1, <1>3, <3>1, <3>4, <3>5, <3>6 DEF TypeOK, BacklogInv, RequestInv
  <2>. QED BY <1>6, <2>3, <2>4 DEF Callbacks
<1>7. CASE c.type = "progress"
  <2>1. /\ Put(r, c) /\ task' = task /\ c \in Event
    BY <1>2, <1>7 DEF Callbacks, Callback, Event, Message
  <2>2. /\ queue' \in [Request -> Seq(Event)]
        /\ Len(queue'[r]) = Len(queue[r]) + 1
        /\ \A k \in 1..Len(queue[r]) : queue'[r][k] = queue[r][k]
        /\ queue'[r][Len(queue[r]) + 1] = c
    BY <1>1, <2>1, PutFacts
  <2>3. Reported(r)' = Reported(r) - 1 /\ PutSoFar(r)' = PutSoFar(r) + 1 /\ Reported(r) # 0
    <3>0. iterated'[r] = iterated[r]
      BY <1>1
    <3>1. CASE ready[r][Len(ready[r])].type # "progress"
      <4>1. Len(ready[r]) # 1
        BY <1>2, <1>7, <3>1
      <4>2. Len(ready'[r]) # 0 /\ ready'[r] # <<>>
        <5>1. Len(ready'[r]) # 0
          BY <1>2, <1>3, <4>1
        <5>. QED BY <1>2, <1>3, <5>1, EmptyLength
      <4>3. ready'[r][Len(ready'[r])] = ready[r][Len(ready[r])]
        BY <1>2, <1>3, <4>2
      <4>4. Reported(r)' = Len(ready'[r]) - 1 /\ Reported(r) = Len(ready[r]) - 1
        BY <1>1, <3>1, <4>2, <4>3 DEF Reported
      <4>5. Reported(r)' = Reported(r) - 1 /\ Reported(r) # 0
        BY <1>2, <1>3, <4>1, <4>4
      <4>. QED BY <1>5, <3>0, <4>5 DEF PutSoFar
    <3>2. CASE ready[r][Len(ready[r])].type = "progress"
      <4>1. ready'[r] # <<>> => ready'[r][Len(ready'[r])] = ready[r][Len(ready[r])]
        <5>1. ready'[r] # <<>> => Len(ready'[r]) # 0
          BY <1>2, <1>3, EmptyLength
        <5>. QED BY <1>2, <1>3, <5>1
      <4>2. Reported(r)' = Len(ready'[r]) /\ Reported(r) = Len(ready[r])
        BY <1>1, <3>2, <4>1 DEF Reported
      <4>3. Reported(r)' = Reported(r) - 1 /\ Reported(r) # 0
        BY <1>2, <1>3, <4>2
      <4>. QED BY <1>5, <3>0, <4>3 DEF PutSoFar
    <3>. QED BY <3>1, <3>2
  <2>4. c = ProgressOf(PutSoFar(r) + 1)
    BY <1>1, <1>2, <1>5, <2>3 DEF RequestInv, WorkInv
  <2>5. Taken(r)' = Taken(r) /\ Listening(r)' = Listening(r)
    BY <1>1 DEF Taken, Listening
  <2>6. WorkInv(r)'
    <3>1. \A k \in 1..Reported(r)' : ready'[r][k] = ProgressOf(PutSoFar(r)' + k)
      <4>1. ASSUME NEW k \in 1..Reported(r)'
            PROVE  ready'[r][k] = ProgressOf(PutSoFar(r)' + k)
        <5>1. k + 1 \in 1..Reported(r) /\ k \in 1..Len(ready'[r])
          BY <1>2, <1>3, <1>5, <2>3 DEF Reported
        <5>2. ready[r][k + 1] = ProgressOf(PutSoFar(r) + (k + 1))
          BY <1>1, <5>1 DEF RequestInv, WorkInv
        <5>3. PutSoFar(r) + (k + 1) = PutSoFar(r)' + k
          BY <1>5, <2>3 DEF PutSoFar
        <5>. QED BY <1>2, <1>3, <5>1, <5>2, <5>3
      <4>. QED BY <4>1
    <3>2. thread[r] => Reported(r)' = Len(ready'[r])
      BY <1>1, <1>2, <1>3, <2>3 DEF RequestInv, WorkInv
    <3>3. \A k \in 1..Len(ready'[r]) : ready'[r][k].type = "returned" => iterated[r] = Blocks[r]
      BY <1>1, <1>2, <1>3 DEF RequestInv, WorkInv
    <3>4. task'[r] = "thread" /\ r \notin Waiting' /\ Reported(r)' <= iterated'[r]
      BY <1>1, <1>4, <1>5, <2>1, <2>3
    <3>5. thread'[r] = thread[r] /\ iterated'[r] = iterated[r]
      BY <1>1
    <3>. QED BY <3>1, <3>2, <3>3, <3>4, <3>5 DEF WorkInv
  <2>7. StreamInv(r)'
    <3>1. ASSUME Listening(r)
          PROVE  /\ Taken(r) + Len(queue'[r]) = PutSoFar(r)'
                 /\ \A k \in 1..Len(queue'[r]) : queue'[r][k] = ProgressOf(Taken(r) + k)
      <4>1. /\ Taken(r) + Len(queue[r]) = PutSoFar(r) + 0
            /\ \A k \in 1..Len(queue[r]) : queue[r][k] = ProgressOf(Taken(r) + k)
        BY <1>1, <1>4, <3>1 DEF RequestInv, StreamInv
      <4>2. Len(queue[r]) \in Nat /\ Taken(r) \in Nat /\ PutSoFar(r) \in Int
        BY <1>1, <1>5, Facts DEF Taken, PutSoFar
      <4>3. ASSUME NEW k \in 1..Len(queue'[r])
            PROVE  queue'[r][k] = ProgressOf(Taken(r) + k)
        <5>1. CASE k = Len(queue[r]) + 1
          BY <2>2, <2>4, <4>1, <4>2, <5>1
        <5>2. CASE k # Len(queue[r]) + 1
          <6>1. k \in 1..Len(queue[r])
            BY <2>2, <4>2, <5>2
          <6>. QED BY <2>2, <4>1, <6>1
        <5>. QED BY <5>1, <5>2
      <4>4. Taken(r) + Len(queue'[r]) = PutSoFar(r)'
        BY <2>2, <2>3, <4>1, <4>2
      <4>. QED BY <4>3, <4>4
    <3>2. PutSoFar(r)' \in Int
      BY <1>5, <2>3 DEF PutSoFar
    <3>3. gen[r] = gen'[r] /\ out[r] = out'[r] /\ delivered[r] = delivered'[r]
      BY <1>1
    <3>. QED BY <1>1, <1>4, <2>1, <2>5, <3>1, <3>2, <3>3 DEF StreamInv, RequestInv
  <2>8. ResultInv(r)'
    <3>1. c.type # "result" /\ Len(queue[r]) \in Nat
      BY <1>1, <1>7, Facts
    <3>. QED BY <1>1, <2>2, <3>1 DEF ResultInv, RequestInv
  <2>. QED BY <1>1, <1>3, <2>1, <2>2, <2>6, <2>7, <2>8 DEF TypeOK, BacklogInv, RequestInv
<1>. QED BY <1>6, <1>7

\* A result is queued after its write to the cache, or the failure of it.
LEMMA CacheResultStep ==
  ASSUME IInv, NEW r \in Request, CacheResult(r)
  PROVE  TypeOK' /\ BacklogInv' /\ RequestInv(r)'
<1>1. /\ TypeOK /\ RequestInv(r) /\ BacklogInv /\ task[r] = "caching"
      /\ UNCHANGED <<gen, out, delivered, backlog, thread, iterated, ready>>
      /\ r \in stored' \cup cacheFailed'
      /\ stored \cup cacheFailed \subseteq stored' \cup cacheFailed'
      /\ stored' \subseteq Request /\ cacheFailed' \subseteq Request
      /\ Finish(r, "result") \/ Finish(r, "error")
  BY DEF IInv, CacheResult, generator, worker, TypeOK, Fail
<1>2. /\ ready'[r] = <<>> /\ ~thread'[r] /\ r \notin Waiting' /\ Reported(r) = 0
      /\ iterated[r] = Blocks[r]
  BY <1>1 DEF RequestInv, WorkInv, Reported, Waiting
<1>3. RequestInv(r)' /\ queue' \in [Request -> Seq(Event)]
  BY <1>1, <1>2, FinishKeeps DEF Terminal
<1>4. task' \in [Request -> {"none", "snapshot", "thread", "caching", "done"}]
  BY <1>1 DEF Finish, TaskAt, TypeOK
<1>. QED BY <1>1, <1>3, <1>4 DEF TypeOK, BacklogInv

------------------------------------------------------------------------------
(* The worker thread *)

\* A run gets a thread: no more of them are taken than there are.
LEMMA ThreadStartStep ==
  ASSUME IInv, NEW r \in Request, ThreadStart(r)
  PROVE  TypeOK' /\ BacklogInv' /\ RequestInv(r)'
<1>1. /\ TypeOK /\ RequestInv(r) /\ BacklogInv /\ backlog # <<>> /\ Head(backlog) = r
      /\ ThreadFree /\ backlog' = Tail(backlog) /\ thread' = [thread EXCEPT ![r] = TRUE]
      /\ UNCHANGED <<gen, out, delivered, queue, task, iterated, ready, stored, cacheFailed>>
  BY DEF IInv, ThreadStart, generator, cache
<1>2. /\ Len(backlog) \in Nat \ {0} /\ Len(backlog') = Len(backlog) - 1
      /\ \A k \in 1..Len(backlog') : backlog'[k] = backlog[k + 1]
      /\ backlog' \in Seq(Request) /\ backlog[1] = r
  BY <1>1, TailMoves DEF TypeOK
<1>3. r \in Waiting /\ r \notin Waiting'
  <2>1. r \in Waiting
    BY <1>2 DEF Waiting
  <2>2. ASSUME NEW k \in 1..Len(backlog'), backlog'[k] = r PROVE FALSE
    BY <1>1, <1>2, <2>2 DEF BacklogInv
  <2>. QED BY <2>1, <2>2 DEF Waiting
<1>4. ready[r] = <<>> /\ ~thread[r] /\ task[r] = "thread"
  BY <1>1, <1>3, Facts DEF RequestInv, WorkInv
<1>5. Cardinality({q \in Request : thread'[q]}) <= PoolSize
  <2>1. {q \in Request : thread'[q]} = {q \in Request : thread[q]} \cup {r}
    BY <1>1 DEF TypeOK
  <2>2. IsFiniteSet({q \in Request : thread[q]})
    BY ConstantsAssumption, FS_Subset
  <2>3. Cardinality({q \in Request : thread'[q]}) = Cardinality({q \in Request : thread[q]}) + 1
    BY <1>4, <2>1, <2>2, FS_AddElement
  <2>4. Cardinality({q \in Request : thread[q]}) \in Nat
    BY <2>2, FS_CardinalityType
  <2>. QED BY <1>1, <2>3, <2>4, ConstantsAssumption DEF ThreadFree
<1>6. TypeOK'
  BY <1>1, <1>2, <1>5 DEF TypeOK
<1>7. BacklogInv'
  <2>1. ASSUME NEW j \in 1..Len(backlog'), NEW k \in 1..Len(backlog'), backlog'[j] = backlog'[k]
        PROVE  j = k
    <3>1. /\ j + 1 \in 1..Len(backlog) /\ k + 1 \in 1..Len(backlog)
          /\ backlog[j + 1] = backlog[k + 1]
      BY <1>2, <2>1
    <3>2. j + 1 = k + 1
      BY <1>1, <3>1 DEF BacklogInv
    <3>. QED BY <3>2
  <2>. QED BY <2>1 DEF BacklogInv
<1>8. /\ Reported(r)' = Reported(r) /\ PutSoFar(r)' = PutSoFar(r) /\ Reported(r) = 0
      /\ Taken(r)' = Taken(r) /\ Listening(r)' = Listening(r) /\ Len(ready[r]) = 0
  BY <1>1, <1>4 DEF Reported, PutSoFar, Taken, Listening
<1>9. WorkInv(r)'
  BY <1>1, <1>3, <1>4, <1>8 DEF RequestInv, WorkInv
<1>10. StreamInv(r)' /\ ResultInv(r)'
  BY <1>1, <1>8 DEF RequestInv, StreamInv, ResultInv
<1>. QED BY <1>6, <1>7, <1>9, <1>10 DEF RequestInv

\* What a thread hands over is the last callback.
LEMMA HandFacts ==
  ASSUME TypeOK, NEW r \in Request, NEW c \in Callback, Hand(r, c)
  PROVE  /\ ready' \in [Request -> Seq(Callback)] /\ ready'[r] # <<>>
         /\ Len(ready'[r]) = Len(ready[r]) + 1
         /\ \A k \in 1..Len(ready[r]) : ready'[r][k] = ready[r][k]
         /\ ready'[r][Len(ready'[r])] = c
<1>1. ready[r] \in Seq(Callback) /\ ready' = [ready EXCEPT ![r] = Append(ready[r], c)]
  BY DEF TypeOK, Hand, HandedOver
<1>2. Append(ready[r], c) \in Seq(Callback)
  BY <1>1, AppendKeeps
<1>3. ready'[r] = Append(ready[r], c) /\ ready' \in [Request -> Seq(Callback)]
  BY <1>1, <1>2 DEF TypeOK
<1>. QED BY <1>1, <1>3, AppendKeeps

\* The next progress report follows those handed over before.
LEMMA IterateStep ==
  ASSUME IInv, NEW r \in Request, Iterate(r)
  PROVE  TypeOK' /\ BacklogInv' /\ RequestInv(r)'
<1>1. /\ TypeOK /\ RequestInv(r) /\ BacklogInv /\ thread[r] /\ iterated[r] < Blocks[r]
      /\ iterated' = [iterated EXCEPT ![r] = @ + 1]
      /\ Hand(r, ProgressOf(iterated'[r]))
      /\ UNCHANGED <<gen, out, delivered, queue, task, backlog, thread, stored, cacheFailed>>
  BY DEF IInv, Iterate, generator, cache
<1>2. /\ iterated'[r] = iterated[r] + 1 /\ iterated[r] \in Nat /\ iterated' \in [Request -> Nat]
      /\ \A q \in Request : iterated'[q] <= Blocks[q]
      /\ Blocks[r] \in Nat
  <2>1. /\ iterated \in [Request -> Nat] /\ Blocks \in [Request -> Nat]
        /\ \A q \in Request : iterated[q] <= Blocks[q]
    BY <1>1, ConstantsAssumption DEF TypeOK
  <2>2. iterated'[r] = iterated[r] + 1 /\ iterated' \in [Request -> Nat]
    BY <1>1, <2>1
  <2>3. ASSUME NEW q \in Request PROVE iterated'[q] <= Blocks[q]
    <3>1. CASE q = r
      BY <1>1, <2>1, <2>2, <3>1
    <3>2. CASE q # r
      BY <1>1, <2>1, <3>2
    <3>. QED BY <3>1, <3>2
  <2>. QED BY <2>1, <2>2, <2>3
<1>3. ProgressOf(iterated'[r]) \in Callback
  BY <1>2 DEF ProgressOf, Callback, Message
<1>4. /\ ready' \in [Request -> Seq(Callback)] /\ ready'[r] # <<>>
      /\ Len(ready'[r]) = Len(ready[r]) + 1
      /\ \A k \in 1..Len(ready[r]) : ready'[r][k] = ready[r][k]
      /\ ready'[r][Len(ready'[r])] = ProgressOf(iterated'[r])
  BY <1>1, <1>3, HandFacts
<1>5. Len(ready[r]) \in Nat
  BY <1>1, Facts
<1>6. TypeOK'
  BY <1>1, <1>2, <1>4 DEF TypeOK
<1>7. Reported(r) = Len(ready[r]) /\ Reported(r)' = Len(ready[r]) + 1
  BY <1>1, <1>4 DEF RequestInv, WorkInv, Reported, ProgressOf
<1>8. PutSoFar(r)' = PutSoFar(r) /\ PutSoFar(r) = iterated[r] - Len(ready[r])
  BY <1>2, <1>5, <1>7 DEF PutSoFar
<1>9. Taken(r)' = Taken(r) /\ Listening(r)' = Listening(r)
  BY <1>1 DEF Taken, Listening
<1>10. WorkInv(r)'
  <2>1. task[r] = "thread" /\ r \notin Waiting /\ Waiting' = Waiting /\ Len(ready[r]) <= iterated[r]
    BY <1>1, <1>7 DEF RequestInv, WorkInv, Waiting
  <2>2. ASSUME NEW k \in 1..Reported(r)'
        PROVE  ready'[r][k] = ProgressOf(PutSoFar(r)' + k)
    <3>1. CASE k = Len(ready[r]) + 1
      BY <1>2, <1>4, <1>5, <1>8, <3>1
    <3>2. CASE k # Len(ready[r]) + 1
      <4>1. k \in 1..Len(ready[r])
        BY <1>5, <1>7, <3>2
      <4>. QED BY <1>1, <1>4, <1>7, <1>8, <4>1 DEF RequestInv, WorkInv
    <3>. QED BY <3>1, <3>2
  <2>3. ASSUME NEW k \in 1..Len(ready'[r]) PROVE ready'[r][k].type # "returned"
    BY <1>4, <1>7, <2>2, EventFields
  <2>4. Reported(r)' <= iterated'[r] /\ Reported(r)' = Len(ready'[r])
    BY <1>2, <1>4, <1>5, <1>7, <2>1
  <2>5. task'[r] = "thread" /\ r \notin Waiting'
    BY <1>1, <2>1
  <2>. QED BY <2>2, <2>3, <2>4, <2>5 DEF WorkInv
<1>11. StreamInv(r)' /\ ResultInv(r)'
  BY <1>1, <1>8, <1>9 DEF RequestInv, StreamInv, ResultInv
<1>. QED BY <1>1, <1>6, <1>10, <1>11 DEF BacklogInv, RequestInv

\* The end of a run is handed over after all of its reports.
LEMMA ThreadEndStep ==
  ASSUME IInv, NEW r \in Request, ThreadEnd(r)
  PROVE  TypeOK' /\ BacklogInv' /\ RequestInv(r)'
<1>1. /\ TypeOK /\ RequestInv(r) /\ BacklogInv /\ thread[r]
      /\ thread' = [thread EXCEPT ![r] = FALSE]
      /\ UNCHANGED <<gen, out, delivered, queue, task, backlog, iterated, stored, cacheFailed>>
  BY DEF IInv, ThreadEnd, generator, cache
<1>2. PICK c \in {Of("returned"), Of("raised")} :
        Hand(r, c) /\ (c.type = "returned" => iterated[r] = Blocks[r])
  BY DEF ThreadEnd, Of
<1>3. c \in Callback /\ c.type # "progress"
  BY <1>2 DEF Of, Callback, Message
<1>4. /\ ready' \in [Request -> Seq(Callback)] /\ ready'[r] # <<>>
      /\ Len(ready'[r]) = Len(ready[r]) + 1
      /\ \A k \in 1..Len(ready[r]) : ready'[r][k] = ready[r][k]
      /\ ready'[r][Len(ready'[r])] = c
  BY <1>1, <1>2, <1>3, HandFacts
<1>5. Len(ready[r]) \in Nat
  BY <1>1, Facts
<1>6. Cardinality({q \in Request : thread'[q]}) <= PoolSize
  <2>1. {q \in Request : thread'[q]} \subseteq {q \in Request : thread[q]}
    BY <1>1 DEF TypeOK
  <2>2. IsFiniteSet({q \in Request : thread[q]})
    BY ConstantsAssumption, FS_Subset
  <2>3. /\ IsFiniteSet({q \in Request : thread'[q]})
        /\ Cardinality({q \in Request : thread'[q]}) <= Cardinality({q \in Request : thread[q]})
    BY <2>1, <2>2, FS_Subset
  <2>4. /\ Cardinality({q \in Request : thread[q]}) \in Nat
        /\ Cardinality({q \in Request : thread'[q]}) \in Nat
    BY <2>2, <2>3, FS_CardinalityType
  <2>. QED BY <1>1, <2>3, <2>4, ConstantsAssumption DEF TypeOK
<1>7. TypeOK' /\ ~thread'[r]
  BY <1>1, <1>4, <1>6 DEF TypeOK
<1>8. Reported(r) = Len(ready[r]) /\ Reported(r)' = Len(ready[r])
  <2>1. Reported(r) = Len(ready[r])
    BY <1>1 DEF RequestInv, WorkInv
  <2>2. Reported(r)' = Len(ready'[r]) - 1
    BY <1>3, <1>4 DEF Reported
  <2>. QED BY <1>4, <1>5, <2>1, <2>2
<1>9. PutSoFar(r)' = PutSoFar(r) /\ Taken(r)' = Taken(r) /\ Listening(r)' = Listening(r)
  BY <1>1, <1>8 DEF PutSoFar, Taken, Listening
<1>10. WorkInv(r)'
  <2>1. /\ task'[r] = "thread" /\ r \notin Waiting' /\ Reported(r)' <= iterated'[r]
    BY <1>1, <1>8 DEF RequestInv, WorkInv, Waiting
  <2>2. \A k \in 1..Reported(r)' : ready'[r][k] = ProgressOf(PutSoFar(r)' + k)
    BY <1>1, <1>4, <1>8, <1>9 DEF RequestInv, WorkInv
  <2>3. ASSUME NEW k \in 1..Len(ready'[r]), ready'[r][k].type = "returned"
        PROVE  iterated'[r] = Blocks[r]
    <3>1. CASE k = Len(ready'[r])
      BY <1>1, <1>2, <1>4, <2>3, <3>1
    <3>2. CASE k # Len(ready'[r])
      <4>1. k \in 1..Reported(r)'
        BY <1>4, <1>5, <1>8, <3>2
      <4>. QED BY <2>2, <2>3, <4>1, EventFields
    <3>. QED BY <3>1, <3>2
  <2>. QED BY <1>7, <2>1, <2>2, <2>3 DEF WorkInv
<1>11. StreamInv(r)' /\ ResultInv(r)'
  BY <1>1, <1>9 DEF RequestInv, StreamInv, ResultInv
<1>. QED BY <1>1, <1>7, <1>10, <1>11 DEF BacklogInv, RequestInv

------------------------------------------------------------------------------
(* The generator and its client *)

\* What only the generator moves leaves the work of the task as it was.
LEMMA WorkStays ==
  ASSUME NEW r \in Request, WorkInv(r), UNCHANGED <<worker, ready>>, task'[r] = task[r],
         task[r] \in {"none", "snapshot"} => queue'[r] = <<>>
  PROVE  WorkInv(r)' /\ PutSoFar(r)' = PutSoFar(r)
<1>1. Reported(r)' = Reported(r) /\ PutSoFar(r)' = PutSoFar(r) /\ Waiting' = Waiting
  BY DEF Reported, PutSoFar, Waiting, worker
<1>. QED BY <1>1 DEF WorkInv, worker

\* A new stream has delivered nothing, and its task has done nothing.
LEMMA ConnectStep ==
  ASSUME IInv, NEW r \in Request, Connect(r)
  PROVE  TypeOK' /\ BacklogInv' /\ RequestInv(r)'
<1>1. /\ TypeOK /\ RequestInv(r) /\ BacklogInv /\ gen[r] = "none" /\ task[r] = "none"
      /\ UNCHANGED <<out, delivered, queue, worker, ready, cache>>
      /\ gen' = [gen EXCEPT ![r] = "waiting"] /\ task' = [task EXCEPT ![r] = "snapshot"]
  BY DEF IInv, Connect, GenAt, TaskAt, RequestInv, StreamInv
<1>2. gen'[r] = "waiting" /\ task'[r] = "snapshot"
  BY <1>1 DEF TypeOK
<1>3. TypeOK' /\ BacklogInv'
  BY <1>1 DEF TypeOK, BacklogInv, worker, cache
<1>4. /\ queue[r] = <<>> /\ ready[r] = <<>> /\ iterated[r] = 0 /\ ~thread[r] /\ r \notin Waiting
      /\ delivered[r] = <<>>
  BY <1>1 DEF RequestInv, WorkInv, StreamInv
<1>5. Reported(r)' = 0 /\ PutSoFar(r)' = 0 /\ Taken(r)' = 0 /\ Waiting' = Waiting
  <2>1. ready'[r] = <<>> /\ iterated'[r] = 0 /\ delivered'[r] = <<>> /\ backlog' = backlog
    BY <1>1, <1>4 DEF worker
  <2>2. Reported(r)' = 0
    BY <2>1 DEF Reported
  <2>3. PutSoFar(r)' = 0
    BY <2>1, <2>2 DEF PutSoFar
  <2>. QED BY <1>2, <2>1, <2>2, <2>3 DEF Taken, Waiting
<1>6. WorkInv(r)'
  BY <1>1, <1>2, <1>4, <1>5 DEF WorkInv, worker
<1>7. StreamInv(r)'
  BY <1>1, <1>2, <1>4, <1>5 DEF StreamInv
<1>8. ResultInv(r)'
  BY <1>1 DEF RequestInv, ResultInv, cache
<1>. QED BY <1>3, <1>6, <1>7, <1>8 DEF RequestInv

\* The generator takes the next event of the stream.
LEMMA ReceiveStep ==
  ASSUME IInv, NEW r \in Request, Receive(r)
  PROVE  TypeOK' /\ BacklogInv' /\ RequestInv(r)'
<1>1. /\ TypeOK /\ RequestInv(r) /\ BacklogInv /\ gen[r] = "waiting" /\ queue[r] # <<>>
      /\ UNCHANGED <<delivered, task, worker, ready, cache>>
      /\ out' = [out EXCEPT ![r] = Head(queue[r])] /\ queue' = [queue EXCEPT ![r] = Tail(@)]
      /\ gen' = [gen EXCEPT ![r] = "yielding"]
  BY DEF IInv, Receive, GenAt
<1>2. /\ queue[r] \in Seq(Event) /\ Tail(queue[r]) \in Seq(Event)
      /\ Head(queue[r]) \in Event /\ Head(queue[r]) = queue[r][1]
      /\ Len(queue[r]) \in Nat \ {0} /\ Len(Tail(queue[r])) = Len(queue[r]) - 1
      /\ \A k \in 1..Len(Tail(queue[r])) : Tail(queue[r])[k] = queue[r][k + 1]
  BY <1>1, Facts, TailMoves
<1>3. gen'[r] = "yielding" /\ out'[r] = queue[r][1] /\ queue'[r] = Tail(queue[r])
  BY <1>1, <1>2 DEF TypeOK
<1>4. TypeOK' /\ BacklogInv'
  BY <1>1, <1>2 DEF TypeOK, BacklogInv, worker, cache
<1>5. /\ Listening(r) /\ Taken(r) = Len(delivered[r]) /\ task[r] # "none"
      /\ task[r] \notin {"none", "snapshot"} /\ Len(delivered[r]) \in Nat
  BY <1>1, Facts DEF Listening, Taken, RequestInv, WorkInv, StreamInv
<1>6. WorkInv(r)' /\ PutSoFar(r)' = PutSoFar(r)
  BY <1>1, <1>5, WorkStays DEF RequestInv
<1>7. /\ PutSoFar(r) \in Int /\ PutSoFar(r) <= Blocks[r] /\ Blocks[r] \in Nat
  <2>1. /\ iterated[r] \in Nat /\ iterated[r] <= Blocks[r] /\ Blocks[r] \in Nat
        /\ Len(ready[r]) \in Nat
    BY <1>1, Facts
  <2>2. Reported(r) \in Nat
    BY <1>1, <2>1, Facts, EmptyLength DEF Reported
  <2>. QED BY <2>1, <2>2 DEF PutSoFar
<1>8. /\ Len(delivered[r]) + Len(queue[r]) = PutSoFar(r) + (IF task[r] = "done" THEN 1 ELSE 0)
      /\ \A k \in 1..Len(queue[r]) :
            IF task[r] = "done" /\ k = Len(queue[r])
            THEN /\ queue[r][k] \in {Of("result"), Of("error")}
                 /\ queue[r][k].type = "result" => PutSoFar(r) = Blocks[r]
            ELSE queue[r][k] = ProgressOf(Len(delivered[r]) + k)
  BY <1>1, <1>5 DEF RequestInv, StreamInv
<1>9. 1 \in 1..Len(queue[r])
  BY <1>2
<1>a. /\ Len(queue[r]) \in Nat /\ Len(queue[r]) # 0
      /\ Len(queue'[r]) = Len(queue[r]) - 1 /\ Len(delivered[r]) \in Nat
  BY <1>2, <1>3, <1>5
<1>c. PICK d \in Nat, q \in Nat : d = Len(delivered[r]) /\ q = Len(queue[r])
  BY <1>a
<1>b. d + q = PutSoFar(r) + (IF task[r] = "done" THEN 1 ELSE 0)
  BY <1>8, <1>c
<1>10. ASSUME task[r] = "done", Len(queue[r]) = 1
       PROVE  StreamInv(r)'
  <2>1. out'[r] \in {Of("result"), Of("error")} /\ (out'[r].type = "result" => PutSoFar(r) = Blocks[r])
    BY <1>3, <1>8, <1>9, <1>10
  <2>2. out'[r].type \in Terminal /\ out'[r].type # "progress" /\ out'[r].n = 0 /\ ~Listening(r)'
    BY <1>3, <2>1, EventFields DEF Terminal, Listening
  <2>3. out'[r].type = "result" => Len(delivered[r]) = Blocks[r]
    BY <1>7, <1>b, <1>c, <1>10, <2>1
  <2>4. \A k \in 1..Len(delivered[r]) : delivered[r][k].type = "progress"
    BY <1>1 DEF RequestInv, StreamInv
  <2>5. StreamInv(r)'
    BY <1>1, <1>3, <1>5, <2>2, <2>3, <2>4 DEF StreamInv
  <2>. QED BY <2>5
<1>11. ASSUME ~(task[r] = "done" /\ Len(queue[r]) = 1)
       PROVE  StreamInv(r)'
  <2>1. out'[r] = ProgressOf(Len(delivered[r]) + 1)
    <3>1. ~(task[r] = "done" /\ 1 = Len(queue[r]))
      BY <1>11
    <3>. QED BY <1>3, <1>8, <1>9, <3>1
  <2>2. out'[r].type = "progress" /\ Taken(r)' = Len(delivered[r]) + 1
    BY <1>1, <1>3, <2>1, EventFields DEF Taken
  <2>3. Len(delivered[r]) < Blocks[r]
    <3>1. CASE task[r] = "done"
      <4>1. d + q = PutSoFar(r) + 1
        BY <1>b, <3>1
      <4>2. q # 1 /\ q # 0
        BY <1>11, <1>a, <1>c, <3>1
      <4>3. d < Blocks[r]
        BY <1>7, <4>1, <4>2
      <4>. QED BY <1>c, <4>3
    <3>2. CASE task[r] # "done"
      <4>1. d + q = PutSoFar(r) + 0 /\ q # 0
        BY <1>a, <1>b, <1>c, <3>2
      <4>2. d < Blocks[r]
        BY <1>7, <4>1
      <4>. QED BY <1>c, <4>2
    <3>. QED BY <3>1, <3>2
  <2>4. \A k \in 1..Len(delivered[r]) : delivered[r][k].type = "progress"
    BY <1>1 DEF RequestInv, StreamInv
  <2>5. Taken(r)' + Len(queue'[r]) = PutSoFar(r) + (IF task[r] = "done" THEN 1 ELSE 0)
    <3>1. (d + 1) + (q - 1) = d + q
      OBVIOUS
    <3>2. Taken(r)' + Len(queue'[r]) = d + q
      BY <1>a, <1>c, <2>2, <3>1
    <3>. QED BY <1>b, <3>2
  <2>6. ASSUME NEW k \in 1..Len(queue'[r])
        PROVE  IF task[r] = "done" /\ k = Len(queue'[r])
               THEN /\ queue'[r][k] \in {Of("result"), Of("error")}
                    /\ queue'[r][k].type = "result" => PutSoFar(r) = Blocks[r]
               ELSE queue'[r][k] = ProgressOf(Taken(r)' + k)
    <3>1. /\ k + 1 \in 1..Len(queue[r]) /\ queue'[r][k] = queue[r][k + 1]
          /\ k + 1 = Len(queue[r]) <=> k = Len(queue'[r])
      BY <1>2, <1>3
    <3>2. Len(delivered[r]) + (k + 1) = Taken(r)' + k
      <4>1. k \in Nat
        BY <1>a
      <4>2. d + (k + 1) = (d + 1) + k
        BY <4>1
      <4>. QED BY <1>c, <2>2, <4>2
    <3>3. IF task[r] = "done" /\ k + 1 = Len(queue[r])
          THEN /\ queue[r][k + 1] \in {Of("result"), Of("error")}
               /\ queue[r][k + 1].type = "result" => PutSoFar(r) = Blocks[r]
          ELSE queue[r][k + 1] = ProgressOf(Len(delivered[r]) + (k + 1))
      BY <1>8, <3>1
    <3>. QED BY <3>1, <3>2, <3>3
  <2>7. out'[r].type \notin Terminal /\ out'[r].type # "result"
    BY <2>2 DEF Terminal
  <2>8. gen'[r] # "none" /\ task'[r] = task[r] /\ delivered'[r] = delivered[r]
    BY <1>1, <1>3
  <2>. QED BY <1>3, <1>5, <1>6, <2>1, <2>3, <2>4, <2>5, <2>6, <2>7, <2>8 DEF StreamInv
<1>12. ResultInv(r)'
  <2>1. stored' \cup cacheFailed' = stored \cup cacheFailed /\ delivered'[r] = delivered[r]
    BY <1>1 DEF cache
  <2>2. ASSUME \A k \in 1..Len(queue[r]) : queue[r][k].type # "result"
        PROVE  out'[r].type # "result" /\ \A k \in 1..Len(queue'[r]) : queue'[r][k].type # "result"
    BY <1>2, <1>3, <1>9, <2>2
  <2>. QED BY <1>1, <2>1, <2>2 DEF RequestInv, ResultInv
<1>. QED BY <1>4, <1>6, <1>10, <1>11, <1>12 DEF RequestInv

\* A timeout leaves the queue alone.
LEMMA TimeoutStep ==
  ASSUME IInv, NEW r \in Request, Timeout(r)
  PROVE  TypeOK' /\ BacklogInv' /\ RequestInv(r)'
<1>1. /\ TypeOK /\ RequestInv(r) /\ BacklogInv /\ gen[r] = "waiting"
      /\ UNCHANGED <<delivered, queue, task, worker, ready, cache>>
      /\ out' = [out EXCEPT ![r] = Of("keepalive")] /\ gen' = [gen EXCEPT ![r] = "yielding"]
  BY DEF IInv, Timeout, GenAt
<1>2. gen'[r] = "yielding" /\ out'[r].type = "keepalive"
  BY <1>1, EventFields DEF TypeOK
<1>3. TypeOK' /\ BacklogInv'
  BY <1>1 DEF TypeOK, BacklogInv, worker, cache
<1>4. /\ Listening(r) /\ Listening(r)' /\ Taken(r) = Len(delivered[r])
      /\ Taken(r)' = Len(delivered[r])
  BY <1>1, <1>2 DEF Listening, Taken, Terminal
<1>5. WorkInv(r)' /\ PutSoFar(r)' = PutSoFar(r)
  BY <1>1, WorkStays DEF RequestInv, WorkInv
<1>6. StreamInv(r)'
  BY <1>1, <1>2, <1>4, <1>5 DEF RequestInv, StreamInv, Terminal
<1>7. ResultInv(r)'
  BY <1>1, <1>2 DEF RequestInv, ResultInv, cache
<1>. QED BY <1>3, <1>5, <1>6, <1>7 DEF RequestInv

\* What was taken is delivered; a terminal event is the last.
LEMMA YieldStep ==
  ASSUME IInv, NEW r \in Request, Yield(r)
  PROVE  TypeOK' /\ BacklogInv' /\ RequestInv(r)'
<1>1. /\ TypeOK /\ RequestInv(r) /\ BacklogInv /\ gen[r] = "yielding"
      /\ UNCHANGED <<out, queue, task, worker, ready, cache>>
      /\ gen' = [gen EXCEPT ![r] = IF out[r].type \in Terminal THEN "closing" ELSE "waiting"]
      /\ delivered' = IF out[r].type = "keepalive" THEN delivered
                      ELSE [delivered EXCEPT ![r] = Append(@, out[r])]
  BY DEF IInv, Yield, GenAt
<1>2. out[r] \in Event \/ out[r].type = "keepalive"
  BY <1>1, Facts, EventFields
<1>3. WorkInv(r)' /\ PutSoFar(r)' = PutSoFar(r)
  BY <1>1, WorkStays DEF RequestInv, WorkInv
<1>4. task[r] # "none" /\ delivered[r] \in Seq(Event) /\ Len(delivered[r]) \in Nat
  BY <1>1, Facts DEF RequestInv, StreamInv
<1>5. CASE out[r].type = "keepalive"
  <2>1. gen'[r] = "waiting" /\ delivered' = delivered
    BY <1>1, <1>5 DEF TypeOK, Terminal
  <2>2. TypeOK' /\ BacklogInv'
    BY <1>1, <2>1, <1>5 DEF TypeOK, BacklogInv, worker, cache, Terminal
  <2>3. /\ Listening(r) /\ Listening(r)' /\ Taken(r) = Len(delivered[r])
        /\ Taken(r)' = Len(delivered[r])
    BY <1>1, <1>5, <2>1 DEF Listening, Taken, Terminal
  <2>4. StreamInv(r)'
    BY <1>1, <1>3, <1>4, <2>1, <2>3 DEF RequestInv, StreamInv
  <2>5. ResultInv(r)'
    BY <1>1, <2>1 DEF RequestInv, ResultInv, cache
  <2>. QED BY <1>3, <2>2, <2>4, <2>5 DEF RequestInv
<1>6. CASE out[r].type # "keepalive"
  <2>1. out[r] \in Event /\ delivered' = [delivered EXCEPT ![r] = Append(delivered[r], out[r])]
    BY <1>1, <1>2, <1>6
  <2>2. /\ Append(delivered[r], out[r]) \in Seq(Event)
        /\ Len(Append(delivered[r], out[r])) = Len(delivered[r]) + 1
        /\ \A k \in 1..Len(delivered[r]) : Append(delivered[r], out[r])[k] = delivered[r][k]
        /\ Append(delivered[r], out[r])[Len(delivered[r]) + 1] = out[r]
    BY <1>4, <2>1, AppendKeeps
  <2>3. delivered'[r] = Append(delivered[r], out[r]) /\ delivered' \in [Request -> Seq(Event)]
    BY <1>1, <2>1, <2>2 DEF TypeOK
  <2>4. TypeOK' /\ BacklogInv'
    BY <1>1, <2>3 DEF TypeOK, BacklogInv, worker, cache
  <2>5. ResultInv(r)'
    <3>1. ASSUME out[r].type # "result",
                 \A k \in 1..Len(delivered[r]) : delivered[r][k].type # "result",
                 NEW k \in 1..Len(delivered'[r])
          PROVE  delivered'[r][k].type # "result"
      <4>1. CASE k = Len(delivered[r]) + 1
        BY <2>2, <2>3, <3>1, <4>1
      <4>2. CASE k # Len(delivered[r]) + 1
        <5>1. k \in 1..Len(delivered[r])
          BY <1>4, <2>2, <2>3, <4>2
        <5>. QED BY <2>2, <2>3, <3>1, <5>1
      <4>. QED BY <4>1, <4>2
    <3>. QED BY <1>1, <3>1 DEF RequestInv, ResultInv, cache
  <2>6. CASE out[r].type \in Terminal
    <3>1. gen'[r] = "closing"
      BY <1>1, <2>6 DEF TypeOK
    <3>2. StreamInv(r)'
      BY <1>1, <1>4, <3>1 DEF StreamInv, Listening
    <3>. QED BY <1>3, <2>4, <2>5, <3>2 DEF RequestInv
  <2>7. CASE out[r].type \notin Terminal
    <3>1. gen'[r] = "waiting"
      BY <1>1, <2>7 DEF TypeOK
    <3>2. out[r].type = "progress"
      BY <2>1, <2>7 DEF Event, Message, Terminal
    <3>3. /\ Listening(r) /\ Taken(r) = Len(delivered[r]) + 1
          /\ Taken(r)' = Len(delivered'[r])
      BY <1>1, <2>7, <3>1, <3>2 DEF Listening, Taken
    <3>4. Taken(r)' = Taken(r)
      BY <2>2, <2>3, <3>3
    <3>5. ASSUME NEW k \in 1..Len(delivered'[r]) PROVE delivered'[r][k].type = "progress"
      <4>1. CASE k = Len(delivered[r]) + 1
        BY <2>2, <2>3, <3>2, <4>1
      <4>2. CASE k # Len(delivered[r]) + 1
        <5>1. k \in 1..Len(delivered[r])
          BY <1>4, <2>2, <2>3, <4>2
        <5>. QED BY <1>1, <2>2, <2>3, <5>1 DEF RequestInv, StreamInv
      <4>. QED BY <4>1, <4>2
    <3>6. StreamInv(r)'
      BY <1>1, <1>3, <1>4, <3>1, <3>3, <3>4, <3>5 DEF RequestInv, StreamInv
    <3>. QED BY <1>3, <2>4, <2>5, <3>6 DEF RequestInv
  <2>. QED BY <2>6, <2>7
<1>. QED BY <1>5, <1>6

\* A generator that ends, or is cancelled, delivers nothing more.
LEMMA EndStep ==
  ASSUME IInv, NEW r \in Request, Close(r) \/ Disconnect(r)
  PROVE  TypeOK' /\ BacklogInv' /\ RequestInv(r)'
<1>1. /\ TypeOK /\ RequestInv(r) /\ BacklogInv /\ gen[r] # "none"
      /\ UNCHANGED <<out, delivered, queue, task, worker, ready, cache>>
      /\ gen' = [gen EXCEPT ![r] = "done"] \/ gen' = [gen EXCEPT ![r] = "gone"]
  BY DEF IInv, Close, Disconnect, GenAt
<1>2. gen'[r] \in {"done", "gone"}
  BY <1>1 DEF TypeOK
<1>3. TypeOK' /\ BacklogInv'
  BY <1>1 DEF TypeOK, BacklogInv, worker, cache
<1>4. WorkInv(r)'
  BY <1>1, WorkStays DEF RequestInv, WorkInv
<1>5. StreamInv(r)' /\ ResultInv(r)'
  BY <1>1, <1>2 DEF RequestInv, StreamInv, ResultInv, Listening, cache
<1>. QED BY <1>3, <1>4, <1>5 DEF RequestInv

------------------------------------------------------------------------------
(* The invariant of the endpoint *)

\* Every step of every request keeps the invariant.
LEMMA Invariance == IInv /\ [Next]_vars => IInv'
<1> SUFFICES ASSUME IInv, [Next]_vars PROVE IInv'
  OBVIOUS
<1>1. ASSUME NEW r \in Request, Connect(r) \/ Work(r) \/ Serve(r) \/ Disconnect(r)
      PROVE  IInv'
  <2>1. ASSUME Connect(r) PROVE TypeOK' /\ BacklogInv' /\ RequestInv(r)'
    BY <2>1, ConnectStep
  <2>2. ASSUME Work(r) PROVE TypeOK' /\ BacklogInv' /\ RequestInv(r)'
    BY <2>2, SnapshotStep, CallbacksStep, CacheResultStep, ThreadStartStep, IterateStep,
       ThreadEndStep DEF Work
  <2>3. ASSUME Serve(r) \/ Disconnect(r) PROVE TypeOK' /\ BacklogInv' /\ RequestInv(r)'
    BY <2>3, ReceiveStep, TimeoutStep, YieldStep, EndStep DEF Serve
  <2>4. TypeOK' /\ BacklogInv' /\ RequestInv(r)'
    BY <1>1, <2>1, <2>2, <2>3
  <2>5. \A u \in Request \ {r} : RequestInv(u)'
    BY <1>1, OtherRequests
  <2>6. \A u \in Request : RequestInv(u)'
    BY <2>4, <2>5
  <2>. QED BY <2>4, <2>6 DEF IInv
<1>2. ASSUME UNCHANGED vars PROVE IInv'
  <2>1. TypeOK' /\ BacklogInv' /\ Waiting' = Waiting
    BY <1>2 DEF IInv, vars, TypeOK, BacklogInv, Waiting
  <2>2. ASSUME NEW r \in Request PROVE RequestInv(r)'
    <3>1. RequestInv(r)
      BY DEF IInv
    <3>. QED BY <1>2, <2>1, <3>1, Frame DEF vars
  <2>. QED BY <2>1, <2>2 DEF IInv
<1>. QED BY <1>1, <1>2 DEF Next

LEMMA AlwaysIInv == Spec => []IInv
BY InitIInv, Invariance, PTL DEF Spec

\* Every component is of its type, no more engines run than there are worker
\* threads, and none reports more blocks than it has (run-stream of
\* simulation.py and the loop's executor).
THEOREM TypeCorrect == Spec => []TypeOK
<1>1. IInv => TypeOK
  BY DEF IInv
<1>. QED BY <1>1, AlwaysIInv, PTL

\* A client that holds a result finds it in the cache, unless the write to
\* Redis failed: sim_task writes before it puts the event (simulation.py).
THEOREM ResultsAreCached == Spec => []DeliveredIsCached
<1>1. IInv => DeliveredIsCached
  <2> SUFFICES ASSUME IInv, NEW r \in Request, Results(r) # {}
               PROVE  r \in stored \cup cacheFailed
    BY DEF DeliveredIsCached
  <2>1. RequestInv(r) /\ delivered[r] \in Seq(Event)
    BY Facts DEF IInv
  <2>2. PICK k \in DOMAIN delivered[r] : delivered[r][k].type = "result"
    BY DEF Results
  <2>3. k \in 1..Len(delivered[r])
    BY <2>1
  <2>. QED BY <2>1, <2>2, <2>3 DEF RequestInv, ResultInv
<1>. QED BY <1>1, AlwaysIInv, PTL

------------------------------------------------------------------------------
(* The endpoint implements the stream it promises *)

\* What the generator yields is the next event of the abstract stream, and a
\* keep-alive is none.
LEMMA YieldEmits ==
  ASSUME IInv, NEW r \in Request, Yield(r)
  PROVE  [Stream!StreamNext]_delivered
<1>1. /\ gen[r] = "yielding" /\ TypeOK /\ StreamInv(r)
      /\ delivered' = IF out[r].type = "keepalive" THEN delivered
                      ELSE [delivered EXCEPT ![r] = Append(@, out[r])]
  BY DEF IInv, Yield, RequestInv
<1>2. CASE out[r].type = "keepalive"
  BY <1>1, <1>2
<1>3. CASE out[r].type # "keepalive"
  <2>1. out[r] \in Event /\ delivered[r] \in Seq(Event) /\ out[r] \notin {Of("keepalive")}
    BY <1>1, <1>3, Facts, EventFields
  <2>2. \A k \in 1..Len(delivered[r]) : delivered[r][k].type = "progress"
    BY <1>1 DEF StreamInv
  <2>3. ~Stream!Ended(r)
    <3>1. DOMAIN delivered[r] = 1..Len(delivered[r])
      BY <2>1
    <3>. QED BY <2>2, <3>1 DEF Stream!Ended, Stream!Terminal
  <2>4. out[r] = [type |-> out[r].type, n |-> out[r].n]
    BY <2>1 DEF Event, Message
  <2>5. Stream!Emit(r, out[r].type, out[r].n)
    BY <1>1, <1>3, <2>3, <2>4 DEF Stream!Emit
  <2>6. CASE out[r].type = "progress"
    <3>1. Len(delivered[r]) < Blocks[r] /\ out[r] = ProgressOf(Len(delivered[r]) + 1)
      BY <1>1, <2>6 DEF StreamInv
    <3>2. out[r].n = Len(delivered[r]) + 1
      BY <3>1, EventFields
    <3>3. Stream!EmitProgress(r)
      BY <2>5, <2>6, <3>1, <3>2 DEF Stream!EmitProgress
    <3>. QED BY <3>3 DEF Stream!StreamNext
  <2>7. CASE out[r].type = "result"
    <3>1. Len(delivered[r]) = Blocks[r] /\ out[r].n = 0
      BY <1>1, <2>7 DEF StreamInv, Terminal
    <3>2. Stream!EmitResult(r)
      BY <2>5, <2>7, <3>1 DEF Stream!EmitResult
    <3>. QED BY <3>2 DEF Stream!StreamNext
  <2>8. CASE out[r].type = "error"
    <3>1. out[r].n = 0
      BY <1>1, <2>8 DEF StreamInv, Terminal
    <3>2. Stream!EmitError(r)
      BY <2>5, <2>8, <3>1 DEF Stream!EmitError
    <3>. QED BY <3>2 DEF Stream!StreamNext
  <2>. QED BY <2>1, <2>6, <2>7, <2>8 DEF Event, Message
<1>. QED BY <1>2, <1>3

\* Only the generator delivers: every other step is a stutter of the stream.
LEMMA StepEmits ==
  IInv /\ [Next]_vars => [Stream!StreamNext]_delivered
<1> SUFFICES ASSUME IInv, [Next]_vars PROVE [Stream!StreamNext]_delivered
  OBVIOUS
<1>1. ASSUME NEW r \in Request, Connect(r) \/ Work(r) \/ Disconnect(r) PROVE delivered' = delivered
  BY <1>1 DEF Connect, Disconnect, Work, Snapshot, Callbacks, CacheResult, ThreadStart, Iterate,
     ThreadEnd, generator
<1>2. ASSUME NEW r \in Request, Serve(r) PROVE [Stream!StreamNext]_delivered
  <2>1. CASE Yield(r)
    BY <2>1, YieldEmits
  <2>2. CASE Receive(r) \/ Timeout(r) \/ Close(r)
    BY <2>2 DEF Receive, Timeout, Close
  <2>. QED BY <1>2, <2>1, <2>2 DEF Serve
<1>3. ASSUME UNCHANGED vars PROVE delivered' = delivered
  BY <1>3 DEF vars
<1>. QED BY <1>1, <1>2, <1>3 DEF Next

\* The endpoint implements EventStream: whatever the thread, the loop, timeouts
\* and clients that leave interleave, a client receives the progress events in
\* order and without a gap, and then at most one terminal event, a result only
\* after the last progress (event_stream and sim_task of simulation.py).
THEOREM Refinement == Spec => ImplementsStream
<1>1. Init => Stream!StreamInit
  BY DEF Init, Stream!StreamInit
<1>. QED BY <1>1, StepEmits, AlwaysIInv, PTL DEF Spec, ImplementsStream, Stream!StreamSpec

\* The events a client has: numbered progress without a gap, anything else last,
\* and a result after the last progress event of a complete run.
Complete(r) ==
  \A k \in 1..Len(delivered[r]) :
    LET event == delivered[r][k] IN
    /\ event.type \in {"progress", "result", "error"}
    /\ event.type = "progress" => event.n = k /\ k <= Blocks[r]
    /\ event.type # "progress" => k = Len(delivered[r])
    /\ event.type = "result" => k = Blocks[r] + 1

\* EventStream alone promises that, with each client's events a sequence.
LEMMA StreamPromises ==
  Stream!StreamSpec => [](\A r \in Request : Complete(r))
<1> DEFINE Sent == [type : {"progress", "result", "error"}, n : Nat]
<1> DEFINE Typed == delivered \in [Request -> Seq(Sent)]
<1> DEFINE Inv == Typed /\ \A r \in Request : Complete(r)
<1>1. Stream!StreamInit => Inv
  BY DEF Stream!StreamInit, Complete
<1>2. Inv /\ [Stream!StreamNext]_delivered => Inv'
  <2> SUFFICES ASSUME Inv, [Stream!StreamNext]_delivered PROVE Inv'
    OBVIOUS
  <2>1. CASE UNCHANGED delivered
    BY <2>1 DEF Complete
  <2>2. ASSUME NEW r \in Request, NEW type \in {"progress", "result", "error"}, NEW n \in Nat,
               Stream!Emit(r, type, n),
               type = "progress" => n = Len(delivered[r]) + 1 /\ Len(delivered[r]) < Blocks[r],
               type = "result" => Len(delivered[r]) = Blocks[r]
        PROVE  Inv'
    <3> DEFINE event == [type |-> type, n |-> n]
    <3>1. /\ delivered' = [delivered EXCEPT ![r] = Append(@, event)]
          /\ ~Stream!Ended(r) /\ event \in Sent /\ event.type = type /\ event.n = n
      BY <2>2 DEF Stream!Emit
    <3>2. delivered[r] \in Seq(Sent) /\ Len(delivered[r]) \in Nat /\ Blocks[r] \in Nat
      BY ConstantsAssumption
    <3>3. \A k \in 1..Len(delivered[r]) : delivered[r][k].type = "progress"
      <4>1. \A k \in 1..Len(delivered[r]) : delivered[r][k].type \notin {"result", "error"}
        BY <3>1, <3>2 DEF Stream!Ended, Stream!Terminal
      <4>. QED BY <4>1 DEF Complete
    <3> HIDE DEF event
    <3>4. /\ Append(delivered[r], event) \in Seq(Sent)
          /\ Len(Append(delivered[r], event)) = Len(delivered[r]) + 1
          /\ \A k \in 1..Len(delivered[r]) : Append(delivered[r], event)[k] = delivered[r][k]
          /\ Append(delivered[r], event)[Len(delivered[r]) + 1] = event
      BY <3>1, <3>2, AppendKeeps
    <3> HIDE DEF Sent
    <3>5. delivered'[r] = Append(delivered[r], event) /\ Typed'
      BY <3>1, <3>4
    <3>6. Complete(r)'
      <4> SUFFICES ASSUME NEW k \in 1..Len(delivered'[r])
                   PROVE  LET e == delivered'[r][k] IN
                          /\ e.type \in {"progress", "result", "error"}
                          /\ e.type = "progress" => e.n = k /\ k <= Blocks[r]
                          /\ e.type # "progress" => k = Len(delivered'[r])
                          /\ e.type = "result" => k = Blocks[r] + 1
        BY DEF Complete
      <4>1. CASE k \in 1..Len(delivered[r])
        BY <3>3, <3>4, <3>5, <4>1 DEF Complete
      <4>2. CASE k = Len(delivered[r]) + 1
        BY <2>2, <3>1, <3>2, <3>4, <3>5, <4>2
      <4>3. k \in 1..(Len(delivered[r]) + 1)
        BY <3>4, <3>5
      <4>. QED BY <3>2, <4>1, <4>2, <4>3
    <3>7. ASSUME NEW q \in Request, q # r PROVE Complete(q)'
      <4>1. delivered'[q] = delivered[q]
        BY <3>1, <3>7
      <4>. QED BY <4>1 DEF Complete
    <3>. QED BY <3>5, <3>6, <3>7
  <2>3. ASSUME NEW r \in Request, Stream!EmitProgress(r) PROVE Inv'
    <3>1. Len(delivered[r]) + 1 \in Nat
      BY ConstantsAssumption
    <3>. QED BY <2>2, <2>3, <3>1 DEF Stream!EmitProgress
  <2>4. ASSUME NEW r \in Request, Stream!EmitResult(r) PROVE Inv'
    BY <2>2, <2>4 DEF Stream!EmitResult
  <2>5. ASSUME NEW r \in Request, Stream!EmitError(r) PROVE Inv'
    BY <2>2, <2>5 DEF Stream!EmitError
  <2> HIDE DEF Inv
  <2>. QED BY <2>1, <2>3, <2>4, <2>5 DEF Stream!StreamNext
<1>3. Inv => \A r \in Request : Complete(r)
  OBVIOUS
<1>. QED BY <1>1, <1>2, <1>3, PTL DEF Stream!StreamSpec

\* So does the endpoint, which implements it: no client sees a gap, an event after
\* the end or a result before the last progress (event_stream of simulation.py).
THEOREM ClientsGetStreams == Spec => [](\A r \in Request : Complete(r))
BY Refinement, StreamPromises, PTL DEF ImplementsStream
==============================================================================
