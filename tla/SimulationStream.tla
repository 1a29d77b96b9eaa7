--------------------------- MODULE SimulationStream ---------------------------
(***************************************************************************)
(* POST /simulation/run-stream in one API process: the generator that sends *)
(* server-sent events, the sim_task it starts, the worker thread the engine *)
(* runs in, and the Redis cache of results.                                *)
(*                                                                         *)
(* The thread runs beside the event loop. What it hands to the loop        *)
(* (call_soon_threadsafe for each progress report, and the completion of   *)
(* asyncio.to_thread) is called back in the order it was handed over.      *)
(* A progress event is its number, 1 for the first 100 iterations; the     *)
(* metrics a run computes are left out, and so is the synchronous endpoint, *)
(* which is the same run without a queue.                                  *)
(***************************************************************************)
EXTENDS Naturals, Sequences, FiniteSets

CONSTANTS
  Request,    \* the stream requests made to this process
  Blocks,     \* [Request -> Nat]: n_iterations \div 100
  PoolSize    \* worker threads of the loop's default executor

ASSUME ConstantsAssumption ==
  /\ IsFiniteSet(Request)
  /\ Blocks \in [Request -> Nat]
  /\ PoolSize \in Nat \ {0}

VARIABLES
  gen,          \* gen[r]: where the generator event_stream stands
  out,          \* out[r]: what it is yielding
  queue,        \* queue[r]: the asyncio.Queue between sim_task and generator
  task,         \* task[r]: where sim_task stands
  backlog,      \* runs waiting for a worker thread, in order
  thread,       \* thread[r]: is r's engine running in a worker thread
  iterated,     \* iterated[r]: blocks of 100 iterations it has done
  ready,        \* ready[r]: callbacks handed to the event loop, oldest first
  stored,       \* requests whose result was written to Redis
  cacheFailed,  \* history: requests whose write to Redis failed
  delivered     \* delivered[r]: events the client has received

vars == <<gen, out, queue, task, backlog, thread, iterated, ready, stored,
          cacheFailed, delivered>>
generator == <<gen, out, delivered>>
worker == <<backlog, thread, iterated>>
cache == <<stored, cacheFailed>>

\* Events and callbacks have a type and, for progress, a number.
Message(types) == [type : types, n : Nat]
Of(type) == [type |-> type, n |-> 0]
ProgressOf(n) == [type |-> "progress", n |-> n]

Terminal == {"result", "error"}
Event == Message({"progress", "result", "error"})
Callback == Message({"progress", "returned", "raised"})

TypeOK ==
  /\ gen \in [Request -> {"none", "waiting", "yielding", "closing", "done", "gone"}]
  /\ out \in [Request -> Event \cup {Of("keepalive")}]
  /\ queue \in [Request -> Seq(Event)] /\ delivered \in [Request -> Seq(Event)]
  /\ task \in [Request -> {"none", "snapshot", "thread", "caching", "done"}]
  /\ backlog \in Seq(Request)
  /\ thread \in [Request -> BOOLEAN]
  /\ Cardinality({r \in Request : thread[r]}) <= PoolSize
  /\ iterated \in [Request -> Nat] /\ \A r \in Request : iterated[r] <= Blocks[r]
  /\ ready \in [Request -> Seq(Callback)]
  /\ stored \subseteq Request /\ cacheFailed \subseteq Request

Init ==
  /\ gen = [r \in Request |-> "none"]
  /\ out = [r \in Request |-> Of("keepalive")]
  /\ queue = [r \in Request |-> <<>>]
  /\ task = [r \in Request |-> "none"]
  /\ backlog = <<>>
  /\ thread = [r \in Request |-> FALSE]
  /\ iterated = [r \in Request |-> 0]
  /\ ready = [r \in Request |-> <<>>]
  /\ stored = {}
  /\ cacheFailed = {}
  /\ delivered = [r \in Request |-> <<>>]

------------------------------------------------------------------------------
(* sim_task *)

Put(r, e) == queue' = [queue EXCEPT ![r] = Append(@, e)]

TaskAt(r, label) == task' = [task EXCEPT ![r] = label]

Finish(r, type) == Put(r, Of(type)) /\ TaskAt(r, "done")

\* Variant: the exception is logged and no event is put.
FailSilently(r) == TaskAt(r, "done") /\ UNCHANGED queue

\* except Exception: an error event, and the task ends normally.
Fail(r) == Finish(r, "error")

\* The team graph is read, and the engine waits for a thread.
Snapshot(r) ==
  /\ task[r] = "snapshot"
  /\ \/ /\ TaskAt(r, "thread")
        /\ backlog' = Append(backlog, r)
        /\ UNCHANGED queue
     \/ Fail(r) /\ UNCHANGED backlog
  /\ UNCHANGED <<generator, thread, iterated, ready, cache>>

\* Variant: the result is put before the cache is written.
OutcomeBeforeCache(r) == Finish(r, "result")

\* The next await of sim_task once the engine has returned.
OnReturn(r) == TaskAt(r, "caching") /\ UNCHANGED queue

\* The loop calls back: a progress event, or sim_task goes on.
Callbacks(r) ==
  /\ ready[r] # <<>>
  /\ ready' = [ready EXCEPT ![r] = Tail(@)]
  /\ LET c == Head(ready[r]) IN
       \/ c.type = "returned" /\ OnReturn(r)
       \/ c.type = "raised" /\ Fail(r)
       \/ c.type = "progress" /\ Put(r, c) /\ UNCHANGED task
  /\ UNCHANGED <<generator, worker, cache>>

\* _cache_result: without Redis, or when the write fails (before or after it
\* took effect), the run goes on; only closing the client can raise.
CacheResult(r) ==
  /\ task[r] = "caching"
  /\ \/ /\ stored' = stored \cup {r}
        /\ UNCHANGED cacheFailed
     \/ /\ cacheFailed' = cacheFailed \cup {r}
        /\ stored' \in {stored, stored \cup {r}}
  /\ Finish(r, "result") \/ Fail(r)
  /\ UNCHANGED <<generator, worker, ready>>

------------------------------------------------------------------------------
(* The worker thread: SimulationEngine.run *)

\* Variant: a callback jumps the queue of the loop.
HandedFirst(q, c) == <<c>> \o q

\* call_soon_threadsafe
HandedOver(q, c) == Append(q, c)

Hand(r, c) == ready' = [ready EXCEPT ![r] = HandedOver(@, c)]

\* Variant: a thread for every run.
AlwaysFree == TRUE

ThreadFree == Cardinality({r \in Request : thread[r]}) < PoolSize

ThreadStart(r) ==
  /\ backlog # <<>> /\ Head(backlog) = r
  /\ ThreadFree
  /\ backlog' = Tail(backlog)
  /\ thread' = [thread EXCEPT ![r] = TRUE]
  /\ UNCHANGED <<generator, queue, task, iterated, ready, cache>>

\* 100 iterations, and the progress callback.
Iterate(r) ==
  /\ thread[r]
  /\ iterated[r] < Blocks[r]
  /\ iterated' = [iterated EXCEPT ![r] = @ + 1]
  /\ Hand(r, ProgressOf(iterated'[r]))
  /\ UNCHANGED <<generator, queue, task, backlog, thread, cache>>

\* run() returns after the last iteration, or raises at any point.
ThreadEnd(r) ==
  /\ thread[r]
  /\ \/ iterated[r] = Blocks[r] /\ Hand(r, Of("returned"))
     \/ Hand(r, Of("raised"))
  /\ thread' = [thread EXCEPT ![r] = FALSE]
  /\ UNCHANGED <<generator, queue, task, backlog, iterated, cache>>

------------------------------------------------------------------------------
(* event_stream and its client *)

GenAt(r, label) == gen' = [gen EXCEPT ![r] = label]

\* The client connects; the generator creates sim_task and waits.
Connect(r) ==
  /\ gen[r] = "none"
  /\ GenAt(r, "waiting")
  /\ TaskAt(r, "snapshot")
  /\ UNCHANGED <<out, delivered, queue, worker, ready, cache>>

Receive(r) ==
  /\ gen[r] = "waiting"
  /\ queue[r] # <<>>
  /\ out' = [out EXCEPT ![r] = Head(queue[r])]
  /\ queue' = [queue EXCEPT ![r] = Tail(@)]
  /\ GenAt(r, "yielding")
  /\ UNCHANGED <<delivered, task, worker, ready, cache>>

\* wait_for times out and cancels get(): on an empty queue, or when an event
\* has just arrived that the cancelled get() leaves there.
Timeout(r) ==
  /\ gen[r] = "waiting"
  /\ out' = [out EXCEPT ![r] = Of("keepalive")]
  /\ GenAt(r, "yielding")
  /\ UNCHANGED <<delivered, queue, task, worker, ready, cache>>

\* The client takes what was yielded; after a terminal event the loop ends.
Yield(r) ==
  /\ gen[r] = "yielding"
  /\ delivered' = IF out[r].type = "keepalive" THEN delivered
                  ELSE [delivered EXCEPT ![r] = Append(@, out[r])]
  /\ GenAt(r, IF out[r].type \in Terminal THEN "closing" ELSE "waiting")
  /\ UNCHANGED <<out, queue, task, worker, ready, cache>>

\* await sim_task
Close(r) ==
  /\ gen[r] = "closing"
  /\ task[r] = "done"
  /\ GenAt(r, "done")
  /\ UNCHANGED <<out, delivered, queue, task, worker, ready, cache>>

\* The client goes away: the generator is cancelled where it stands, and
\* sim_task and its thread run on.
Disconnect(r) ==
  /\ gen[r] \in {"waiting", "yielding", "closing"}
  /\ GenAt(r, "gone")
  /\ UNCHANGED <<out, delivered, queue, task, worker, ready, cache>>

Work(r) ==
  \/ Snapshot(r)
  \/ Callbacks(r)
  \/ CacheResult(r)
  \/ ThreadStart(r)
  \/ Iterate(r)
  \/ ThreadEnd(r)

Serve(r) ==
  \/ Receive(r)
  \/ Timeout(r)
  \/ Yield(r)
  \/ Close(r)

Next == \E r \in Request : Connect(r) \/ Work(r) \/ Serve(r) \/ Disconnect(r)

\* The loop runs what is ready and the pool schedules every thread: each of
\* a request's two sides goes on while it can. Clients owe nothing but to
\* read what was sent, or to go away. A get() on a queue that already holds an
\* event returns without waiting: timeouts cannot keep winning (SF).
Fairness ==
  \A r \in Request :
    /\ WF_vars(Snapshot(r)) /\ WF_vars(Callbacks(r)) /\ WF_vars(CacheResult(r))
    /\ WF_vars(ThreadStart(r)) /\ WF_vars(Iterate(r) \/ ThreadEnd(r))
    /\ SF_vars(Receive(r)) /\ WF_vars(Yield(r)) /\ WF_vars(Close(r))

Spec == Init /\ [][Next]_vars /\ Fairness

------------------------------------------------------------------------------
(* Properties *)

Stream == INSTANCE EventStream WITH sent <- delivered

\* Whatever the thread and the loop interleave, a client receives the
\* progress events in order and without a gap, then one terminal event.
ImplementsStream == Stream!StreamSpec

Results(r) == {k \in DOMAIN delivered[r] : delivered[r][k].type = "result"}

\* A client that holds a result can fetch and share it at once, unless the
\* write to Redis failed: the cache is written before the event is queued.
DeliveredIsCached ==
  \A r \in Request : Results(r) # {} => r \in stored \cup cacheFailed

\* Every client that stays is answered, and a run whose client has left ends
\* and gives its thread back, with fewer threads than runs.
EveryRunEnds ==
  \A r \in Request :
    /\ gen[r] = "waiting" ~> gen[r] \in {"done", "gone"}
    /\ task[r] = "snapshot" ~> (task[r] = "done" /\ ~thread[r])
==============================================================================
