# Verification of the Socio-Technical Alignment Simulator

STAS collects collaboration events (pull-request reviews, resolved Slack
threads, Jira blockers) into a Neo4j graph of engineers, and simulates what a
candidate would change in a team's graph. This directory holds TLA+
specifications of its stateful parts and of the exact part of its metrics, TLC
configurations that check them on small instances, and TLAPS proofs.

All paths below are relative to `src/`.

## 1. Inventory of the system

| Part | Code | State | Operations | What is hard | Status |
|---|---|---|---|---|---|
| Telemetry producers | `apps/api/routers/telemetry.py`, `pipelines/kafka/produce_events.py` | none of their own | validate a webhook, append an event to its topic | resends after a lost acknowledgement; webhook redelivery gets a new event id | partly |
| Telemetry consumers | `pipelines/kafka/consumers/*.py`, `consumer_main.py` | group offsets, dead-letter queues, `ProcessedEvent` nodes, edge weights, one task per topic | start, deliver, mark, upsert, commit, dead-letter, recommit, shut down | a crash between any two awaits, failing awaits with unknown effect, restart, three tasks in one process | **modelled** |
| Graph service | `apps/api/services/graph_service.py`, `routers/graph.py` | candidate nodes, one GDS projection per team | team graph, centrality, paths, insert/delete candidate | nodes and edges read in two transactions; concurrent requests share the projection; the DAG writes the same nodes | partly |
| Seeding and administration | `apps/api/services/seeder.py`, `routers/admin.py`, `apps/web/app/admin/page.tsx` | engineers, seeded edges, Redis keys, the page's busy flags | seed, clear graph, clear Redis, quick reset | one transaction per node and edge; weights overwritten beside running consumers; a reset is three calls whose flags are stale | partly |
| Simulation engine | `simulation/monte_carlo.py`, `metrics.py` | none | build, perturb, measure | normalisation in graphs that are in pieces | partly |
| Simulation service and stream | `apps/api/services/simulation_engine.py`, `routers/simulation.py` | event queue, result cache, shared reports | run, stream, fetch, share, read report | worker thread, timeout, disconnect, two expiry times | **modelled** |
| Profile extraction | `apps/api/services/nlp_agent.py`, `routers/candidates.py`, `pipelines/airflow/dags/candidate_profile_extraction.py` | profile cache, stored profiles, candidate index, semaphore | extract, list, get, the DAG's run | cache looked up before and under the semaphore; a cached profile keeps the identity of its first request; flushes | **modelled** |
| Airflow pipelines | `pipelines/airflow/dags/graph_rebuild.py`, `telemetry_health.py`, `operators/*.py` | snapshots in Neo4j | snapshot, prune, compare, measure lag and depth | several transactions per "atomic" snapshot, retries, overlapping runs | partly |
| Attrition and team risk | `apps/api/services/attrition_service.py`, `routers/analysis.py`, `apps/web/app/attrition/page.tsx`, `app/risk/page.tsx` | the pages' selections | analyse a departure, analyse a team | disconnected graphs, averages over different sets; answers that arrive out of order | partly |
| Simulator page | `apps/web/app/simulate/SimulatorWorkspace.tsx`, `lib/store/simulation.ts`, `lib/hooks/useSimulationStream.ts`, `components/simulator/CandidateSlot.tsx` | selector, graph store, two slots, open streams, history | select team, stage, drop, clear, reset, stream events | gestures, fetches and streams interleave; superseded streams | **modelled** |
| Graph store and team pages | `apps/web/lib/store/graph.ts`, `app/teams/[id]/*`, `components/graph/TeamGraph.tsx` | the graph and candidates drawn | open a page, load, draw, clear | the store and the requests outlive a page | partly |
| Authentication, rate limits | `apps/api/core/auth.py`, `rate_limit.py` | signing-key cache | fetch keys, verify | one cache for concurrent requests, emptied for an unknown key id | partly |
| Other pages, deployment | `apps/web/app/**`, `docker-compose.yml`, `k8s/` | - | - | restart policy | only the restart policy and the report's recommendation |

Interaction: producers append to Kafka topics; the consumers turn messages into
`ProcessedEvent` nodes and weighted edges; the seeder writes the same nodes and
edges; the graph service, Airflow and the analyses read them; the simulator page
asks the graph service for a team's graph and the simulation service for event
streams; extraction (API and DAG) and the simulations share Redis, which the
admin page flushes, and the candidate nodes.

Correctness, part by part. *Consumers*: no committed message without its effect;
bounded over-counting; dead-letter order; every message settled in the end.
*Graph service and seeding*: an edge of an answer names engineers of the answer;
an answered seed is complete; scores are complete although the projection is
shared; weights fall by an administrator only; a quick reset ends seeded.
*Candidates*: a temporary node leaves nothing behind and a permanent one stays.
*Extraction*: the page finds the profile it is sent to; a key costs no more calls
than permits; what is stored is listed. *Simulation*: one terminal event, last, of
a cached result; a shared token keeps reading; a skill shared within a candidate's reach
never lowers its rating; only a collaborator's departure is a loss.
*Airflow*: a shift is reported exactly when the snapshot shows one. *Pages*: what
is shown belongs to what is selected; a slot shows its own candidate's result;
clearing stops the stream; nothing stays "running". *Authentication*: a key that
the provider has had throughout a request is not called unknown.

`PROJECT.json` lists the hazards line by line with the properties that cover them.

## 2. Modules

| Module | Contents | Checked by |
|---|---|---|
| `EventLedger` | abstract: an at-least-once ledger; what the telemetry pipeline promises about a topic and its group | `tele` |
| `TelemetryConsumers`, `_proofs` | the consumer process, its brokers, its graph writes, its container | `tele`, `tele_*` |
| `TelemetryHealth` | the hourly check beside the consumers (extends `TelemetryConsumers`; proofs in `TelemetryConsumers_proofs`) | `health_lag` |
| `TeamGraph`, `_proofs` | one team's nodes, edges and projection; seed, clear, graph and centrality handlers; telemetry's upsert | `graph` |
| `AdminConsole` | the admin page as the caller of seed and clear (extends `TeamGraph`; proofs in `TeamGraph_proofs`) | `graph` |
| `RedisStore` | keys, expiry, failing accesses, the flush | `candidates` |
| `ProfileExtraction` | extraction, index, list, the DAG's extraction task (extends `RedisStore`) | `candidates` |
| `SharedReports` | cached results and share tokens (extends `RedisStore`) | `candidates` |
| `CandidateNodes`, `_proofs` | candidate nodes; composes the two above | `candidates` |
| `EventStream` | abstract: what the streaming endpoint promises one client | `stream` |
| `SimulationStream`, `_proofs` | the streaming endpoint, its task, its worker thread, the result cache | `stream` |
| `TeamMetrics` | closeness, silo risk, time to value, attrition and risk measures, as functions | `analysis` |
| `Simulation` | the engine's run over a live team, and the properties of the metrics | `analysis`, `engine_*` |
| `SeededRuns` | two runs of the engine with two seeds (extends `Simulation`) | `engine_*` |
| `GraphRebuild` | the nightly snapshot DAG | `analysis` |
| `WebClient`, `AttritionPage`, `RiskPage`, `GraphView` | the pages' selections and requests, the shared graph store | `analysis` |
| `JwksCache` | the signing-key cache and the requests that use it | `analysis` |
| `SimulatorSlots`, `_proofs` | the simulator page | `slots`, `slots_*` |
| `Pages_proofs`, `Analysis_proofs`, `Metrics_proofs` | proofs about the three pages; about `GraphRebuild`, `JwksCache` and the six scenes of `MCAnalysis` together; about `Simulation` with its metrics | |
| `MC*` | constants, symmetry and scenes for TLC | |

A definition introduced by a comment "Variant" is not part of a specification:
it is a plausible slip in the definition after it, with which a property of a run
fails.

### TelemetryConsumers

`log`, `committed` and `dlq` are the broker's: a partition per topic, the group's
offset, and the positions in `stas.dlq.<group>`. `processed` and `isNew` are the
`ProcessedEvent` nodes and their `is_new` property, `weight` the edges' `r.weight`.
`proc` is the container, `pc[t]` the await at which topic `t`'s task stands and
`position[t]` the iterator's position, both lost with the process. `wrote` is a
history variable (which messages' edge was written), `faults` and `deaths` count
failures and process ends.

| Code | Action |
|---|---|
| `send_and_wait` of a webhook handler; the client's resend | `Publish`, `ProducerRetry` |
| `BaseTelemetryConsumer.start` | `Start` |
| `async for message` + `deserialize` + the `resolved` test | `Deliver` (`Route`) |
| first transaction of `process` | `Mark` (`MergeProcessedEvent`, `ReturnedIsNew`) |
| second transaction of `process` | `Upsert` (`MergeEdge`) |
| `commit()` inside the `try` | `Commit` |
| `_route_to_dlq` and `commit()` in the `except` | `RouteToDlq`, `Recommit` |
| `main()` after `asyncio.wait`, signal handler | `Shutdown`, `Signal` |
| container killed, restarted by Docker, by an operator | `Kill`, `Boot`, `OperatorRestart` |

Every await is a step; an await that raises may or may not have taken effect.
The three `process` methods differ only in the edge type and in Slack's
`resolved` test, so one module models all three, with `Unresolved` empty for the
others. `CancelledError` is no `Exception`: a cancelled task routes and commits
nothing. The MERGE returns `is_new` as stored, and no statement resets it.

Not in the model: metrics and the best-effort lag gauge (no state), partitions
(each topic has one here; order is only promised per partition), rebalancing
(one process), an effect that arrives at the server after the process is gone, a
message with a null value, on which `_route_to_dlq` itself raises (`base.py:111`; no
producer sends one),
and the set of engineers changing (a constant here; `TeamGraph` lets seeding and
clearing change it under the upserts).

### SimulatorSlots

`slots[s]` is the store's slot (candidate, status, the stream progress and result
came from, the stream whose controller it holds); `staged`, `overlay`,
`selectedTeam`, `loading`, `snapshot` are the workspace's and graph store's
state; `loads` and `streams` are the requests started so far. JavaScript handlers
are atomic, so a handler is an action: `SelectTeam`/`LoadOk`/`LoadFail` (the
effect), `Stage`, `SlotDrop`, `CandidateDrop`, `Clear`, `Reset`, and the turns of
`useSimulationStream.run`'s reader:

| Code | Action |
|---|---|
| a progress event | `Progress` |
| a result or an error event | `Result`, `ErrorEvent` |
| a status that is not ok, no body, a `read()` that raises before that event | `Break` |
| a `read()` that raises after it | `BreakInTail` |
| `done` | `Close` |

The reader does not stop at a result or an error event: the stream is then in its
`tail` until the server closes it or the connection breaks. The store has dropped its
controller by then, so no gesture aborts a tail, and if it breaks, the `catch` puts
whatever the slot holds by then into error. An aborted
stream raises `AbortError` and writes nothing, so it takes no further step. A
drag is one step from picking a draggable card to its drop. Leaving the page and
coming back is `GraphView`'s; a stream that closes cleanly without a last event (the API
never does: `EventStream`) is not modelled, and would leave its slot running.

Two history variables say when the page's guarantees end: `overlapped[s]` (slot
`s` was restaged while one of its streams was open, or an earlier stream of it broke in its
tail while another was open, and no clear has closed them all since) and `missed` (a load failed, or two were pending at once). The safety
properties hold outside those cases and the code gives them up inside; the run
`slots_own_result` shows one way in.

### SimulationStream

`gen[r]` and `task[r]` are the awaits at which request `r`'s generator `event_stream`
and its `sim_task` stand, `queue[r]` the `asyncio.Queue` between them, `thread[r]` and
`iterated[r]` the engine in its worker thread, `backlog` the thread pool's queue, and
`ready[r]` the callbacks handed to the event loop. `stored` is Redis; `cacheFailed` and
`delivered` (what the client received) are histories.

| Code | Action |
|---|---|
| the request, `create_task` | `Connect` |
| `get_team_graph`, then `asyncio.to_thread` | `Snapshot`, `ThreadStart` |
| 100 iterations and `_on_progress` | `Iterate` |
| `_engine.run` returns or raises | `ThreadEnd` |
| the loop runs `put_nowait`, or resumes `sim_task` | `Callbacks` |
| `_get_redis`, `_cache_result`, then the result event | `CacheResult` |
| `except Exception` of `_run` | `Fail` |
| `wait_for(queue.get())`, its timeout | `Receive`, `Timeout` |
| `yield`, the `break`, `await sim_task` | `Yield`, `Close` |
| the client goes away | `Disconnect` |

A timeout may coincide with an event that has just been put; the cancelled `get()`
leaves it in the queue. The requests share only the thread pool, so the callbacks
of two requests are kept in two sequences. Not in the model: the values of a result,
a limit on the queue (it has none) and a server shutdown; `GET /results` and sharing
are in `SharedReports`.

### TeamGraph and AdminConsole

`engineers`, `weight` and `projection` are Neo4j's; `req[r]` is a request of the API,
the statement it stands at and what it has read. A handler is a series of
auto-commit transactions, so handlers interleave between statements. `during` is a
history: what others did to a request's work.

| Code | Definition |
|---|---|
| `seed_graph`: a MERGE per engineer, then one per edge | `SeedStatements`, `MergeEngineer`, `SetEdge` |
| `clear_graph`: two counts and a DETACH DELETE | `Following`, `DetachDelete` |
| `get_team_graph`, then 404 | `ReadOrder`, `AfterRead` |
| `get_centrality` through GDS: drop, project, closeness, betweenness, degree, drop | `Following`, `DropStale`, `Project`, `Refused` |
| a request arrives; its next statement runs, is refused, raises | `Begin`; `Statement`, `Refuse`, `Fault` |
| the second transaction of a consumer's `process` | `Upsert` |
| `run(key, fn)` of the admin page; its buttons | `Fetch`, `ClickSeed`, `ClickClear`, `Flush` |
| the quick reset: clear, flush, seed | `ClickReset`, `Flush`, `ResetSeed`, `AfterCall` |
| a fetch settles, or rejects while its handler goes on | `Answered`, `Flushed`, `Lost` |

A statement that raises ends its handler, having taken effect or not. There is one
team, whose seeded engineers and edges are the constants; the teams share nothing
but the clear. A quick reset tests no flag between its calls, so `ResetSeed` and the
`Flush` of a reset have no guard on `busy`. Not in the model: the scores' values, the
NetworkX branch for small teams (`Threshold` decides between them), the counts a
clear reports, and attributes of an engineer.

### RedisStore, ProfileExtraction, SharedReports, CandidateNodes

A Redis key is a pair of a prefix and a name; an entry holds a value and the time it
expires; time advances in days. The proportion of the real lifetimes (24 h to 7 d) is
scaled to 1 to 2. Every access can fail with or without effect, once in a run.

| Code | Action |
|---|---|
| `extract_profile`: cache, semaphore, cache, GitHub, Claude, cache | `Check`, `Acquire`, `Recheck`, `Context`, `Call`, `Cache` |
| `_persist_profile`: the profile, then the index | `Persist`, `AddToIndex` |
| `GET /candidates/` | `List`, `ReadMembers`, `ReadListed` |
| the DAG: its own process, without the semaphore; writes the node | `Trigger`, then the same steps and `RunStatement` at "write" |
| a result is cached, shared, read | `CacheResult`, `Share`, `Load`, `StoreReport` |
| insert a candidate (MERGE, then edges), delete a temporary one | `Insert`, `Delete`, `RunStatement` |
| `DELETE /admin/redis`: list the keys, delete those | `FlushKeys`, `FlushDelete` |

A profile is its key and the id it was made for: the cache answers with the id of the
request that filled it, and the model keeps that. `missed`, `owed`, `since`, `flushed`,
`faulted`, `unlisted`, `removed` and `written` are histories.

### TelemetryHealth

`TelemetryConsumers` with one run of the hourly DAG: `ReadEnd` and `ReadCommitted` (the
two clients of a topic's lag), `ReadDepth` (the dead-letter queue), `SendAlert`. The
group whose offset is read is a parameter: MCHealth gives it the name the code makes.

### TeamMetrics and Simulation

A fraction is the number of its parts of 1/`Unit`. `Unit` is a constant that the
denominators of every graph on the engineers and a candidate divide (`UnitAssumption`): 10080 in the run, and one
exists for every finite number of engineers, so no fraction is rounded (`FractionsAreExact`);
percentages are rounded to hundredths as in the code. `TeamMetrics` has the functions
of `metrics.py` and `attrition_service.py` with the NetworkX functions they call, written
out. `Simulation` runs `SimulationEngine.run` (`Begin`, `Iterate`) over a team whose
edges telemetry adds (`Collaborate`); `samples` are what `make_distribution` gets.
Betweenness, the topology change map and skill gaps are left out; a candidate's skills
are how many it shares with each engineer, a Poisson draw is any member of `Draw`.

### GraphRebuild

`run[r]` is a DAG run: the statement or task to come and whether this is the retry.
`Window` and `Count` are the two tasks whose result nobody uses; `FetchNodes`,
`FetchEdges`, `Prune`, `Create`, `Finish` are the statements of `take_snapshot`, `Check` is
`check_topology_change`; `Fail` ends an attempt after any of them. `Edit` is telemetry,
`Pass` the clock. Snapshots hold their number of edges, the only field compared.

### WebClient, AttritionPage, RiskPage, GraphView

A page's state is its React state, one variable each; an action is a handler or the
settling of a fetch; requests in flight are counted per team, so they settle in any
order. `GraphView` is a session: pages open one after the other, `Landed` is a load that
answers, into the store, whatever page is open by then. `astray`, `moved`,
`overtaken` and `late` are histories: each names the case in which the code shows what
is not selected, and outside them the property holds.

| Code | Action |
|---|---|
| attrition: effects, `setSelectedTeam`, `setSelectedEng`, `runAnalysis` | `Teams`, `PickTeam`, `Listed`, `PickEngineer`, `Analyse`, `Analysed` |
| risk: the teams, a tab, an answer | `Offer`, `ChooseTeam`, `Settle` |
| graph: `GraphLoader`, the simulator's mount, its selector, an answer | `OpenTeam`, `OpenSimulator`, `SelectOther`, `SettleLoad` |
| graph: a drop on the canvas, Escape and the clear button | `Drop`, `Clear` |

### JwksCache

`cache` is `_JWKS_CACHE`; `auth[b]` a request and the await it stands at. Python runs from
one await to the next undisturbed and the only await is the fetch, so `Authenticate` goes
up to a verdict or the first fetch, and `Fetched` from an answer to a verdict or the second
fetch. `published` is the provider's key set, changed by `Rotate`; `ProviderAnswers` is apart
from `Fetched`, so answers can be overtaken. The time an entry counts from is the
one read before the fetch (`since`).

## 3. Runs

| Run | Constants | Result |
|---|---|---|
| `tele` | 2 topics, 4 events, 2 faults, 1 kill or signal | `TypeOK`, `NoSilentLoss`, `WeightWithinReplays`, `DlqInOrder`, `CommitAdvancesByOne`, `ImplementsLedger`, `EverySettled` hold |
| `tele_counted_once` | 1 fault, 1 kill or signal | `CountedOnce` fails: an event counted twice |
| `tele_restart` | 1 fault | `RestartedOnFailure` fails: exit status 0 |
| `slots` | 2 slots, 2 teams, 2 candidates, 2 streams, 2 loads, history of 1 | `TypeOK`, `SlotOwnsItsStream`, `PageShowsOneTeam`, `HistoryIsFaithful`, `NothingHangs` hold |
| `slots_own_result` | 1 stream, 1 load | `SlotShowsOwnResult` fails: wrong candidate's result |
| `stream` | a request of 2 progress events and one of none, 1 worker thread | `TypeOK` (at most one thread), `DeliveredIsCached`, `ImplementsStream`, `EveryRunEnds` hold |
| `graph` | 2 engineers, 2 edges (one of them seeded), 3 requests, 2 quick resets (requests and resets symmetric), 1 raising statement or lost fetch, 1 telemetry event, threshold 0 | `ConsoleTypeOK`, `EdgesNameNodes`, `SeededInFull`, `ScoresAreComplete`, `RefusedOnlyByOthers`, `ResetEndsSeeded`, `OnlyAdminForgets` hold |
| `candidates` | 3 requests, 2 ids (both symmetric), 1 key, 1 result, 2 permits, limit 2, 2 days, 1 fault | `TypeOK`, `CallsPerKey`, `AnswerIsFound`, `StoredIsIndexed`, `ListIsComplete`, `TokenReadable`, `DeleteOnlyTemporary` hold |
| `health_lag` | 1 topic, 2 events, thresholds 1 | `LagIsOfConsumers` fails: an alert about consumers that are up to date |
| `analysis` | six scenes, below | `AnalysisTypeOK`, `SamplesAgree`, `OverlapWithinReach`, `RiskMeansTriangle`, `LossIsOfCollaborators`, `ShiftIsReported`, `ResultOfSelection`, `RiskIsSelected`, `GraphIsOfPage`, `VerdictsFollowRotation` hold |
| `engine_seeds` | up to 3 engineers, 2 links, draws of 0 and 2, 2 iterations | `SeedsMatter` fails: other weights, the same mean |
| `engine_interval` | the same | `ClosenessInUnitInterval` fails: a pair is rated 2 |

A behaviour of `analysis` is of one scene; the scenes share no state. *Engine*: every
graph of up to 4 engineers over 7 links, runs on those of up to 3 with every sharing of
skills, 2 iterations, draws of 0 and 2. *Rebuild*: 2 runs (symmetric), 0, 6 or 7 edges (a change of
one of 6 is above 15%, of one of 7 below), snapshots kept for 2 of 4 ticks, 1
failed attempt. *Attrition*: 2 teams of 2 engineers, 2 lists in flight for each. *Risk*: 2
analyses in flight for each of 2 teams. *View*: 4 pages, 2 slots. *Keys*: 2 requests, used
again and again, 2 keys, a lifetime of 2 ticks within a clock of 2, 2 rotations.

Why the bounds suffice. The telemetry events are one of each kind the code tells
apart (ordinary, undecodable, unresolved, unknown engineer); two messages per
topic let a later message overtake nothing it should not; two faults let the
dead-letter send or the recommit fail after the commit did; one process end
allows a replay, and a failed consumer gives further ends. On the simulator page,
two streams are one that was superseded, or is in its tail, and the one it harms; two
loads are enough for one to overtake the other, two results for one to push the other out
of a history of one. The liveness properties are checked in the same runs, so slots and
topics are not symmetric. For the stream, two progress events can be
swapped, duplicated or lost, and one thread for two requests makes one run wait behind
the other, also when the first one's client has left.

In `graph` three requests are a seed, a clear and a reader, or two centrality requests and
what disturbs them, or the two calls of one reset and one of another; an edge needs two engineers
and the second edge is telemetry's own. In `candidates` three requests and two permits are one more
than the semaphore lets through, and two ids are what a cached identity needs; the
lifetimes keep the order of the real ones, and a fault combines with each step.
The properties of the metrics are meant for teams of any size, and a graph of three or four (a
ring, a star, two pairs) tells the formulas from their variants. What holds only of small
teams is not among them: see the seven and nine engineers of section 4. Two requests are enough for one answer to overtake another, four pages for
a load to land two pages later. Proofs remove the bounds for all but three of the
results that hold (section 5).

Deadlock checking is off: publishers, clients and users may stop, and the bounds are used up.

### Fairness

`tele` assumes weak fairness of each consumer task, of `main()` and of Docker's
restart of a crashed container: the event loop runs a task whose await is over.
Publishing, failures, kills and the operator are not fair, so `EverySettled`
excepts the container that stays stopped with status 0. `slots` assumes that
a fetch settles, that the server ends every stream with a result or an error and that it
then closes it (or the connection breaks):
`event_stream` leaves its loop only then, and `_run` turns every exception into
an error event. `stream` assumes that the event loop runs what is ready, that a free
worker thread takes the oldest run and works, and that a client reads what was sent;
disconnecting, connecting and failing are not fair. `Receive` is strongly fair: a `get()` on
a queue that already holds an event returns without waiting, so a timeout can win
against one event once but not for ever. `EveryRunEnds` is the assumption
`slots` makes of the server.

## 4. Disagreements between code and documentation

Each of these is a run that TLC refutes:

1. `CountedOnce`: `pr_review.py:5` promises "Repeat processing: no-op", but `is_new`
   is never reset, so a redelivered event counts again. `DuplicateBranchIsDead`
   proves that the duplicate branch can never be taken. The obvious repair is
   not one: with `is_new` true for the creating MERGE only, a crash between the
   two transactions loses the event (the mutant of `NoSilentLoss`).
2. `RestartedOnFailure`: `docker-compose.yml:218` says `restart: on-failure`, but
   `main()` returns normally when a consumer has failed.
3. `SlotShowsOwnResult`: `simulation.ts:7` says each slot tracks its own stream and
   result, but staging does not abort the open stream.
4. `LagIsOfConsumers`: `telemetry_health.py:105` checks "the production consumer
   group", but the name it builds is no consumer's, and the lag of a group that
   has committed nothing is the whole log.
5. `SeedsMatter`: `test_monte_carlo.py:101–107` asserts that different seeds give
   different closeness means, and `monte_carlo.py:11–12` has the drawn weights as
   the variance that is simulated. No metric of an iteration reads a weight, and a draw keeps
   every edge, so two runs with other weights in every iteration have the same
   samples; `DrawsDoNotMatter` proves it for all teams and draws. The run
   states the claim only of runs that did draw other weights.
6. `ClosenessInUnitInterval`: closeness is documented to be within 0 and 1, and 1 for a hub:
   `metrics.py:31–32`, `test_metrics.py:66,77,88`, `test_monte_carlo.py:128`,
   `closeness_centrality.tex:80,90–91` from the formula at `:67–73`, `README.md:285`. In the
   formula `n_r` counts the other nodes; `metrics.py:45` adds the node itself, so a hub
   is rated n/(n-1). `OverlapWithinReach` states the code's values, `OverlapHolds` proves them.

Met while modelling, and stated here without a run of their own:

- `graph_models.py:210` has the resilience within 0 and 1: a ring of four gives more,
  since every departure brings the others closer.
- From finding 6, a hub's time to value is below the two weeks of `metrics.py:128`; from finding 5,
  the confidence interval of every metric (`monte_carlo.py:8`) has no width;
  `topology_change_map` (`monte_carlo.py:105`) is always zero.
- A connection that breaks after the result turns the displayed result into an error, or the
  candidate staged since; if a newer simulation runs in the slot, it says "error" beside it and
  clearing no longer stops it (`useSimulationStream.ts:111–114`).
- More collaboration is not always rated higher. Of nine engineers, four alone and five in a
  line, a candidate who shares a skill with those four is rated 0.556, and 0.526 if it shares
  one with an end of the line too. Of seven, a clique of four and a line of three at one of
  its corners, a leaver in the middle of the line splits the team, and both analyses report a
  gain (the others' average rises from 0.517 to 0.530) where `graph_fragmented` is set.
- `metrics.py:103`: a candidate nobody shares a skill with can have a negative silo risk.
- `graph_models.py:205`: mean plus one standard deviation, strictly, marks nobody as
  critical in a line of four; betweenness takes the weight of collaboration as a distance.
- `graph_rebuild.py:61`: a retry after its CREATE compares the run's own two
  snapshots and misses the shift; `neo4j_snapshot.py:1` calls a snapshot atomic, which reads
  nodes and edges apart.
- `candidates.py:129` lists "newest first": an arbitrary subset, sorted afterwards;
  `candidates.py:77` says 7 days of a cache that keeps 24 hours.
- `telemetry.py:205–206` calls blocker and blocked assignees: the code passes issue ids.
  Webhooks answer 202 also when no producer published (`telemetry.py:103–110`).
- A load of the simulator page that lands after the user has gone to a team page
  replaces that page's graph, and simulated candidates stay drawn there.
- `teams/[id]/page.tsx:34` shows scores cached for 300 s beside a fresh graph; `:142` passes
  no snapshots, so the snapshot selector never renders.
- Nothing calls `cleanup_stale_candidates`, the snapshot operator's `rollback()`,
  `require_auth` or `useCandidateStore`.

## 5. Proofs

Each `_proofs` module proves its theorems for all values of the constants, from the
named assumptions of the modules it extends (the constants have their types; an edge is
generated once; ...).

**TelemetryConsumers**: `TypeCorrect`, `NothingLost`, `CommitsAdvanceByOne`,
`DuplicateBranchIsDead` (no reachable state has an event whose MERGE returns false) and
`Refinement` (`Spec => ImplementsLedger`, with `committed` as `settled` and the
written and dead-lettered positions as `recorded`). `NoSilentLoss` is not inductive:
a commit preserves it only because the message
in hand has been handled and is the first uncommitted one. `IInv` adds, per topic
and program counter, where `position` stands relative to `committed` (equal while
polling; one ahead before the commit; either once an await has raised, since the
commit may have taken effect), that a consumer about to commit has handled its
message, and that every `ProcessedEvent` has `is_new` (`NeverReset`), without which
a replayed message would be committed without its edge. Each action has a lemma
for its own topic; `Frame` says that the other topics keep their part. The refinement
takes each step of the process to a `Publish`, `Record` or `Settle` of the ledger or
to a stutter. Two
more invariants over `IInv`: `LettersInOrder` follows from `DlqInv` (the message a consumer
is about to meet has at most `deaths` letters, so one more is within the bound), and
`OverCountBounded` from `WeightInv` (a written message is met again only after an end of the
process that has not been used up: `Replay`), since a link names its topic and a topic writes
one message at a time. `EffectsInOrder` uses the refinement: `LedgerPromises`, about the abstract
ledger alone, says that what is settled is on record or needed nothing, and that nothing is recorded
beyond the first message not settled; the process inherits it.

**TelemetryHealth**: `CheckIsAside` (`HealthSpec => Init /\ [][Next]_vars`: what is proved safe of the
consumers holds beside the check) and `BreachesMean`, which bounds what finding 4 of section 4 means. Were
the group checked the consumers' own, a breach would never be a false alarm, since between the two reads the
consumers can only commit (`CheckInv`, from `CommitByOne`). With any other group, a breach says that
more than the threshold was ever published.

**TeamGraph**: `EdgesOfAnswersNameNodes`, `SeedsInFull`, `AllListedAreScored`,
`NotRefusedAlone`, `ForgetsOnlyByAdmin`. The invariant gives each request a claim that depends
on the statement it stands at: what it has read is still there, what it has seeded so far is,
the projection it made has every engineer it listed; or `during` says who
took it away. A step of another request keeps the claim because `Observe` records it.

**AdminConsole**: `ConsoleRunsHandlers` (`ConsoleSpec => Spec`: the five theorems hold behind
the page), `ConsoleTypes`, `ResetsEndSeeded`. The invariant ties a reset's stage to the request
it awaits: while the reset seeds, and its clear was not lost, no clear of its own is under way, so
only a clear called later, which `clearedIn` records, can delete what it seeds.

**SimulatorSlots**: `TypeCorrect`, `SlotsOwnTheirStreams`, `OneTeamOnPage`,
`HistoryKeepsResults`. `IInv` adds `Controlled` (a controller is that of an
open stream of its slot, also while `overlapped`), `ResultsExist`, `OneTeam` and `Past` (what the history
holds are streams that are past their last event, in their tail or ended). Clearing leaves no open
stream because such a slot's controller is all there is (`Wiping`). A tail that breaks finds
either no open stream in its slot, and then only a status changes, or one, and then
`overlapped` says so (`TailBreaks`).

**Pages**: `ResultIsOfSelection`, `RiskShownIsSelected`, `GraphDrawnIsOfPage` and the types,
for any number of requests in flight and of pages. Each invariant adds what
the requests in flight are of: the latest selection unless overtaken; the picked team; the
page that began the load.

**SimulationStream**: `TypeCorrect`, `ResultsAreCached`, and `Refinement` (`Spec =>
ImplementsStream`). What the client has received says nothing of what is on its way, so
`IInv` follows an event through all its places: the thread's callbacks are the reports after
those put so far and the end of the run is last (`WorkInv`); what was delivered, what
the generator holds and what the queue holds are one gapless stream, with a terminal event
only at its end and only when the task is over (`StreamInv`); a result in any of those
places has been stored or its write failed (`ResultInv`). No run waits twice for a thread
(`BacklogInv`), without which the number of threads in use would not be bounded. `ClientsGetStreams` uses the refinement as above: `StreamPromises`,
about the abstract stream alone, says that what a client has is gapless, ends with the first
terminal event, and has a result only after the last progress event.

**CandidateNodes** (with the modules it composes): `TypeCorrect`, `CostIsBounded`,
`AnswersAreFound`, `StoredAreIndexed`, `ListsAreComplete`, `TokensAreReadable`,
`NothingLeftBehind`. `IInv` has a request's fields at each statement, what every key
holds, and which nodes the DAG wrote. `Promises` turns what an answer promises about later
times into what Redis holds: an entry that lives long enough, a list's debt still to be
read, and a miss on a key that is still not cached only by a request that holds a permit.
With that, a request that misses under the semaphore is one of at most `Permits` holders,
which is all of `CostInv`: without the second look it would not be inductive.

**GraphRebuild**: `ShiftsAreReported`, `RebuildTypes`. `Check` compares whatever two
snapshots are newest; `RebuildInv` says that for a run nobody crowded these are its own and the
`prior` one (`NewestTwo`), which needs that no two snapshots, and none being taken, have one
date (`DatedApart`) and that there is a newest (`HasNewest`).

**JwksCache**: `VerdictsFollow`, `JwksTypes`. `KeysInv`: an entry, and an answer on its way,
is no younger than its keys were last published (`Kept`, `SinceAsked`), however answers and
rotations overlap.

**MCAnalysis**: `ScenesAreParts` (what TLC runs implements the six specifications, so the theorems
about the parts hold of it) and, from the six parts' types, `AnalysisTypes`.

**Simulation** (`Metrics_proofs`): `DrawsDoNotMatter`, `SilosNeedTriangles`, `OverlapHolds`,
`LossHolds`, `FractionsAreExact`, `SimulationTypes`. The state part is small (`SimInv`: each sample so far is
`Sample(base)`, and the team is never empty); the work is about the metrics, for every graph on
a finite set of engineers.

- `SameShape`: no metric looks at a weight, so a draw that keeps the edges keeps the sample.
  `FractionsAreExact`: the distances from a node that reaches r nodes add up to at most r(r - 1)/2
  (`RingsFill`, `DistancesAtMost`), so every denominator divides `Unit` and no closeness, NetworkX closeness or
  clustering is rounded; an average of clusterings is not because each is a multiple of what the
  number of nodes divides (`SumOfMultiples`). The theorems below are therefore about the fractions themselves.
  `ClosenessIsNat`: a node that reaches another has a positive total distance, so nothing is
  divided by zero.
- `TrianglesKept`, `ClusteringKept`: removing a node with no two connected peers takes away no
  triangle and lowers nobody's clustering, so silo risk is not positive.
- `RingsFill`, `ReachableClosed`: a ring that is not yet closed has more nodes than the ring before, so
  as many rings as there are nodes are enough; `ReachableLeast`: nothing smaller is closed. With
  these, a shared skill within reach adds an edge and changes nobody's reach (`SameReach`), distances
  only shrink (`RingsWiden`, `CloserByEdges`), so the rating does not fall (`RatedHigher`); nobody's is
  above that of who is next to everybody (`RatedAtMost`, `HubRated`).
- Reachability is an equivalence (`ReachIsClass`), and the components before a departure are those
  after it put together: mapping a component to the one it came from is onto, and not
  one-to-one exactly where a path is lost (`FragmentedIs`). A colleague who could not reach the leaver
  keeps its rings in a team of one less (`GainsFarFromLeaver`), so neither analysis shows a loss. In a star a
  spoke is two steps from all it reaches, and loses all of its closeness, which is not zero
  (`SpokeIsRated`).
  `ResilienceIs` is arithmetic about the greatest impact.

Facts about recursive functions and sums are proved by induction over sets: the least
number, or the smallest subset, for which the fact fails (`EveryNatural`, `EverySubset`, from the
well-foundedness of `<`). A sum over a finite set is the number of points in a heap
(`Total`), which turns sums into cardinalities.

TLC has found each inductive invariant to hold on the constants of its component's run (0.3 to 1.1
million distinct states, 24 096 for `stream`), with sets it cannot enumerate replaced by
bounded ones.

Assumptions. The proofs rest on the named `ASSUME`s of the modules and on nothing else:
requests, ids and engineers are finite sets, the number of permits and the limit of a list positive,
`NoSnapshot` is no snapshot, and `Unit` a
multiple of the finitely many denominators that occur. `BreachesMean` states its own: `None` is no
number, the threshold is one.

Only model-checked: liveness (`EverySettled`, `NothingHangs`, `EveryRunEnds`), which the prover
does not do. Every invariant and action property of a passing run is a theorem.

## 6. Not modelled, and what is left

Not modelled, with the reason:

- rate limits (`slowapi` keeps them), the claims of a token, the migrations runner and
  the statistics (they read and report);
- betweenness, the values of the distributions, skill gaps and the lists of skills:
  numbers no decision of the code depends on but the critical-path flag;
- the NetworkX branch of the centrality route (it reads what the graph route reads);
  shortest paths are reduced to whether there is one, which `LossIsOfCollaborators` uses;
- an alert that a topology check has posted before its attempt fails;
- the wording, layout and animation of the pages; dashboard, candidate and info pages
  fetch once and render; `candidates/new` is in `ProfileExtraction` up to where it sends the user;
- Kubernetes, Prometheus and Grafana configuration.

An assumption of every model: a statement or access that fails raises before its
handler goes on; none takes effect later.

Left, in this order: betweenness and the critical-path flag; the NetworkX branch of the
centrality route.
