----------------------------- MODULE GraphRebuild -----------------------------
(***************************************************************************)
(* The nightly DAG that snapshots the whole graph and warns of topology      *)
(* shifts (dags/graph_rebuild.py, operators/neo4j_snapshot.py). Its first    *)
(* two tasks only read, and what they return is not used. A run may be      *)
(* triggered while another is under way, every task is retried once, and an *)
(* attempt may fail after each of its statements took effect. The clock     *)
(* counts whatever tells two captured_at apart. Left out: the scores a      *)
(* snapshot holds, and rollback(), which nothing calls.                     *)
(***************************************************************************)
EXTENDS Integers, FiniteSets, FiniteSetsExt

CONSTANTS
  Run,
  EdgeCount,   \* how many edges the graph may have
  Keep,        \* the age beyond which a snapshot is pruned (30 days)
  Shift,       \* 15, percent
  MaxTime,     \* bound of the clock
  MaxFailed,   \* bound of the failed attempts
  NoSnapshot

ASSUME RebuildAssumption ==
  /\ EdgeCount \subseteq Nat
  /\ Keep \in Nat /\ Shift \in Nat /\ MaxTime \in Nat /\ MaxFailed \in Nat
  /\ NoSnapshot \notin [at : 0..MaxTime, edges : EdgeCount]

VARIABLES
  clock,
  edges,      \* edges of the live graph
  snapshots,     \* the :GraphSnapshot nodes
  run,        \* each DAG run
  alerts,     \* runs that posted a topology shift
  failed

rebuildVars == <<clock, edges, snapshots, run, alerts, failed>>

Snapshot == [at : 0..MaxTime, edges : EdgeCount]

\* at: the statement or task to come; again: this attempt is the retry; own: the
\* snapshot being taken; counted: its edges were fetched. History: prior, the
\* newest snapshot when the task began, none if it was pruned by the check;
\* crowded: another run was taking or took one since.
RebuildTypeOK ==
  /\ clock \in 0..MaxTime /\ edges \in EdgeCount
  /\ snapshots \subseteq Snapshot
  /\ run \in [Run -> [at : {"window", "count", "nodes", "edges", "prune", "create", "written",
                            "check", "done", "failed"},
                      again : BOOLEAN, own : Snapshot,
                      prior : Snapshot \cup {NoSnapshot}, crowded : BOOLEAN]]
  /\ alerts \subseteq Run
  /\ failed \in 0..MaxFailed

RebuildInit ==
  /\ clock = 0
  /\ edges \in EdgeCount
  /\ snapshots = {}
  /\ run = [r \in Run |-> [at |-> "window", again |-> FALSE, own |-> [at |-> 0, edges |-> edges],
                           prior |-> NoSnapshot, crowded |-> FALSE]]
  /\ alerts = {}
  /\ failed = 0

------------------------------------------------------------------------------

Newest(S) == CHOOSE s \in S : \A t \in S : t.at <= s.at

Taking(r) == run[r].at \in {"edges", "prune", "create", "written", "check"}

To(r, step) == run' = [run EXCEPT ![r].at = step]

\* A task that succeeded: the next one has its own attempts.
Succeed(r, task) == run' = [run EXCEPT ![r].at = task, ![r].again = FALSE]

\* get_kafka_offset_range
Window(r) == run[r].at = "window" /\ Succeed(r, "count") /\ UNCHANGED <<clock, edges, snapshots, alerts, failed>>

\* rebuild_edge_weights, which rebuilds none
Count(r) == run[r].at = "count" /\ Succeed(r, "nodes") /\ UNCHANGED <<clock, edges, snapshots, alerts, failed>>

\* _take_snapshot: captured_at is fixed before anything is fetched.
FetchNodes(r) ==
  /\ run[r].at = "nodes" /\ clock < MaxTime
  /\ run' = [run EXCEPT ![r] =
       [@ EXCEPT !.at = "edges", !.own.at = clock, !.crowded = \E q \in Run \ {r} : Taking(q),
                 !.prior = IF snapshots = {} THEN NoSnapshot ELSE Newest(snapshots)]]
  /\ clock' = clock + 1
  /\ UNCHANGED <<edges, snapshots, alerts, failed>>

FetchEdges(r) ==
  /\ run[r].at = "edges"
  /\ run' = [run EXCEPT ![r].at = "prune", ![r].own.edges = edges]
  /\ UNCHANGED <<clock, edges, snapshots, alerts, failed>>

Prune(r) ==
  /\ run[r].at = "prune"
  /\ snapshots' = {s \in snapshots : s.at >= clock - Keep}
  /\ To(r, "create")
  /\ UNCHANGED <<clock, edges, alerts, failed>>

Create(r) ==
  /\ run[r].at = "create"
  /\ snapshots' = snapshots \cup {run[r].own}
  /\ run' = [q \in Run |->
       IF q = r THEN [run[q] EXCEPT !.at = "written"]
       ELSE [run[q] EXCEPT !.crowded = @ \/ Taking(q)]]
  /\ UNCHANGED <<clock, edges, alerts, failed>>

Finish(r) == run[r].at = "written" /\ Succeed(r, "check") /\ UNCHANGED <<clock, edges, snapshots, alerts, failed>>

Abs(n) == IF n < 0 THEN -n ELSE n

Shifted(previous, current) ==
  /\ previous.edges > 0
  /\ 100 * Abs(current.edges - previous.edges) > Shift * previous.edges

\* Variant: the statement orders them by age.
OldestFirst(S) ==
  LET oldest == CHOOSE s \in S : \A t \in S : s.at <= t.at
  IN <<oldest, CHOOSE s \in S \ {oldest} : \A t \in S \ {oldest} : s.at <= t.at>>

\* ORDER BY captured_at DESC LIMIT 2
NewestFirst(S) == <<Newest(S), Newest(S \ {Newest(S)})>>

\* check_topology_change: it does not look for the snapshot of its own run.
Check(r) ==
  /\ run[r].at = "check"
  /\ LET two == NewestFirst(snapshots) IN
     alerts' = IF Cardinality(snapshots) >= 2 /\ Shifted(two[2], two[1]) THEN alerts \cup {r} ELSE alerts
  /\ run' = [run EXCEPT ![r].at = "done", ![r].prior = IF @ \in snapshots THEN @ ELSE NoSnapshot]
  /\ UNCHANGED <<clock, edges, snapshots, failed>>

\* An attempt fails and the task starts again from its first statement, once.
Fail(r) ==
  /\ run[r].at \notin {"done", "failed"} /\ failed < MaxFailed
  /\ failed' = failed + 1
  /\ LET task == IF run[r].at \in {"window", "count", "check"} THEN run[r].at ELSE "nodes" IN
     run' = [run EXCEPT ![r] = IF @.again THEN [@ EXCEPT !.at = "failed"]
                               ELSE [@ EXCEPT !.at = task, !.again = TRUE]]
  /\ UNCHANGED <<clock, edges, snapshots, alerts>>

\* Telemetry, seeding and clearing change the graph meanwhile.
Edit == \E n \in EdgeCount \ {edges} : edges' = n /\ UNCHANGED <<clock, snapshots, run, alerts, failed>>

Pass == clock < MaxTime /\ clock' = clock + 1 /\ UNCHANGED <<edges, snapshots, run, alerts, failed>>

RebuildNext ==
  \/ Edit \/ Pass
  \/ \E r \in Run : \/ Window(r) \/ Count(r) \/ FetchNodes(r) \/ FetchEdges(r) \/ Prune(r)
                    \/ Create(r) \/ Finish(r) \/ Check(r) \/ Fail(r)

RebuildSpec == RebuildInit /\ [][RebuildNext]_rebuildVars

------------------------------------------------------------------------------

\* A run warns of a shift exactly when its snapshot differs by more than 15% from
\* the newest one there was before its last attempt, although it compares
\* whatever two are newest: unless another run's snapshot came in between, or the
\* earlier one was pruned. (The earlier one may be the run's own, of an attempt
\* that failed after the CREATE: its retry then sees no shift.)
ShiftIsReported ==
  \A r \in Run :
    run[r].at = "done" /\ ~run[r].crowded =>
      (r \in alerts <=> run[r].prior # NoSnapshot /\ Shifted(run[r].prior, run[r].own))
==============================================================================
