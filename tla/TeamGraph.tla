------------------------------- MODULE TeamGraph -------------------------------
(***************************************************************************)
(* One team's engineers and collaboration edges in Neo4j, and the request   *)
(* handlers that write and read them: seeding, clearing, the team graph and *)
(* the centrality scores (apps/api/services/seeder.py, graph_service.py).   *)
(* A handler is a series of statements, each an auto-commit transaction;    *)
(* handlers interleave between statements. A statement that raises ends its *)
(* handler with status 500 and may or may not have taken effect. The        *)
(* telemetry consumers appear as the one statement that writes an edge.     *)
(* Engineers have no attributes here, scores are reduced to who has one, and *)
(* the counts a clear reports are left out.                                *)
(***************************************************************************)
EXTENDS Naturals, Sequences, FiniteSets, Functions

CONSTANTS
  Request,      \* requests made of the API
  SeedOrder,    \* the engineers of _TEAMS, in the order they are written
  SeedEdges,    \* the generated edges in order: [edge, weight]
  Edge,         \* <<source, relationship, target>>, seeded or not
  Threshold,    \* simulation_gds_threshold
  MaxFaults,    \* statements that raise
  MaxUpserts    \* telemetry events

Engineer == Range(SeedOrder)
SeedWeight(e) == (CHOOSE s \in Range(SeedEdges) : s.edge = e).weight
Seeded == {s.edge : s \in Range(SeedEdges)}
Ends(e) == {e[1], e[3]}

\* There are engineers to seed, and no edge is generated twice.
ASSUME ConstantsAssumption ==
  /\ SeedOrder \in Seq(Engineer) /\ SeedOrder # <<>>
  /\ SeedEdges \in Seq([edge : Edge, weight : Nat \ {0}])
  /\ \A s, t \in Range(SeedEdges) : s.edge = t.edge => s = t
  /\ \A e \in Edge : Ends(e) \subseteq Engineer
  /\ Threshold \in Nat /\ MaxFaults \in Nat /\ MaxUpserts \in Nat

VARIABLES
  engineers,    \* the Engineer nodes
  weight,       \* weight[e]: r.weight of a relationship, 0 when there is none
  projection,   \* the GDS projection of this team: the engineers in it
  req,          \* req[r]: kind, the statement it stands at, what it has read
  during,       \* history: what others did to r's work (see Observe)
  faults,       \* statements that raised
  upserts       \* telemetry events that found both engineers

vars == <<engineers, weight, projection, req, during, faults, upserts>>
db == <<engineers, weight, projection>>

\* No projection exists; GDS refuses to project an empty graph.
None == {}

Statements ==
  {"write", "countNodes", "countEdges", "delete", "nodes", "edges", "dropStale",
   "project", "closeness", "betweenness", "degree", "drop"}
\* A handler ends with 200, 404, or 500: a query GDS refused, or a fault.
Status == {"ok", "notFound", "refused", "error"}

Pending == [kind |-> "none", at |-> "idle", k |-> 0, nodes |-> {}, edges |-> {},
            scored |-> {}]

Present == {e \in Edge : weight[e] > 0}

TypeOK ==
  /\ engineers \subseteq Engineer
  /\ weight \in [Edge -> Nat]
  /\ \A e \in Present : Ends(e) \subseteq engineers
  /\ projection \subseteq Engineer
  /\ req \in [Request ->
       [kind : {"none", "seed", "clear", "graph", "centrality"},
        at : Statements \cup Status \cup {"idle"},
        k : 0..(Len(SeedOrder) + Len(SeedEdges)),
        nodes : SUBSET Engineer, edges : SUBSET Edge, scored : SUBSET Engineer]]
  /\ during \in [Request -> SUBSET {"delete", "engineer", "projection"}]
  /\ faults \in 0..MaxFaults /\ upserts \in 0..MaxUpserts

Init ==
  /\ engineers = {}
  /\ weight = [e \in Edge |-> 0]
  /\ projection = None
  /\ req = [r \in Request |-> Pending]
  /\ during = [r \in Request |-> {}]
  /\ faults = 0 /\ upserts = 0

Active(r) == req[r].at \in Statements
Begun(r) == req[r].kind # "none"

------------------------------------------------------------------------------
(* Statements: what each does to the database *)

\* Variant: the edges are written before the engineers.
EdgesFirst == [k \in DOMAIN SeedEdges |-> [write |-> "edge", of |-> SeedEdges[k]]]
              \o [k \in DOMAIN SeedOrder |-> [write |-> "engineer", of |-> SeedOrder[k]]]

\* seed_graph: every engineer, then every edge.
SeedStatements ==
  [k \in DOMAIN SeedOrder |-> [write |-> "engineer", of |-> SeedOrder[k]]]
  \o [k \in DOMAIN SeedEdges |-> [write |-> "edge", of |-> SeedEdges[k]]]

MergeEngineer(n) ==
  /\ engineers' = engineers \cup {n}
  /\ UNCHANGED <<weight, projection>>

\* Variant: MERGE without matching the endpoints first.
SetEdgeUnmatched(e, w) ==
  /\ weight' = [weight EXCEPT ![e] = w]
  /\ UNCHANGED <<engineers, projection>>

\* MATCH finds nothing when an engineer is missing; MERGE, then SET weight.
SetEdge(e, w) ==
  /\ weight' = IF Ends(e) \subseteq engineers THEN [weight EXCEPT ![e] = w] ELSE weight
  /\ UNCHANGED <<engineers, projection>>

DetachDelete ==
  /\ engineers' = {}
  /\ weight' = [e \in Edge |-> 0]
  /\ UNCHANGED projection

Project(p) == projection' = p /\ UNCHANGED <<engineers, weight>>

\* Variant: the projection a failed request left is not dropped.
KeepStale == UNCHANGED db

\* gds.graph.drop(name, false)
DropStale == Project(None)

\* What the statement request r stands at does, if it is not refused.
Effect(r) ==
  LET q == req[r] IN
  \/ q.at = "write" /\ \E s \in {SeedStatements[q.k]} :
       IF s.write = "engineer" THEN MergeEngineer(s.of) ELSE SetEdge(s.of.edge, s.of.weight)
  \/ q.at = "delete" /\ DetachDelete
  \/ q.at = "dropStale" /\ DropStale
  \/ q.at = "project" /\ Project(engineers)
  \/ q.at = "drop" /\ Project(None)
  \/ q.at \in Statements \ {"write", "delete", "dropStale", "project", "drop"} /\ UNCHANGED db

\* GDS refuses to project under a name in use or an empty graph, and to read
\* or drop a projection that does not exist.
Refused(r) ==
  \/ req[r].at = "project" /\ (projection # None \/ engineers = {})
  \/ req[r].at \in {"closeness", "betweenness", "drop"} /\ projection = None

------------------------------------------------------------------------------
(* Handlers: where a request stands after its statement *)

\* Variant: the edges are read before the nodes.
FirstEdges == [kind |-> "edges", then |-> "nodes"]

\* get_team_graph reads the nodes, then the edges.
ReadOrder == [kind |-> "nodes", then |-> "edges"]

\* Variant: a projection that exists is used as it is.
AfterReadReusing(q) ==
  CASE q.nodes = {} -> "notFound"
    [] q.kind = "centrality" /\ Cardinality(q.nodes) > Threshold ->
         IF projection # None THEN "closeness" ELSE "dropStale"
    [] OTHER -> "ok"

\* Both reads are done: 404 for an unknown team, GDS for a large one.
AfterRead(q) ==
  CASE q.nodes = {} -> "notFound"
    [] q.kind = "centrality" /\ Cardinality(q.nodes) > Threshold -> "dropStale"
    [] OTHER -> "ok"

\* The next statement of a handler that does no more than name it.
Following ==
  [countNodes |-> "countEdges", countEdges |-> "delete", delete |-> "ok",
   dropStale |-> "project", project |-> "closeness", closeness |-> "betweenness",
   betweenness |-> "degree", degree |-> "drop", drop |-> "ok"]

\* Request r with what its statement returned.
Returned(r) ==
  LET q == req[r] IN
  CASE q.at = "nodes" -> [q EXCEPT !.nodes = engineers]
    [] q.at = "edges" -> [q EXCEPT !.edges = Present]
    [] q.at = "closeness" -> [q EXCEPT !.scored = projection]
    [] OTHER -> q

NextStatement(r) ==
  LET q == req[r] IN
  CASE q.at = "write" -> IF q.k = Len(SeedStatements) THEN "ok" ELSE "write"
    [] q.at = ReadOrder.kind -> ReadOrder.then
    [] q.at = ReadOrder.then -> AfterRead(Returned(r))
    [] OTHER -> Following[q.at]

First(kind) ==
  CASE kind = "seed" -> "write"
    [] kind = "clear" -> "countNodes"
    [] OTHER -> ReadOrder.kind

Begin(r, kind) ==
  /\ ~Begun(r)
  /\ req' = [req EXCEPT ![r].kind = kind, ![r].at = First(kind),
                        ![r].k = IF kind = "seed" THEN 1 ELSE 0]
  /\ UNCHANGED <<db, during, faults, upserts>>

\* What r's statement means for the others: the graph was deleted since they
\* began, an engineer was added between their two reads, the projection was
\* dropped or replaced while they ran.
Observe(r) ==
  during' = [q \in Request |-> during[q] \cup
    {o \in {"delete", "engineer", "projection"} :
       \/ o = "delete" /\ Begun(q) /\ engineers # {} /\ engineers' = {}
       \/ o = "engineer" /\ req[q].at = ReadOrder.then /\ ~(engineers' \subseteq engineers)
       \/ o = "projection" /\ q # r /\ Active(q) /\ req[r].at \in {"dropStale", "project", "drop"}}]

Statement(r) ==
  /\ Active(r)
  /\ ~Refused(r)
  /\ Effect(r)
  /\ LET next == NextStatement(r) IN
       req' = [req EXCEPT ![r] = [Returned(r) EXCEPT
                 !.at = next, !.k = IF next = "write" THEN @ + 1 ELSE @]]
  /\ Observe(r)
  /\ UNCHANGED <<faults, upserts>>

Refuse(r) ==
  /\ Active(r)
  /\ Refused(r)
  /\ req' = [req EXCEPT ![r].at = "refused"]
  /\ UNCHANGED <<db, during, faults, upserts>>

Fault(r) ==
  /\ Active(r)
  /\ faults < MaxFaults
  /\ faults' = faults + 1
  /\ UNCHANGED db \/ (~Refused(r) /\ Effect(r))
  /\ req' = [req EXCEPT ![r].at = "error"]
  /\ Observe(r)
  /\ UNCHANGED upserts

\* Variant: the weight is set when the edge exists, not incremented.
Restarted(w) == 1

Incremented(w) == w + 1

\* The second transaction of a consumer's process().
Upsert(e) ==
  /\ upserts < MaxUpserts
  /\ Ends(e) \subseteq engineers
  /\ weight' = [weight EXCEPT ![e] = Incremented(@)]
  /\ upserts' = upserts + 1
  /\ UNCHANGED <<engineers, projection, req, during, faults>>

Serve(r) == Statement(r) \/ Refuse(r) \/ Fault(r)

Kinds == {"seed", "clear", "graph", "centrality"}

Next ==
  \/ \E r \in Request : (\E kind \in Kinds : Begin(r, kind)) \/ Serve(r)
  \/ \E e \in Edge : Upsert(e)

Spec == Init /\ [][Next]_vars

------------------------------------------------------------------------------
(* Properties *)

HasRead(r) ==
  req[r].kind \in {"graph", "centrality"} /\ req[r].at \notin {"nodes", "edges", "refused", "error"}

\* Nodes and edges are read in two transactions. An edge of the answer may name
\* an engineer the answer lacks only when one was added between the two: a graph
\* cleared in between gives nodes without edges, never edges without nodes.
EdgesNameNodes ==
  \A r \in Request : HasRead(r) /\ "engineer" \notin during[r] =>
    \A e \in req[r].edges : Ends(e) \subseteq req[r].nodes

\* A seed that answered 200 has left every engineer and every edge, at no less
\* than its weight, whatever other seeds, readers, faults and telemetry did
\* meanwhile, unless a clear has deleted the graph since it began.
SeededInFull ==
  \A r \in Request :
    req[r].kind = "seed" /\ req[r].at = "ok" /\ "delete" \notin during[r] =>
      /\ Engineer \subseteq engineers
      /\ \A e \in Seeded : weight[e] >= SeedWeight(e)

\* The centrality requests of a team share one projection by name. A request
\* that succeeds has a score for every engineer it lists, never the default of
\* 0.0, also when another request replaced the projection or a failed one left
\* one behind, unless the graph was cleared under it.
ScoresAreComplete ==
  \A r \in Request :
    /\ req[r].kind = "centrality" /\ req[r].at = "ok" /\ "delete" \notin during[r]
    /\ Cardinality(req[r].nodes) > Threshold
    => req[r].nodes \subseteq req[r].scored

\* GDS refuses a query only because another request dropped or replaced the
\* projection, or the graph was deleted: alone, a request succeeds whatever an
\* earlier one that failed half-way has left behind.
RefusedOnlyByOthers ==
  \A r \in Request : req[r].at = "refused" => during[r] \cap {"delete", "projection"} # {}

\* Accumulated weight is lost to an administrator only: no reader and no
\* telemetry event lowers a weight or removes an engineer, and seeding lowers
\* only the weights it sets.
OnlyAdminForgets ==
  [][\A e \in Edge :
       weight'[e] < weight[e] \/ ~(engineers \subseteq engineers') =>
         \/ engineers' = {} /\ \E r \in Request : req[r].at = "delete"
         \/ e \in Seeded /\ weight'[e] = SeedWeight(e)]_vars
==============================================================================
