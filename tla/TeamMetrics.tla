----------------------------- MODULE TeamMetrics -----------------------------
(***************************************************************************)
(* The graph metrics of the simulation engine (simulation/metrics.py) and   *)
(* of the attrition and risk analyses (services/attrition_service.py), with *)
(* the NetworkX functions they call. A graph is its nodes and the weight of *)
(* each edge {u, v} it has. A fraction is the number of its parts of 1/Unit; *)
(* percentages are in hundredths, as they are rounded. Betweenness, which   *)
(* no decision of the code depends on but the critical-path flag, is left   *)
(* out.                                                                    *)
(***************************************************************************)
EXTENDS Integers, FiniteSets, FiniteSetsExt

CONSTANT Unit  \* the common denominator of all fractions

\* In a graph of n nodes none is rounded: not a closeness, with a total distance
\* of d, nor an average of clusterings of nodes with d neighbours.
Exact(n) ==
  /\ \A d \in 1..((n * (n - 1)) \div 2) : Unit % ((n - 1) * d) = 0
  /\ \A d \in 2..(n - 1) : Unit % (n * (d * (d - 1))) = 0

Edges(G) == DOMAIN G.weight
Neighbours(G, v) == {u \in G.nodes : {u, v} \in Edges(G)}

\* The edges are accumulated by pair: their relationships and directions are
\* forgotten, and an edge from a node to itself is none.
ToGraph(team) ==
  LET pairs == {{e[1], e[3]} : e \in DOMAIN team.weight} IN
  [nodes |-> team.nodes,
   weight |-> [p \in {q \in pairs : Cardinality(q) = 2} |->
     MapThenSumSet(LAMBDA e : team.weight[e], {e \in DOMAIN team.weight : {e[1], e[3]} = p})]]

RemoveNode(G, v) ==
  [nodes |-> G.nodes \ {v},
   weight |-> [p \in {q \in Edges(G) : v \notin q} |-> G.weight[p]]]

------------------------------------------------------------------------------
(* NetworkX: none of these looks at a weight *)

\* single_source_shortest_path_length: Ring[d], the nodes at distance <= d.
Rings(G, v) ==
  LET ring[d \in 0..Cardinality(G.nodes)] ==
        IF d = 0 THEN {v} ELSE ring[d - 1] \cup UNION {Neighbours(G, u) : u \in ring[d - 1]}
  IN ring

Reachable(G, v) == Rings(G, v)[Cardinality(G.nodes)]

TotalDistance(G, v) ==
  LET ring == Rings(G, v) IN
  MapThenSumSet(LAMBDA d : Cardinality(Reachable(G, v)) - Cardinality(ring[d]),
                0..Cardinality(G.nodes))

\* nx.closeness_centrality, with its normalisation (r - 1)^2 / ((n - 1) * total)
NxCloseness(G, v) ==
  LET r == Cardinality(Reachable(G, v)) IN
  IF r = 1 THEN 0
  ELSE (Unit * (r - 1) * (r - 1)) \div (TotalDistance(G, v) * (Cardinality(G.nodes) - 1))

SumCloseness(G, nodes) == MapThenSumSet(LAMBDA v : NxCloseness(G, v), nodes)

Components(G) == Cardinality({Reachable(G, v) : v \in G.nodes})

Clustering(G, v) ==
  LET nbrs == Neighbours(G, v)
      d == Cardinality(nbrs)
      links == Cardinality({p \in Edges(G) : p \subseteq nbrs})
  IN IF d < 2 THEN 0 ELSE (2 * links * Unit) \div (d * (d - 1))

AverageClustering(G) ==
  MapThenSumSet(LAMBDA v : Clustering(G, v), G.nodes) \div Cardinality(G.nodes)

------------------------------------------------------------------------------
(* metrics.py *)

\* Variant: the reachable nodes are not related to all of them.
Unnormalised(G, v) ==
  LET r == Cardinality(Reachable(G, v)) IN
  IF r = 1 THEN 0 ELSE (Unit * r) \div TotalDistance(G, v)

\* closeness_centrality: n_r / total * (n_r - 1) / (n - 1), with n_r where the
\* formula above it has n_r - 1.
Closeness(G, v) ==
  LET r == Cardinality(Reachable(G, v)) IN
  IF r = 1 THEN 0
  ELSE (Unit * r * (r - 1)) \div (TotalDistance(G, v) * (Cardinality(G.nodes) - 1))

\* Variant: before and after are exchanged.
SiloReversed(G, v) ==
  IF Cardinality(G.nodes) < 3 THEN 0
  ELSE AverageClustering(RemoveNode(G, v)) - AverageClustering(G)

SiloRisk(G, v) ==
  IF Cardinality(G.nodes) < 3 THEN 0
  ELSE AverageClustering(G) - AverageClustering(RemoveNode(G, v))

\* time_to_value_estimate, in tenths of a week: 2 weeks over the closeness, and
\* 52 where that is below 1/26.
TimeToValue(closeness) ==
  IF 26 * closeness <= Unit THEN 520 ELSE (20 * Unit + closeness \div 2) \div closeness

------------------------------------------------------------------------------
(* attrition_service.py *)

\* round((before - after) / before * 100, 2), in hundredths of a percent
DropPct(before, after) ==
  IF before > 0 THEN (10000 * (before - after) + before \div 2) \div before ELSE 0

\* Variant: the team counts as split also when nothing was.
SplitOrNot(G, e) == Components(RemoveNode(G, e)) >= Components(G)

Fragmented(G, e) == Components(RemoveNode(G, e)) > Components(G)

\* closeness_drop_pct: of the average over the peers, with and without e.
AttritionDrop(G, e) ==
  LET peers == G.nodes \ {e} IN
  DropPct(SumCloseness(G, peers), SumCloseness(RemoveNode(G, e), peers))

\* closeness_delta_pct: what p loses when e leaves; negative where p gains.
LossOf(G, e, p) == DropPct(NxCloseness(G, p), NxCloseness(RemoveNode(G, e), p))

\* removal_impact_pct: of the average over all engineers to that over the rest.
RemovalImpact(G, e) ==
  LET n == Cardinality(G.nodes)
      post == IF n = 1 THEN 0 ELSE SumCloseness(RemoveNode(G, e), G.nodes \ {e})
  IN DropPct((n - 1) * SumCloseness(G, G.nodes), n * post)

Impacts(G) == {RemovalImpact(G, e) : e \in G.nodes}

BusFactor(G) == Cardinality({e \in G.nodes : RemovalImpact(G, e) > 1500})

\* Variant: the impacts are sorted in ascending order.
LowestImpact(G) == Min(Impacts(G))

\* engineer_risks[0], the engineers being sorted by descending impact
MaxImpact(G) == Max(Impacts(G))

\* resilience_score, in hundredths of a percent
Resilience(G) == IF MaxImpact(G) < 10000 THEN 10000 - MaxImpact(G) ELSE 0
==============================================================================
