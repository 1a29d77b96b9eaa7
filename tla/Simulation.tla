------------------------------ MODULE Simulation ------------------------------
(***************************************************************************)
(* SimulationEngine.run (simulation/monte_carlo.py) on a snapshot of a team *)
(* whose edges telemetry goes on adding, iteration by iteration. A candidate *)
(* is how many skills it shares with each engineer. Betweenness, the         *)
(* topology change map (all zeros: G_base has the weights it is compared     *)
(* with) and the skill gap table are left out.                              *)
(***************************************************************************)
EXTENDS TeamMetrics, Sequences

CONSTANTS
  Engineer,
  Link,            \* <<source, relationship, target>> that telemetry may write
  Candidate,       \* the candidate's node
  MaxShared,       \* skills shared with an engineer
  Draw,            \* what rng.poisson may return
  MaxSimulated,    \* engineers of a simulated team
  Iterations

ASSUME SimulationAssumption ==
  /\ IsFiniteSet(Engineer) /\ Candidate \notin Engineer
  /\ \A l \in Link : {l[1], l[3]} \subseteq Engineer
  /\ MaxShared \in Nat /\ Draw \subseteq Nat
  /\ MaxSimulated \in Nat /\ Iterations \in Nat \ {0}

\* A scale, which every finite number of engineers has.
ASSUME UnitAssumption ==
  Unit \in Nat \ {0} /\ \A n \in 2..(Cardinality(Engineer) + 1) : Exact(n)

VARIABLES
  team,       \* the live graph: engineers, and the weight of each edge
  base,       \* G_base: the frozen snapshot with the candidate
  samples,    \* the samples of the iterations done
  stage       \* "idle", "running" or "done"

simVars == <<team, base, samples, stage>>

NoGraph == [nodes |-> {}, weight |-> [p \in {} |-> 0]]

SimulationTypeOK ==
  /\ team.nodes \subseteq Engineer /\ DOMAIN team.weight \subseteq Link
  /\ base.nodes \subseteq team.nodes \cup {Candidate}
  /\ \A p \in Edges(base) : p \subseteq base.nodes /\ base.weight[p] \in Nat \ {0}
  /\ samples \in Seq([closeness : Nat, silo : Int]) /\ Len(samples) <= Iterations
  /\ stage \in {"idle", "running", "done"}

SimulationInit ==
  /\ \E nodes \in (SUBSET Engineer) \ {{}} : team = [nodes |-> nodes, weight |-> [e \in {} |-> 0]]
  /\ base = NoGraph
  /\ samples = <<>>
  /\ stage = "idle"

\* A telemetry event or a seeded edge between two of the team.
Collaborate(l) ==
  /\ l \notin DOMAIN team.weight /\ {l[1], l[3]} \subseteq team.nodes
  /\ team' = [team EXCEPT !.weight =
                [x \in DOMAIN team.weight \cup {l} |-> IF x = l THEN 1 ELSE team.weight[x]]]
  /\ UNCHANGED <<base, samples, stage>>

\* _build_base_graph: as _to_nx, the weights of a pair added up
BaseGraph == ToGraph(team)

\* Variant: an edge also where nothing is shared.
WithAll(G, shared) ==
  [nodes |-> G.nodes \cup {Candidate},
   weight |-> [p \in Edges(G) \cup {{Candidate, e} : e \in G.nodes} |->
                 IF p \in Edges(G) THEN G.weight[p]
                 ELSE shared[CHOOSE e \in G.nodes : p = {Candidate, e}]]]

\* _compute_candidate_edges, and the candidate added to the base graph
WithCandidate(G, shared) ==
  LET peers == {e \in G.nodes : shared[e] > 0} IN
  [nodes |-> G.nodes \cup {Candidate},
   weight |-> [p \in Edges(G) \cup {{Candidate, e} : e \in peers} |->
                 IF p \in Edges(G) THEN G.weight[p]
                 ELSE shared[CHOOSE e \in peers : p = {Candidate, e}]]]

\* The snapshot of the team: the engine does not read the live graph again.
Begin(shared) ==
  /\ stage = "idle"
  /\ Cardinality(team.nodes) <= MaxSimulated
  /\ base' = WithCandidate(BaseGraph, shared)
  /\ stage' = "running"
  /\ UNCHANGED <<team, samples>>

\* Variant: an edge whose draw is zero disappears.
DroppingZeros(G, draw) ==
  [G EXCEPT !.weight = [p \in {q \in Edges(G) : draw[q] > 0} |-> draw[p]]]

\* A copy with every weight drawn again, and never below 1.
Perturb(G, draw) ==
  [G EXCEPT !.weight = [p \in Edges(G) |-> IF draw[p] < 1 THEN 1 ELSE draw[p]]]

Sample(G) == [closeness |-> Closeness(G, Candidate), silo |-> SiloRisk(G, Candidate)]

IterateWith(draw) ==
  /\ stage = "running"
  /\ Len(samples) < Iterations
  /\ samples' = Append(samples, Sample(Perturb(base, draw)))
  /\ stage' = IF Len(samples') = Iterations THEN "done" ELSE "running"
  /\ UNCHANGED <<team, base>>

Iterate == \E draw \in [Edges(base) -> Draw] : IterateWith(draw)

SimulationNext ==
  \/ \E l \in Link : Collaborate(l)
  \/ \E shared \in [team.nodes -> 0..MaxShared] : Begin(shared)
  \/ Iterate

SimulationSpec == SimulationInit /\ [][SimulationNext]_simVars

------------------------------------------------------------------------------
(* Properties *)

Closenesses == [k \in DOMAIN samples |-> samples[k].closeness]
Silos == [k \in DOMAIN samples |-> samples[k].silo]

\* make_distribution: the standard deviation, the confidence interval and the
\* distances between percentiles are zero exactly when this is.
Spread(s) == Max({s[k] : k \in DOMAIN s}) - Min({s[k] : k \in DOMAIN s})

\* time_to_value_weeks: one estimate, of the mean closeness
Estimate ==
  TimeToValue(MapThenSumSet(LAMBDA k : Closenesses[k], DOMAIN samples) \div Len(samples))

\* Every sample of a run is the same: the draws keep every edge, and neither
\* metric looks at a weight. The confidence interval of a result has no width,
\* whatever the seed, the iterations and the weights, and the time to value is
\* that of one look at the snapshot. (test_monte_carlo.py:101 has it otherwise:
\* SeedsMatter of SeededRuns.)
SamplesAgree ==
  stage = "done" =>
    /\ Spread(Closenesses) = 0 /\ Spread(Silos) = 0
    /\ Estimate = TimeToValue(Closeness(base, Candidate))

\* The team with the candidate in it, who shares a skill with these.
Joined(peers) ==
  WithCandidate(ToGraph(team), [e \in team.nodes |-> IF e \in peers THEN 1 ELSE 0])

\* Sharing a skill with one more engineer never lowers the rating of a candidate
\* who could reach that engineer already, or nobody; and none is rated above
\* n / (n - 1), what a candidate who shares one with everybody gets.
\* (metrics.py:32 says 1, see ClosenessInUnitInterval.) So the
\* time to value of that candidate is below the 2 weeks of metrics.py:128 in a
\* team of fewer than 39 (a larger one's may be rounded to them); that of a
\* candidate who shares nothing is the cap of 52. (A further component may lower
\* a rating: of nine engineers, four alone and five in a line, a candidate who
\* shares with those four loses by sharing with an end of the line.)
OverlapWithinReach ==
  stage = "idle" =>
    LET n == Cardinality(team.nodes) + 1
        Rated(peers) == Closeness(Joined(peers), Candidate)
    IN /\ (n - 1) * Rated(team.nodes) = n * Unit
       /\ \A peers \in SUBSET team.nodes :
            /\ Rated(peers) <= Rated(team.nodes)
            /\ \A e \in team.nodes \ peers :
                 e \in Reachable(Joined(peers), Candidate) \/ peers = {} =>
                   Rated(peers) <= Rated(peers \cup {e})
       /\ n < 40 => TimeToValue(Rated(team.nodes)) < 20
       /\ TimeToValue(Rated({})) = 520

\* metrics.py:31, the range proposition of closeness_centrality.tex:80 and, of a
\* node of random graphs, test_metrics.py:79-88 say that a closeness is within 0
\* and 1. (The first factor of closeness_centrality counts the node itself among
\* those reached, where the formula of the docs does not.)
ClosenessInUnitInterval ==
  stage # "idle" => \A v \in base.nodes : Closeness(base, v) \in 0..Unit

\* recommendation() of the report page, on the mean closeness and silo risk
Advice(closeness, silo) ==
  LET strong == /\ 100 * closeness >= 55 * Unit /\ TimeToValue(closeness) <= 60
                /\ 100 * silo < 33 * Unit
      positive == 100 * closeness >= 45 * Unit /\ 100 * silo < 66 * Unit
  IN CASE strong -> "strong"
       [] ~strong /\ positive -> "positive"
       [] 100 * silo >= 66 * Unit -> "caution"
       [] OTHER -> "neutral"

\* A candidate is never said to reinforce a silo, nor the reader of the report
\* told to be cautious, without a triangle: two of the engineers it connects to
\* work together already. One it connects to nobody is called neutral. (The
\* converse of the first fails: a candidate nobody shares a skill with may lower
\* the average, a "benefit".)
RiskMeansTriangle ==
  \A k \in 1..Len(samples) :
    LET peers == Neighbours(base, Candidate)
        advice == Advice(samples[k].closeness, samples[k].silo) IN
    /\ samples[k].silo > 0 \/ advice = "caution" => \E p \in Edges(base) : p \subseteq peers
    /\ peers = {} => advice = "neutral"

\* GET /graph/paths finds a path between two engineers of the team.
PathBetween(G, u, v) == u # v /\ v \in Reachable(G, u)

\* graph_fragmented is set exactly when the leaver was on every path between two
\* colleagues, also where the team was in pieces before and where a leaver
\* without collaborators takes a component away. A colleague the leaver was not
\* connected to never loses, and the departure of an engineer without
\* collaborators is no loss in either analysis, which average over different
\* colleagues; that of one end of every edge loses all, in both. The resilience
\* is below 0.85 exactly when somebody counts towards the bus factor. (It is not
\* within 0 and 1, as graph_models.py:210 has it: in a ring of four every
\* departure brings the others closer. Even one that splits the team may: that of
\* the middle of a line of three at one corner of a clique of four.)
LossIsOfCollaborators ==
  stage = "idle" =>
    LET G == ToGraph(team) IN
    /\ \A e \in G.nodes :
         /\ Fragmented(G, e) <=>
              \E u, v \in G.nodes \ {e} :
                PathBetween(G, u, v) /\ ~PathBetween(RemoveNode(G, e), u, v)
         /\ \A p \in G.nodes \ Reachable(G, e) : LossOf(G, e, p) <= 0
         /\ Neighbours(G, e) = {} => RemovalImpact(G, e) <= 0 /\ AttritionDrop(G, e) <= 0
         /\ Neighbours(G, e) # {} /\ Edges(RemoveNode(G, e)) = {} =>
              RemovalImpact(G, e) = 10000 /\ AttritionDrop(G, e) = 10000
    /\ Resilience(G) < 8500 <=> BusFactor(G) > 0
==============================================================================
