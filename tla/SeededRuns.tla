------------------------------ MODULE SeededRuns ------------------------------
(***************************************************************************)
(* SimulationEngine.run called twice for one snapshot and candidate, with  *)
(* two seeds. A seed is what it makes rng.poisson return: the weights that *)
(* each iteration's copy of the graph gets.                                *)
(***************************************************************************)
EXTENDS Simulation

VARIABLES
  weights,  \* of the run in progress: the weights drawn by each iteration
  earlier   \* the finished runs before it

SeededInit == SimulationInit /\ weights = <<>> /\ earlier = <<>>

SeededIterate ==
  \E draw \in [Edges(base) -> Draw] :
    /\ IterateWith(draw)
    /\ weights' = Append(weights, Perturb(base, draw).weight)
    /\ UNCHANGED earlier

\* The second call builds the same base graph of the same snapshot.
RunAgain ==
  /\ stage = "done" /\ earlier = <<>>
  /\ earlier' = << [samples |-> samples, weights |-> weights] >>
  /\ samples' = <<>> /\ weights' = <<>>
  /\ stage' = "running"
  /\ UNCHANGED <<team, base>>

SeededNext ==
  \/ \E l \in Link : Collaborate(l) /\ UNCHANGED <<weights, earlier>>
  \/ \E shared \in [team.nodes -> 0..MaxShared] : Begin(shared) /\ UNCHANGED <<weights, earlier>>
  \/ SeededIterate
  \/ RunAgain

SeededSpec == SeededInit /\ [][SeededNext]_<<simVars, weights, earlier>>

TotalCloseness(run) == MapThenSumSet(LAMBDA k : run[k].closeness, DOMAIN run)

\* test_monte_carlo.py:101-107: different seeds give different samples and so
\* different means. This says it only of two runs that drew other weights in
\* every iteration, for a candidate who shares skills.
SeedsMatter ==
  stage = "done" /\ Neighbours(base, Candidate) # {} =>
    \A i \in DOMAIN earlier :
      (\A k \in DOMAIN weights : weights[k] # earlier[i].weights[k]) =>
        TotalCloseness(samples) # TotalCloseness(earlier[i].samples)
==============================================================================
