------------------------------ MODULE MCAnalysis ------------------------------
(* The simulation engine, the rebuild DAG, three pages and the key cache. They *)
(* write nothing in common, so each behaviour is of one of them: the others    *)
(* stay in their first states.                                                 *)
EXTENDS Simulation, GraphRebuild, AttritionPage, RiskPage, GraphView, JwksCache, TLC

CONSTANTS e1, e2, e3, e4, r1, r2, alpha, beta

VARIABLE scene

MCEngineer == {e1, e2, e3, e4}
\* Every pair, one of them in both directions.
MCLink == {<<e1, "reviews", e2>>, <<e1, "reviews", e3>>, <<e1, "reviews", e4>>,
           <<e2, "reviews", e3>>, <<e2, "reviews", e4>>, <<e3, "reviews", e4>>,
           <<e2, "pairs", e1>>}
MCRun == {r1, r2}
MCSymmetry == Permutations(MCRun)
MCTeam == {alpha, beta}
MCSlot == {"A", "B"}

MCInit ==
  /\ scene \in {"engine", "rebuild", "attrition", "risk", "view", "keys"}
  /\ SimulationInit /\ RebuildInit /\ AttritionInit /\ RiskInit /\ ViewInit
  /\ JwksInit
  /\ scene # "engine" => team.nodes = {e1}
  /\ scene # "rebuild" => edges = 0
  /\ "old" \in published
  /\ scene # "keys" => published = {"old"}

MCNext ==
  /\ UNCHANGED scene
  /\ \/ /\ scene = "engine" /\ SimulationNext
        /\ UNCHANGED <<rebuildVars, attritionVars, riskVars, viewVars, keyVars>>
     \/ /\ scene = "rebuild" /\ RebuildNext
        /\ UNCHANGED <<simVars, attritionVars, riskVars, viewVars, keyVars>>
     \/ /\ scene = "attrition" /\ AttritionNext
        /\ UNCHANGED <<simVars, rebuildVars, riskVars, viewVars, keyVars>>
     \/ /\ scene = "risk" /\ RiskNext
        /\ UNCHANGED <<simVars, rebuildVars, attritionVars, viewVars, keyVars>>
     \/ /\ scene = "view" /\ ViewNext
        /\ UNCHANGED <<simVars, rebuildVars, attritionVars, riskVars, keyVars>>
     \/ /\ scene = "keys" /\ JwksNext
        /\ UNCHANGED <<simVars, rebuildVars, attritionVars, riskVars, viewVars>>

MCSpec ==
  MCInit /\ [][MCNext]_<<scene, simVars, rebuildVars, attritionVars, riskVars, viewVars, keyVars>>

\* Every variable of the six parts has the values its declaration says.
AnalysisTypeOK ==
  /\ SimulationTypeOK /\ RebuildTypeOK /\ AttritionTypeOK /\ RiskTypeOK /\ ViewTypeOK
  /\ JwksTypeOK
==============================================================================
