----------------------------- MODULE MCCandidates -----------------------------
(* Three requests or DAG runs, one key with two candidate ids, one result.     *)
EXTENDS CandidateNodes, TLC

CONSTANTS r1, r2, r3, i1, i2

MCRequest == {r1, r2, r3}
MCId == {i1, i2}
Symmetric == Permutations(MCRequest) \cup Permutations(MCId)
==============================================================================
