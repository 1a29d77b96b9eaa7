-------------------------------- MODULE MCGraph --------------------------------
(* Two engineers, one seeded edge and one that only telemetry writes.          *)
EXTENDS AdminConsole, TLC

CONSTANTS a, b, r1, r2, r3, c1, c2

MCSeedOrder == <<a, b>>
MCSeedEdges == <<[edge |-> <<a, "reviews", b>>, weight |-> 2]>>
MCEdge == {<<a, "reviews", b>>, <<b, "reviews", a>>}
MCRequest == {r1, r2, r3}
MCReset == {c1, c2}
\* Bound: one failure, a statement or a fetch.
OneFailure == faults + lost <= 1
Symmetric == Permutations(MCRequest) \cup Permutations(MCReset)
==============================================================================
