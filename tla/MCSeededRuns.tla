----------------------------- MODULE MCSeededRuns -----------------------------
(* Teams of up to three engineers, and two pairs that may collaborate.         *)
EXTENDS SeededRuns

CONSTANTS e1, e2, e3

MCEngineer == {e1, e2, e3}
MCLink == {<<e1, "reviews", e2>>, <<e2, "reviews", e3>>}
==============================================================================
