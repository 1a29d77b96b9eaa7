------------------------------- MODULE MCStream -------------------------------
(* Two requests for one worker thread: a run of two progress reports and one *)
(* of fewer than 100 iterations.                                             *)
EXTENDS SimulationStream

MCRequest == {"long", "short"}
MCBlocks == [long |-> 2, short |-> 0]
==============================================================================
