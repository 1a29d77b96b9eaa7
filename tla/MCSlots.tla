------------------------------- MODULE MCSlots -------------------------------
(* A small simulator page: two slots, two teams. *)
EXTENDS SimulatorSlots

CONSTANTS A, B

MCSlot == {A, B}
MCTeam == {"core", "data"}
==============================================================================
