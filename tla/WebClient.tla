------------------------------- MODULE WebClient -------------------------------
(* The teams the pages of the web client offer (GET /graph/teams).             *)
CONSTANTS
  Team,
  FirstTeam,   \* the first of the list
  Nobody       \* no team

ASSUME WebAssumption == FirstTeam \in Team /\ Nobody \notin Team
==============================================================================
