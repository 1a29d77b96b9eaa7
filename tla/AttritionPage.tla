----------------------------- MODULE AttritionPage -----------------------------
(***************************************************************************)
(* The attrition page (apps/web/app/attrition/page.tsx): pick a team, pick  *)
(* one of its engineers, ask what the team loses. No request is cancelled   *)
(* or compared with the selection when its answer comes. A list of engineers*)
(* is the team it was loaded for; an engineer is a team and a number.       *)
(***************************************************************************)
EXTENDS WebClient, Naturals

CONSTANTS
  Size,      \* engineers of each team
  MaxLists   \* bound: lists of engineers asked for and not answered

ASSUME AttritionAssumption == Size \in Nat \ {0} /\ MaxLists \in Nat \ {0}

VARIABLES
  teams,      \* the teams offered
  picked,     \* selectedTeam
  listed,     \* the team whose engineers are offered
  engineer,   \* selectedEng
  running,
  result,     \* the team and engineer the shown result is of
  error,
  lists,      \* lists[t]: requests for the engineers of t in flight
  asked,      \* the team and engineer of the analysis in flight
  astray,     \* history: the engineer was picked from the list of another team
  moved       \* history: the selection changed while the analysis ran

attritionVars == <<teams, picked, listed, engineer, running, result, error, lists, asked, astray, moved>>

Nothing == <<Nobody, 0>>
Subject == (Team \X (1..Size)) \cup {Nothing}
Question == [team : Team \cup {Nobody}, engineer : Subject]
NoQuestion == [team |-> Nobody, engineer |-> Nothing]

AttritionTypeOK ==
  /\ teams \subseteq Team
  /\ picked \in teams \cup {Nobody} /\ listed \in teams \cup {Nobody}
  /\ engineer \in Subject /\ (engineer # Nothing => picked # Nobody)
  /\ running \in BOOLEAN /\ error \in BOOLEAN
  /\ result \in Question /\ asked \in Question
  /\ lists \in [Team -> 0..MaxLists]
  /\ astray \in BOOLEAN /\ moved \in BOOLEAN
  /\ running <=> asked # NoQuestion

AttritionInit ==
  /\ teams = {} /\ picked = Nobody /\ listed = Nobody
  /\ engineer = Nothing
  /\ running = FALSE /\ error = FALSE
  /\ result = NoQuestion /\ asked = NoQuestion
  /\ lists = [t \in Team |-> 0]
  /\ astray = FALSE /\ moved = FALSE

\* The effect of the first rendering: the teams, or an error.
Teams ==
  /\ teams = {} /\ ~error
  /\ teams' = Team \/ teams' = {}
  /\ error' = (teams' = {})
  /\ UNCHANGED <<picked, listed, engineer, running, result, lists, asked, astray, moved>>

\* setSelectedTeam, and the effect that loads the engineers if it is another team
PickTeam(t) ==
  /\ t \in teams /\ t # picked /\ lists[t] < MaxLists
  /\ picked' = t
  /\ engineer' = Nothing /\ result' = NoQuestion /\ error' = FALSE
  /\ lists' = [lists EXCEPT ![t] = @ + 1]
  /\ astray' = FALSE /\ moved' = running
  /\ UNCHANGED <<teams, listed, running, asked>>

\* An answer replaces the list, whatever is selected by now. One that is not ok
\* leaves the list of the team before, and no error.
Listed(t) ==
  /\ lists[t] > 0
  /\ lists' = [lists EXCEPT ![t] = @ - 1]
  /\ \/ listed' = t /\ UNCHANGED error
     \/ UNCHANGED <<listed, error>>
     \/ error' = TRUE /\ UNCHANGED listed
  /\ UNCHANGED <<teams, picked, engineer, running, result, asked, astray, moved>>

\* Variant: the result stays beside the new selection.
PickedKeeping(n) == engineer' = <<listed, n>> /\ UNCHANGED result

Picked(n) == engineer' = <<listed, n>> /\ result' = NoQuestion

PickEngineer(n) ==
  /\ picked # Nobody /\ listed # Nobody
  /\ Picked(n)
  /\ astray' = (listed # picked)
  /\ moved' = (moved \/ (running /\ engineer' # engineer))
  /\ UNCHANGED <<teams, picked, listed, running, error, lists, asked>>

\* runAnalysis; the button is disabled while it runs.
Analyse ==
  /\ picked # Nobody /\ engineer # Nothing /\ ~running
  /\ running' = TRUE /\ result' = NoQuestion /\ error' = FALSE
  /\ asked' = [team |-> picked, engineer |-> engineer]
  /\ moved' = FALSE
  /\ UNCHANGED <<teams, picked, listed, engineer, lists, astray>>

\* POST /analysis/attrition answers 404 for an engineer who is not of the team.
Answered(q) == q.engineer[1] = q.team

Analysed ==
  /\ running
  /\ \/ Answered(asked) /\ result' = asked /\ UNCHANGED error
     \/ error' = TRUE /\ UNCHANGED result
  /\ running' = FALSE /\ asked' = NoQuestion
  /\ UNCHANGED <<teams, picked, listed, engineer, lists, astray, moved>>

AttritionNext ==
  \/ Teams \/ Analyse \/ Analysed
  \/ \E t \in Team : PickTeam(t) \/ Listed(t)
  \/ \E n \in 1..Size : PickEngineer(n)

AttritionSpec == AttritionInit /\ [][AttritionNext]_attritionVars

------------------------------------------------------------------------------

\* A result is shown only beside the team and the engineer it is of, and the
\* engineer is of that team: unless the selection changed while it was computed,
\* for the answer is shown whatever is selected when it comes, or the engineer
\* was picked from the list of another team, which a slow, a refused or an
\* overtaken request leaves on offer.
ResultOfSelection ==
  /\ result # NoQuestion /\ ~moved => result = [team |-> picked, engineer |-> engineer]
  /\ engineer # Nothing /\ ~astray => engineer[1] = picked
==============================================================================
