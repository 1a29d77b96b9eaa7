----------------------------- MODULE Pages_proofs -----------------------------
(***************************************************************************)
(* Three pages of the web application, for any teams, team sizes, slots and *)
(* requests in flight: the attrition page shows a result beside its own     *)
(* team and engineer, the risk page the analysis of the selected team, and  *)
(* a graph page the graph of its own team.                                  *)
(***************************************************************************)
EXTENDS AttritionPage, RiskPage, GraphView, TLAPS

------------------------------------------------------------------------------
(* The attrition page *)

\* The analysis in flight is of the selection, unless that changed since.
AskedIsSelected == running /\ ~moved => asked = [team |-> picked, engineer |-> engineer]

\* Engineers are asked for of teams that are offered.
ListsOfTeams == \A t \in Team : lists[t] > 0 => t \in teams

AttritionIInv == AttritionTypeOK /\ AskedIsSelected /\ ListsOfTeams /\ ResultOfSelection

LEMMA QuestionType ==
  /\ NoQuestion \in Question
  /\ \A t \in Team, e \in Subject \ {Nothing} :
       [team |-> t, engineer |-> e] \in Question \ {NoQuestion}
BY WebAssumption DEF NoQuestion, Question, Subject, Nothing

LEMMA AttritionInitEstablishes == AttritionInit => AttritionIInv
<1> SUFFICES ASSUME AttritionInit PROVE AttritionIInv
  OBVIOUS
<1>1. AttritionTypeOK
  <2>1. lists \in [Team -> 0..MaxLists]
    BY AttritionAssumption DEF AttritionInit
  <2>2. running = FALSE /\ error = FALSE /\ astray = FALSE /\ moved = FALSE
    BY DEF AttritionInit
  <2>3. QED
    BY <2>1, <2>2, QuestionType DEF AttritionInit, AttritionTypeOK, Subject
<1>2. AskedIsSelected /\ ListsOfTeams /\ ResultOfSelection
  BY DEF AttritionInit, AskedIsSelected, ListsOfTeams, ResultOfSelection
<1>3. QED BY <1>1, <1>2 DEF AttritionIInv

LEMMA TeamsKeeps == AttritionIInv /\ Teams => AttritionIInv'
<1> SUFFICES ASSUME AttritionIInv, Teams PROVE AttritionIInv'
  OBVIOUS
<1>1. AttritionTypeOK'
  <2>1. error' \in BOOLEAN
    BY DEF Teams
  <2>2. QED BY <2>1 DEF AttritionIInv, AttritionTypeOK, Teams
<1>2. AskedIsSelected' /\ ListsOfTeams' /\ ResultOfSelection'
  BY DEF AttritionIInv, Teams, AskedIsSelected, ListsOfTeams, ResultOfSelection
<1>3. QED BY <1>1, <1>2 DEF AttritionIInv

\* Another team: no engineer, no result, and a running analysis is of the past.
LEMMA PickTeamKeeps ==
  ASSUME AttritionIInv, NEW t \in Team, PickTeam(t)
  PROVE  AttritionIInv'
<1>1. AttritionTypeOK'
  <2>1. lists' \in [Team -> 0..MaxLists]
    BY AttritionAssumption DEF AttritionIInv, AttritionTypeOK, PickTeam
  <2>2. moved' \in BOOLEAN /\ astray' \in BOOLEAN /\ error' \in BOOLEAN
    BY DEF AttritionIInv, AttritionTypeOK, PickTeam
  <2>3. QED
    BY <2>1, <2>2, QuestionType DEF AttritionIInv, AttritionTypeOK, PickTeam, Subject
<1>2. AskedIsSelected'
  BY DEF PickTeam, AskedIsSelected
<1>3. ListsOfTeams'
  BY DEF AttritionIInv, AttritionTypeOK, ListsOfTeams, PickTeam
<1>4. ResultOfSelection'
  BY DEF PickTeam, ResultOfSelection
<1>5. QED BY <1>1, <1>2, <1>3, <1>4 DEF AttritionIInv

LEMMA ListedKeeps ==
  ASSUME AttritionIInv, NEW t \in Team, Listed(t)
  PROVE  AttritionIInv'
<1>1. AttritionTypeOK'
  <2>1. lists' \in [Team -> 0..MaxLists]
    <3>1. lists[t] - 1 \in 0..MaxLists
      BY AttritionAssumption DEF AttritionIInv, AttritionTypeOK, Listed
    <3>2. QED BY <3>1 DEF AttritionIInv, AttritionTypeOK, Listed
  <2>2. listed' \in teams' \cup {Nobody}
    BY DEF AttritionIInv, AttritionTypeOK, ListsOfTeams, Listed
  <2>3. error' \in BOOLEAN
    BY DEF AttritionIInv, AttritionTypeOK, Listed
  <2>4. QED BY <2>1, <2>2, <2>3 DEF AttritionIInv, AttritionTypeOK, Listed
<1>2. ListsOfTeams'
  BY DEF AttritionIInv, AttritionTypeOK, ListsOfTeams, Listed
<1>3. AskedIsSelected' /\ ResultOfSelection'
  BY DEF AttritionIInv, Listed, AskedIsSelected, ResultOfSelection
<1>4. QED BY <1>1, <1>2, <1>3 DEF AttritionIInv

\* An engineer of the list on offer: of the team picked, unless it is astray.
LEMMA PickEngineerKeeps ==
  ASSUME AttritionIInv, NEW n \in 1..Size, PickEngineer(n)
  PROVE  AttritionIInv'
<1>1. AttritionTypeOK'
  <2>1. engineer' \in Subject
    BY DEF AttritionIInv, AttritionTypeOK, PickEngineer, Picked, Subject
  <2>2. moved' \in BOOLEAN /\ astray' \in BOOLEAN
    BY DEF AttritionIInv, AttritionTypeOK, PickEngineer
  <2>3. QED
    BY <2>1, <2>2, QuestionType DEF AttritionIInv, AttritionTypeOK, PickEngineer, Picked
<1>2. AskedIsSelected'
  BY DEF AttritionIInv, AttritionTypeOK, AskedIsSelected, PickEngineer
<1>3. ListsOfTeams'
  BY DEF AttritionIInv, ListsOfTeams, PickEngineer
<1>4. ResultOfSelection'
  BY DEF ResultOfSelection, PickEngineer, Picked
<1>5. QED BY <1>1, <1>2, <1>3, <1>4 DEF AttritionIInv

LEMMA AnalyseKeeps == AttritionIInv /\ Analyse => AttritionIInv'
<1> SUFFICES ASSUME AttritionIInv, Analyse PROVE AttritionIInv'
  OBVIOUS
<1>1. AttritionTypeOK'
  <2>1. asked' \in Question \ {NoQuestion}
    BY QuestionType DEF AttritionIInv, AttritionTypeOK, Analyse
  <2>2. running' = TRUE /\ error' = FALSE /\ moved' = FALSE
    BY DEF Analyse
  <2>3. QED BY <2>1, <2>2, QuestionType DEF AttritionIInv, AttritionTypeOK, Analyse
<1>2. AskedIsSelected' /\ ListsOfTeams' /\ ResultOfSelection'
  BY DEF AttritionIInv, Analyse, AskedIsSelected, ListsOfTeams, ResultOfSelection
<1>3. QED BY <1>1, <1>2 DEF AttritionIInv

\* The answer that is shown is of the question in flight.
LEMMA AnalysedKeeps == AttritionIInv /\ Analysed => AttritionIInv'
<1> SUFFICES ASSUME AttritionIInv, Analysed PROVE AttritionIInv'
  OBVIOUS
<1>1. AttritionTypeOK'
  <2>1. result' \in Question
    BY DEF AttritionIInv, AttritionTypeOK, Analysed
  <2>2. running' = FALSE /\ error' \in BOOLEAN
    BY DEF AttritionIInv, AttritionTypeOK, Analysed
  <2>3. QED BY <2>1, <2>2, QuestionType DEF AttritionIInv, AttritionTypeOK, Analysed
<1>2. AskedIsSelected' /\ ListsOfTeams'
  BY DEF AttritionIInv, Analysed, AskedIsSelected, ListsOfTeams
<1>3. ResultOfSelection'
  BY DEF AttritionIInv, Analysed, AskedIsSelected, ResultOfSelection
<1>4. QED BY <1>1, <1>2, <1>3 DEF AttritionIInv

LEMMA AttritionNextKeeps == AttritionIInv /\ [AttritionNext]_attritionVars => AttritionIInv'
<1> SUFFICES ASSUME AttritionIInv, [AttritionNext]_attritionVars PROVE AttritionIInv'
  OBVIOUS
<1>1. CASE Teams
  BY <1>1, TeamsKeeps
<1>2. CASE Analyse
  BY <1>2, AnalyseKeeps
<1>3. CASE Analysed
  BY <1>3, AnalysedKeeps
<1>4. ASSUME NEW t \in Team, PickTeam(t) PROVE AttritionIInv'
  BY <1>4, PickTeamKeeps
<1>5. ASSUME NEW t \in Team, Listed(t) PROVE AttritionIInv'
  BY <1>5, ListedKeeps
<1>6. ASSUME NEW n \in 1..Size, PickEngineer(n) PROVE AttritionIInv'
  BY <1>6, PickEngineerKeeps
<1>7. CASE UNCHANGED attritionVars
  BY <1>7 DEF attritionVars, AttritionIInv, AttritionTypeOK, AskedIsSelected, ListsOfTeams, ResultOfSelection
<1>8. QED BY <1>1, <1>2, <1>3, <1>4, <1>5, <1>6, <1>7 DEF AttritionNext

\* A result stands beside the team and the engineer it is of, outside the cases
\* that ResultOfSelection names.
THEOREM ResultIsOfSelection == AttritionSpec => []ResultOfSelection
<1>1. AttritionSpec => []AttritionIInv
  BY AttritionInitEstablishes, AttritionNextKeeps, PTL DEF AttritionSpec
<1>2. AttritionIInv => ResultOfSelection
  BY DEF AttritionIInv
<1>3. QED BY <1>1, <1>2, PTL

\* The state of the attrition page stays within its types.
THEOREM AttritionTypes == AttritionSpec => []AttritionTypeOK
<1>1. AttritionSpec => []AttritionIInv
  BY AttritionInitEstablishes, AttritionNextKeeps, PTL DEF AttritionSpec
<1>2. AttritionIInv => AttritionTypeOK
  BY DEF AttritionIInv
<1>3. QED BY <1>1, <1>2, PTL

------------------------------------------------------------------------------
(* The risk page *)

\* A team that was selected while nothing was in flight is the only one an
\* analysis of which is.
OnlyTheLatest == ~overtaken => \A t \in Team : pending[t] > 0 => t = selected

RiskIInv == RiskTypeOK /\ OnlyTheLatest /\ RiskIsSelected

LEMMA RiskInitEstablishes == RiskInit => RiskIInv
<1> SUFFICES ASSUME RiskInit PROVE RiskIInv
  OBVIOUS
<1>1. RiskTypeOK
  <2>1. pending \in [Team -> 0..MaxAsked]
    BY RiskAssumption DEF RiskInit
  <2>2. ~loading /\ loading \in BOOLEAN /\ offered \in BOOLEAN /\ riskError \in BOOLEAN /\ overtaken \in BOOLEAN
    BY DEF RiskInit
  <2>3. QED BY <2>1, <2>2 DEF RiskInit, RiskTypeOK
<1>2. OnlyTheLatest
  BY DEF RiskInit, OnlyTheLatest
<1>3. RiskIsSelected
  BY DEF RiskInit, RiskIsSelected, ShownRisk
<1>4. QED BY <1>1, <1>2, <1>3 DEF RiskIInv

\* Selecting a team starts the loading state: nothing is shown until an answer.
LEMMA SelectKeeps ==
  ASSUME RiskIInv, NEW t \in Team, Select(t), offered' \in BOOLEAN
  PROVE  RiskIInv'
<1>1. RiskTypeOK'
  <2>1. pending' \in [Team -> 0..MaxAsked]
    BY RiskAssumption DEF RiskIInv, RiskTypeOK, Select
  <2>2. pending'[t] > 0
    BY RiskAssumption DEF RiskIInv, RiskTypeOK, Select
  <2>3. QED BY <2>1, <2>2 DEF RiskIInv, RiskTypeOK, Select
<1>2. OnlyTheLatest'
  <2>1. SUFFICES ASSUME ~overtaken', NEW u \in Team, pending'[u] > 0
                 PROVE  u = t
    BY DEF OnlyTheLatest, Select
  <2>2. ~(pending[u] > 0)
    BY <2>1 DEF Select
  <2>3. QED BY <2>1, <2>2 DEF Select, RiskIInv, RiskTypeOK
<1>3. RiskIsSelected'
  BY DEF Select, RiskIsSelected, ShownRisk
<1>4. QED BY <1>1, <1>2, <1>3 DEF RiskIInv

\* The answer that settles is of the selected team, unless it was overtaken.
LEMMA SettleKeeps ==
  ASSUME RiskIInv, NEW t \in Team, Settle(t)
  PROVE  RiskIInv'
<1>1. RiskTypeOK'
  <2>1. pending' \in [Team -> 0..MaxAsked]
    <3>1. pending[t] - 1 \in 0..MaxAsked
      BY RiskAssumption DEF RiskIInv, RiskTypeOK, Settle
    <3>2. QED BY <3>1 DEF RiskIInv, RiskTypeOK, Settle
  <2>2. QED BY <2>1 DEF RiskIInv, RiskTypeOK, Settle, Refusal
<1>2. OnlyTheLatest'
  BY DEF RiskIInv, RiskTypeOK, OnlyTheLatest, Settle
<1>3. RiskIsSelected'
  BY DEF RiskIInv, OnlyTheLatest, RiskIsSelected, ShownRisk, Settle, Refusal
<1>4. QED BY <1>1, <1>2, <1>3 DEF RiskIInv

\* Teams that cannot be read leave the page empty, with an error.
LEMMA RiskNextKeeps == RiskIInv /\ [RiskNext]_riskVars => RiskIInv'
<1> SUFFICES ASSUME RiskIInv, [RiskNext]_riskVars PROVE RiskIInv'
  OBVIOUS
<1>1. CASE Offer
  <2>1. CASE offered' = TRUE /\ Select(FirstTeam)
    BY <2>1, SelectKeeps, WebAssumption
  <2>2. CASE riskError' = TRUE /\ UNCHANGED <<offered, selected, risk, loading, pending, overtaken>>
    BY <2>2 DEF RiskIInv, RiskTypeOK, OnlyTheLatest, RiskIsSelected
  <2>3. QED BY <1>1, <2>1, <2>2 DEF Offer
<1>2. ASSUME NEW t \in Team, ChooseTeam(t) PROVE RiskIInv'
  BY <1>2, SelectKeeps DEF ChooseTeam, RiskIInv, RiskTypeOK
<1>3. ASSUME NEW t \in Team, Settle(t) PROVE RiskIInv'
  BY <1>3, SettleKeeps
<1>4. CASE UNCHANGED riskVars
  BY <1>4 DEF riskVars, RiskIInv, RiskTypeOK, OnlyTheLatest, RiskIsSelected, ShownRisk
<1>5. QED BY <1>1, <1>2, <1>3, <1>4 DEF RiskNext

\* The page never shows an analysis of a team that is not selected, outside the
\* two cases that RiskIsSelected names.
THEOREM RiskShownIsSelected == RiskSpec => []RiskIsSelected
<1>1. RiskSpec => []RiskIInv
  BY RiskInitEstablishes, RiskNextKeeps, PTL DEF RiskSpec
<1>2. RiskIInv => RiskIsSelected
  BY DEF RiskIInv
<1>3. QED BY <1>1, <1>2, PTL

\* The state of the risk page stays within its types.
THEOREM RiskTypes == RiskSpec => []RiskTypeOK
<1>1. RiskSpec => []RiskIInv
  BY RiskInitEstablishes, RiskNextKeeps, PTL DEF RiskSpec
<1>2. RiskIInv => RiskTypeOK
  BY DEF RiskIInv
<1>3. QED BY <1>1, <1>2, PTL

------------------------------------------------------------------------------
(* The graph pages *)

\* A load is of a page that has been opened, and a team page begins none.
LoadsAreOfPages ==
  \A l \in awaited : l.page <= page.number /\ (page.kind # "simulate" => l.page < page.number)

\* Unless one failed or a second was begun, the page awaits its own team only.
OwnLoad ==
  page.kind = "simulate" /\ ~late => \A l \in awaited : l.page = page.number => l.team = page.team

ViewIInv == ViewTypeOK /\ LoadsAreOfPages /\ OwnLoad /\ GraphIsOfPage

LEMMA ViewInitEstablishes == ViewInit => ViewIInv
<1> SUFFICES ASSUME ViewInit PROVE ViewIInv
  OBVIOUS
<1>1. ViewTypeOK
  <2>1. drawn \in [Slot -> Team \cup {Nobody}]
    BY DEF ViewInit, NoneDrawn
  <2>2. graphLoading = FALSE /\ late = FALSE
    BY DEF ViewInit
  <2>3. page \in [kind : {"none", "team", "simulate"}, team : Team \cup {Nobody}, number : 0..MaxOpened]
    BY ViewAssumption DEF ViewInit
  <2>4. QED BY <2>1, <2>2, <2>3 DEF ViewInit, ViewTypeOK
<1>2. LoadsAreOfPages /\ OwnLoad /\ GraphIsOfPage
  BY DEF ViewInit, LoadsAreOfPages, OwnLoad, GraphIsOfPage
<1>3. QED BY <1>1, <1>2 DEF ViewIInv

LEMMA OpenTeamKeeps ==
  ASSUME ViewIInv, NEW t \in Team, OpenTeam(t)
  PROVE  ViewIInv'
<1>1. /\ page' = [kind |-> "team", team |-> t, number |-> page.number + 1]
      /\ page.number \in 0..MaxOpened /\ page.number + 1 \in 0..MaxOpened
  BY ViewAssumption DEF ViewIInv, ViewTypeOK, OpenTeam, Opened
<1>2. ViewTypeOK'
  <2>1. graphLoading' = FALSE /\ late' = FALSE
    BY DEF OpenTeam
  <2>2. QED BY <1>1, <2>1 DEF ViewIInv, ViewTypeOK, OpenTeam
<1>3. LoadsAreOfPages'
  BY <1>1 DEF ViewIInv, ViewTypeOK, Load, LoadsAreOfPages, OpenTeam
<1>4. OwnLoad' /\ GraphIsOfPage'
  BY <1>1 DEF OpenTeam, OwnLoad, GraphIsOfPage
<1>5. QED BY <1>2, <1>3, <1>4 DEF ViewIInv

\* A new page awaits the one load it begins.
LEMMA OpenSimulatorKeeps == ViewIInv /\ OpenSimulator => ViewIInv'
<1> SUFFICES ASSUME ViewIInv, OpenSimulator PROVE ViewIInv'
  OBVIOUS
<1>1. /\ page' = [kind |-> "simulate", team |-> FirstTeam, number |-> page.number + 1]
      /\ page.number \in 0..MaxOpened /\ page.number + 1 \in 0..MaxOpened
  BY ViewAssumption DEF ViewIInv, ViewTypeOK, OpenSimulator, Opened
<1>2. ViewTypeOK'
  <2>1. graphLoading' = TRUE /\ late' = FALSE
    BY DEF OpenSimulator
  <2>2. awaited' \subseteq Load
    BY <1>1, WebAssumption DEF ViewIInv, ViewTypeOK, OpenSimulator, Load
  <2>3. QED BY <1>1, <2>1, <2>2, WebAssumption DEF ViewIInv, ViewTypeOK, OpenSimulator
<1>3. LoadsAreOfPages' /\ OwnLoad'
  BY <1>1 DEF ViewIInv, ViewTypeOK, Load, LoadsAreOfPages, OwnLoad, OpenSimulator
<1>4. GraphIsOfPage'
  BY DEF OpenSimulator, GraphIsOfPage
<1>5. QED BY <1>2, <1>3, <1>4 DEF ViewIInv

LEMMA SelectOtherKeeps ==
  ASSUME ViewIInv, NEW t \in Team, SelectOther(t)
  PROVE  ViewIInv'
<1>1. /\ page' = [page EXCEPT !.team = t]
      /\ page \in [kind : {"none", "team", "simulate"}, team : Team \cup {Nobody}, number : 0..MaxOpened]
      /\ page.kind = "simulate"
  BY DEF ViewIInv, ViewTypeOK, SelectOther
<1>2. page'.kind = "simulate" /\ page'.team = t /\ page'.number = page.number
  BY <1>1
<1>3. ViewTypeOK'
  <2>1. graphLoading' = TRUE /\ late' \in BOOLEAN
    BY DEF SelectOther
  <2>2. awaited' \subseteq Load
    BY <1>1 DEF ViewIInv, ViewTypeOK, SelectOther, Load
  <2>3. QED BY <1>1, <1>2, <2>1, <2>2 DEF ViewIInv, ViewTypeOK, SelectOther
<1>4. LoadsAreOfPages'
  BY <1>1, <1>2 DEF ViewIInv, LoadsAreOfPages, SelectOther
<1>5. OwnLoad'
  BY <1>1, <1>2 DEF OwnLoad, SelectOther
<1>6. GraphIsOfPage'
  BY DEF SelectOther, GraphIsOfPage
<1>7. QED BY <1>3, <1>4, <1>5, <1>6 DEF ViewIInv

\* A load that lands puts its own team's graph into the store, without candidates.
LEMMA SettleLoadKeeps ==
  ASSUME ViewIInv, NEW l \in awaited, SettleLoad(l)
  PROVE  ViewIInv'
<1>1. ViewTypeOK'
  <2>1. stored' \in Team \cup {Nobody} /\ drawn' \in [Slot -> Team \cup {Nobody}]
    BY DEF ViewIInv, ViewTypeOK, SettleLoad, Landed, NoneDrawn, Load
  <2>2. graphLoading' \in BOOLEAN /\ late' \in BOOLEAN /\ (graphLoading' => graphLoading)
    BY DEF ViewIInv, ViewTypeOK, SettleLoad
  <2>3. QED BY <2>1, <2>2 DEF ViewIInv, ViewTypeOK, SettleLoad
<1>2. LoadsAreOfPages'
  BY DEF ViewIInv, LoadsAreOfPages, SettleLoad
<1>3. late' = FALSE => late = FALSE
  BY DEF ViewIInv, ViewTypeOK, SettleLoad
<1>4. OwnLoad'
  BY <1>3 DEF ViewIInv, ViewTypeOK, OwnLoad, SettleLoad
<1>5. GraphIsOfPage'
  <2>1. SUFFICES ASSUME page.kind # "none", ~graphLoading', ~late'
                 PROVE  /\ stored' = page.team
                        /\ page.kind = "simulate" => \A s \in Slot : drawn'[s] # Nobody => drawn'[s] = stored'
    BY DEF GraphIsOfPage, Overlay, SettleLoad
  <2>2. CASE l.page = page.number
    <3>1. page.kind = "simulate" /\ l.team = page.team
      BY <1>3, <2>1, <2>2 DEF ViewIInv, ViewTypeOK, Load, LoadsAreOfPages, OwnLoad
    <3>2. Landed(l)
      BY <2>1, <2>2 DEF SettleLoad
    <3>3. QED BY <3>1, <3>2 DEF Landed, NoneDrawn
  <2>3. CASE l.page # page.number
    <3>1. UNCHANGED <<stored, drawn>> /\ ~late /\ ~graphLoading
      BY <1>3, <2>1, <2>3 DEF SettleLoad, ViewIInv, ViewTypeOK
    <3>2. QED BY <2>1, <3>1 DEF ViewIInv, GraphIsOfPage, Overlay
  <2>4. QED BY <2>2, <2>3
<1>6. QED BY <1>1, <1>2, <1>4, <1>5 DEF ViewIInv

LEMMA DropKeeps ==
  ASSUME ViewIInv, NEW s \in Slot, Drop(s)
  PROVE  ViewIInv'
<1>1. ViewTypeOK'
  BY DEF ViewIInv, ViewTypeOK, Drop
<1>2. LoadsAreOfPages' /\ OwnLoad'
  BY DEF ViewIInv, LoadsAreOfPages, OwnLoad, Drop
<1>3. GraphIsOfPage'
  BY DEF ViewIInv, ViewTypeOK, GraphIsOfPage, Overlay, Drop
<1>4. QED BY <1>1, <1>2, <1>3 DEF ViewIInv

LEMMA ClearKeeps ==
  ASSUME ViewIInv, NEW S, Clear(S)
  PROVE  ViewIInv'
<1>1. ViewTypeOK'
  BY DEF ViewIInv, ViewTypeOK, Clear
<1>2. LoadsAreOfPages' /\ OwnLoad'
  BY DEF ViewIInv, LoadsAreOfPages, OwnLoad, Clear
<1>3. GraphIsOfPage'
  BY DEF ViewIInv, ViewTypeOK, GraphIsOfPage, Overlay, Clear
<1>4. QED BY <1>1, <1>2, <1>3 DEF ViewIInv

LEMMA ViewNextKeeps == ViewIInv /\ [ViewNext]_viewVars => ViewIInv'
<1> SUFFICES ASSUME ViewIInv, [ViewNext]_viewVars PROVE ViewIInv'
  OBVIOUS
<1>1. CASE OpenSimulator
  BY <1>1, OpenSimulatorKeeps
<1>2. ASSUME NEW t \in Team, OpenTeam(t) PROVE ViewIInv'
  BY <1>2, OpenTeamKeeps
<1>3. ASSUME NEW t \in Team, SelectOther(t) PROVE ViewIInv'
  BY <1>3, SelectOtherKeeps
<1>4. ASSUME NEW l \in awaited, SettleLoad(l) PROVE ViewIInv'
  BY <1>4, SettleLoadKeeps
<1>5. ASSUME NEW s \in Slot, Drop(s) PROVE ViewIInv'
  BY <1>5, DropKeeps
<1>6. ASSUME NEW S, Clear(S) PROVE ViewIInv'
  BY <1>6, ClearKeeps
<1>7. CASE UNCHANGED viewVars
  BY <1>7 DEF viewVars, ViewIInv, ViewTypeOK, LoadsAreOfPages, OwnLoad, GraphIsOfPage, Overlay
<1>8. QED BY <1>1, <1>2, <1>3, <1>4, <1>5, <1>6, <1>7 DEF ViewNext

\* A page draws the graph of its team, and over it only candidates that were
\* dropped on that graph, outside the cases that GraphIsOfPage names.
THEOREM GraphDrawnIsOfPage == ViewSpec => []GraphIsOfPage
<1>1. ViewSpec => []ViewIInv
  BY ViewInitEstablishes, ViewNextKeeps, PTL DEF ViewSpec
<1>2. ViewIInv => GraphIsOfPage
  BY DEF ViewIInv
<1>3. QED BY <1>1, <1>2, PTL

\* The state of the graph pages stays within its types.
THEOREM ViewTypes == ViewSpec => []ViewTypeOK
<1>1. ViewSpec => []ViewIInv
  BY ViewInitEstablishes, ViewNextKeeps, PTL DEF ViewSpec
<1>2. ViewIInv => ViewTypeOK
  BY DEF ViewIInv
<1>3. QED BY <1>1, <1>2, PTL
==============================================================================
