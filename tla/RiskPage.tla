------------------------------- MODULE RiskPage -------------------------------
(***************************************************************************)
(* The risk page (apps/web/app/risk/page.tsx): the analysis of the selected *)
(* team, asked for again whenever another team is selected. No request is   *)
(* cancelled, so answers may come in any order, and the first to settle     *)
(* ends the loading state of all.                                          *)
(***************************************************************************)
EXTENDS WebClient, Naturals

CONSTANT MaxAsked   \* bound: analyses of one team in flight

ASSUME RiskAssumption == MaxAsked \in Nat \ {0}

VARIABLES
  offered,    \* the teams are known
  selected,   \* selectedTeam
  risk,       \* the team the analysis shown is of
  loading,
  riskError,
  pending,    \* pending[t]: analyses of t in flight
  overtaken   \* history: an earlier request settled during the latest one

riskVars == <<offered, selected, risk, loading, riskError, pending, overtaken>>

RiskTypeOK ==
  /\ offered \in BOOLEAN
  /\ selected \in Team \cup {Nobody} /\ risk \in Team \cup {Nobody}
  /\ loading \in BOOLEAN /\ riskError \in BOOLEAN
  /\ pending \in [Team -> 0..MaxAsked]
  /\ overtaken \in BOOLEAN
  /\ loading => \E t \in Team : pending[t] > 0

RiskInit ==
  /\ offered = FALSE
  /\ selected = Nobody /\ risk = Nobody
  /\ loading = FALSE /\ riskError = FALSE
  /\ pending = [t \in Team |-> 0]
  /\ overtaken = FALSE

\* setSelectedTeam, and the effect if it is another team
Select(t) ==
  /\ t # selected /\ pending[t] < MaxAsked
  /\ selected' = t
  /\ loading' = TRUE /\ riskError' = FALSE
  /\ pending' = [pending EXCEPT ![t] = @ + 1]
  /\ overtaken' = \E u \in Team : pending[u] > 0
  /\ UNCHANGED risk

\* The effect of the first rendering: the teams arrive, and the first is
\* selected, or they do not.
Offer ==
  /\ ~offered /\ ~riskError
  /\ \/ offered' = TRUE /\ Select(FirstTeam)
     \/ riskError' = TRUE /\ UNCHANGED <<offered, selected, risk, loading, pending, overtaken>>

ChooseTeam(t) == offered /\ Select(t) /\ UNCHANGED offered

\* Variant: a failure is not said.
Failure == UNCHANGED <<risk, riskError>>

\* setError: the analysis shown before stays.
Refusal == riskError' = TRUE /\ UNCHANGED risk

Settle(t) ==
  /\ pending[t] > 0
  /\ pending' = [pending EXCEPT ![t] = @ - 1]
  /\ \/ risk' = t /\ UNCHANGED riskError
     \/ Refusal
  /\ loading' = FALSE
  /\ UNCHANGED <<offered, selected, overtaken>>

RiskNext == Offer \/ \E t \in Team : ChooseTeam(t) \/ Settle(t)

RiskSpec == RiskInit /\ [][RiskNext]_riskVars

------------------------------------------------------------------------------

\* What the page renders under the selected tab.
ShownRisk == IF ~loading THEN risk ELSE Nobody

\* The analysis under a tab is of that team, unless the page says that something
\* failed or the team was selected while another analysis was in flight: then an
\* earlier answer may end the loading state, or come last and stay.
RiskIsSelected ==
  ~riskError /\ ~overtaken => ShownRisk \in {selected, Nobody}
==============================================================================
