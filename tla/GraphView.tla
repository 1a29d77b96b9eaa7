------------------------------- MODULE GraphView -------------------------------
(***************************************************************************)
(* The graph store (lib/store/graph.ts) as the pages of one browser session  *)
(* share it. A team page (teams/[id], GraphLoader) puts the graph it was    *)
(* rendered with into the store; the simulator page loads the graph of its  *)
(* selector's team and draws candidates over it. Links do not reload the    *)
(* document: the store and the requests in flight outlive a page, its own   *)
(* state does not. SimulatorSlots has the rest of the simulator page. The   *)
(* snapshot selector is left out: it is given no snapshots and renders none. *)
(***************************************************************************)
EXTENDS WebClient, Naturals

CONSTANTS
  Slot,
  MaxOpened   \* bound: pages opened

ASSUME ViewAssumption == MaxOpened \in Nat

VARIABLES
  page,       \* the page, the team it is for, and its number
  stored,     \* the team whose graph the store holds
  drawn,      \* candidateNodes: the team each was dropped on
  awaited,    \* the loads in flight: team, and the number of their page
  graphLoading, \* isLoadingGraph of the page
  late        \* history: the page lost the graph it asked for, see Landed

viewVars == <<page, stored, drawn, awaited, graphLoading, late>>

Load == [team : Team, page : 0..MaxOpened]

ViewTypeOK ==
  /\ page \in [kind : {"none", "team", "simulate"}, team : Team \cup {Nobody}, number : 0..MaxOpened]
  /\ stored \in Team \cup {Nobody}
  /\ drawn \in [Slot -> Team \cup {Nobody}]
  /\ awaited \subseteq Load
  /\ graphLoading \in BOOLEAN /\ late \in BOOLEAN
  /\ graphLoading => page.kind = "simulate"

NoneDrawn == [s \in Slot |-> Nobody]

ViewInit ==
  /\ page = [kind |-> "none", team |-> Nobody, number |-> 0]
  /\ stored = Nobody /\ drawn = NoneDrawn
  /\ awaited = {}
  /\ graphLoading = FALSE /\ late = FALSE

Opened(kind, team) ==
  /\ page.number < MaxOpened
  /\ page' = [kind |-> kind, team |-> team, number |-> page.number + 1]

\* GraphLoader's effect; the candidates drawn on the simulator page stay.
OpenTeam(t) ==
  /\ Opened("team", t)
  /\ stored' = t
  /\ graphLoading' = FALSE /\ late' = FALSE
  /\ UNCHANGED <<drawn, awaited>>

\* The simulator page mounts and loads the first team; the store is what it was.
OpenSimulator ==
  /\ Opened("simulate", FirstTeam)
  /\ awaited' = awaited \cup {[team |-> FirstTeam, page |-> page.number + 1]}
  /\ graphLoading' = TRUE /\ late' = FALSE
  /\ UNCHANGED <<stored, drawn>>

SelectOther(t) ==
  /\ page.kind = "simulate" /\ t # page.team
  /\ page' = [page EXCEPT !.team = t]
  /\ awaited' = awaited \cup {[team |-> t, page |-> page.number]}
  /\ graphLoading' = TRUE
  /\ late' = \E l \in awaited : l.page = page.number
  /\ UNCHANGED <<stored, drawn>>

\* Variant: the candidates stay on the new graph.
LandedKeeping(l) == stored' = l.team /\ UNCHANGED drawn

\* setSnapshot and clearAllCandidates: on the store, whatever page is open.
Landed(l) == stored' = l.team /\ drawn' = NoneDrawn

\* A load settles. Only the page that began it learns that it is over.
SettleLoad(l) ==
  /\ l \in awaited
  /\ awaited' = awaited \ {l}
  /\ graphLoading' = (graphLoading /\ l.page # page.number)
  /\ \/ /\ Landed(l)
        /\ late' = (late \/ l.page # page.number)
     \/ /\ late' = (late \/ l.page = page.number)
        /\ UNCHANGED <<stored, drawn>>
  /\ UNCHANGED page

\* A candidate dropped on the canvas, which the placeholder replaces meanwhile.
Drop(s) ==
  /\ page.kind = "simulate" /\ ~graphLoading /\ stored # Nobody
  /\ drawn' = [drawn EXCEPT ![s] = stored]
  /\ UNCHANGED <<page, stored, awaited, graphLoading, late>>

\* Escape, or the slot's clear button
Clear(S) ==
  /\ page.kind = "simulate" /\ \E s \in S : drawn[s] # Nobody
  /\ drawn' = [s \in Slot |-> IF s \in S THEN Nobody ELSE drawn[s]]
  /\ UNCHANGED <<page, stored, awaited, graphLoading, late>>

ViewNext ==
  \/ OpenSimulator
  \/ \E t \in Team : OpenTeam(t) \/ SelectOther(t)
  \/ \E l \in awaited : SettleLoad(l)
  \/ \E s \in Slot : Drop(s)
  \/ \E S \in {{s} : s \in Slot} \cup {Slot} : Clear(S)

ViewSpec == ViewInit /\ [][ViewNext]_viewVars

------------------------------------------------------------------------------

\* activeCandidates of TeamGraph, which every page renders: mergedData draws
\* them over the graph of the store.
Overlay == {s \in Slot : drawn[s] # Nobody}

\* A page draws the graph of its team, and the simulator page the candidates that
\* were dropped on that graph: unless a load failed or a second one was begun,
\* or one that the simulator page began landed after the user had left it, which
\* replaces the graph of the page that is open. (On a team page, candidates of
\* another team's simulation are drawn as well: nothing clears them.)
GraphIsOfPage ==
  page.kind # "none" /\ ~graphLoading /\ ~late =>
    /\ stored = page.team
    /\ page.kind = "simulate" => \A s \in Overlay : drawn[s] = stored
==============================================================================
