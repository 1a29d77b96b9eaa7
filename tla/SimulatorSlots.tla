---------------------------- MODULE SimulatorSlots ----------------------------
(***************************************************************************)
(* The simulator page of the web client: a team selector that loads graph  *)
(* snapshots, and two candidate slots, each with a staged card, the store's *)
(* slot state and the server-sent-event streams that were started for it.  *)
(*                                                                         *)
(* JavaScript runs one handler at a time, so a user gesture, a settled load *)
(* and a stream event are one step each; they interleave freely.           *)
(* Candidates, streams and loads are numbered in order of creation, 0 is   *)
(* none. A stream stands for what it was started with: its slot, candidate *)
(* and team. A slot's progress and result are the stream they came from.   *)
(* Left out: names, skills, node coordinates, error texts, hovering.       *)
(***************************************************************************)
EXTENDS Naturals, Sequences, FiniteSets

CONSTANTS
  Slot,           \* the slots, A and B
  Team,           \* the teams of the selector
  FirstTeam,      \* the one selected when the page opens
  NoTeam,         \* no snapshot yet
  HistoryLimit,   \* completed results kept (10 in the store)
  MaxCandidates,  \* bound: candidates staged from the form
  MaxStreams,     \* bound: simulations started
  MaxLoads        \* bound: team graphs loaded

ASSUME ConstantsAssumption ==
  /\ FirstTeam \in Team /\ NoTeam \notin Team
  /\ HistoryLimit \in Nat \ {0}
  /\ MaxCandidates \in Nat /\ MaxStreams \in Nat /\ MaxLoads \in Nat

VARIABLES
  selectedTeam,   \* the selector's value
  snapshot,       \* the team whose snapshot the graph store holds, or NoTeam
  loads,          \* loads[l]: team asked for, and whether it is still pending
  loading,        \* isLoadingGraph: the canvas is replaced by a placeholder
  minted,         \* candidates made by the form so far
  staged,         \* staged[s]: candidate on the card of s
  overlay,        \* overlay[s]: candidate node drawn over the graph
  slots,          \* the simulation store's two slots
  streams,        \* every stream started, oldest first
  history,        \* completed results, newest first
  overlapped,     \* history: s was restaged over an open stream, or an earlier
                  \* stream's connection broke while s had another one open
  missed          \* history: a load failed, or two were pending at once

page == <<selectedTeam, snapshot, loads, loading, missed>>
vars == <<selectedTeam, snapshot, loads, loading, minted, staged, overlay,
          slots, streams, history, overlapped, missed>>

Status == {"idle", "running", "complete", "error"}

EmptySlot == [cand |-> 0, status |-> "idle", progress |-> 0, result |-> 0,
              ctrl |-> 0]

TypeOK ==
  /\ selectedTeam \in Team
  /\ snapshot \in Team \cup {NoTeam}
  /\ loads \in Seq([team : Team, pending : BOOLEAN])
  /\ loading \in BOOLEAN
  /\ minted \in 0..MaxCandidates
  /\ staged \in [Slot -> 0..minted]
  /\ overlay \in [Slot -> 0..minted]
  /\ streams \in Seq([slot : Slot, cand : 1..minted, team : Team,
                      state : {"open", "tail", "ended", "aborted"}])
  /\ slots \in [Slot -> [cand : 0..minted, status : Status,
                         progress : 0..Len(streams), result : 0..Len(streams),
                         ctrl : 0..Len(streams)]]
  /\ history \in Seq(1..Len(streams)) /\ Len(history) <= HistoryLimit
  /\ overlapped \in [Slot -> BOOLEAN]
  /\ missed \in BOOLEAN

\* The page has just mounted: its effect is loading the first team.
Init ==
  /\ selectedTeam = FirstTeam
  /\ snapshot = NoTeam
  /\ loads = << [team |-> FirstTeam, pending |-> TRUE] >>
  /\ loading = TRUE
  /\ minted = 0
  /\ staged = [s \in Slot |-> 0]
  /\ overlay = [s \in Slot |-> 0]
  /\ slots = [s \in Slot |-> EmptySlot]
  /\ streams = <<>>
  /\ history = <<>>
  /\ overlapped = [s \in Slot |-> FALSE]
  /\ missed = FALSE

------------------------------------------------------------------------------
(* The simulation store *)

Open(s) == {i \in DOMAIN streams : streams[i].slot = s /\ streams[i].state = "open"}

Update(s, slot) == slots' = [slots EXCEPT ![s] = slot]

\* Staging replaces the candidate and goes back to idle; the old result, the
\* progress and the controller of a running stream stay.
Staged(slot, c) == [slot EXCEPT !.cand = c, !.status = "idle"]

\* Variant: the controller is not kept.
StartedUncontrolled(slot, i) ==
  [slot EXCEPT !.status = "running", !.progress = 0, !.result = 0, !.ctrl = 0]

\* A start takes the controller's place without aborting the one before.
Started(slot, i) ==
  [slot EXCEPT !.status = "running", !.progress = 0, !.result = 0, !.ctrl = i]

\* setSlotResult and setSlotError, whichever stream calls them: the controller
\* is dropped, be it that stream's own or another's.
Completed(slot, i) ==
  [slot EXCEPT !.status = "complete", !.progress = i, !.result = i, !.ctrl = 0]

\* Variant: an error leaves the slot running.
FailedSilently(slot) == [slot EXCEPT !.ctrl = 0]

Failed(slot) == [slot EXCEPT !.status = "error", !.ctrl = 0]

\* Variant: clearing does not abort.
AbortNothing(S) == streams

\* clearSlot and resetAll abort the stream each slot of S holds a controller
\* of; the others go on.
AbortControlled(S) ==
  [i \in DOMAIN streams |->
     IF streams[i].state \in {"open", "tail"} /\ \E s \in S : slots[s].ctrl = i
     THEN [streams[i] EXCEPT !.state = "aborted"]
     ELSE streams[i]]

\* Variant: a team load forgets the slots but not their state.
KeepSlots(S) == slots

ClearedSlots(S) == [s \in Slot |-> IF s \in S THEN EmptySlot ELSE slots[s]]

\* Clear everything slots S show: card, overlay node, store and stream.
Wipe(S) ==
  /\ streams' = AbortControlled(S)
  /\ slots' = ClearedSlots(S)
  /\ staged' = [s \in Slot |-> IF s \in S THEN 0 ELSE staged[s]]
  /\ overlay' = [s \in Slot |-> IF s \in S THEN 0 ELSE overlay[s]]
  /\ overlapped' = [s \in Slot |->
       overlapped[s] /\ (s \in S => \E i \in Open(s) : i # slots[s].ctrl)]

\* Variants: the newest result is not added, or the list is never cut.
HistoryKept(i) == history
HistoryUnlimited(i) == <<i>> \o history

HistoryWith(i) ==
  LET h == <<i>> \o history IN
  IF Len(h) > HistoryLimit THEN SubSeq(h, 1, HistoryLimit) ELSE h

\* A candidate is put on slot s.
StageCandidate(s, c) ==
  /\ Update(s, Staged(slots[s], c))
  /\ overlapped' = [overlapped EXCEPT ![s] = @ \/ Open(s) # {}]

------------------------------------------------------------------------------
(* The team selector *)

\* Choosing another team starts a load; earlier ones are not cancelled.
SelectTeam(t) ==
  /\ t # selectedTeam
  /\ Len(loads) < MaxLoads
  /\ selectedTeam' = t
  /\ loads' = Append(loads, [team |-> t, pending |-> TRUE])
  /\ loading' = TRUE
  /\ missed' = (missed \/ \E l \in DOMAIN loads : loads[l].pending)
  /\ UNCHANGED <<snapshot, minted, staged, overlay, slots, streams, history,
                 overlapped>>

Settled(l) ==
  /\ loads[l].pending
  /\ loads' = [loads EXCEPT ![l].pending = FALSE]
  /\ loading' = FALSE

\* A load answers, whichever team is selected by then: its snapshot is
\* shown, and everything staged or simulated is cleared.
LoadOk(l) ==
  /\ l \in DOMAIN loads /\ Settled(l)
  /\ snapshot' = loads[l].team
  /\ Wipe(Slot)
  /\ UNCHANGED <<selectedTeam, minted, history, missed>>

\* A load fails: only an error message.
LoadFail(l) ==
  /\ l \in DOMAIN loads /\ Settled(l)
  /\ missed' = TRUE
  /\ UNCHANGED <<selectedTeam, snapshot, minted, staged, overlay, slots,
                 streams, history, overlapped>>

------------------------------------------------------------------------------
(* The slots *)

\* The form, which is shown while no candidate is staged.
Stage(s) ==
  /\ staged[s] = 0
  /\ minted < MaxCandidates
  /\ minted' = minted + 1
  /\ staged' = [staged EXCEPT ![s] = minted']
  /\ StageCandidate(s, minted')
  /\ UNCHANGED <<page, overlay, streams, history>>

\* A card can be dragged while its slot is idle.
Draggable(s) == staged[s] # 0 /\ slots[s].status = "idle"

\* The card of slot from is dropped on slot s, whatever s is doing.
SlotDrop(from, s) ==
  /\ Draggable(from)
  /\ staged' = [staged EXCEPT ![s] = staged[from]]
  /\ StageCandidate(s, staged[from])
  /\ UNCHANGED <<page, minted, overlay, streams, history>>

\* The card of slot s is dropped on the canvas: the candidate is drawn,
\* staged, and a stream is started for the selected team.
CandidateDrop(s) ==
  LET c == staged[s] IN
  /\ Draggable(s)
  /\ ~loading
  /\ snapshot # NoTeam
  /\ Len(streams) < MaxStreams
  /\ overlay' = [overlay EXCEPT ![s] = c]
  /\ Update(s, Started(Staged(slots[s], c), Len(streams) + 1))
  /\ streams' = Append(streams, [slot |-> s, cand |-> c, team |-> selectedTeam,
                                 state |-> "open"])
  /\ overlapped' = [overlapped EXCEPT ![s] = @ \/ Open(s) # {}]
  /\ UNCHANGED <<page, minted, staged, history>>

\* The card's Clear button.
Clear(s) ==
  /\ staged[s] # 0
  /\ Wipe({s})
  /\ UNCHANGED <<page, minted, history>>

\* The Escape key, while a candidate is drawn.
Reset ==
  /\ \E s \in Slot : overlay[s] # 0
  /\ Wipe(Slot)
  /\ UNCHANGED <<page, minted, history>>

------------------------------------------------------------------------------
(* The streams: an aborted one raises AbortError, which writes nothing.      *)
(* The reader does not stop at a result or an error event. It reads on, in    *)
(* the stream's tail, until the server closes or the connection breaks.       *)

IsOpen(i) == i \in DOMAIN streams /\ streams[i].state = "open"
IsTail(i) == i \in DOMAIN streams /\ streams[i].state = "tail"

Becomes(i, state) == streams' = [streams EXCEPT ![i].state = state]

Progress(i) ==
  /\ IsOpen(i)
  /\ LET s == streams[i].slot IN Update(s, [slots[s] EXCEPT !.progress = i])
  /\ UNCHANGED <<page, minted, staged, overlay, streams, history, overlapped>>

Result(i) ==
  /\ IsOpen(i)
  /\ LET s == streams[i].slot IN Update(s, Completed(slots[s], i))
  /\ Becomes(i, "tail")
  /\ history' = HistoryWith(i)
  /\ UNCHANGED <<page, minted, staged, overlay, overlapped>>

ErrorEvent(i) ==
  /\ IsOpen(i)
  /\ LET s == streams[i].slot IN Update(s, Failed(slots[s]))
  /\ Becomes(i, "tail")
  /\ UNCHANGED <<page, minted, staged, overlay, history, overlapped>>

\* An HTTP status that is not ok, or a connection that breaks before the end.
Break(i) ==
  /\ IsOpen(i)
  /\ LET s == streams[i].slot IN Update(s, Failed(slots[s]))
  /\ Becomes(i, "ended")
  /\ UNCHANGED <<page, minted, staged, overlay, history, overlapped>>

\* The connection breaks after the last event: whatever the slot is by then
\* gets the error, and loses the controller of a newer stream.
BreakInTail(i) ==
  /\ IsTail(i)
  /\ LET s == streams[i].slot IN
       /\ Update(s, Failed(slots[s]))
       /\ overlapped' = [overlapped EXCEPT ![s] = @ \/ Open(s) # {}]
  /\ Becomes(i, "ended")
  /\ UNCHANGED <<page, minted, staged, overlay, history>>

\* The server closes, which it does only after the last event (EventStream).
Close(i) ==
  /\ IsTail(i)
  /\ Becomes(i, "ended")
  /\ UNCHANGED <<page, minted, staged, overlay, slots, history, overlapped>>

Stops(i) == Result(i) \/ ErrorEvent(i) \/ Break(i) \/ BreakInTail(i) \/ Close(i)

Next ==
  \/ \E t \in Team : SelectTeam(t)
  \/ \E l \in 1..MaxLoads : LoadOk(l) \/ LoadFail(l)
  \/ \E s \in Slot : Stage(s) \/ CandidateDrop(s) \/ Clear(s)
  \/ \E from, s \in Slot : SlotDrop(from, s)
  \/ Reset
  \/ \E i \in 1..MaxStreams : Progress(i) \/ Stops(i)

\* A fetch settles, and the server ends every stream with a result or an
\* error and closes it. The user owes nothing.
Fairness ==
  /\ \A l \in 1..MaxLoads : WF_vars(LoadOk(l) \/ LoadFail(l))
  /\ \A i \in 1..MaxStreams : WF_vars(Stops(i))

Spec == Init /\ [][Next]_vars /\ Fairness

------------------------------------------------------------------------------
(* Properties *)

\* What the page achieves without ever aborting a superseded stream: in a slot
\* that was not restaged over an open stream, and that no earlier stream of its
\* own failed after its last event while another one was open, the one open
\* stream is the one clearSlot and resetAll can abort, it runs for the slot's
\* candidate, the slot says running exactly while it is open, and progress and
\* result come from a stream of that candidate. Other streams may be in their
\* tails, which nothing can abort. (startSlot, clearSlot, resetAll,
\* setSlotResult and setSlotError of the store, run of useSimulationStream,
\* together with the drag guard of CandidateSlot.)
SlotOwnsItsStream ==
  \A s \in Slot : ~overlapped[s] =>
    /\ Open(s) = {slots[s].ctrl} \ {0}
    /\ (slots[s].status = "running") <=> Open(s) # {}
    /\ \A i \in Open(s) : streams[i].cand = slots[s].cand
    /\ slots[s].status = "complete" =>
         streams[slots[s].result].cand = slots[s].cand
    /\ slots[s].status \in {"running", "complete"} /\ slots[s].progress # 0 =>
         streams[slots[s].progress].cand = slots[s].cand

\* As long as no load failed and none overtook another, the page is about one
\* team: when nothing is loading the graph is the selected team's, and a
\* result shown beside it was simulated on that graph's team, in both slots
\* of a comparison. (The effect of SimulatorWorkspace.)
PageShowsOneTeam ==
  ~missed =>
    /\ (\A l \in DOMAIN loads : ~loads[l].pending) => snapshot = selectedTeam
    /\ \A s \in Slot : slots[s].status = "complete" /\ ~overlapped[s] =>
         streams[slots[s].result].team = snapshot

\* A result on display is in the session history, unless as many newer ones
\* as it holds have pushed it out; no result is there twice, in any order of
\* overlapping streams. (setSlotResult.)
HistoryIsFaithful ==
  /\ \A j, k \in DOMAIN history : history[j] = history[k] => j = k
  /\ \A s \in Slot : slots[s].status = "complete" =>
       (\E k \in DOMAIN history : history[k] = slots[s].result)
         \/ Len(history) = HistoryLimit

\* A slot does not say running for ever, and the placeholder goes away,
\* whichever gestures and restarts come in between.
NothingHangs ==
  /\ \A s \in Slot : []<>(slots[s].status # "running")
  /\ []<>~loading

\* The store's header says that each slot tracks its own stream and result.
SlotShowsOwnResult ==
  \A s \in Slot : slots[s].status = "complete" =>
    streams[slots[s].result].cand = slots[s].cand
==============================================================================
