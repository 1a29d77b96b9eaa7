------------------------- MODULE SimulatorSlots_proofs -------------------------
(***************************************************************************)
(* What holds of the simulator page for any slots, teams, history limit and *)
(* numbers of candidates, streams and loads.                                *)
(***************************************************************************)
EXTENDS SimulatorSlots, SequenceTheorems, TLAPS

StreamType == [slot : Slot, cand : 1..minted, team : Team, state : {"open", "tail", "ended", "aborted"}]
SlotType ==
  [cand : 0..minted, status : Status, progress : 0..Len(streams), result : 0..Len(streams),
   ctrl : 0..Len(streams)]

\* What the store and the streams are, apart from the loads.
StoreTypes ==
  /\ minted \in 0..MaxCandidates
  /\ staged \in [Slot -> 0..minted]
  /\ overlay \in [Slot -> 0..minted]
  /\ streams \in Seq(StreamType)
  /\ slots \in [Slot -> SlotType]
  /\ overlapped \in [Slot -> BOOLEAN]

PageTypes ==
  /\ selectedTeam \in Team
  /\ snapshot \in Team \cup {NoTeam}
  /\ loads \in Seq([team : Team, pending : BOOLEAN])
  /\ loading \in BOOLEAN
  /\ missed \in BOOLEAN

HistoryTypes == history \in Seq(1..Len(streams)) /\ Len(history) <= HistoryLimit

------------------------------------------------------------------------------
(* The inductive invariant *)

\* A controller is that of an open stream of its slot.
Controlled ==
  \A s \in Slot : slots[s].ctrl # 0 =>
    streams[slots[s].ctrl].slot = s /\ streams[slots[s].ctrl].state = "open"

ResultsExist == \A s \in Slot : slots[s].status = "complete" => slots[s].result # 0

\* While no load was missed, the one that is pending is the selected team's, and
\* the streams of a slot that was not restaged are about the graph on screen.
OneTeam ==
  ~missed =>
    /\ \A l \in DOMAIN loads : loads[l].pending => loads[l].team = selectedTeam
    /\ \A k, l \in DOMAIN loads : loads[k].pending /\ loads[l].pending => k = l
    /\ (\E l \in DOMAIN loads : loads[l].pending) => loading
    /\ \A s \in Slot : ~overlapped[s] => \A i \in Open(s) : streams[i].team = snapshot

\* A stream in the history has had its last event.
Past == \A k \in DOMAIN history : streams[history[k]].state # "open"

IInv ==
  /\ StoreTypes /\ PageTypes /\ HistoryTypes
  /\ Controlled /\ ResultsExist /\ OneTeam /\ Past
  /\ SlotOwnsItsStream /\ PageShowsOneTeam /\ HistoryIsFaithful

LEMMA TypesAreTypes == IInv => TypeOK
BY DEF IInv, StoreTypes, PageTypes, HistoryTypes, StreamType, SlotType, TypeOK

LEMMA Streams ==
  ASSUME StoreTypes
  PROVE  /\ Len(streams) \in Nat /\ DOMAIN streams = 1..Len(streams)
         /\ \A i \in DOMAIN streams : streams[i] \in StreamType
         /\ minted \in Nat
<1>1. streams \in Seq(StreamType)
  BY DEF StoreTypes
<1>2. minted \in Nat
  BY ConstantsAssumption DEF StoreTypes
<1>3. QED BY <1>1, <1>2, LenProperties, ElementOfSeq

\* What a new result does to the history.
LEMMA HistoryGrows ==
  ASSUME NEW n \in Nat, history \in Seq(1..n), Len(history) <= HistoryLimit, NEW i \in 1..n
  PROVE  /\ HistoryWith(i) \in Seq(1..n)
         /\ Len(HistoryWith(i)) = IF Len(history) = HistoryLimit THEN HistoryLimit ELSE Len(history) + 1
         /\ HistoryWith(i)[1] = i
         /\ \A k \in 2..Len(HistoryWith(i)) : k - 1 \in 1..Len(history) /\ HistoryWith(i)[k] = history[k - 1]
<1> DEFINE h == <<i>> \o history
<1>1. <<i>> \in Seq(1..n) /\ Len(<<i>>) = 1 /\ <<i>>[1] = i
  OBVIOUS
<1>2. Len(history) \in Nat /\ HistoryLimit \in Nat \ {0}
  BY ConstantsAssumption, LenProperties
<1>3. /\ h \in Seq(1..n) /\ Len(h) = Len(history) + 1
      /\ \A k \in 1..Len(h) : h[k] = IF k <= 1 THEN <<i>>[k] ELSE history[k - 1]
  BY <1>1, <1>2, ConcatProperties
<1>4. h[1] = i /\ \A k \in 2..Len(h) : h[k] = history[k - 1]
  BY <1>1, <1>2, <1>3
<1> HIDE DEF h
<1>5. CASE Len(h) > HistoryLimit
  <2>1. HistoryWith(i) = SubSeq(h, 1, HistoryLimit)
    BY <1>5 DEF HistoryWith, h
  <2>2. \A k \in 1..HistoryLimit : h[k] \in 1..n
    BY <1>2, <1>3, <1>5, ElementOfSeq
  <2>3. /\ SubSeq(h, 1, HistoryLimit) \in Seq(1..n)
        /\ Len(SubSeq(h, 1, HistoryLimit)) = HistoryLimit
        /\ \A k \in 1..HistoryLimit : SubSeq(h, 1, HistoryLimit)[k] = h[k]
    BY <1>2, <2>2, SubSeqProperties
  <2>4. Len(history) = HistoryLimit
    BY <1>2, <1>3, <1>5
  <2>5. QED BY <1>2, <1>3, <1>4, <2>1, <2>3, <2>4
<1>6. CASE ~(Len(h) > HistoryLimit)
  <2>1. HistoryWith(i) = h
    BY <1>6 DEF HistoryWith, h
  <2>2. QED BY <1>2, <1>3, <1>4, <1>6, <2>1
<1>7. QED BY <1>5, <1>6

------------------------------------------------------------------------------
(* The steps *)

\* A candidate is put on a slot.
LEMMA Staging ==
  ASSUME IInv, NEW s \in Slot, NEW c \in 1..minted',
         minted' \in {minted, minted + 1}, minted' <= MaxCandidates,
         staged' = [staged EXCEPT ![s] = c], StageCandidate(s, c),
         UNCHANGED <<page, overlay, streams, history>>
  PROVE  IInv'
<1> USE DEF IInv
<1>1. /\ minted \in Nat /\ minted' \in Nat /\ minted <= minted' /\ minted' \in 0..MaxCandidates
      /\ Len(streams) \in Nat /\ DOMAIN streams = 1..Len(streams)
      /\ \A i \in DOMAIN streams : streams[i] \in StreamType
  BY Streams, ConstantsAssumption DEF StoreTypes
<1>2. /\ slots' = [slots EXCEPT ![s] = [slots[s] EXCEPT !.cand = c, !.status = "idle"]]
      /\ overlapped' = [overlapped EXCEPT ![s] = overlapped[s] \/ Open(s) # {}]
      /\ slots \in [Slot -> SlotType] /\ overlapped \in [Slot -> BOOLEAN]
  BY DEF StageCandidate, Update, Staged, StoreTypes
<1>3. UNCHANGED <<streams, history, page, overlay>>
  OBVIOUS
<1>4. /\ slots'[s].status = "idle" /\ slots'[s].cand = c /\ slots'[s].ctrl = slots[s].ctrl
      /\ \A u \in Slot \ {s} : slots'[u] = slots[u] /\ overlapped'[u] = overlapped[u]
      /\ overlapped'[s] = (overlapped[s] \/ Open(s) # {})
      /\ \A u \in Slot : slots'[u].ctrl = slots[u].ctrl
  BY <1>2 DEF SlotType
<1>5. \A u \in Slot : Open(u)' = Open(u)
  BY DEF Open
<1>6. StoreTypes'
  <2>1. streams' \in Seq(StreamType')
    <3>1. StreamType \subseteq StreamType'
      BY <1>1 DEF StreamType
    <3>2. QED BY <1>3, <3>1, <1>1, SeqMonotonic DEF StoreTypes
  <2>2. slots' \in [Slot -> SlotType']
    <3>1. SlotType \subseteq SlotType'
      BY <1>1, <1>3 DEF SlotType
    <3>2. [slots[s] EXCEPT !.cand = c, !.status = "idle"] \in SlotType'
      <4>1. slots[s] \in SlotType'
        BY <1>2, <3>1
      <4>2. c \in 0..minted' /\ "idle" \in Status
        BY <1>1 DEF Status
      <4>3. QED BY <4>1, <4>2 DEF SlotType
    <3>3. QED BY <1>2, <3>1, <3>2
  <2>3. staged' \in [Slot -> 0..minted'] /\ overlay' \in [Slot -> 0..minted']
    BY <1>1 DEF StoreTypes
  <2>4. overlapped' \in [Slot -> BOOLEAN]
    <3>1. (overlapped[s] \/ Open(s) # {}) \in BOOLEAN
      OBVIOUS
    <3>2. QED BY <1>2, <3>1
  <2>5. QED BY <1>1, <2>1, <2>2, <2>3, <2>4 DEF StoreTypes
<1>7. PageTypes' /\ HistoryTypes'
  BY DEF PageTypes, HistoryTypes, page
<1>8. Controlled' /\ ResultsExist' /\ Past'
  BY <1>3, <1>4 DEF Controlled, ResultsExist, Past
<1>9. OneTeam'
  <2>1. \A u \in Slot : ~overlapped'[u] => ~overlapped[u]
    BY <1>4
  <2>2. QED BY <1>5, <2>1 DEF OneTeam, page
<1>10. SlotOwnsItsStream'
  <2> SUFFICES ASSUME NEW u \in Slot, ~overlapped'[u]
               PROVE  /\ Open(u)' = {slots'[u].ctrl} \ {0}
                      /\ (slots'[u].status = "running") <=> Open(u)' # {}
                      /\ \A i \in Open(u)' : streams'[i].cand = slots'[u].cand
                      /\ slots'[u].status = "complete" =>
                           streams'[slots'[u].result].cand = slots'[u].cand
                      /\ slots'[u].status \in {"running", "complete"} /\ slots'[u].progress # 0 =>
                           streams'[slots'[u].progress].cand = slots'[u].cand
    BY DEF SlotOwnsItsStream
  <2>1. CASE u = s
    BY <1>4, <1>5, <2>1 DEF SlotOwnsItsStream
  <2>2. CASE u # s
    BY <1>3, <1>4, <1>5, <2>2 DEF SlotOwnsItsStream
  <2>3. QED BY <2>1, <2>2
<1>11. PageShowsOneTeam' /\ HistoryIsFaithful'
  BY <1>3, <1>4 DEF PageShowsOneTeam, HistoryIsFaithful, page
<1>12. QED BY <1>6, <1>7, <1>8, <1>9, <1>10, <1>11

\* What clearing slots S leaves of everything but the page's loads.
LEMMA Wiping ==
  ASSUME IInv, NEW S \in SUBSET Slot, Wipe(S), UNCHANGED <<minted, history>>
  PROVE  /\ StoreTypes' /\ HistoryTypes' /\ Controlled' /\ ResultsExist' /\ Past'
         /\ SlotOwnsItsStream' /\ HistoryIsFaithful'
         /\ DOMAIN streams' = DOMAIN streams
         /\ \A i \in DOMAIN streams : streams'[i].team = streams[i].team
         /\ \A u \in S : slots'[u] = EmptySlot /\ (~overlapped'[u] => Open(u)' = {})
         /\ \A u \in Slot \ S : /\ slots'[u] = slots[u] /\ Open(u)' = Open(u)
                                /\ overlapped'[u] = overlapped[u]
<1> USE DEF IInv
<1>1. /\ minted \in Nat /\ Len(streams) \in Nat /\ DOMAIN streams = 1..Len(streams)
      /\ \A i \in DOMAIN streams : streams[i] \in StreamType
  BY Streams
<1>2. /\ streams' = [i \in DOMAIN streams |->
           IF streams[i].state \in {"open", "tail"} /\ \E s \in S : slots[s].ctrl = i
           THEN [streams[i] EXCEPT !.state = "aborted"]
           ELSE streams[i]]
      /\ slots' = [s \in Slot |-> IF s \in S THEN EmptySlot ELSE slots[s]]
      /\ staged' = [s \in Slot |-> IF s \in S THEN 0 ELSE staged[s]]
      /\ overlay' = [s \in Slot |-> IF s \in S THEN 0 ELSE overlay[s]]
      /\ overlapped' = [s \in Slot |->
           overlapped[s] /\ (s \in S => \E i \in Open(s) : i # slots[s].ctrl)]
  BY DEF Wipe, AbortControlled, ClearedSlots
<1>3. \A i \in DOMAIN streams :
        /\ streams'[i] \in StreamType
        /\ streams'[i].slot = streams[i].slot /\ streams'[i].team = streams[i].team
        /\ streams'[i].cand = streams[i].cand
        /\ streams'[i].state = "open" => streams'[i] = streams[i]
        /\ (\A s \in S : slots[s].ctrl # i) => streams'[i] = streams[i]
        /\ (\E s \in S : slots[s].ctrl = i) => streams'[i].state # "open"
  <2> TAKE i \in DOMAIN streams
  <2>1. streams[i] \in StreamType
    BY <1>1
  <2>2. [streams[i] EXCEPT !.state = "aborted"] \in StreamType
    BY <2>1 DEF StreamType
  <2>3. QED BY <1>2, <2>1, <2>2 DEF StreamType
<1>4. streams' \in Seq(StreamType) /\ Len(streams') = Len(streams) /\ DOMAIN streams' = DOMAIN streams
  <2>1. DOMAIN streams' = 1..Len(streams)
    BY <1>1, <1>2
  <2>2. streams' = [i \in 1..Len(streams) |-> streams'[i]]
    BY <1>1, <1>2
  <2>3. \A i \in 1..Len(streams) : streams'[i] \in StreamType
    BY <1>1, <1>3
  <2>4. QED BY <1>1, <2>1, <2>2, <2>3, IsASeq, LenProperties
<1>5. \A u \in S : slots'[u] = EmptySlot /\ u \in Slot
  BY <1>2
<1>6. \A u \in Slot \ S : slots'[u] = slots[u] /\ overlapped'[u] = overlapped[u]
  BY <1>2 DEF StoreTypes
<1>7. ASSUME NEW u \in Slot \ S, NEW i \in DOMAIN streams, streams[i].slot = u
      PROVE  streams'[i] = streams[i]
  <2>1. CASE \E s \in S : slots[s].ctrl = i
    <3>1. PICK s \in S : slots[s].ctrl = i
      BY <2>1
    <3>2. streams[i].slot = s
      BY <3>1, <1>1 DEF Controlled
    <3>3. QED BY <1>7, <3>2
  <2>2. CASE \A s \in S : slots[s].ctrl # i
    BY <1>3, <2>2
  <2>3. QED BY <2>1, <2>2
<1>8. \A u \in Slot \ S : Open(u)' = Open(u)
  BY <1>3, <1>4, <1>7 DEF Open
<1>9. ASSUME NEW u \in S, ~overlapped'[u]
      PROVE  Open(u)' = {}
  <2>1. Open(u) \subseteq {slots[u].ctrl}
    <3>1. CASE ~overlapped[u]
      BY <1>5, <3>1 DEF SlotOwnsItsStream
    <3>2. CASE overlapped[u]
      BY <1>2, <1>5, <1>9, <3>2
    <3>3. QED BY <3>1, <3>2
  <2>2. SUFFICES ASSUME NEW i \in DOMAIN streams, streams'[i].slot = u, streams'[i].state = "open"
                 PROVE  FALSE
    BY <1>4 DEF Open
  <2>3. streams[i].state = "open" /\ streams[i].slot = u
    BY <1>3, <2>2
  <2>4. slots[u].ctrl = i
    BY <2>1, <2>3 DEF Open
  <2>5. QED BY <1>3, <2>2, <2>4
<1>10. StoreTypes'
  <2>1. EmptySlot \in SlotType
    BY <1>1 DEF EmptySlot, SlotType, Status
  <2>2. SlotType' = SlotType /\ StreamType' = StreamType
    BY <1>4 DEF SlotType, StreamType
  <2>3. slots' \in [Slot -> SlotType']
    BY <1>2, <2>1, <2>2 DEF StoreTypes
  <2>4. staged' \in [Slot -> 0..minted'] /\ overlay' \in [Slot -> 0..minted']
    BY <1>1, <1>2 DEF StoreTypes
  <2>5. overlapped' \in [Slot -> BOOLEAN]
    <3>1. \A s \in Slot : (overlapped[s] /\ (s \in S => \E i \in Open(s) : i # slots[s].ctrl)) \in BOOLEAN
      OBVIOUS
    <3>2. QED BY <1>2, <3>1
  <2>6. QED BY <1>4, <2>2, <2>3, <2>4, <2>5 DEF StoreTypes
<1>11. HistoryTypes'
  BY <1>4 DEF HistoryTypes
<1>12. Controlled'
  <2> SUFFICES ASSUME NEW u \in Slot, slots'[u].ctrl # 0
               PROVE  streams'[slots'[u].ctrl].slot = u /\ streams'[slots'[u].ctrl].state = "open"
    BY DEF Controlled
  <2>1. u \notin S
    BY <1>5 DEF EmptySlot
  <2>2. slots'[u] = slots[u] /\ slots[u].ctrl \in DOMAIN streams
    BY <1>1, <1>6, <2>1 DEF StoreTypes, SlotType
  <2>3. QED BY <1>7, <2>1, <2>2 DEF Controlled
<1>13. ResultsExist'
  BY <1>5, <1>6 DEF ResultsExist, EmptySlot
<1>14. Past'
  BY <1>1, <1>3 DEF Past, HistoryTypes
<1>15. SlotOwnsItsStream'
  <2> SUFFICES ASSUME NEW u \in Slot, ~overlapped'[u]
               PROVE  /\ Open(u)' = {slots'[u].ctrl} \ {0}
                      /\ (slots'[u].status = "running") <=> Open(u)' # {}
                      /\ \A i \in Open(u)' : streams'[i].cand = slots'[u].cand
                      /\ slots'[u].status = "complete" =>
                           streams'[slots'[u].result].cand = slots'[u].cand
                      /\ slots'[u].status \in {"running", "complete"} /\ slots'[u].progress # 0 =>
                           streams'[slots'[u].progress].cand = slots'[u].cand
    BY DEF SlotOwnsItsStream
  <2>1. CASE u \in S
    BY <1>5, <1>9, <2>1 DEF EmptySlot
  <2>2. CASE u \notin S
    <3>1. slots'[u] = slots[u] /\ Open(u)' = Open(u) /\ ~overlapped[u]
      BY <1>6, <1>8, <2>2
    <3>2. \A i \in DOMAIN streams : streams'[i].cand = streams[i].cand
      BY <1>3
    <3>3. /\ Open(u) \subseteq DOMAIN streams
          /\ slots[u].status = "complete" => slots[u].result \in DOMAIN streams
          /\ slots[u].progress # 0 => slots[u].progress \in DOMAIN streams
      BY <1>1 DEF Open, ResultsExist, StoreTypes, SlotType
    <3>4. QED BY <3>1, <3>2, <3>3 DEF SlotOwnsItsStream
  <2>3. QED BY <2>1, <2>2
<1>16. HistoryIsFaithful'
  BY <1>5, <1>6 DEF HistoryIsFaithful, EmptySlot
<1>17. QED BY <1>3, <1>4, <1>5, <1>6, <1>8, <1>9, <1>10, <1>11, <1>12, <1>13, <1>14, <1>15, <1>16
\* A new stream takes the controller of its slot.
LEMMA Dropping ==
  ASSUME IInv, NEW s \in Slot, CandidateDrop(s)
  PROVE  IInv'
<1> USE DEF IInv
<1> DEFINE n == Len(streams) + 1
           new == [slot |-> s, cand |-> staged[s], team |-> selectedTeam, state |-> "open"]
<1>1. /\ minted \in Nat /\ Len(streams) \in Nat /\ DOMAIN streams = 1..Len(streams)
      /\ \A i \in DOMAIN streams : streams[i] \in StreamType
      /\ streams \in Seq(StreamType)
  BY Streams DEF StoreTypes
<1>2. /\ slots' = [slots EXCEPT ![s] = Started(Staged(slots[s], staged[s]), n)]
      /\ streams' = Append(streams, new)
      /\ overlay' = [overlay EXCEPT ![s] = staged[s]]
      /\ overlapped' = [overlapped EXCEPT ![s] = overlapped[s] \/ Open(s) # {}]
      /\ UNCHANGED <<page, minted, staged, history>>
      /\ staged[s] # 0 /\ ~loading
  BY DEF CandidateDrop, Update, Draggable
<1>3. new \in StreamType
  BY <1>1, <1>2 DEF StreamType, StoreTypes, PageTypes
<1> HIDE DEF new
<1>4. /\ streams' \in Seq(StreamType) /\ Len(streams') = n /\ DOMAIN streams' = 1..n
      /\ streams'[n] = new /\ \A i \in DOMAIN streams : streams'[i] = streams[i]
  BY <1>1, <1>2, <1>3, AppendProperties, LenProperties
<1>5. /\ slots'[s].cand = staged[s] /\ slots'[s].status = "running" /\ slots'[s].progress = 0
      /\ slots'[s].result = 0 /\ slots'[s].ctrl = n
  BY <1>2 DEF StoreTypes, SlotType, Started, Staged
<1>6. /\ \A u \in Slot \ {s} : slots'[u] = slots[u] /\ overlapped'[u] = overlapped[u]
      /\ overlapped'[s] = (overlapped[s] \/ Open(s) # {})
  BY <1>2 DEF StoreTypes
<1>7. new.slot = s /\ new.cand = staged[s] /\ new.team = selectedTeam /\ new.state = "open"
  BY DEF new
<1>8. \A u \in Slot : Open(u)' = IF u = s THEN Open(u) \cup {n} ELSE Open(u)
  BY <1>1, <1>4, <1>7 DEF Open
<1>9. StoreTypes'
  <2>1. StreamType' = StreamType
    BY <1>2 DEF StreamType
  <2>2. SlotType \subseteq SlotType'
    BY <1>1, <1>2, <1>4 DEF SlotType
  <2>3. Started(Staged(slots[s], staged[s]), n) \in SlotType'
    <3>1. slots[s] \in SlotType'
      BY <2>2 DEF StoreTypes
    <3>2. /\ staged[s] \in 0..minted' /\ 0 \in 0..Len(streams') /\ n \in 0..Len(streams')
          /\ "running" \in Status
      BY <1>1, <1>2, <1>4 DEF StoreTypes, Status
    <3>3. QED BY <3>1, <3>2 DEF SlotType, Started, Staged
  <2>4. slots' \in [Slot -> SlotType']
    BY <1>2, <2>2, <2>3 DEF StoreTypes
  <2>5. overlapped' \in [Slot -> BOOLEAN]
    <3>1. (overlapped[s] \/ Open(s) # {}) \in BOOLEAN
      OBVIOUS
    <3>2. QED BY <1>2, <3>1 DEF StoreTypes
  <2>6. staged' \in [Slot -> 0..minted'] /\ overlay' \in [Slot -> 0..minted']
        /\ minted' \in 0..MaxCandidates
    BY <1>2 DEF StoreTypes
  <2>7. QED BY <1>4, <2>1, <2>4, <2>5, <2>6 DEF StoreTypes
<1>10. PageTypes' /\ HistoryTypes'
  <2>1. history' \in Seq(1..Len(streams'))
    <3>1. 1..Len(streams) \subseteq 1..Len(streams')
      BY <1>1, <1>4
    <3>2. QED BY <1>2, <3>1, SeqMonotonic DEF HistoryTypes
  <2>2. QED BY <1>2, <2>1 DEF PageTypes, HistoryTypes, page
<1>11. Controlled'
  <2> SUFFICES ASSUME NEW u \in Slot, slots'[u].ctrl # 0
               PROVE  streams'[slots'[u].ctrl].slot = u /\ streams'[slots'[u].ctrl].state = "open"
    BY DEF Controlled
  <2>1. CASE u = s
    BY <1>4, <1>5, <1>7, <2>1
  <2>2. CASE u # s
    <3>1. slots'[u] = slots[u] /\ slots[u].ctrl \in DOMAIN streams
      BY <1>1, <1>6, <2>2 DEF StoreTypes, SlotType
    <3>2. QED BY <1>4, <3>1 DEF Controlled
  <2>3. QED BY <2>1, <2>2
<1>12. ResultsExist'
  BY <1>5, <1>6 DEF ResultsExist
<1>13. \A k \in DOMAIN history : history[k] \in DOMAIN streams
  BY <1>1, ElementOfSeq, LenProperties DEF HistoryTypes
<1>14. Past'
  BY <1>2, <1>4, <1>13 DEF Past
<1>15. ~missed => snapshot = selectedTeam
  BY <1>2 DEF OneTeam, PageShowsOneTeam
<1>16. OneTeam'
  <2>1. ASSUME ~missed, NEW u \in Slot, ~overlapped'[u], NEW i \in Open(u)'
        PROVE  streams'[i].team = snapshot
    <3>1. CASE i = n /\ u = s
      BY <1>4, <1>7, <1>15, <2>1, <3>1
    <3>2. CASE i \in Open(u)
      <4>1. ~overlapped[u] /\ streams'[i] = streams[i]
        BY <1>4, <1>6, <2>1, <3>2 DEF Open
      <4>2. QED BY <2>1, <3>2, <4>1 DEF OneTeam
    <3>3. QED BY <1>8, <2>1, <3>1, <3>2
  <2>2. QED BY <1>2, <2>1 DEF OneTeam, page
<1>17. \A u \in Slot \ {s} :
          /\ slots[u].status = "complete" => streams'[slots[u].result] = streams[slots[u].result]
          /\ slots[u].progress # 0 => streams'[slots[u].progress] = streams[slots[u].progress]
  BY <1>1, <1>4 DEF ResultsExist, StoreTypes, SlotType
<1>18. SlotOwnsItsStream'
  <2> SUFFICES ASSUME NEW u \in Slot, ~overlapped'[u]
               PROVE  /\ Open(u)' = {slots'[u].ctrl} \ {0}
                      /\ (slots'[u].status = "running") <=> Open(u)' # {}
                      /\ \A i \in Open(u)' : streams'[i].cand = slots'[u].cand
                      /\ slots'[u].status = "complete" =>
                           streams'[slots'[u].result].cand = slots'[u].cand
                      /\ slots'[u].status \in {"running", "complete"} /\ slots'[u].progress # 0 =>
                           streams'[slots'[u].progress].cand = slots'[u].cand
    BY DEF SlotOwnsItsStream
  <2>1. CASE u = s
    <3>1. Open(u) = {}
      BY <1>6, <2>1
    <3>2. Open(u)' = {n}
      BY <1>8, <2>1, <3>1
    <3>3. n # 0
      BY <1>1
    <3>4. QED BY <1>4, <1>5, <1>7, <2>1, <3>2, <3>3
  <2>2. CASE u # s
    <3>1. slots'[u] = slots[u] /\ Open(u)' = Open(u) /\ ~overlapped[u]
      BY <1>6, <1>8, <2>2
    <3>2. \A i \in Open(u) : streams'[i] = streams[i]
      BY <1>4 DEF Open
    <3>3. QED BY <1>17, <2>2, <3>1, <3>2 DEF SlotOwnsItsStream
  <2>3. QED BY <2>1, <2>2
<1>19. PageShowsOneTeam'
  <2>1. ASSUME ~missed, NEW u \in Slot, slots'[u].status = "complete", ~overlapped'[u]
        PROVE  streams'[slots'[u].result].team = snapshot
    <3>1. u # s
      BY <1>5, <2>1
    <3>2. slots'[u] = slots[u] /\ ~overlapped[u]
      BY <1>6, <2>1, <3>1
    <3>3. QED BY <1>17, <2>1, <3>1, <3>2 DEF PageShowsOneTeam
  <2>2. QED BY <1>2, <2>1 DEF PageShowsOneTeam, page
<1>20. HistoryIsFaithful'
  BY <1>2, <1>5, <1>6 DEF HistoryIsFaithful
<1>21. QED BY <1>9, <1>10, <1>11, <1>12, <1>14, <1>16, <1>18, <1>19, <1>20

LEMMA Progressing ==
  ASSUME IInv, NEW i, Progress(i)
  PROVE  IInv'
<1> USE DEF IInv
<1> DEFINE s == streams[i].slot
<1>1. /\ minted \in Nat /\ Len(streams) \in Nat /\ DOMAIN streams = 1..Len(streams)
      /\ i \in DOMAIN streams /\ streams[i].state = "open" /\ s \in Slot /\ i \in Open(s)
  BY Streams DEF Progress, IsOpen, StreamType, Open
<1>2. /\ slots' = [slots EXCEPT ![s] = [slots[s] EXCEPT !.progress = i]]
      /\ UNCHANGED <<page, minted, staged, overlay, streams, history, overlapped>>
  BY DEF Progress, Update
<1>3. /\ slots'[s] = [slots[s] EXCEPT !.progress = i] /\ slots'[s].progress = i
      /\ \A u \in Slot \ {s} : slots'[u] = slots[u]
      /\ \A u \in Slot : /\ slots'[u].ctrl = slots[u].ctrl /\ slots'[u].status = slots[u].status
                         /\ slots'[u].cand = slots[u].cand /\ slots'[u].result = slots[u].result
  BY <1>1, <1>2 DEF StoreTypes, SlotType
<1>4. StoreTypes'
  <2>1. SlotType' = SlotType /\ StreamType' = StreamType
    BY <1>2 DEF SlotType, StreamType
  <2>2. [slots[s] EXCEPT !.progress = i] \in SlotType
    <3>1. slots[s] \in SlotType /\ i \in 0..Len(streams)
      BY <1>1 DEF StoreTypes
    <3>2. QED BY <3>1 DEF SlotType
  <2>3. QED BY <1>2, <2>1, <2>2 DEF StoreTypes
<1>5. PageTypes' /\ HistoryTypes' /\ Controlled' /\ ResultsExist' /\ Past'
  BY <1>2, <1>3 DEF PageTypes, HistoryTypes, Controlled, ResultsExist, Past, page
<1>6. \A u \in Slot : Open(u)' = Open(u)
  BY <1>2 DEF Open
<1>7. OneTeam'
  BY <1>2, <1>6 DEF OneTeam, page
<1>8. SlotOwnsItsStream'
  <2> SUFFICES ASSUME NEW u \in Slot, ~overlapped[u]
               PROVE  /\ Open(u) = {slots[u].ctrl} \ {0}
                      /\ (slots[u].status = "running") <=> Open(u) # {}
                      /\ \A j \in Open(u) : streams[j].cand = slots[u].cand
                      /\ slots[u].status = "complete" =>
                           streams[slots[u].result].cand = slots[u].cand
                      /\ slots[u].status \in {"running", "complete"} /\ slots'[u].progress # 0 =>
                           streams[slots'[u].progress].cand = slots[u].cand
    BY <1>2, <1>3, <1>6 DEF SlotOwnsItsStream
  <2>1. CASE u = s
    <3>1. i \in Open(u) /\ slots'[u].progress = i
      BY <1>1, <1>3, <2>1
    <3>2. QED BY <3>1 DEF SlotOwnsItsStream
  <2>2. CASE u # s
    BY <1>3, <2>2 DEF SlotOwnsItsStream
  <2>3. QED BY <2>1, <2>2
<1>9. PageShowsOneTeam' /\ HistoryIsFaithful'
  BY <1>2, <1>3 DEF PageShowsOneTeam, HistoryIsFaithful, page
<1>10. QED BY <1>4, <1>5, <1>7, <1>8, <1>9

\* What the last event of stream i leaves of everything, whatever its slot becomes.
LEMMA Ending ==
  ASSUME IInv, NEW i, IsOpen(i), NEW state \in {"tail", "ended"}, Becomes(i, state),
         NEW slot \in SlotType,
         slot.ctrl = 0, slot.status # "running", slots' = [slots EXCEPT ![streams[i].slot] = slot],
         slot.cand = slots[streams[i].slot].cand,
         slot.status = "complete" => slot.result = i /\ slot.progress = i,
         UNCHANGED <<page, minted, staged, overlay, overlapped>>
  PROVE  /\ StoreTypes' /\ PageTypes' /\ Controlled' /\ ResultsExist' /\ OneTeam'
         /\ SlotOwnsItsStream' /\ PageShowsOneTeam'
         /\ Len(streams') = Len(streams) /\ i \in 1..Len(streams) /\ streams[i].slot \in Slot
         /\ streams'[i].state # "open"
         /\ \A j \in DOMAIN streams : streams[j].state # "open" => streams'[j].state # "open"
         /\ slots'[streams[i].slot] = slot
         /\ \A u \in Slot \ {streams[i].slot} : slots'[u] = slots[u]
<1> USE DEF IInv
<1> DEFINE s == streams[i].slot
<1>1. /\ minted \in Nat /\ Len(streams) \in Nat /\ DOMAIN streams = 1..Len(streams)
      /\ \A j \in DOMAIN streams : streams[j] \in StreamType
      /\ i \in DOMAIN streams /\ streams[i].state = "open" /\ s \in Slot /\ i \in Open(s)
  BY Streams DEF IsOpen, StreamType, Open
<1>2. streams' = [streams EXCEPT ![i] = [streams[i] EXCEPT !.state = state]]
  BY DEF Becomes
<1>3. [streams[i] EXCEPT !.state = state] \in StreamType
  <2>1. streams[i] \in StreamType
    BY <1>1
  <2>2. QED BY <2>1 DEF StreamType
<1>4. /\ streams' \in Seq(StreamType) /\ Len(streams') = Len(streams)
      /\ DOMAIN streams' = DOMAIN streams
  BY <1>1, <1>2, <1>3, ExceptSeq, LenProperties DEF StoreTypes
<1>5. \A j \in DOMAIN streams :
        /\ streams'[j].slot = streams[j].slot /\ streams'[j].team = streams[j].team
        /\ streams'[j].cand = streams[j].cand
        /\ streams'[j].state = IF j = i THEN state ELSE streams[j].state
  <2> TAKE j \in DOMAIN streams
  <2>1. CASE j = i
    <3>1. streams[i] \in StreamType
      BY <1>1
    <3>2. streams'[i] = [streams[i] EXCEPT !.state = state]
      BY <1>1, <1>2
    <3>3. QED BY <2>1, <3>1, <3>2 DEF StreamType
  <2>2. CASE j # i
    BY <1>2, <2>2
  <2>3. QED BY <2>1, <2>2
<1>6. /\ slots'[s] = slot /\ \A u \in Slot \ {s} : slots'[u] = slots[u]
  BY <1>1 DEF StoreTypes
<1>7. \A u \in Slot : Open(u)' = IF u = s THEN Open(u) \ {i} ELSE Open(u)
  BY <1>1, <1>4, <1>5 DEF Open
<1>8. StoreTypes'
  <2>1. SlotType' = SlotType /\ StreamType' = StreamType
    BY <1>4 DEF SlotType, StreamType
  <2>2. QED BY <1>4, <2>1 DEF StoreTypes
<1>9. PageTypes'
  BY DEF PageTypes, page
<1>10. Controlled'
  <2> SUFFICES ASSUME NEW u \in Slot, slots'[u].ctrl # 0
               PROVE  streams'[slots'[u].ctrl].slot = u /\ streams'[slots'[u].ctrl].state = "open"
    BY DEF Controlled
  <2>1. u # s
    BY <1>6
  <2>2. slots'[u] = slots[u] /\ slots[u].ctrl \in DOMAIN streams
    BY <1>1, <1>6, <2>1 DEF StoreTypes, SlotType
  <2>3. slots[u].ctrl # i
    BY <2>1, <2>2 DEF Controlled
  <2>4. QED BY <1>5, <2>2, <2>3 DEF Controlled
<1>11. ResultsExist'
  BY <1>1, <1>6 DEF ResultsExist
<1>12. OneTeam'
  <2>1. \A u \in Slot : Open(u)' \subseteq Open(u) /\ Open(u) \subseteq DOMAIN streams
    BY <1>7 DEF Open
  <2>2. QED BY <1>5, <2>1 DEF OneTeam, page
<1>13. \A u \in Slot :
          /\ slots[u].status = "complete" => slots[u].result \in DOMAIN streams
          /\ slots[u].progress # 0 => slots[u].progress \in DOMAIN streams
  BY <1>1 DEF ResultsExist, StoreTypes, SlotType
<1>14. SlotOwnsItsStream'
  <2> SUFFICES ASSUME NEW u \in Slot, ~overlapped[u]
               PROVE  /\ Open(u)' = {slots'[u].ctrl} \ {0}
                      /\ (slots'[u].status = "running") <=> Open(u)' # {}
                      /\ \A j \in Open(u)' : streams'[j].cand = slots'[u].cand
                      /\ slots'[u].status = "complete" =>
                           streams'[slots'[u].result].cand = slots'[u].cand
                      /\ slots'[u].status \in {"running", "complete"} /\ slots'[u].progress # 0 =>
                           streams'[slots'[u].progress].cand = slots'[u].cand
    BY DEF SlotOwnsItsStream
  <2>1. CASE u = s
    <3>1. Open(u) = {i} /\ streams[i].cand = slots[u].cand
      <4>1. i \in Open(u)
        BY <1>1, <2>1
      <4>2. QED BY <4>1 DEF SlotOwnsItsStream
    <3>2. Open(u)' = {}
      BY <1>7, <2>1, <3>1
    <3>3. QED BY <1>1, <1>5, <1>6, <2>1, <3>1, <3>2
  <2>2. CASE u # s
    <3>1. slots'[u] = slots[u] /\ Open(u)' = Open(u)
      BY <1>6, <1>7, <2>2
    <3>2. \A j \in Open(u) : streams'[j].cand = streams[j].cand
      BY <1>5 DEF Open
    <3>3. QED BY <1>5, <1>13, <3>1, <3>2 DEF SlotOwnsItsStream
  <2>3. QED BY <2>1, <2>2
<1>15. PageShowsOneTeam'
  <2>1. ASSUME ~missed, NEW u \in Slot, slots'[u].status = "complete", ~overlapped[u]
        PROVE  streams'[slots'[u].result].team = snapshot
    <3>1. CASE u = s
      <4>1. slots'[u].result = i /\ streams[i].team = snapshot
        BY <1>1, <1>6, <2>1, <3>1 DEF OneTeam
      <4>2. QED BY <1>1, <1>5, <4>1
    <3>2. CASE u # s
      BY <1>5, <1>6, <1>13, <2>1, <3>2 DEF PageShowsOneTeam
    <3>3. QED BY <3>1, <3>2
  <2>2. QED BY <2>1 DEF PageShowsOneTeam, page
<1>16. QED BY <1>1, <1>4, <1>5, <1>6, <1>8, <1>9, <1>10, <1>11, <1>12, <1>14, <1>15

\* An error event, or a connection that breaks before any last event.
LEMMA Failing ==
  ASSUME IInv, NEW i, ErrorEvent(i) \/ Break(i)
  PROVE  IInv'
<1> USE DEF IInv
<1> DEFINE s == streams[i].slot
           slot == Failed(slots[s])
<1> DEFINE state == IF ErrorEvent(i) THEN "tail" ELSE "ended"
<1>1. /\ IsOpen(i) /\ Becomes(i, state) /\ slots' = [slots EXCEPT ![s] = slot]
      /\ UNCHANGED <<page, minted, staged, overlay, history, overlapped>>
      /\ state \in {"tail", "ended"}
  BY DEF ErrorEvent, Break, Update
<1> HIDE DEF state
<1>2. s \in Slot /\ Len(streams) \in Nat
  BY <1>1, Streams DEF IsOpen, StreamType
<1>3. /\ slot \in SlotType /\ slot.ctrl = 0 /\ slot.status = "error" /\ slot.cand = slots[s].cand
  <2>1. slots[s] \in SlotType /\ "error" \in Status /\ 0 \in 0..Len(streams)
    BY <1>2 DEF StoreTypes, Status
  <2>2. QED BY <2>1 DEF SlotType, Failed
<1> HIDE DEF slot
<1>4. /\ StoreTypes' /\ PageTypes' /\ Controlled' /\ ResultsExist' /\ OneTeam'
      /\ SlotOwnsItsStream' /\ PageShowsOneTeam'
      /\ Len(streams') = Len(streams)
      /\ \A j \in DOMAIN streams : streams[j].state # "open" => streams'[j].state # "open"
      /\ slots'[s] = slot /\ \A u \in Slot \ {s} : slots'[u] = slots[u]
  BY <1>1, <1>3, Ending
<1>5. HistoryTypes'
  BY <1>1, <1>4 DEF HistoryTypes
<1>6. Past'
  <2>1. \A k \in DOMAIN history : history[k] \in DOMAIN streams
    BY Streams, ElementOfSeq, LenProperties DEF HistoryTypes
  <2>2. QED BY <1>1, <1>4, <2>1 DEF Past
<1>7. HistoryIsFaithful'
  BY <1>1, <1>3, <1>4 DEF HistoryIsFaithful
<1>8. QED BY <1>4, <1>5, <1>6, <1>7

LEMMA Answering ==
  ASSUME IInv, NEW i, Result(i)
  PROVE  IInv'
<1> USE DEF IInv
<1> DEFINE s == streams[i].slot
           slot == Completed(slots[s], i)
<1>1. /\ IsOpen(i) /\ Becomes(i, "tail") /\ slots' = [slots EXCEPT ![s] = slot]
      /\ history' = HistoryWith(i)
      /\ UNCHANGED <<page, minted, staged, overlay, overlapped>>
  BY DEF Result, Update
<1>2. s \in Slot /\ Len(streams) \in Nat /\ i \in 1..Len(streams) /\ streams[i].state = "open"
  BY <1>1, Streams DEF IsOpen, StreamType
<1>3. /\ slot \in SlotType /\ slot.ctrl = 0 /\ slot.status = "complete"
      /\ slot.cand = slots[s].cand /\ slot.result = i /\ slot.progress = i
  <2>1. /\ slots[s] \in SlotType /\ "complete" \in Status
        /\ 0 \in 0..Len(streams) /\ i \in 0..Len(streams)
    BY <1>2 DEF StoreTypes, Status
  <2>2. QED BY <2>1 DEF SlotType, Completed
<1> HIDE DEF slot
<1>4. /\ StoreTypes' /\ PageTypes' /\ Controlled' /\ ResultsExist' /\ OneTeam'
      /\ SlotOwnsItsStream' /\ PageShowsOneTeam'
      /\ Len(streams') = Len(streams) /\ streams'[i].state # "open"
      /\ \A j \in DOMAIN streams : streams[j].state # "open" => streams'[j].state # "open"
      /\ slots'[s] = slot /\ \A u \in Slot \ {s} : slots'[u] = slots[u]
  BY <1>1, <1>3, Ending
<1> DEFINE N == Len(history)
           h == HistoryWith(i)
<1>5. /\ N \in Nat /\ DOMAIN history = 1..N /\ HistoryLimit \in Nat \ {0} /\ N <= HistoryLimit
  BY LenProperties, ConstantsAssumption DEF HistoryTypes
<1>6. /\ h \in Seq(1..Len(streams)) /\ h[1] = i
      /\ Len(h) = IF N = HistoryLimit THEN HistoryLimit ELSE N + 1
      /\ \A k \in 2..Len(h) : k - 1 \in 1..N /\ h[k] = history[k - 1]
  BY <1>2, HistoryGrows DEF HistoryTypes
<1> HIDE DEF h
<1>7. history' = h /\ DOMAIN h = 1..Len(h) /\ Len(h) \in Nat \ {0} /\ Len(h) <= HistoryLimit
  <2>1. history' = h
    BY <1>1 DEF h
  <2>2. DOMAIN h = 1..Len(h)
    <3>1. h \in Seq(1..Len(streams))
      BY <1>6
    <3>2. QED BY <3>1, LenProperties
  <2>3. Len(h) = IF N = HistoryLimit THEN HistoryLimit ELSE N + 1
    BY <1>6
  <2>4. Len(h) \in Nat \ {0} /\ Len(h) <= HistoryLimit
    <3> HIDE DEF N
    <3>1. QED BY <1>5, <2>3
  <2>5. QED BY <2>1, <2>2, <2>4
<1>8. HistoryTypes'
  BY <1>4, <1>6, <1>7 DEF HistoryTypes
<1>9. \A k \in 1..N : history[k] \in DOMAIN streams /\ streams[history[k]].state # "open"
  BY <1>5, Streams, ElementOfSeq DEF HistoryTypes, Past
<1>10. Past'
  <2>1. \A k \in 1..Len(h) : streams'[h[k]].state # "open"
    <3> TAKE k \in 1..Len(h)
    <3>1. CASE k = 1
      BY <1>4, <1>6, <3>1
    <3>2. CASE k # 1
      <4>1. k \in 2..Len(h)
        BY <1>7, <3>2
      <4>2. QED BY <1>4, <1>6, <1>9, <4>1
    <3>3. QED BY <3>1, <3>2
  <2>2. QED BY <1>7, <2>1 DEF Past
<1>11. ASSUME NEW j \in 1..Len(h), NEW k \in 1..Len(h), h[j] = h[k]
       PROVE  j = k
  <2>1. \A l \in 2..Len(h) : h[l] # i
    BY <1>2, <1>6, <1>9
  <2>2. CASE j = 1 \/ k = 1
    BY <1>6, <1>7, <1>11, <2>1, <2>2
  <2>3. CASE j # 1 /\ k # 1
    <3>1. j \in 2..Len(h) /\ k \in 2..Len(h)
      BY <1>7, <2>3
    <3>2. history[j - 1] = history[k - 1] /\ j - 1 \in 1..N /\ k - 1 \in 1..N
      BY <1>6, <1>11, <3>1
    <3>3. j - 1 = k - 1
      BY <1>5, <3>2 DEF HistoryIsFaithful
    <3>4. QED BY <3>3
  <2>4. QED BY <2>2, <2>3
<1>12. ASSUME NEW u \in Slot, slots'[u].status = "complete", Len(h) # HistoryLimit
       PROVE  \E k \in 1..Len(h) : h[k] = slots'[u].result
  <2>1. CASE u = s
    <3>1. h[1] = slots'[u].result /\ 1 \in 1..Len(h)
      BY <1>3, <1>4, <1>6, <1>7, <2>1
    <3>2. QED BY <3>1
  <2>2. CASE u # s
    <3>1. N # HistoryLimit /\ Len(h) = N + 1
      BY <1>6, <1>12
    <3>2. PICK k \in 1..N : history[k] = slots[u].result
      BY <1>4, <1>5, <1>12, <2>2, <3>1 DEF HistoryIsFaithful
    <3>3. k + 1 \in 2..Len(h) /\ (k + 1) - 1 = k
      <4>1. k \in Nat /\ 1 <= k /\ k <= N /\ N \in Nat
        BY <1>5
      <4>2. QED BY <3>1, <4>1
    <3>4. h[k + 1] = slots'[u].result
      BY <1>4, <1>6, <2>2, <3>2, <3>3
    <3>5. QED BY <3>3, <3>4
  <2>3. QED BY <2>1, <2>2
<1>13. HistoryIsFaithful'
  BY <1>7, <1>11, <1>12 DEF HistoryIsFaithful
<1>14. QED BY <1>4, <1>8, <1>10, <1>13

\* What the end of a tail leaves of everything but its slot.
LEMMA TailEnds ==
  ASSUME IInv, NEW i, IsTail(i), Becomes(i, "ended")
  PROVE  /\ i \in DOMAIN streams /\ streams[i].slot \in Slot /\ Len(streams) \in Nat
         /\ streams' \in Seq(StreamType) /\ Len(streams') = Len(streams)
         /\ DOMAIN streams' = DOMAIN streams
         /\ \A j \in DOMAIN streams :
              /\ streams'[j].slot = streams[j].slot /\ streams'[j].team = streams[j].team
              /\ streams'[j].cand = streams[j].cand
              /\ streams'[j].state = "open" <=> streams[j].state = "open"
         /\ \A u \in Slot : Open(u)' = Open(u)
<1> USE DEF IInv
<1>1. /\ Len(streams) \in Nat /\ DOMAIN streams = 1..Len(streams)
      /\ \A j \in DOMAIN streams : streams[j] \in StreamType
      /\ i \in DOMAIN streams /\ streams[i].state = "tail" /\ streams[i].slot \in Slot
  BY Streams DEF IsTail, StreamType
<1>2. streams' = [streams EXCEPT ![i] = [streams[i] EXCEPT !.state = "ended"]]
  BY DEF Becomes
<1>3. [streams[i] EXCEPT !.state = "ended"] \in StreamType
  <2>1. streams[i] \in StreamType
    BY <1>1
  <2>2. QED BY <2>1 DEF StreamType
<1>4. /\ streams' \in Seq(StreamType) /\ Len(streams') = Len(streams)
      /\ DOMAIN streams' = DOMAIN streams
  BY <1>1, <1>2, <1>3, ExceptSeq, LenProperties DEF StoreTypes
<1>5. ASSUME NEW j \in DOMAIN streams
      PROVE  /\ streams'[j].slot = streams[j].slot /\ streams'[j].team = streams[j].team
             /\ streams'[j].cand = streams[j].cand
             /\ streams'[j].state = "open" <=> streams[j].state = "open"
  <2>1. CASE j = i
    <3>1. streams[i] \in StreamType
      BY <1>1
    <3>2. streams'[i] = [streams[i] EXCEPT !.state = "ended"]
      BY <1>1, <1>2
    <3>3. QED BY <1>1, <2>1, <3>1, <3>2 DEF StreamType
  <2>2. CASE j # i
    BY <1>2, <2>2
  <2>3. QED BY <2>1, <2>2
<1>6. \A u \in Slot : Open(u)' = Open(u)
  BY <1>4, <1>5 DEF Open
<1>7. QED BY <1>1, <1>4, <1>5, <1>6

\* The streams that a slot's result and progress are from.
LEMMA Origins ==
  ASSUME IInv, NEW u \in Slot
  PROVE  /\ slots[u].status = "complete" => slots[u].result \in DOMAIN streams
         /\ slots[u].progress # 0 => slots[u].progress \in DOMAIN streams
         /\ slots[u].ctrl # 0 => slots[u].ctrl \in DOMAIN streams
BY Streams DEF IInv, ResultsExist, StoreTypes, SlotType

LEMMA Closing ==
  ASSUME IInv, NEW i, Close(i)
  PROVE  IInv'
<1> USE DEF IInv
<1>1. /\ IsTail(i) /\ Becomes(i, "ended")
      /\ UNCHANGED <<page, minted, staged, overlay, slots, history, overlapped>>
  BY DEF Close
<1>2. /\ streams' \in Seq(StreamType) /\ Len(streams') = Len(streams)
      /\ DOMAIN streams' = DOMAIN streams
      /\ \A j \in DOMAIN streams :
           /\ streams'[j].slot = streams[j].slot /\ streams'[j].team = streams[j].team
           /\ streams'[j].cand = streams[j].cand
           /\ streams'[j].state = "open" <=> streams[j].state = "open"
      /\ \A u \in Slot : Open(u)' = Open(u)
  BY <1>1, TailEnds
<1>3. StoreTypes' /\ PageTypes' /\ HistoryTypes' /\ ResultsExist'
  BY <1>1, <1>2 DEF StoreTypes, PageTypes, HistoryTypes, ResultsExist, StreamType, SlotType, page
<1>4. Controlled'
  BY <1>1, <1>2, Origins DEF Controlled
<1>5. Past'
  <2>1. \A k \in DOMAIN history : history[k] \in DOMAIN streams
    BY Streams, ElementOfSeq, LenProperties DEF HistoryTypes
  <2>2. QED BY <1>1, <1>2, <2>1 DEF Past
<1>6. OneTeam'
  <2>1. \A u \in Slot : Open(u) \subseteq DOMAIN streams
    BY DEF Open
  <2>2. QED BY <1>1, <1>2, <2>1 DEF OneTeam, page
<1>7. SlotOwnsItsStream'
  <2>1. \A u \in Slot : Open(u) \subseteq DOMAIN streams
    BY DEF Open
  <2>2. QED BY <1>1, <1>2, <2>1, Origins DEF SlotOwnsItsStream
<1>8. PageShowsOneTeam' /\ HistoryIsFaithful'
  BY <1>1, <1>2, Origins DEF PageShowsOneTeam, HistoryIsFaithful, page
<1>9. QED BY <1>3, <1>4, <1>5, <1>6, <1>7, <1>8

\* The slot a tail breaks in has the error and no controller: it is overlapped
\* from then on if another stream of it is open.
LEMMA TailBreaks ==
  ASSUME IInv, NEW i, BreakInTail(i)
  PROVE  IInv'
<1> USE DEF IInv
<1> DEFINE s == streams[i].slot
           slot == Failed(slots[s])
<1>1. /\ IsTail(i) /\ Becomes(i, "ended") /\ slots' = [slots EXCEPT ![s] = slot]
      /\ overlapped' = [overlapped EXCEPT ![s] = overlapped[s] \/ Open(s) # {}]
      /\ UNCHANGED <<page, minted, staged, overlay, history>>
  BY DEF BreakInTail, Update
<1>2. /\ s \in Slot /\ Len(streams) \in Nat
      /\ streams' \in Seq(StreamType) /\ Len(streams') = Len(streams)
      /\ DOMAIN streams' = DOMAIN streams
      /\ \A j \in DOMAIN streams :
           /\ streams'[j].slot = streams[j].slot /\ streams'[j].team = streams[j].team
           /\ streams'[j].cand = streams[j].cand
           /\ streams'[j].state = "open" <=> streams[j].state = "open"
      /\ \A u \in Slot : Open(u)' = Open(u) /\ Open(u) \subseteq DOMAIN streams
  BY <1>1, TailEnds DEF Open
<1> HIDE DEF s
<1>3. /\ slot \in SlotType /\ slot.ctrl = 0 /\ slot.status = "error"
  <2>1. slots[s] \in SlotType /\ "error" \in Status /\ 0 \in 0..Len(streams)
    BY <1>2 DEF StoreTypes, Status
  <2>2. QED BY <2>1 DEF SlotType, Failed
<1> HIDE DEF slot
<1>4. /\ slots'[s] = slot /\ \A u \in Slot \ {s} : slots'[u] = slots[u] /\ overlapped'[u] = overlapped[u]
      /\ overlapped'[s] = (overlapped[s] \/ Open(s) # {})
  BY <1>1, <1>2 DEF StoreTypes
<1>5. StoreTypes'
  <2>1. SlotType' = SlotType /\ StreamType' = StreamType
    BY <1>1, <1>2 DEF SlotType, StreamType
  <2>2. overlapped' \in [Slot -> BOOLEAN]
    <3>1. (overlapped[s] \/ Open(s) # {}) \in BOOLEAN
      OBVIOUS
    <3>2. QED BY <1>1, <3>1 DEF StoreTypes
  <2>3. slots' \in [Slot -> SlotType]
    BY <1>1, <1>3 DEF StoreTypes
  <2>4. QED BY <1>1, <1>2, <2>1, <2>2, <2>3 DEF StoreTypes
<1>6. PageTypes' /\ HistoryTypes'
  BY <1>1, <1>2 DEF PageTypes, HistoryTypes, page
<1>7. Controlled' /\ ResultsExist'
  BY <1>2, <1>3, <1>4, Origins DEF Controlled, ResultsExist
<1>8. Past'
  <2>1. \A k \in DOMAIN history : history[k] \in DOMAIN streams
    BY Streams, ElementOfSeq, LenProperties DEF HistoryTypes
  <2>2. QED BY <1>1, <1>2, <2>1 DEF Past
<1>9. \A u \in Slot : ~overlapped'[u] => ~overlapped[u] /\ (u = s => Open(u) = {})
  BY <1>4
<1>10. OneTeam'
  BY <1>1, <1>2, <1>9 DEF OneTeam, page
<1>11. SlotOwnsItsStream'
  <2> SUFFICES ASSUME NEW u \in Slot, ~overlapped'[u]
               PROVE  /\ Open(u)' = {slots'[u].ctrl} \ {0}
                      /\ (slots'[u].status = "running") <=> Open(u)' # {}
                      /\ \A j \in Open(u)' : streams'[j].cand = slots'[u].cand
                      /\ slots'[u].status = "complete" =>
                           streams'[slots'[u].result].cand = slots'[u].cand
                      /\ slots'[u].status \in {"running", "complete"} /\ slots'[u].progress # 0 =>
                           streams'[slots'[u].progress].cand = slots'[u].cand
    BY DEF SlotOwnsItsStream
  <2>1. CASE u = s
    BY <1>2, <1>3, <1>4, <1>9, <2>1
  <2>2. CASE u # s
    BY <1>2, <1>4, <1>9, <2>2, Origins DEF SlotOwnsItsStream
  <2>3. QED BY <2>1, <2>2
<1>12. PageShowsOneTeam'
  <2>1. ASSUME ~missed, NEW u \in Slot, slots'[u].status = "complete", ~overlapped'[u]
        PROVE  streams'[slots'[u].result].team = snapshot
    <3>1. u # s
      BY <1>3, <1>4, <2>1
    <3>2. slots'[u] = slots[u] /\ ~overlapped[u]
      BY <1>4, <2>1, <3>1
    <3>3. QED BY <1>2, <2>1, <3>2, Origins DEF PageShowsOneTeam
  <2>2. QED BY <1>1, <2>1 DEF PageShowsOneTeam, page
<1>13. HistoryIsFaithful'
  BY <1>1, <1>3, <1>4 DEF HistoryIsFaithful
<1>14. QED BY <1>5, <1>6, <1>7, <1>8, <1>10, <1>11, <1>12, <1>13

------------------------------------------------------------------------------
(* The team selector *)

LEMMA LoadTypes ==
  ASSUME PageTypes
  PROVE  /\ DOMAIN loads = 1..Len(loads) /\ Len(loads) \in Nat
         /\ \A l \in DOMAIN loads : loads[l] \in [team : Team, pending : BOOLEAN]
BY LenProperties, ElementOfSeq DEF PageTypes

LEMMA Selecting ==
  ASSUME IInv, NEW t \in Team, SelectTeam(t)
  PROVE  IInv'
<1> USE DEF IInv
<1> DEFINE n == Len(loads) + 1
           new == [team |-> t, pending |-> TRUE]
<1>1. /\ DOMAIN loads = 1..Len(loads) /\ Len(loads) \in Nat
      /\ \A l \in DOMAIN loads : loads[l] \in [team : Team, pending : BOOLEAN]
  BY LoadTypes
<1>2. /\ selectedTeam' = t /\ loads' = Append(loads, new) /\ loading' = TRUE
      /\ missed' = (missed \/ \E l \in DOMAIN loads : loads[l].pending)
      /\ UNCHANGED <<snapshot, minted, staged, overlay, slots, streams, history, overlapped>>
  BY DEF SelectTeam
<1>3. /\ loads' \in Seq([team : Team, pending : BOOLEAN])
      /\ DOMAIN loads' = 1..n /\ loads'[n] = new
      /\ \A l \in DOMAIN loads : loads'[l] = loads[l]
  BY <1>1, <1>2, AppendProperties, LenProperties DEF PageTypes
<1>4. StoreTypes' /\ HistoryTypes' /\ Controlled' /\ ResultsExist' /\ Past'
  BY <1>2 DEF StoreTypes, HistoryTypes, Controlled, ResultsExist, Past, StreamType, SlotType
<1>5. PageTypes'
  <2>1. missed' \in BOOLEAN
    BY <1>2
  <2>2. QED BY <1>2, <1>3, <2>1 DEF PageTypes
<1>6. \A s \in Slot : Open(s)' = Open(s)
  BY <1>2 DEF Open
<1>7. ~missed' => ~missed /\ \A l \in DOMAIN loads' : loads'[l].pending => l = n
  <2>1. \A l \in DOMAIN loads' : l # n => l \in DOMAIN loads /\ loads'[l] = loads[l]
    BY <1>1, <1>3
  <2>2. QED BY <1>2, <2>1
<1>8. OneTeam'
  <2>1. ~missed' => \A s \in Slot : ~overlapped[s] => \A i \in Open(s) : streams[i].team = snapshot
    BY <1>7 DEF OneTeam
  <2>2. ~missed' => \A l \in DOMAIN loads' : loads'[l].pending => loads'[l].team = selectedTeam'
    BY <1>2, <1>3, <1>7
  <2>3. QED BY <1>2, <1>6, <1>7, <2>1, <2>2 DEF OneTeam
<1>9. SlotOwnsItsStream'
  BY <1>2, <1>6 DEF SlotOwnsItsStream
<1>10. PageShowsOneTeam'
  <2>1. loads'[n].pending /\ n \in DOMAIN loads'
    BY <1>1, <1>3
  <2>2. QED BY <1>2, <1>7, <2>1 DEF PageShowsOneTeam
<1>11. HistoryIsFaithful'
  BY <1>2 DEF HistoryIsFaithful
<1>12. QED BY <1>4, <1>5, <1>8, <1>9, <1>10, <1>11

\* A load that settles is no longer pending; the others are as they were.
LEMMA Settling ==
  ASSUME IInv, NEW l \in DOMAIN loads, Settled(l)
  PROVE  /\ loads[l].pending /\ ~loading' /\ loading' \in BOOLEAN
         /\ loads[l].team \in Team
         /\ loads' \in Seq([team : Team, pending : BOOLEAN]) /\ DOMAIN loads' = DOMAIN loads
         /\ \A k \in DOMAIN loads : loads'[k].pending <=> loads[k].pending /\ k # l
<1> USE DEF IInv
<1>1. /\ DOMAIN loads = 1..Len(loads) /\ Len(loads) \in Nat
      /\ \A k \in DOMAIN loads : loads[k] \in [team : Team, pending : BOOLEAN]
  BY LoadTypes
<1>2. /\ loads[l].pending /\ loading' = FALSE
      /\ loads' = [loads EXCEPT ![l] = [loads[l] EXCEPT !.pending = FALSE]]
  BY DEF Settled
<1>3. [loads[l] EXCEPT !.pending = FALSE] \in [team : Team, pending : BOOLEAN]
  BY <1>1
<1>4. loads' \in Seq([team : Team, pending : BOOLEAN]) /\ DOMAIN loads' = DOMAIN loads
  BY <1>1, <1>2, <1>3, ExceptSeq, LenProperties DEF PageTypes
<1>5. \A k \in DOMAIN loads : loads'[k].pending <=> loads[k].pending /\ k # l
  <2> TAKE k \in DOMAIN loads
  <2>1. CASE k = l
    BY <1>1, <1>2, <2>1
  <2>2. CASE k # l
    BY <1>2, <2>2
  <2>3. QED BY <2>1, <2>2
<1>6. QED BY <1>1, <1>2, <1>4, <1>5

LEMMA LoadFails ==
  ASSUME IInv, NEW l, LoadFail(l)
  PROVE  IInv'
<1> USE DEF IInv
<1>1. /\ l \in DOMAIN loads /\ Settled(l) /\ missed' = TRUE
      /\ UNCHANGED <<selectedTeam, snapshot, minted, staged, overlay, slots, streams, history,
                     overlapped>>
  BY DEF LoadFail
<1>2. StoreTypes' /\ HistoryTypes' /\ Controlled' /\ ResultsExist' /\ Past'
  BY <1>1 DEF StoreTypes, HistoryTypes, Controlled, ResultsExist, Past, StreamType, SlotType
<1>3. PageTypes'
  BY <1>1, Settling DEF PageTypes
<1>4. OneTeam' /\ PageShowsOneTeam'
  BY <1>1 DEF OneTeam, PageShowsOneTeam
<1>5. \A s \in Slot : Open(s)' = Open(s)
  BY <1>1 DEF Open
<1>6. SlotOwnsItsStream' /\ HistoryIsFaithful'
  BY <1>1, <1>5 DEF SlotOwnsItsStream, HistoryIsFaithful
<1>7. QED BY <1>2, <1>3, <1>4, <1>6

LEMMA LoadAnswers ==
  ASSUME IInv, NEW l, LoadOk(l)
  PROVE  IInv'
<1> USE DEF IInv
<1>1. /\ l \in DOMAIN loads /\ Settled(l) /\ snapshot' = loads[l].team /\ Wipe(Slot)
      /\ UNCHANGED <<selectedTeam, minted, history, missed>>
  BY DEF LoadOk
<1>2. /\ StoreTypes' /\ HistoryTypes' /\ Controlled' /\ ResultsExist' /\ Past'
      /\ SlotOwnsItsStream' /\ HistoryIsFaithful'
      /\ \A u \in Slot : slots'[u] = EmptySlot /\ (~overlapped'[u] => Open(u)' = {})
  BY <1>1, Wiping
<1>3. /\ loads[l].pending /\ ~loading' /\ loading' \in BOOLEAN /\ loads[l].team \in Team
      /\ loads' \in Seq([team : Team, pending : BOOLEAN]) /\ DOMAIN loads' = DOMAIN loads
      /\ \A k \in DOMAIN loads : loads'[k].pending <=> loads[k].pending /\ k # l
  BY <1>1, Settling
<1>4. PageTypes'
  BY <1>1, <1>3 DEF PageTypes
<1>5. ~missed => /\ loads[l].team = selectedTeam
                 /\ \A k \in DOMAIN loads' : ~loads'[k].pending
  BY <1>1, <1>3 DEF OneTeam
<1>6. OneTeam'
  BY <1>1, <1>2, <1>5 DEF OneTeam
<1>7. PageShowsOneTeam'
  BY <1>1, <1>2, <1>5 DEF PageShowsOneTeam, EmptySlot
<1>8. QED BY <1>2, <1>4, <1>6, <1>7

\* Clear and Reset: the page and its loads stay.
LEMMA Clearing ==
  ASSUME IInv, NEW S \in SUBSET Slot, Wipe(S), UNCHANGED <<page, minted, history>>
  PROVE  IInv'
<1> USE DEF IInv
<1>1. /\ StoreTypes' /\ HistoryTypes' /\ Controlled' /\ ResultsExist' /\ Past'
      /\ SlotOwnsItsStream' /\ HistoryIsFaithful'
      /\ \A i \in DOMAIN streams : streams'[i].team = streams[i].team
      /\ \A u \in S : slots'[u] = EmptySlot /\ (~overlapped'[u] => Open(u)' = {})
      /\ \A u \in Slot \ S : /\ slots'[u] = slots[u] /\ Open(u)' = Open(u)
                             /\ overlapped'[u] = overlapped[u]
  BY Wiping
<1>2. PageTypes'
  BY DEF PageTypes, page
<1>3. OneTeam'
  <2>1. ASSUME ~missed, NEW u \in Slot, ~overlapped'[u], NEW i \in Open(u)'
        PROVE  streams'[i].team = snapshot
    <3>1. u \in Slot \ S
      BY <1>1, <2>1
    <3>2. i \in Open(u) /\ ~overlapped[u]
      BY <1>1, <2>1, <3>1
    <3>3. i \in DOMAIN streams
      BY <3>2 DEF Open
    <3>4. QED BY <1>1, <2>1, <3>2, <3>3 DEF OneTeam
  <2>2. QED BY <2>1 DEF OneTeam, page
<1>4. PageShowsOneTeam'
  <2>1. ASSUME ~missed, NEW u \in Slot, slots'[u].status = "complete", ~overlapped'[u]
        PROVE  streams'[slots'[u].result].team = snapshot
    <3>1. u \in Slot \ S
      BY <1>1, <2>1 DEF EmptySlot
    <3>2. slots'[u] = slots[u] /\ ~overlapped[u]
      BY <1>1, <2>1, <3>1
    <3>3. slots[u].result \in DOMAIN streams
      BY <2>1, <3>2, Streams DEF ResultsExist, StoreTypes, SlotType
    <3>4. QED BY <1>1, <2>1, <3>2, <3>3 DEF PageShowsOneTeam
  <2>2. QED BY <2>1 DEF PageShowsOneTeam, page
<1>5. QED BY <1>1, <1>2, <1>3, <1>4

------------------------------------------------------------------------------
(* The theorems *)

LEMMA Initially == Init => IInv
<1> SUFFICES ASSUME Init PROVE IInv
  OBVIOUS
<1> USE DEF Init
<1>1. /\ Len(streams) = 0 /\ DOMAIN streams = {} /\ DOMAIN history = {} /\ Len(history) = 0
      /\ \A T : <<>> \in Seq(T)
  BY EmptySeq
<1>2. StoreTypes
  <2>1. EmptySlot \in SlotType
    BY <1>1 DEF EmptySlot, SlotType, Status
  <2>2. QED BY <1>1, <2>1, ConstantsAssumption DEF StoreTypes
<1>3. /\ DOMAIN loads = {1} /\ loads[1].team = FirstTeam /\ loads[1].pending
      /\ loads \in Seq([team : Team, pending : BOOLEAN])
  BY ConstantsAssumption
<1>4. PageTypes
  BY <1>3, ConstantsAssumption DEF PageTypes
<1>5. HistoryTypes /\ Controlled /\ ResultsExist /\ Past
  BY <1>1, ConstantsAssumption DEF HistoryTypes, Controlled, ResultsExist, Past, EmptySlot
<1>6. \A s \in Slot : Open(s) = {}
  BY <1>1 DEF Open
<1>7. OneTeam
  BY <1>3, <1>6 DEF OneTeam
<1>8. SlotOwnsItsStream
  BY <1>6 DEF SlotOwnsItsStream, EmptySlot
<1>9. PageShowsOneTeam /\ HistoryIsFaithful
  BY <1>1, <1>3 DEF PageShowsOneTeam, HistoryIsFaithful, EmptySlot
<1>10. QED BY <1>2, <1>4, <1>5, <1>7, <1>8, <1>9 DEF IInv

LEMMA Invariance == IInv /\ [Next]_vars => IInv'
<1> SUFFICES ASSUME IInv, [Next]_vars PROVE IInv'
  OBVIOUS
<1>1. ASSUME NEW t \in Team, SelectTeam(t) PROVE IInv'
  BY <1>1, Selecting
<1>2. ASSUME NEW l \in 1..MaxLoads, LoadOk(l) \/ LoadFail(l) PROVE IInv'
  BY <1>2, LoadAnswers, LoadFails
<1>3. ASSUME NEW s \in Slot, Stage(s) PROVE IInv'
  <2>1. /\ staged' = [staged EXCEPT ![s] = minted'] /\ StageCandidate(s, minted')
        /\ minted' = minted + 1 /\ minted < MaxCandidates
        /\ UNCHANGED <<page, overlay, streams, history>>
    BY <1>3 DEF Stage
  <2>2. minted \in Nat /\ MaxCandidates \in Nat
    BY Streams, ConstantsAssumption DEF IInv
  <2>3. minted' \in 1..minted' /\ minted' \in {minted, minted + 1} /\ minted' <= MaxCandidates
    BY <2>1, <2>2
  <2> DEFINE c == minted'
  <2>4. c \in 1..minted' /\ staged' = [staged EXCEPT ![s] = c] /\ StageCandidate(s, c)
    BY <2>1, <2>3
  <2> HIDE DEF c
  <2>5. QED BY <2>1, <2>3, <2>4, Staging
<1>4. ASSUME NEW s \in Slot, CandidateDrop(s) PROVE IInv'
  BY <1>4, Dropping
<1>5. ASSUME NEW s \in Slot, Clear(s) PROVE IInv'
  <2>1. {s} \in SUBSET Slot /\ Wipe({s}) /\ UNCHANGED <<page, minted, history>>
    BY <1>5 DEF Clear
  <2>2. QED BY <2>1, Clearing
<1>6. ASSUME NEW from \in Slot, NEW s \in Slot, SlotDrop(from, s) PROVE IInv'
  <2>1. /\ staged[from] # 0 /\ staged' = [staged EXCEPT ![s] = staged[from]]
        /\ StageCandidate(s, staged[from]) /\ UNCHANGED <<page, minted, overlay, streams, history>>
    BY <1>6 DEF SlotDrop, Draggable
  <2>2. staged[from] \in 0..minted /\ minted \in 0..MaxCandidates /\ minted \in Nat
        /\ MaxCandidates \in Nat
    BY Streams, ConstantsAssumption DEF IInv, StoreTypes
  <2>3. /\ staged[from] \in 1..minted' /\ minted' \in {minted, minted + 1}
        /\ minted' <= MaxCandidates
    BY <2>1, <2>2
  <2>4. QED BY <2>1, <2>3, Staging
<1>7. ASSUME Reset PROVE IInv'
  BY <1>7, Clearing DEF Reset
<1>8. ASSUME NEW i \in 1..MaxStreams, Progress(i) \/ Stops(i) PROVE IInv'
  BY <1>8, Progressing, Answering, Failing, Closing, TailBreaks DEF Stops
<1>9. ASSUME UNCHANGED vars PROVE IInv'
  <2>1. \A s \in Slot : Open(s)' = Open(s)
    BY <1>9 DEF vars, Open
  <2>2. /\ StoreTypes' /\ PageTypes' /\ HistoryTypes' /\ Controlled' /\ ResultsExist' /\ Past'
    BY <1>9 DEF IInv, vars, StoreTypes, PageTypes, HistoryTypes, Controlled, ResultsExist, Past,
                StreamType, SlotType
  <2>3. OneTeam' /\ SlotOwnsItsStream' /\ PageShowsOneTeam' /\ HistoryIsFaithful'
    BY <1>9, <2>1 DEF IInv, vars, OneTeam, SlotOwnsItsStream, PageShowsOneTeam, HistoryIsFaithful
  <2>4. QED BY <2>2, <2>3 DEF IInv
<1>10. QED
  BY <1>1, <1>2, <1>3, <1>4, <1>5, <1>6, <1>7, <1>8, <1>9 DEF Next

LEMMA AlwaysIInv == Spec => []IInv
BY Initially, Invariance, PTL DEF Spec

\* Every slot, stream and history entry is of its type, and the history never
\* outgrows its limit (simulation.ts).
THEOREM TypeCorrect == Spec => []TypeOK
BY AlwaysIInv, TypesAreTypes, PTL

\* In a slot that was not restaged over an open stream, and where no earlier
\* stream's connection broke after its last event while another one was open, the
\* store's controller is the slot's one open stream, it runs for the slot's
\* candidate, and what the slot shows came from a stream of that candidate
\* (startSlot, clearSlot, resetAll and the two ends of a stream in simulation.ts,
\* run of useSimulationStream.ts, with the drag guard of CandidateSlot.tsx).
THEOREM SlotsOwnTheirStreams == Spec => []SlotOwnsItsStream
<1>1. IInv => SlotOwnsItsStream
  BY DEF IInv
<1>2. QED BY <1>1, AlwaysIInv, PTL

\* While no load failed or was overtaken, the graph on screen is the selected
\* team's and so are the results beside it (the effect of SimulatorWorkspace.tsx).
THEOREM OneTeamOnPage == Spec => []PageShowsOneTeam
<1>1. IInv => PageShowsOneTeam
  BY DEF IInv
<1>2. QED BY <1>1, AlwaysIInv, PTL

\* A result on display is in the session history or pushed out of it by newer
\* ones, and none is there twice (setSlotResult of simulation.ts).
THEOREM HistoryKeepsResults == Spec => []HistoryIsFaithful
<1>1. IInv => HistoryIsFaithful
  BY DEF IInv
<1>2. QED BY <1>1, AlwaysIInv, PTL
==============================================================================
