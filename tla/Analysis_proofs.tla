---------------------------- MODULE Analysis_proofs ----------------------------
(***************************************************************************)
(* For any runs, edge counts, ages and percentages: the nightly DAG warns of *)
(* a shift exactly when there is one. For any requests, keys and lifetimes:  *)
(* what a bearer token is told follows the provider's rotation. And the six   *)
(* parts that are checked together are each itself.                         *)
(***************************************************************************)
EXTENDS MCAnalysis, Metrics_proofs, Pages_proofs, FiniteSetTheorems, TLAPS

------------------------------------------------------------------------------
(* The rebuild DAG *)

Fetched3 == {"edges", "prune", "create"}
Stored2 == {"written", "check"}

\* Snapshots are dated apart, from each other's and from those being taken.
DatedApart ==
  /\ \A s, t \in snapshots : s.at = t.at => s = t
  /\ \A s \in snapshots : s.at < clock
  /\ \A r \in Run : Taking(r) => run[r].own.at < clock
  /\ \A r \in Run : run[r].at \in Fetched3 => \A s \in snapshots : s.at # run[r].own.at
  /\ \A r, q \in Run : r # q /\ run[r].at \in Fetched3 /\ run[q].at \in Fetched3 =>
       run[r].own.at # run[q].own.at

\* There is a newest one.
HasNewest ==
  /\ IsFiniteSet(snapshots)
  /\ snapshots # {} => \E s \in snapshots : \A t \in snapshots : t.at <= s.at

\* The newest two, for a run that is not crowded: its own and the prior one.
Before(r, s) == run[r].prior # NoSnapshot /\ s.at <= run[r].prior.at

NewestTwo(r) ==
  Taking(r) /\ ~run[r].crowded =>
    /\ \A s \in snapshots : (run[r].at \in Stored2 /\ s = run[r].own) \/ Before(r, s)
    /\ run[r].prior # NoSnapshot =>
         /\ run[r].prior.at < run[r].own.at
         /\ run[r].prior \in snapshots /\ run[r].at \in Stored2 => run[r].own \in snapshots
         /\ run[r].prior \notin snapshots => \A s \in snapshots : ~Before(r, s)

Unalerted == \A r \in alerts : run[r].at = "done"

RebuildInv ==
  RebuildTypeOK /\ DatedApart /\ HasNewest /\ Unalerted /\ ShiftIsReported
  /\ \A r \in Run : NewestTwo(r)

\* What a run is, as a record.
RunRec == [at : {"window", "count", "nodes", "edges", "prune", "create", "written",
                 "check", "done", "failed"},
           again : BOOLEAN, own : Snapshot,
           prior : Snapshot \cup {NoSnapshot}, crowded : BOOLEAN]

LEMMA RebuildConstants ==
  /\ Keep \in Nat /\ MaxTime \in Nat /\ MaxFailed \in Nat /\ EdgeCount \subseteq Nat
  /\ NoSnapshot \notin Snapshot
BY RebuildAssumption DEF Snapshot

LEMMA RunIs ==
  ASSUME RebuildInv, NEW r \in Run
  PROVE  /\ run \in [Run -> RunRec] /\ run[r] \in RunRec /\ snapshots \subseteq Snapshot
         /\ clock \in 0..MaxTime /\ clock \in Nat
BY RebuildConstants DEF RebuildInv, RebuildTypeOK, RunRec

LEMMA SnapshotDates ==
  ASSUME NEW s \in Snapshot
  PROVE  s.at \in Nat /\ s.at \in 0..MaxTime /\ s.edges \in EdgeCount
BY RebuildConstants DEF Snapshot

\* The newest of snapshots that are dated apart.
LEMMA NewestIs ==
  ASSUME NEW S \in SUBSET Snapshot, NEW s \in S, \A t \in S : t.at <= s.at,
         \A t, u \in S : t.at = u.at => t = u
  PROVE  Newest(S) = s
<1>1. Newest(S) \in S /\ \A t \in S : t.at <= Newest(S).at
  BY DEF Newest
<1>2. Newest(S).at <= s.at /\ s.at <= Newest(S).at
  BY <1>1
<1>3. s.at \in Nat /\ Newest(S).at \in Nat
  BY <1>1, SnapshotDates
<1>. QED BY <1>1, <1>2, <1>3

\* A step of one run that leaves the snapshots and the dates of its own alone.
LEMMA RunMoves ==
  ASSUME RebuildInv, NEW r \in Run, NEW q \in RunRec, run' = [run EXCEPT ![r] = q],
         UNCHANGED <<clock, edges, snapshots, alerts>>, failed' \in 0..MaxFailed,
         run[r].at # "done", q.at # "done",
         q.at \in Fetched3 => run[r].at \in Fetched3 /\ q.own.at = run[r].own.at,
         q.at \in Stored2 => run[r].at \in Stored2 /\ q.own = run[r].own,
         q.prior = run[r].prior, q.crowded = run[r].crowded
  PROVE  RebuildInv'
<1>0. /\ run \in [Run -> RunRec] /\ run[r] \in RunRec /\ snapshots \subseteq Snapshot
      /\ run'[r] = q /\ \A u \in Run \ {r} : run'[u] = run[u]
  BY RunIs
<1>1. RebuildTypeOK'
  BY <1>0 DEF RebuildInv, RebuildTypeOK, RunRec
<1>2. DatedApart'
  BY <1>0 DEF RebuildInv, DatedApart, Taking, Fetched3, Stored2
<1>3. HasNewest'
  BY DEF RebuildInv, HasNewest
<1>4. Unalerted'
  BY <1>0 DEF RebuildInv, Unalerted, RebuildTypeOK
<1>5. ShiftIsReported'
  BY <1>0 DEF RebuildInv, ShiftIsReported
<1>6. ASSUME NEW u \in Run PROVE NewestTwo(u)'
  <2>1. CASE u = r
    BY <1>0, <2>1 DEF RebuildInv, NewestTwo, Before, Taking, Fetched3, Stored2
  <2>2. CASE u # r
    BY <1>0, <2>2 DEF RebuildInv, NewestTwo, Before, Taking
  <2>. QED BY <2>1, <2>2
<1>. QED BY <1>1, <1>2, <1>3, <1>4, <1>5, <1>6 DEF RebuildInv

LEMMA FirstTasks ==
  ASSUME RebuildInv, NEW r \in Run, Window(r) \/ Count(r) \/ Finish(r)
  PROVE  RebuildInv'
<1>0. run[r] \in RunRec /\ run \in [Run -> RunRec] /\ failed \in 0..MaxFailed
  BY RunIs DEF RebuildInv, RebuildTypeOK
<1>1. PICK l \in {"count", "nodes", "check"} :
        /\ Succeed(r, l) /\ UNCHANGED <<clock, edges, snapshots, alerts, failed>>
        /\ l = "check" <=> run[r].at = "written"
        /\ run[r].at \in {"window", "count", "written"}
  BY DEF Window, Count, Finish
<1> DEFINE q == [run[r] EXCEPT !.at = l, !.again = FALSE]
<1>2. run' = [run EXCEPT ![r] = q]
  BY <1>0, <1>1 DEF Succeed
<1>3. /\ q \in RunRec /\ q.at = l /\ q.own = run[r].own /\ q.prior = run[r].prior
      /\ q.crowded = run[r].crowded
  BY <1>0 DEF RunRec
<1> HIDE DEF q
<1>. QED BY <1>0, <1>1, <1>2, <1>3, RunMoves DEF Fetched3, Stored2

LEMMA EdgesFetched ==
  ASSUME RebuildInv, NEW r \in Run, FetchEdges(r)
  PROVE  RebuildInv'
<1>0. /\ run[r] \in RunRec /\ run \in [Run -> RunRec] /\ failed \in 0..MaxFailed
      /\ edges \in EdgeCount
  BY RunIs DEF RebuildInv, RebuildTypeOK
<1> DEFINE q == [run[r] EXCEPT !.at = "prune", !.own.edges = edges]
<1>2. run' = [run EXCEPT ![r] = q]
  BY <1>0 DEF FetchEdges
<1>3. /\ q \in RunRec /\ q.at = "prune" /\ q.own.at = run[r].own.at /\ q.prior = run[r].prior
      /\ q.crowded = run[r].crowded
  BY <1>0 DEF RunRec, Snapshot
<1> HIDE DEF q
<1>. QED BY <1>0, <1>2, <1>3, RunMoves DEF Fetched3, Stored2, FetchEdges

LEMMA FailedAttempt ==
  ASSUME RebuildInv, NEW r \in Run, Fail(r)
  PROVE  RebuildInv'
<1>0. /\ run[r] \in RunRec /\ run \in [Run -> RunRec] /\ failed' \in 0..MaxFailed
      /\ run[r].at \notin {"done", "failed"} /\ UNCHANGED <<clock, edges, snapshots, alerts>>
  BY RunIs, RebuildConstants DEF RebuildInv, RebuildTypeOK, Fail
<1>1. PICK task \in {"window", "count", "check", "nodes"} :
        /\ task = "check" => run[r].at = "check"
        /\ run' = [run EXCEPT ![r] = IF @.again THEN [@ EXCEPT !.at = "failed"]
                                     ELSE [@ EXCEPT !.at = task, !.again = TRUE]]
  BY DEF Fail
<1>2. ASSUME NEW q \in RunRec, run' = [run EXCEPT ![r] = q], q.own = run[r].own,
             q.prior = run[r].prior, q.crowded = run[r].crowded,
             q.at \in {"failed", "window", "count", "check", "nodes"},
             q.at = "check" => run[r].at = "check"
      PROVE  RebuildInv'
  BY <1>0, <1>2, RunMoves DEF Fetched3, Stored2
<1>3. CASE run[r].again
  <2> DEFINE q == [run[r] EXCEPT !.at = "failed"]
  <2>1. run' = [run EXCEPT ![r] = q]
    BY <1>0, <1>1, <1>3
  <2>2. /\ q \in RunRec /\ q.at = "failed" /\ q.own = run[r].own /\ q.prior = run[r].prior
        /\ q.crowded = run[r].crowded
    BY <1>0 DEF RunRec
  <2> HIDE DEF q
  <2>. QED BY <1>2, <2>1, <2>2
<1>4. CASE ~run[r].again
  <2> DEFINE q == [run[r] EXCEPT !.at = task, !.again = TRUE]
  <2>1. run' = [run EXCEPT ![r] = q]
    BY <1>0, <1>1, <1>4
  <2>2. /\ q \in RunRec /\ q.at = task /\ q.own = run[r].own /\ q.prior = run[r].prior
        /\ q.crowded = run[r].crowded
    BY <1>0 DEF RunRec
  <2> HIDE DEF q
  <2>. QED BY <1>1, <1>2, <2>1, <2>2
<1>. QED BY <1>3, <1>4

\* The snapshot begins: what is newest then is the prior one.
LEMMA NodesFetched ==
  ASSUME RebuildInv, NEW r \in Run, FetchNodes(r)
  PROVE  RebuildInv'
<1>0. /\ run[r] \in RunRec /\ run \in [Run -> RunRec] /\ snapshots \subseteq Snapshot
      /\ clock \in Nat /\ clock \in 0..MaxTime /\ clock' = clock + 1 /\ clock' \in 0..MaxTime
      /\ UNCHANGED <<edges, snapshots, alerts, failed>>
  BY RunIs, RebuildConstants DEF FetchNodes
<1> DEFINE prior == IF snapshots = {} THEN NoSnapshot ELSE Newest(snapshots)
<1> DEFINE crowded == \E q \in Run \ {r} : Taking(q)
<1>1. /\ prior = IF snapshots = {} THEN NoSnapshot ELSE Newest(snapshots)
      /\ crowded \in BOOLEAN /\ (crowded <=> \E q \in Run \ {r} : Taking(q))
      /\ run' = [run EXCEPT ![r] = [@ EXCEPT !.at = "edges", !.own.at = clock,
                                             !.crowded = crowded, !.prior = prior]]
  BY DEF FetchNodes
<1> HIDE DEF prior, crowded
<1>2. snapshots # {} => prior \in snapshots /\ \A t \in snapshots : t.at <= prior.at
  BY <1>1 DEF RebuildInv, HasNewest, Newest
<1>3. snapshots = {} => prior = NoSnapshot
  BY <1>1
<1>4. prior \in Snapshot \cup {NoSnapshot}
  BY <1>0, <1>2, <1>3
<1> DEFINE q == [run[r] EXCEPT !.at = "edges", !.own.at = clock, !.crowded = crowded, !.prior = prior]
<1>5. q \in RunRec /\ q.at = "edges" /\ q.own.at = clock /\ q.crowded = crowded /\ q.prior = prior
  BY <1>0, <1>1, <1>4 DEF RunRec, Snapshot
<1>6. run'[r] = q /\ \A u \in Run \ {r} : run'[u] = run[u]
  BY <1>0, <1>1
<1>7. run' \in [Run -> RunRec]
  BY <1>0, <1>1, <1>5
<1> HIDE DEF q
<1>8. RebuildTypeOK'
  BY <1>0, <1>7 DEF RebuildInv, RebuildTypeOK, RunRec
<1>9. DatedApart'
  <2>1. \A s \in snapshots : s.at \in Nat /\ s.at < clock /\ s.at < clock'
    BY <1>0, SnapshotDates DEF RebuildInv, DatedApart
  <2>2. ASSUME NEW u \in Run, Taking(u) PROVE run[u].own.at \in Nat /\ run[u].own.at < clock
    BY <2>2, RunIs, SnapshotDates DEF RebuildInv, DatedApart, RunRec
  <2>3. \A u \in Run : Taking(u)' => run'[u].own.at < clock'
    BY <1>0, <1>5, <1>6, <2>2 DEF Taking
  <2>4. \A u \in Run : run'[u].at \in Fetched3 => \A s \in snapshots : s.at # run'[u].own.at
    BY <1>0, <1>5, <1>6, <2>1 DEF RebuildInv, DatedApart
  <2>5. \A u, v \in Run : u # v /\ run'[u].at \in Fetched3 /\ run'[v].at \in Fetched3 =>
          run'[u].own.at # run'[v].own.at
    <3>1. \A u \in Run \ {r} : run[u].at \in Fetched3 => run[u].own.at # clock
      BY <1>0, <2>2 DEF Taking, Fetched3
    <3>. QED BY <1>5, <1>6, <3>1 DEF RebuildInv, DatedApart
  <2>. QED BY <1>0, <2>1, <2>3, <2>4, <2>5 DEF RebuildInv, DatedApart
<1>10. HasNewest'
  BY <1>0 DEF RebuildInv, HasNewest
<1>11. Unalerted'
  BY <1>0, <1>6 DEF RebuildInv, Unalerted, RebuildTypeOK, FetchNodes
<1>12. ShiftIsReported'
  BY <1>0, <1>5, <1>6 DEF RebuildInv, ShiftIsReported
<1>13. ASSUME NEW u \in Run PROVE NewestTwo(u)'
  <2>1. CASE u = r
    <3>1. \A s \in snapshots : Before(u, s)'
      BY <1>0, <1>2, <1>3, <1>5, <1>6, <2>1, RebuildConstants DEF Before
    <3>2. prior # NoSnapshot => prior \in snapshots /\ prior.at < clock
      BY <1>2, <1>3 DEF RebuildInv, DatedApart
    <3>3. run'[u] = q
      BY <1>6, <2>1
    <3>. QED BY <1>0, <1>5, <3>1, <3>2, <3>3 DEF NewestTwo, Stored2
  <2>2. CASE u # r
    BY <1>0, <1>6, <2>2 DEF RebuildInv, NewestTwo, Before, Taking
  <2>. QED BY <2>1, <2>2
<1>. QED BY <1>8, <1>9, <1>10, <1>11, <1>12, <1>13 DEF RebuildInv

\* Old snapshots go: if the prior one stays, so does what is newer.
LEMMA Pruned ==
  ASSUME RebuildInv, NEW r \in Run, Prune(r)
  PROVE  RebuildInv'
<1>0. /\ run[r] \in RunRec /\ run \in [Run -> RunRec] /\ snapshots \subseteq Snapshot
      /\ clock \in Nat /\ run[r].at = "prune" /\ UNCHANGED <<clock, edges, alerts, failed>>
      /\ snapshots' = {s \in snapshots : s.at >= clock - Keep}
  BY RunIs DEF Prune
<1>a. PICK cut \in Int : cut = clock - Keep
  BY <1>0, RebuildConstants
<1>b. snapshots' \subseteq snapshots /\ \A s \in snapshots : s \in snapshots' <=> s.at >= cut
  BY <1>0, <1>a
<1> DEFINE q == [run[r] EXCEPT !.at = "create"]
<1>1. /\ q \in RunRec /\ q.at = "create" /\ q.own = run[r].own /\ q.prior = run[r].prior
      /\ q.crowded = run[r].crowded
  BY <1>0 DEF RunRec
<1>2. run'[r] = q /\ (\A u \in Run \ {r} : run'[u] = run[u]) /\ run' \in [Run -> RunRec]
  BY <1>0, <1>1 DEF Prune, To
<1> HIDE DEF q
<1>3. RebuildTypeOK'
  BY <1>0, <1>2 DEF RebuildInv, RebuildTypeOK, RunRec
<1>4. DatedApart'
  BY <1>0, <1>b, <1>1, <1>2 DEF RebuildInv, DatedApart, Taking, Fetched3
<1>5. HasNewest'
  <2>1. IsFiniteSet(snapshots')
    BY <1>b, FS_Subset DEF RebuildInv, HasNewest
  <2>2. ASSUME snapshots' # {} PROVE \E s \in snapshots' : \A t \in snapshots' : t.at <= s.at
    <3>1. PICK s \in snapshots : \A t \in snapshots : t.at <= s.at
      BY <1>b, <2>2 DEF RebuildInv, HasNewest
    <3>2. PICK t \in snapshots' : t.at >= cut
      BY <1>b, <2>2
    <3>3. s.at \in Nat /\ t.at \in Nat /\ t.at <= s.at
      BY <1>0, <1>b, <3>1, <3>2, SnapshotDates
    <3>4. s \in snapshots'
      BY <1>b, <3>2, <3>3
    <3>. QED BY <1>b, <3>1, <3>4
  <2>. QED BY <2>1, <2>2 DEF HasNewest
<1>6. Unalerted'
  BY <1>0, <1>2 DEF RebuildInv, Unalerted, RebuildTypeOK
<1>7. ShiftIsReported'
  BY <1>0, <1>1, <1>2 DEF RebuildInv, ShiftIsReported
<1>8. ASSUME NEW u \in Run PROVE NewestTwo(u)'
  <2> SUFFICES ASSUME Taking(u)', ~run'[u].crowded
               PROVE  /\ \A s \in snapshots' : (run'[u].at \in Stored2 /\ s = run'[u].own) \/ Before(u, s)'
                      /\ run'[u].prior # NoSnapshot =>
                           /\ run'[u].prior.at < run'[u].own.at
                           /\ run'[u].prior \in snapshots' /\ run'[u].at \in Stored2 => run'[u].own \in snapshots'
                           /\ run'[u].prior \notin snapshots' => \A s \in snapshots' : ~Before(u, s)'
    BY DEF NewestTwo
  <2>1. /\ run'[u].own = run[u].own /\ run'[u].prior = run[u].prior /\ run'[u].crowded = run[u].crowded
        /\ run'[u].at \in Stored2 <=> run[u].at \in Stored2
        /\ Taking(u)
    <3>1. CASE u = r
      BY <1>0, <1>1, <1>2, <3>1 DEF Taking, Stored2
    <3>2. CASE u # r
      BY <1>2, <3>2 DEF Taking
    <3>. QED BY <3>1, <3>2
  <2>2. /\ \A s \in snapshots : (run[u].at \in Stored2 /\ s = run[u].own) \/ Before(u, s)
        /\ run[u].prior # NoSnapshot =>
             /\ run[u].prior.at < run[u].own.at
             /\ run[u].prior \in snapshots /\ run[u].at \in Stored2 => run[u].own \in snapshots
             /\ run[u].prior \notin snapshots => \A s \in snapshots : ~Before(u, s)
    BY <2>1 DEF RebuildInv, NewestTwo
  <2>3. \A s : Before(u, s)' <=> Before(u, s)
    BY <2>1 DEF Before
  <2>4. /\ run[u].own.at \in Nat
        /\ run[u].prior # NoSnapshot => run[u].prior.at \in Nat
    BY RunIs, SnapshotDates DEF RunRec
  <2>5. ASSUME run[u].prior # NoSnapshot, run[u].prior \in snapshots', run[u].at \in Stored2
        PROVE  run[u].own \in snapshots'
    <3>1. run[u].prior.at >= cut /\ run[u].prior.at < run[u].own.at /\ run[u].own \in snapshots
      BY <1>b, <2>2, <2>5
    <3>. QED BY <1>b, <2>4, <2>5, <3>1
  <2>6. ASSUME run[u].prior # NoSnapshot, run[u].prior \notin snapshots', NEW s \in snapshots'
        PROVE  ~Before(u, s)
    <3>1. CASE run[u].prior \notin snapshots
      BY <1>b, <2>2, <2>6, <3>1
    <3>2. CASE run[u].prior \in snapshots
      <4>1. ~(run[u].prior.at >= cut) /\ s.at >= cut /\ s.at \in Nat
        BY <1>0, <1>b, <2>6, <3>2, SnapshotDates
      <4>. QED BY <2>4, <2>6, <4>1 DEF Before
    <3>. QED BY <3>1, <3>2
  <2>. QED BY <1>b, <2>1, <2>2, <2>3, <2>5, <2>6
<1>. QED BY <1>3, <1>4, <1>5, <1>6, <1>7, <1>8 DEF RebuildInv

\* The snapshot is stored, and every other run that is taking one is crowded.
LEMMA Created ==
  ASSUME RebuildInv, NEW r \in Run, Create(r)
  PROVE  RebuildInv'
<1>0. /\ run[r] \in RunRec /\ run \in [Run -> RunRec] /\ snapshots \subseteq Snapshot
      /\ clock \in Nat /\ run[r].at = "create" /\ UNCHANGED <<clock, edges, alerts, failed>>
      /\ snapshots' = snapshots \cup {run[r].own}
  BY RunIs DEF Create
<1>1. PICK own \in Snapshot : own = run[r].own
  BY <1>0 DEF RunRec
<1>2. /\ run'[r] \in RunRec /\ run'[r].at = "written" /\ run'[r].own = own
      /\ run'[r].prior = run[r].prior /\ run'[r].crowded = run[r].crowded
  BY <1>0, <1>1 DEF Create, RunRec
<1>3. ASSUME NEW u \in Run \ {r}
      PROVE  /\ run'[u] \in RunRec /\ run'[u].at = run[u].at /\ run'[u].own = run[u].own
             /\ run'[u].prior = run[u].prior
             /\ Taking(u) => run'[u].crowded
             /\ ~Taking(u) => run'[u].crowded = run[u].crowded
  <2>1. PICK c \in BOOLEAN : c = (run[u].crowded \/ Taking(u))
    OBVIOUS
  <2>2. run'[u] = [run[u] EXCEPT !.crowded = c]
    BY <1>0, <2>1 DEF Create
  <2>3. run[u] \in RunRec
    BY <1>0
  <2>4. /\ run'[u] \in RunRec /\ run'[u].at = run[u].at /\ run'[u].own = run[u].own
        /\ run'[u].prior = run[u].prior /\ run'[u].crowded = c
    BY <2>2, <2>3 DEF RunRec
  <2>5. run[u].crowded \in BOOLEAN
    BY <2>3 DEF RunRec
  <2>. QED BY <2>1, <2>4, <2>5
<1>4. run' \in [Run -> RunRec]
  <2>1. DOMAIN run' = Run /\ run' = [u \in Run |-> run'[u]]
    BY DEF Create
  <2>. QED BY <1>2, <1>3, <2>1
<1>5. RebuildTypeOK'
  BY <1>0, <1>1, <1>4 DEF RebuildInv, RebuildTypeOK, RunRec
<1>6. own.at < clock /\ own.at \in Nat /\ \A s \in snapshots : s.at # own.at /\ s.at \in Nat
  BY <1>0, <1>1, SnapshotDates DEF RebuildInv, DatedApart, Taking, Fetched3
<1>7. DatedApart'
  <2>1. \A s, t \in snapshots' : s.at = t.at => s = t
    BY <1>0, <1>1, <1>6 DEF RebuildInv, DatedApart
  <2>2. \A s \in snapshots' : s.at < clock'
    BY <1>0, <1>1, <1>6 DEF RebuildInv, DatedApart
  <2>3. \A u \in Run : Taking(u)' => run'[u].own.at < clock'
    BY <1>0, <1>1, <1>2, <1>3, <1>6 DEF RebuildInv, DatedApart, Taking
  <2>4. \A u \in Run : run'[u].at \in Fetched3 => \A s \in snapshots' : s.at # run'[u].own.at
    <3>1. \A u \in Run \ {r} : run[u].at \in Fetched3 => run[u].own.at # own.at
      BY <1>0, <1>1 DEF RebuildInv, DatedApart, Fetched3
    <3>. QED BY <1>0, <1>1, <1>2, <1>3, <3>1 DEF RebuildInv, DatedApart, Fetched3
  <2>5. \A u, v \in Run : u # v /\ run'[u].at \in Fetched3 /\ run'[v].at \in Fetched3 =>
          run'[u].own.at # run'[v].own.at
    BY <1>2, <1>3 DEF RebuildInv, DatedApart, Fetched3
  <2>. QED BY <2>1, <2>2, <2>3, <2>4, <2>5 DEF DatedApart
<1>8. HasNewest'
  <2>1. IsFiniteSet(snapshots')
    BY <1>0, FS_AddElement DEF RebuildInv, HasNewest
  <2>2. \E s \in snapshots' : \A t \in snapshots' : t.at <= s.at
    <3>1. CASE snapshots = {}
      BY <1>0, <1>1, <1>6, <3>1
    <3>2. CASE snapshots # {}
      <4>1. PICK s \in snapshots : \A t \in snapshots : t.at <= s.at
        BY <3>2 DEF RebuildInv, HasNewest
      <4>2. s.at \in Nat
        BY <1>6
      <4>3. CASE own.at <= s.at
        BY <1>0, <1>1, <4>1, <4>3
      <4>4. CASE ~(own.at <= s.at)
        <5>1. \A t \in snapshots : t.at <= own.at
          BY <1>6, <4>1, <4>2, <4>4
        <5>. QED BY <1>0, <1>1, <1>6, <5>1
      <4>. QED BY <4>3, <4>4
    <3>. QED BY <3>1, <3>2
  <2>. QED BY <2>1, <2>2 DEF HasNewest
<1>9. Unalerted'
  BY <1>0, <1>3 DEF RebuildInv, Unalerted, RebuildTypeOK
<1>10. ShiftIsReported'
  <2>1. ASSUME NEW u \in Run, run'[u].at = "done", ~run'[u].crowded
        PROVE  /\ run[u].at = "done" /\ ~run[u].crowded
               /\ run'[u].own = run[u].own /\ run'[u].prior = run[u].prior
    BY <1>2, <1>3, <2>1 DEF Taking
  <2>. QED BY <1>0, <2>1 DEF RebuildInv, ShiftIsReported
<1>11. ASSUME NEW u \in Run PROVE NewestTwo(u)'
  <2>1. CASE u # r
    BY <1>3, <2>1 DEF NewestTwo, Taking
  <2>2. CASE u = r
    <3> SUFFICES ASSUME ~run[r].crowded PROVE NewestTwo(r)'
      BY <1>2, <2>2 DEF NewestTwo
    <3>1. /\ \A s \in snapshots : Before(r, s)
          /\ run[r].prior # NoSnapshot =>
               /\ run[r].prior.at < run[r].own.at
               /\ run[r].prior \notin snapshots => \A s \in snapshots : ~Before(r, s)
      BY <1>0 DEF RebuildInv, NewestTwo, Taking, Stored2
    <3>2. \A s : Before(r, s)' <=> Before(r, s)
      BY <1>2 DEF Before
    <3>3. ASSUME run[r].prior # NoSnapshot, run[r].prior \notin snapshots', NEW s \in snapshots'
          PROVE  ~Before(r, s)
      <4>1. snapshots = {}
        BY <1>0, <3>1, <3>3
      <4>2. s = own /\ run[r].prior.at < own.at
        BY <1>0, <1>1, <3>1, <3>3, <4>1
      <4>3. run[r].prior.at \in Nat
        BY <1>0, <3>3, SnapshotDates DEF RunRec
      <4>. QED BY <1>6, <4>2, <4>3 DEF Before
    <3>4. \A s \in snapshots' : s = own \/ Before(r, s)
      BY <1>0, <1>1, <3>1
    <3>5. own \in snapshots'
      BY <1>0, <1>1
    <3>. QED BY <1>1, <1>2, <3>1, <3>2, <3>3, <3>4, <3>5 DEF NewestTwo, Stored2
  <2>. QED BY <2>1, <2>2
<1>. QED BY <1>5, <1>7, <1>8, <1>9, <1>10, <1>11 DEF RebuildInv

\* What the check compares is what the run took and what was newest before.
LEMMA Compared ==
  ASSUME RebuildInv, NEW r \in Run, run[r].at = "check", ~run[r].crowded
  PROVE  Cardinality(snapshots) >= 2 /\ Shifted(NewestFirst(snapshots)[2], NewestFirst(snapshots)[1])
           <=> /\ run[r].prior # NoSnapshot /\ run[r].prior \in snapshots
               /\ Shifted(run[r].prior, run[r].own)
<1>0. run[r] \in RunRec /\ snapshots \in SUBSET Snapshot /\ IsFiniteSet(snapshots)
  BY RunIs DEF RebuildInv, HasNewest
<1>1. PICK own \in Snapshot, prior \in Snapshot \cup {NoSnapshot} :
        own = run[r].own /\ prior = run[r].prior
  BY <1>0 DEF RunRec
<1>2. /\ \A s \in snapshots : s = own \/ (prior # NoSnapshot /\ s.at <= prior.at)
      /\ prior # NoSnapshot =>
           /\ prior.at < own.at
           /\ prior \in snapshots => own \in snapshots
           /\ prior \notin snapshots => \A s \in snapshots : ~(s.at <= prior.at)
  BY <1>1 DEF RebuildInv, NewestTwo, Taking, Stored2, Before
<1>3. CASE prior # NoSnapshot /\ prior \in snapshots
  <2>1. own \in snapshots /\ prior \in Snapshot /\ prior.at \in Nat /\ own.at \in Nat /\ own # prior
    BY <1>1, <1>2, <1>3, SnapshotDates
  <2>2. \A s \in snapshots : s.at <= own.at
    BY <1>0, <1>2, <1>3, <2>1, SnapshotDates
  <2>3. Newest(snapshots) = own
    BY <1>0, <2>1, <2>2, NewestIs DEF RebuildInv, DatedApart
  <2>4. Newest(snapshots \ {own}) = prior
    <3>1. snapshots \ {own} \in SUBSET Snapshot /\ prior \in snapshots \ {own}
      BY <1>0, <1>3, <2>1
    <3>2. \A s \in snapshots \ {own} : s.at <= prior.at
      BY <1>2
    <3>3. \A s, t \in snapshots \ {own} : s.at = t.at => s = t
      BY DEF RebuildInv, DatedApart
    <3>. QED BY <3>1, <3>2, <3>3, NewestIs
  <2>5. NewestFirst(snapshots) = <<own, prior>>
    BY <2>3, <2>4 DEF NewestFirst
  <2>6. Cardinality(snapshots) >= 2
    <3>1. IsFiniteSet({own}) /\ Cardinality({own}) = 1
      BY FS_Singleton
    <3>a. prior \notin {own}
      BY <2>1
    <3>b. IsFiniteSet({own} \cup {prior}) /\ Cardinality({own} \cup {prior}) = Cardinality({own}) + 1
      BY <3>1, <3>a, FS_AddElement
    <3>2. IsFiniteSet({own} \cup {prior}) /\ Cardinality({own} \cup {prior}) = 2
      BY <3>1, <3>b
    <3>3. {own} \cup {prior} \in SUBSET snapshots
      BY <1>3, <2>1
    <3>4. 2 <= Cardinality(snapshots) /\ Cardinality(snapshots) \in Nat
      BY <1>0, <3>2, <3>3, FS_Subset, FS_CardinalityType
    <3>. QED BY <3>4
  <2>. QED BY <1>1, <1>3, <2>5, <2>6
<1>4. CASE ~(prior # NoSnapshot /\ prior \in snapshots)
  <2>1. snapshots \in SUBSET {own}
    BY <1>2, <1>4
  <2>2. IsFiniteSet({own}) /\ Cardinality({own}) = 1
    BY FS_Singleton
  <2>3. Cardinality(snapshots) <= 1 /\ Cardinality(snapshots) \in Nat
    BY <1>0, <2>1, <2>2, FS_Subset, FS_CardinalityType
  <2>. QED BY <1>1, <1>4, <2>3
<1>. QED BY <1>3, <1>4

\* The check: its run warns, or not, of what it took.
LEMMA Checked ==
  ASSUME RebuildInv, NEW r \in Run, Check(r)
  PROVE  RebuildInv'
<1>0. /\ run[r] \in RunRec /\ run \in [Run -> RunRec] /\ run[r].at = "check"
      /\ UNCHANGED <<clock, edges, snapshots, failed>>
      /\ run' = [run EXCEPT ![r].at = "done", ![r].prior = IF @ \in snapshots THEN @ ELSE NoSnapshot]
  BY RunIs DEF Check
<1> DEFINE warns == Cardinality(snapshots) >= 2 /\ Shifted(NewestFirst(snapshots)[2], NewestFirst(snapshots)[1])
<1>1. alerts' = IF warns THEN alerts \cup {r} ELSE alerts
  BY DEF Check
<1>2. ~run[r].crowded =>
        (warns <=> /\ run[r].prior # NoSnapshot /\ run[r].prior \in snapshots
                   /\ Shifted(run[r].prior, run[r].own))
  BY <1>0, Compared
<1> HIDE DEF warns
<1>3. PICK own, prior : /\ own = run[r].own
                        /\ prior = IF run[r].prior \in snapshots THEN run[r].prior ELSE NoSnapshot
                        /\ prior \in Snapshot \cup {NoSnapshot}
  BY <1>0 DEF RunRec
<1>a. run'[r] = [run[r] EXCEPT !.at = "done",
                   !.prior = IF run[r].prior \in snapshots THEN run[r].prior ELSE NoSnapshot]
  BY <1>0 DEF RunRec
<1>b. run'[r] = [run[r] EXCEPT !.at = "done", !.prior = prior]
  BY <1>3, <1>a
<1>4. /\ run'[r] \in RunRec /\ run'[r].at = "done" /\ run'[r].own = own /\ run'[r].prior = prior
      /\ run'[r].crowded = run[r].crowded
  BY <1>0, <1>3, <1>b DEF RunRec
<1>5. \A u \in Run \ {r} : run'[u] = run[u]
  BY <1>0
<1>6. run' \in [Run -> RunRec]
  <2>1. DOMAIN run' = Run /\ run' = [u \in Run |-> run'[u]]
    BY <1>0
  <2>. QED BY <1>0, <1>4, <1>5, <2>1
<1>7. r \notin alerts
  BY <1>0 DEF RebuildInv, Unalerted
<1>8. RebuildTypeOK'
  BY <1>0, <1>1, <1>6 DEF RebuildInv, RebuildTypeOK, RunRec
<1>9. DatedApart'
  BY <1>0, <1>4, <1>5 DEF RebuildInv, DatedApart, Taking, Fetched3
<1>10. HasNewest'
  BY <1>0 DEF RebuildInv, HasNewest
<1>11. Unalerted'
  BY <1>1, <1>4, <1>5 DEF RebuildInv, Unalerted, RebuildTypeOK
<1>12. ShiftIsReported'
  <2> SUFFICES ASSUME NEW u \in Run, run'[u].at = "done", ~run'[u].crowded
               PROVE  u \in alerts' <=>
                        run'[u].prior # NoSnapshot /\ Shifted(run'[u].prior, run'[u].own)
    BY DEF ShiftIsReported
  <2>1. CASE u = r
    <3>1. u \in alerts' <=> warns
      BY <1>1, <1>7, <2>1
    <3>2. run'[u].prior = prior /\ run'[u].own = run[r].own /\ ~run[r].crowded
      BY <1>3, <1>4, <1>5, <2>1
    <3>3. CASE run[r].prior \in snapshots /\ run[r].prior # NoSnapshot
      BY <1>2, <1>3, <3>1, <3>2, <3>3
    <3>4. CASE ~(run[r].prior \in snapshots /\ run[r].prior # NoSnapshot)
      BY <1>2, <1>3, <3>1, <3>2, <3>4
    <3>. QED BY <3>3, <3>4
  <2>2. CASE u # r
    <3>1. run'[u] = run[u] /\ (u \in alerts' <=> u \in alerts)
      BY <1>1, <1>5, <2>2
    <3>. QED BY <3>1 DEF RebuildInv, ShiftIsReported
  <2>. QED BY <2>1, <2>2
<1>13. ASSUME NEW u \in Run PROVE NewestTwo(u)'
  <2>1. CASE u = r
    BY <1>4, <1>5, <2>1 DEF NewestTwo, Taking
  <2>2. CASE u # r
    BY <1>0, <1>5, <2>2 DEF RebuildInv, NewestTwo, Before, Taking
  <2>. QED BY <2>1, <2>2
<1>. QED BY <1>8, <1>9, <1>10, <1>11, <1>12, <1>13 DEF RebuildInv

LEMMA RebuildInitial == RebuildInit => RebuildInv
<1> SUFFICES ASSUME RebuildInit PROVE RebuildInv
  OBVIOUS
<1>0. /\ snapshots = {} /\ alerts = {} /\ clock = 0 /\ failed = 0 /\ edges \in EdgeCount
      /\ \A r \in Run : run[r] = [at |-> "window", again |-> FALSE, own |-> [at |-> 0, edges |-> edges],
                                  prior |-> NoSnapshot, crowded |-> FALSE]
  BY DEF RebuildInit
<1>1. \A r \in Run : run[r].at = "window"
  BY <1>0
<1>2. RebuildTypeOK
  BY <1>0, RebuildConstants DEF RebuildInit, RebuildTypeOK, Snapshot
<1>3. DatedApart
  BY <1>0, <1>1 DEF DatedApart, Taking, Fetched3
<1>4. HasNewest
  BY <1>0, FS_EmptySet DEF HasNewest
<1>5. Unalerted /\ ShiftIsReported /\ \A r \in Run : NewestTwo(r)
  BY <1>0, <1>1 DEF Unalerted, ShiftIsReported, NewestTwo, Taking
<1>. QED BY <1>2, <1>3, <1>4, <1>5 DEF RebuildInv

LEMMA RebuildStep == RebuildInv /\ [RebuildNext]_rebuildVars => RebuildInv'
<1> SUFFICES ASSUME RebuildInv, [RebuildNext]_rebuildVars PROVE RebuildInv'
  OBVIOUS
<1>1. CASE UNCHANGED rebuildVars
  BY <1>1 DEF rebuildVars, RebuildInv, RebuildTypeOK, DatedApart, HasNewest, Unalerted,
     ShiftIsReported, NewestTwo, Before, Taking
<1>2. CASE Edit \/ Pass
  <2>1. /\ UNCHANGED <<snapshots, run, alerts, failed>>
        /\ edges' \in EdgeCount /\ clock' \in 0..MaxTime /\ clock <= clock'
    BY <1>2, RebuildConstants DEF Edit, Pass, RebuildInv, RebuildTypeOK
  <2>2. RebuildTypeOK'
    BY <2>1 DEF RebuildInv, RebuildTypeOK
  <2>3. DatedApart'
    <3>1. clock \in Nat /\ clock' \in Nat /\ \A s \in snapshots : s.at \in Nat
      BY <2>1, RebuildConstants, SnapshotDates DEF RebuildInv, RebuildTypeOK
    <3>2. \A r \in Run : run[r].own.at \in Nat
      BY RunIs, SnapshotDates DEF RunRec
    <3>. QED BY <2>1, <3>1, <3>2 DEF RebuildInv, DatedApart, Taking
  <2>4. HasNewest' /\ Unalerted' /\ ShiftIsReported' /\ \A r \in Run : NewestTwo(r)'
    BY <2>1 DEF RebuildInv, HasNewest, Unalerted, ShiftIsReported, NewestTwo, Before, Taking
  <2>. QED BY <2>2, <2>3, <2>4 DEF RebuildInv
<1>3. CASE \E r \in Run : Window(r) \/ Count(r) \/ FetchNodes(r) \/ FetchEdges(r) \/ Prune(r)
                          \/ Create(r) \/ Finish(r) \/ Check(r) \/ Fail(r)
  BY <1>3, FirstTasks, NodesFetched, EdgesFetched, Pruned, Created, Checked, FailedAttempt
<1>. QED BY <1>1, <1>2, <1>3 DEF RebuildNext

\* A finished run that no other run crowded has warned of a topology shift if and
\* only if its snapshot differs by more than the threshold from the newest there
\* was before, although check_topology_change looks at whatever two are newest.
THEOREM ShiftsAreReported == RebuildSpec => []ShiftIsReported
<1>1. RebuildInv => ShiftIsReported
  BY DEF RebuildInv
<1>. QED BY <1>1, RebuildInitial, RebuildStep, PTL DEF RebuildSpec

------------------------------------------------------------------------------
(* The signing keys *)

\* What a request that awaits the provider knows: an answer holds the keys of
\* some moment since it was asked for, and the histories are those of the key.
SinceAsked(q) ==
  /\ q.since <= now
  /\ q.kid \in published => q.ever
  /\ q.throughout => q.kid \in published
  /\ \A keys \in q.answers :
       /\ \A k \in keys : q.since <= seen[k]
       /\ q.kid \in keys => q.ever
       /\ q.kid \notin keys => ~q.throughout

Asked(q) == q.at \in {"first", "again"}

\* An entry is no younger than the keys in it, and an unknown key was missing.
Kept(entry) == entry.fetchedAt <= now /\ \A k \in entry.keys : entry.fetchedAt <= seen[k]

Sound(q) == (Asked(q) => SinceAsked(q)) /\ (q.at = "unknown" => ~q.throughout)

KeysInv ==
  /\ JwksTypeOK
  /\ auth \in [Bearer -> Request \cup {Idle}]
  /\ \A k \in Kid : seen[k] <= now /\ (k \in published => seen[k] = now)
  /\ \A e \in cache : Kept(e)
  /\ \A b \in Bearer : Sound(auth[b])

Answers == {s \in SUBSET SUBSET Kid : Cardinality(s) <= 1}

LEMMA JwksConstants ==
  KeyTTL \in Nat /\ KeyTTL > 0 /\ MaxNow \in Nat /\ MaxRotations \in Nat
BY JwksAssumption

LEMMA AtMostOneAnswer ==
  /\ {} \in Answers
  /\ \A keys \in SUBSET Kid : {keys} \in Answers
<1>1. {} \in Answers
  BY FS_EmptySet DEF Answers
<1>2. ASSUME NEW keys \in SUBSET Kid PROVE {keys} \in Answers
  <2>1. Cardinality({keys}) = 1
    BY FS_Singleton
  <2>. QED BY <2>1 DEF Answers
<1>. QED BY <1>1, <1>2

LEMMA RequestIs ==
  Request =
    [at : {"first", "again", "accepted", "unknown", "unavailable"},
     kid : Kid, since : 0..MaxNow, answers : Answers, throughout : BOOLEAN, ever : BOOLEAN]
BY DEF Request, Answers

LEMMA KeyTimes ==
  ASSUME KeysInv
  PROVE  /\ now \in Nat /\ now \in 0..MaxNow /\ published \in SUBSET Kid
         /\ \A k \in Kid : seen[k] \in Nat
         /\ \A e \in cache : e.fetchedAt \in Nat /\ e.keys \in SUBSET Kid
BY JwksConstants DEF KeysInv, JwksTypeOK, CacheEntry

\* A fetch that starts has no answer yet, and a verdict is none.
LEMMA Awaits ==
  ASSUME KeysInv, NEW k \in Kid, NEW at \in {"first", "again"},
         NEW q \in Request, q.kid = k, q.kid \in published => q.ever,
         q.throughout => q.kid \in published
  PROVE  Await(q, at) \in Request /\ Sound(Await(q, at))
<1> DEFINE w == Await(q, at)
<1>0. now \in 0..MaxNow /\ now \in Nat
  BY KeyTimes
<1>1. /\ w \in Request /\ w.at = at /\ w.kid = q.kid /\ w.since = now /\ w.answers = {}
      /\ w.throughout = q.throughout /\ w.ever = q.ever
  BY <1>0, RequestIs, AtMostOneAnswer DEF Await
<1> HIDE DEF w
<1>2. Sound(w)
  BY <1>0, <1>1 DEF Sound, Asked, SinceAsked
<1>. QED BY <1>1, <1>2 DEF w

LEMMA Verdicts ==
  ASSUME NEW q \in Request, NEW at \in {"accepted", "unknown", "unavailable"},
         at = "unknown" => ~q.throughout
  PROVE  /\ Verdict(q, at) \in Request /\ Sound(Verdict(q, at))
         /\ Verdict(q, at).at = at /\ Verdict(q, at).kid = q.kid /\ Verdict(q, at).ever = q.ever
<1> DEFINE w == Verdict(q, at)
<1>0. 0 \in 0..MaxNow /\ {} \in Answers
  BY AtMostOneAnswer, JwksConstants
<1>1. /\ w \in Request /\ w.at = at /\ w.kid = q.kid /\ w.throughout = q.throughout
      /\ w.ever = q.ever
  BY <1>0, RequestIs DEF Verdict
<1> HIDE DEF w
<1>2. Sound(w)
  BY <1>1 DEF Sound, Asked
<1>. QED BY <1>1, <1>2 DEF w

\* A step of one request.
LEMMA RequestMoves ==
  ASSUME KeysInv, NEW b \in Bearer, NEW q \in Request \cup {Idle},
         auth' = [auth EXCEPT ![b] = q], UNCHANGED <<now, published, seen, rotations>>,
         cache' \in SUBSET CacheEntry, Cardinality(cache') <= 1, \A e \in cache' : Kept(e),
         Sound(q)
  PROVE  KeysInv'
<1>1. auth' \in [Bearer -> Request \cup {Idle}] /\ auth'[b] = q /\ \A c \in Bearer \ {b} : auth'[c] = auth[c]
  BY DEF KeysInv
<1>2. JwksTypeOK'
  BY <1>1 DEF KeysInv, JwksTypeOK
<1>3. ASSUME NEW w PROVE Sound(w)' <=> Sound(w)
  BY DEF Sound, Asked, SinceAsked
<1>4. \A c \in Bearer : Sound(auth'[c])
  BY <1>1 DEF KeysInv
<1>5. \A c \in Bearer : Sound(auth[c])'
  BY <1>4 DEF Sound, Asked, SinceAsked
<1>6. \A e \in cache' : Kept(e)'
  BY DEF Kept
<1>. QED BY <1>1, <1>2, <1>5, <1>6 DEF KeysInv

\* A step of one request that leaves the cache, empties it, or fills it.
LEMMA CacheLeft ==
  ASSUME KeysInv, cache' = cache \/ cache' = {}, UNCHANGED <<now, seen>>
  PROVE  cache' \in SUBSET CacheEntry /\ Cardinality(cache') <= 1 /\ \A e \in cache' : Kept(e)
BY FS_EmptySet DEF KeysInv, JwksTypeOK

LEMMA CacheFilled ==
  ASSUME KeysInv, NEW b \in Bearer, Fetching(b), NEW keys \in auth[b].answers,
         cache' = {Stored(b, keys)}
  PROVE  cache' \in SUBSET CacheEntry /\ Cardinality(cache') <= 1 /\ \A e \in cache' : Kept(e)
<1>1. auth[b] \in Request /\ Sound(auth[b]) /\ Asked(auth[b])
  BY DEF KeysInv, Fetching, Idle, Asked
<1>2. SinceAsked(auth[b])
  BY <1>1 DEF Sound
<1>3. auth[b].since \in 0..MaxNow /\ keys \in SUBSET Kid
  BY <1>1, RequestIs DEF Answers
<1>4. Stored(b, keys) \in CacheEntry
  BY <1>3 DEF Stored, CacheEntry
<1>5. Kept(Stored(b, keys))
  BY <1>2 DEF Stored, Kept, SinceAsked
<1>6. Cardinality(cache') = 1
  BY FS_Singleton
<1>. QED BY <1>4, <1>5, <1>6

LEMMA Arrives ==
  ASSUME KeysInv, NEW k \in Kid
  PROVE  /\ Arriving(k) \in Request /\ Arriving(k).kid = k
         /\ Arriving(k).throughout = (k \in published) /\ Arriving(k).ever = (k \in published)
<1>0. (k \in published) \in BOOLEAN
  OBVIOUS
<1>1. PICK here \in BOOLEAN : here = (k \in published)
  BY <1>0, Zenon
<1>2. Arriving(k) = [at |-> "first", kid |-> k, since |-> 0, answers |-> {},
                     throughout |-> here, ever |-> here]
  BY <1>1 DEF Arriving
<1>3. 0 \in 0..MaxNow
  BY JwksConstants
<1>. QED BY <1>1, <1>2, <1>3, RequestIs, AtMostOneAnswer

\* An accepted token's key was published less than the cache's lifetime ago, or
\* at some moment of the request.
Acceptable(q) == q.at = "accepted" => q.ever \/ now - seen[q.kid] < KeyTTL

\* The actions: each keeps the invariant, and accepts what is acceptable.
Follows(b) ==
  /\ KeysInv'
  /\ auth[b].at # "accepted" => Acceptable(auth'[b])
  /\ \A c \in Bearer \ {b} : auth'[c] = auth[c]

LEMMA Authenticated ==
  ASSUME KeysInv, NEW b \in Bearer, Authenticate(b)
  PROVE  Follows(b)
<1>0. auth \in [Bearer -> Request \cup {Idle}] /\ UNCHANGED <<now, published, seen, rotations>>
  BY DEF KeysInv, Authenticate
<1>1. PICK k \in Kid :
        LET q == Arriving(k) IN
        \/ /\ auth' = [auth EXCEPT ![b] = Await(q, "first")]
           /\ UNCHANGED cache
        \/ \E e \in Fresh :
             \/ /\ k \in e.keys
                /\ auth' = [auth EXCEPT ![b] = Verdict(q, "accepted")]
                /\ UNCHANGED cache
             \/ k \notin e.keys /\ Refetch(b, q)
  BY DEF Authenticate
<1> DEFINE q == Arriving(k)
<1>2. /\ q \in Request /\ q.kid = k /\ q.throughout = (k \in published) /\ q.ever = (k \in published)
  BY Arrives
<1>3. ASSUME NEW at \in {"first", "again"}, auth' = [auth EXCEPT ![b] = Await(q, at)],
             cache' = cache \/ cache' = {}
      PROVE  Follows(b)
  <2>1. Await(q, at) \in Request /\ Sound(Await(q, at))
    BY <1>2, Awaits
  <2>2. PICK w : w = Await(q, at)
    OBVIOUS
  <2>3. w \in Request /\ Sound(w) /\ auth' = [auth EXCEPT ![b] = w]
    BY <1>3, <2>1, <2>2
  <2>4. KeysInv'
    BY <1>0, <1>3, <2>3, CacheLeft, RequestMoves
  <2>5. w.at = at
    BY <1>2, <2>2, RequestIs DEF Await
  <2>. QED BY <1>0, <2>3, <2>4, <2>5 DEF Follows, Acceptable
<1>4. ASSUME NEW e \in Fresh, k \in e.keys, auth' = [auth EXCEPT ![b] = Verdict(q, "accepted")],
             UNCHANGED cache
      PROVE  Follows(b)
  <2>1. PICK w : w = Verdict(q, "accepted")
    OBVIOUS
  <2>2. w \in Request /\ Sound(w) /\ w.kid = k /\ auth' = [auth EXCEPT ![b] = w]
    BY <1>2, <1>4, <2>1, Verdicts
  <2>3. KeysInv'
    BY <1>0, <1>4, <2>2, CacheLeft, RequestMoves
  <2>4. e.fetchedAt \in Nat /\ e.fetchedAt <= seen[k] /\ now - e.fetchedAt < KeyTTL
    BY <1>4, KeyTimes DEF KeysInv, Fresh, Kept
  <2>5. now - seen[w.kid] < KeyTTL
    BY <2>2, <2>4, KeyTimes, JwksConstants
  <2>. QED BY <1>0, <2>2, <2>3, <2>5 DEF Follows, Acceptable
<1>5. CASE auth' = [auth EXCEPT ![b] = Await(q, "first")] /\ UNCHANGED cache
  BY <1>3, <1>5
<1>6. ASSUME NEW e \in Fresh, Refetch(b, q) PROVE Follows(b)
  <2>1. auth' = [auth EXCEPT ![b] = Await(q, "again")] /\ cache' = {}
    BY <1>6 DEF Refetch
  <2>. QED BY <1>3, <2>1
<1>. QED BY <1>1, <1>4, <1>5, <1>6

\* The provider's keys of this moment are the answer.
LEMMA KeysAnswered ==
  ASSUME KeysInv, NEW b \in Bearer, ProviderAnswers(b)
  PROVE  Follows(b)
<1>0. /\ auth \in [Bearer -> Request \cup {Idle}] /\ UNCHANGED <<now, cache, published, seen, rotations>>
      /\ auth[b] \in Request /\ Asked(auth[b]) /\ SinceAsked(auth[b])
  BY DEF KeysInv, ProviderAnswers, Fetching, Asked, Idle, Sound
<1> DEFINE q == [auth[b] EXCEPT !.answers = {published}]
<1>1. published \in SUBSET Kid /\ {published} \in Answers
  BY KeyTimes, AtMostOneAnswer
<1>2. /\ q \in Request /\ q.at = auth[b].at /\ q.kid = auth[b].kid /\ q.since = auth[b].since
      /\ q.throughout = auth[b].throughout /\ q.ever = auth[b].ever /\ q.answers = {published}
  BY <1>0, <1>1, RequestIs
<1>3. auth' = [auth EXCEPT ![b] = q]
  BY <1>0 DEF ProviderAnswers
<1> HIDE DEF q
<1>4. \A k \in published : seen[k] = now
  BY <1>1 DEF KeysInv
<1>5. Sound(q)
  BY <1>0, <1>2, <1>4 DEF Sound, Asked, SinceAsked
<1>6. KeysInv'
  BY <1>0, <1>2, <1>3, <1>5, CacheLeft, RequestMoves
<1>7. q.at # "accepted"
  BY <1>0, <1>2 DEF Asked
<1>. QED BY <1>0, <1>3, <1>6, <1>7 DEF Follows, Acceptable

\* The answer arrives: the verdict, or the second fetch.
LEMMA Arrived ==
  ASSUME KeysInv, NEW b \in Bearer, Fetched(b)
  PROVE  Follows(b)
<1>0. /\ auth \in [Bearer -> Request \cup {Idle}] /\ UNCHANGED <<now, published, seen, rotations>>
      /\ auth[b] \in Request /\ Asked(auth[b]) /\ SinceAsked(auth[b])
  BY DEF KeysInv, Fetched, Fetching, Asked, Idle, Sound
<1>1. PICK keys \in auth[b].answers :
        \/ /\ auth[b].kid \in keys
           /\ cache' = {Stored(b, keys)}
           /\ auth' = [auth EXCEPT ![b] = Verdict(auth[b], "accepted")]
        \/ /\ auth[b].kid \notin keys
           /\ Refetch(b, auth[b])
        \/ /\ auth[b].kid \notin keys
           /\ cache' = {Stored(b, keys)}
           /\ auth' = [auth EXCEPT ![b] = Verdict(auth[b], "unknown")]
  BY DEF Fetched
<1>2. ASSUME NEW at \in {"accepted", "unknown"},
             auth' = [auth EXCEPT ![b] = Verdict(auth[b], at)], cache' = {Stored(b, keys)},
             at = "accepted" => auth[b].kid \in keys, at = "unknown" => auth[b].kid \notin keys
      PROVE  Follows(b)
  <2>1. at = "accepted" => auth[b].ever
    BY <1>0, <1>2 DEF SinceAsked
  <2>2. at = "unknown" => ~auth[b].throughout
    BY <1>0, <1>2 DEF SinceAsked
  <2>3. PICK w : w = Verdict(auth[b], at)
    OBVIOUS
  <2>4. /\ w \in Request /\ Sound(w) /\ w.at = at /\ w.ever = auth[b].ever
        /\ auth' = [auth EXCEPT ![b] = w]
    <3>1. at \in {"accepted", "unknown", "unavailable"}
      OBVIOUS
    <3>2. /\ Verdict(auth[b], at) \in Request /\ Sound(Verdict(auth[b], at))
          /\ Verdict(auth[b], at).at = at /\ Verdict(auth[b], at).ever = auth[b].ever
      BY <1>0, <2>2, <3>1, Verdicts
    <3>. QED BY <1>2, <2>3, <3>2
  <2>5. cache' \in SUBSET CacheEntry /\ Cardinality(cache') <= 1 /\ \A e \in cache' : Kept(e)
    BY <1>0, <1>2, CacheFilled DEF Asked, Fetching
  <2>6. KeysInv'
    BY <1>0, <2>4, <2>5, RequestMoves
  <2>. QED BY <1>0, <2>1, <2>4, <2>6 DEF Follows, Acceptable
<1>3. CASE Refetch(b, auth[b])
  <2>1. PICK w : w = Await(auth[b], "again")
    OBVIOUS
  <2>2. /\ auth[b].kid \in Kid /\ (auth[b].kid \in published => auth[b].ever)
        /\ auth[b].throughout => auth[b].kid \in published
    BY <1>0, RequestIs DEF SinceAsked
  <2>3. w \in Request /\ Sound(w)
    BY <1>0, <2>1, <2>2, Awaits
  <2>4. auth' = [auth EXCEPT ![b] = w] /\ cache' = {} /\ w.at = "again"
    BY <1>0, <1>3, <2>1, RequestIs DEF Refetch, Await
  <2>5. KeysInv'
    BY <1>0, <2>3, <2>4, CacheLeft, RequestMoves
  <2>. QED BY <1>0, <2>4, <2>5 DEF Follows, Acceptable
<1>. QED BY <1>1, <1>2, <1>3

LEMMA Ended ==
  ASSUME KeysInv, NEW b \in Bearer, FetchFails(b) \/ Respond(b)
  PROVE  Follows(b)
<1>0. /\ auth \in [Bearer -> Request \cup {Idle}] /\ UNCHANGED <<now, cache, published, seen, rotations>>
  BY DEF KeysInv, FetchFails, Respond
<1>1. PICK w : /\ auth' = [auth EXCEPT ![b] = w]
               /\ w = Idle \/ (w = Verdict(auth[b], "unavailable") /\ Fetching(b))
  BY DEF FetchFails, Respond
<1>2. w \in Request \cup {Idle} /\ Sound(w) /\ w.at # "accepted"
  <2>1. CASE w = Idle
    BY <2>1 DEF Idle, Sound, Asked
  <2>2. CASE w = Verdict(auth[b], "unavailable") /\ Fetching(b)
    <3>1. auth[b] \in Request
      BY <1>0, <2>2 DEF Fetching, Idle
    <3>. QED BY <2>2, <3>1, Verdicts
  <2>. QED BY <1>1, <2>1, <2>2
<1>3. KeysInv'
  BY <1>0, <1>1, <1>2, CacheLeft, RequestMoves
<1>. QED BY <1>0, <1>1, <1>2, <1>3 DEF Follows, Acceptable

\* The provider rotates a key: what the requests of that key know is brought up
\* to date, and a key that goes was seen now.
LEMMA Rotated ==
  ASSUME KeysInv, NEW k \in Kid, Rotate(k)
  PROVE  KeysInv' /\ \A b \in Bearer : auth[b].at # "accepted" => Acceptable(auth'[b])
<1>0. /\ auth \in [Bearer -> Request \cup {Idle}] /\ UNCHANGED <<now, cache>>
      /\ published \in SUBSET Kid /\ now \in Nat /\ now \in 0..MaxNow
      /\ seen \in [Kid -> 0..MaxNow] /\ \A l \in Kid : seen[l] \in Nat
      /\ seen' = [seen EXCEPT ![k] = now] /\ rotations' = rotations + 1 /\ rotations < MaxRotations
  BY KeyTimes DEF KeysInv, JwksTypeOK, Rotate
<1>1. published' \in SUBSET Kid /\ published' \subseteq published \cup {k}
  BY <1>0 DEF Rotate
<1>2. seen' \in [Kid -> 0..MaxNow] /\ seen'[k] = now /\ \A l \in Kid \ {k} : seen'[l] = seen[l]
  BY <1>0
<1>3. \A l \in Kid : seen[l] <= seen'[l] /\ seen'[l] <= now
  BY <1>0, <1>2 DEF KeysInv
<1>4. \A l \in Kid : l \in published' => seen'[l] = now
  BY <1>0, <1>1, <1>2 DEF KeysInv
<1>5. ASSUME NEW b \in Bearer
      PROVE  /\ auth'[b] \in Request \cup {Idle} /\ auth'[b].at = auth[b].at
             /\ Sound(auth[b])'
  <2>1. CASE ~Fetching(b)
    <3>1. auth'[b] = auth[b]
      BY <2>1 DEF Rotate
    <3>. QED BY <1>0, <2>1, <3>1 DEF KeysInv, Sound, Asked, Fetching
  <2>2. CASE Fetching(b)
    <3>0. auth[b] \in Request /\ SinceAsked(auth[b]) /\ Asked(auth[b])
      BY <1>0, <2>2 DEF KeysInv, Fetching, Asked, Idle, Sound
    <3>1. PICK old \in Request : old = auth[b]
      BY <3>0
    <3>a. (old.kid \in published') \in BOOLEAN /\ old.throughout \in BOOLEAN /\ old.ever \in BOOLEAN
      BY <3>1, RequestIs
    <3>2. PICK here \in BOOLEAN : here = (old.kid \in published')
      BY <3>a, Zenon
    <3>3. PICK through \in BOOLEAN, ever \in BOOLEAN :
            (through <=> old.throughout /\ here) /\ (ever <=> old.ever \/ here)
      <4>1. CASE here
        BY <3>a, <4>1
      <4>2. CASE ~here
        BY <3>a, <4>2
      <4>. QED BY <4>1, <4>2
    <3>4. /\ (old.throughout /\ old.kid \in published') = through
          /\ (old.ever \/ old.kid \in published') = ever
      BY <3>a, <3>2, <3>3
    <3>5. auth'[b] = [old EXCEPT !.throughout = through, !.ever = ever]
      <4>1. auth'[b] = [auth[b] EXCEPT !.throughout = auth[b].throughout /\ auth[b].kid \in published',
                                       !.ever = auth[b].ever \/ auth[b].kid \in published']
        BY <2>2, <3>0, RequestIs DEF Rotate
      <4>. QED BY <3>1, <3>4, <4>1
    <3>6. PICK q : q = auth'[b]
      OBVIOUS
    <3>7. /\ q \in Request /\ q.at = old.at /\ q.kid = old.kid /\ q.since = old.since
          /\ q.answers = old.answers /\ q.throughout = through /\ q.ever = ever
      BY <3>5, <3>6, RequestIs
    <3>8. old.since \in Nat /\ \A keys \in old.answers : keys \in SUBSET Kid
      BY RequestIs, JwksConstants DEF Answers
    <3>9. \A keys \in q.answers :
            /\ \A l \in keys : q.since <= seen'[l]
            /\ q.kid \in keys => q.ever
            /\ q.kid \notin keys => ~q.throughout
      BY <1>0, <1>2, <1>3, <3>0, <3>1, <3>3, <3>7, <3>8 DEF SinceAsked
    <3>10. q.kid \in published' => q.ever
      BY <3>2, <3>3, <3>7
    <3>11. q.throughout => q.kid \in published'
      BY <3>2, <3>3, <3>7
    <3>12. q.since <= now'
      BY <1>0, <3>0, <3>1, <3>7 DEF SinceAsked
    <3>13. q.at # "unknown"
      BY <3>0, <3>1, <3>7 DEF Asked
    <3>14. (q.at = "unknown" => ~q.throughout)
           /\ (Asked(q) => /\ q.since <= now'
                           /\ q.kid \in published' => q.ever
                           /\ q.throughout => q.kid \in published'
                           /\ \A keys \in q.answers :
                                /\ \A l \in keys : q.since <= seen'[l]
                                /\ q.kid \in keys => q.ever
                                /\ q.kid \notin keys => ~q.throughout)
      BY <3>9, <3>10, <3>11, <3>12, <3>13
    <3>. QED BY <3>1, <3>6, <3>7, <3>14 DEF Sound, Asked, SinceAsked
  <2>. QED BY <2>1, <2>2
<1>6. auth' \in [Bearer -> Request \cup {Idle}]
  <2>1. DOMAIN auth' = Bearer /\ auth' = [b \in Bearer |-> auth'[b]]
    BY DEF Rotate
  <2>. QED BY <1>5, <2>1
<1>7. rotations' \in 0..MaxRotations
  BY <1>0, JwksConstants DEF KeysInv, JwksTypeOK
<1>8. JwksTypeOK'
  BY <1>0, <1>1, <1>2, <1>6, <1>7 DEF KeysInv, JwksTypeOK
<1>9. \A e \in cache' : Kept(e)'
  <2>1. \A e \in cache : e.keys \in SUBSET Kid /\ e.fetchedAt \in Nat
    BY KeyTimes
  <2>2. ASSUME NEW e \in cache, NEW l \in e.keys PROVE e.fetchedAt <= seen'[l]
    BY <1>0, <1>2, <1>3, <2>1 DEF KeysInv, Kept
  <2>. QED BY <1>0, <2>2 DEF KeysInv, Kept
<1>10. KeysInv'
  BY <1>0, <1>3, <1>4, <1>5, <1>6, <1>8, <1>9 DEF KeysInv
<1>. QED BY <1>5, <1>10 DEF Acceptable

LEMMA Ticked ==
  ASSUME KeysInv, KeyTick
  PROVE  KeysInv'
<1>0. /\ UNCHANGED <<cache, auth, published, rotations>> /\ now \in Nat
      /\ seen' = [k \in Kid |-> IF k \in published THEN now' ELSE seen[k]]
      /\ now' = now + 1 /\ now' \in 0..MaxNow /\ now \in 0..MaxNow
      /\ seen \in [Kid -> 0..MaxNow]
  BY KeyTimes, JwksConstants DEF KeysInv, JwksTypeOK, KeyTick
<1>1. \A k \in Kid : /\ seen[k] \in Nat /\ seen'[k] \in Nat /\ seen[k] <= seen'[k]
                     /\ seen'[k] <= now' /\ (k \in published => seen'[k] = now')
  BY <1>0, KeyTimes DEF KeysInv
<1>2. seen' \in [Kid -> 0..MaxNow]
  BY <1>0
<1>3. JwksTypeOK'
  BY <1>0, <1>2 DEF KeysInv, JwksTypeOK
<1>4. ASSUME NEW e \in cache PROVE Kept(e)'
  <2>1. e.keys \in SUBSET Kid /\ e.fetchedAt \in Nat /\ Kept(e)
    BY KeyTimes DEF KeysInv
  <2>2. \A k \in e.keys : e.fetchedAt <= seen'[k]
    BY <1>1, <2>1 DEF Kept
  <2>3. e.fetchedAt <= now'
    BY <1>0, <2>1 DEF Kept
  <2>. QED BY <2>2, <2>3 DEF Kept
<1>5. ASSUME NEW b \in Bearer PROVE Sound(auth[b])'
  <2>1. CASE ~Asked(auth[b])
    BY <1>0, <2>1 DEF KeysInv, Sound, Asked
  <2>2. CASE Asked(auth[b])
    <3>0. auth[b] \in Request /\ SinceAsked(auth[b])
      BY <2>2 DEF KeysInv, Asked, Idle, Sound
    <3>1. PICK q \in Request : q = auth[b]
      BY <3>0
    <3>2. q.since \in Nat /\ \A keys \in q.answers : keys \in SUBSET Kid
      BY RequestIs, JwksConstants DEF Answers
    <3>3. \A keys \in q.answers : \A k \in keys : q.since <= seen'[k]
      BY <1>1, <3>0, <3>1, <3>2 DEF SinceAsked
    <3>4. q.since <= now'
      BY <1>0, <3>0, <3>1, <3>2 DEF SinceAsked
    <3>5. Sound(q)'
      BY <1>0, <2>2, <3>0, <3>1, <3>3, <3>4 DEF Sound, Asked, SinceAsked
    <3>. QED BY <1>0, <3>1, <3>5 DEF Sound, Asked, SinceAsked
  <2>. QED BY <2>1, <2>2
<1>. QED BY <1>0, <1>1, <1>3, <1>4, <1>5 DEF KeysInv

LEMMA KeysInitial == JwksInit => KeysInv
<1> SUFFICES ASSUME JwksInit PROVE KeysInv
  OBVIOUS
<1>0. /\ now = 0 /\ cache = {} /\ rotations = 0 /\ published \in SUBSET Kid
      /\ seen = [k \in Kid |-> 0] /\ auth = [b \in Bearer |-> Idle]
  BY DEF JwksInit
<1>1. 0 \in 0..MaxNow /\ 0 \in 0..MaxRotations /\ Cardinality({}) = 0
  BY JwksConstants, FS_EmptySet
<1>2. JwksTypeOK
  BY <1>0, <1>1 DEF JwksTypeOK
<1>3. \A b \in Bearer : Sound(auth[b])
  BY <1>0 DEF Idle, Sound, Asked
<1>. QED BY <1>0, <1>2, <1>3 DEF KeysInv

\* Every step keeps the invariant, and accepts what is acceptable.
LEMMA KeysStep ==
  KeysInv /\ [JwksNext]_keyVars =>
    KeysInv' /\ \A b \in Bearer : auth[b].at # "accepted" => Acceptable(auth'[b])
<1> SUFFICES ASSUME KeysInv, [JwksNext]_keyVars
             PROVE  KeysInv' /\ \A b \in Bearer : auth[b].at # "accepted" => Acceptable(auth'[b])
  OBVIOUS
<1>1. CASE UNCHANGED keyVars
  <2>1. UNCHANGED <<now, cache, auth, published, seen, rotations>>
    BY <1>1 DEF keyVars
  <2>2. KeysInv'
    BY <2>1 DEF KeysInv, JwksTypeOK, Kept, Sound, Asked, SinceAsked
  <2>. QED BY <2>1, <2>2 DEF Acceptable
<1>2. ASSUME NEW b \in Bearer, Follows(b)
      PROVE  KeysInv' /\ \A c \in Bearer : auth[c].at # "accepted" => Acceptable(auth'[c])
  BY <1>2 DEF Follows, Acceptable
<1>3. CASE \E b \in Bearer : Authenticate(b) \/ ProviderAnswers(b) \/ Fetched(b)
                             \/ FetchFails(b) \/ Respond(b)
  BY <1>2, <1>3, Authenticated, KeysAnswered, Arrived, Ended
<1>4. CASE \E k \in Kid : Rotate(k)
  BY <1>4, Rotated
<1>5. CASE KeyTick
  BY <1>5, Ticked DEF KeyTick, Acceptable
<1>. QED BY <1>1, <1>3, <1>4, <1>5 DEF JwksNext

\* However requests, answers and rotations interleave: a token's key is called
\* unknown only if the provider lacked it at some moment of the request, and it
\* is accepted only if the provider had it less than the cache's lifetime ago or
\* at some moment of the request (_fetch_jwks and require_auth).
THEOREM VerdictsFollow == JwksSpec => VerdictsFollowRotation
<1> DEFINE FollowsRotation ==
      \A b \in Bearer :
        LET q == auth'[b] IN
        /\ q.at = "unknown" => ~q.throughout
        /\ q.at = "accepted" /\ auth[b].at # "accepted" =>
             q.ever \/ now - seen[q.kid] < KeyTTL
<1>1. KeysInv /\ [JwksNext]_keyVars => [FollowsRotation]_keyVars
  BY KeysStep DEF KeysInv, Sound, Acceptable
<1>2. KeysInv /\ [JwksNext]_keyVars => KeysInv'
  BY KeysStep
<1>. QED BY <1>1, <1>2, KeysInitial, PTL DEF JwksSpec, VerdictsFollowRotation

------------------------------------------------------------------------------
(* Types *)

\* The state of the nightly DAG stays within its types, whatever the constants are.
THEOREM RebuildTypes == RebuildSpec => []RebuildTypeOK
<1>1. RebuildInv => RebuildTypeOK
  BY DEF RebuildInv
<1>. QED BY <1>1, RebuildInitial, RebuildStep, PTL DEF RebuildSpec

\* The same of the key cache.
THEOREM JwksTypes == JwksSpec => []JwksTypeOK
<1>1. KeysInv => JwksTypeOK
  BY DEF KeysInv
<1>2. KeysInv /\ [JwksNext]_keyVars => KeysInv'
  BY KeysStep
<1>. QED BY <1>1, <1>2, KeysInitial, PTL DEF JwksSpec

------------------------------------------------------------------------------
(* The six parts together *)

\* In every scene each part does what its own specification says, so that all
\* that is proved of the parts holds of what is checked.
THEOREM ScenesAreParts ==
  MCSpec => /\ SimulationSpec /\ RebuildSpec /\ AttritionSpec
            /\ RiskSpec /\ ViewSpec /\ JwksSpec
<1> DEFINE all == <<scene, simVars, rebuildVars, attritionVars, riskVars, viewVars, keyVars>>
<1>1. MCInit => /\ SimulationInit /\ RebuildInit /\ AttritionInit
                /\ RiskInit /\ ViewInit /\ JwksInit
  BY DEF MCInit
<1>2. [MCNext]_all => /\ [SimulationNext]_simVars /\ [RebuildNext]_rebuildVars
                      /\ [AttritionNext]_attritionVars /\ [RiskNext]_riskVars
                      /\ [ViewNext]_viewVars /\ [JwksNext]_keyVars
  BY DEF MCNext
<1>. QED
  BY <1>1, <1>2, PTL DEF MCSpec, SimulationSpec, RebuildSpec, AttritionSpec, RiskSpec, ViewSpec,
                         JwksSpec

\* Every variable of the engine, the rebuild DAG, the three pages and the key
\* cache keeps its type.
THEOREM AnalysisTypes == MCSpec => []AnalysisTypeOK
<1>1. /\ SimulationTypeOK /\ RebuildTypeOK /\ AttritionTypeOK
      /\ RiskTypeOK /\ ViewTypeOK /\ JwksTypeOK
      => AnalysisTypeOK
  BY DEF AnalysisTypeOK
<1>. QED BY <1>1, ScenesAreParts, SimulationTypes, RebuildTypes, AttritionTypes, RiskTypes,
            ViewTypes, JwksTypes, PTL
==============================================================================
