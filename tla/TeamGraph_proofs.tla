--------------------------- MODULE TeamGraph_proofs ---------------------------
(***************************************************************************)
(* What holds of the graph handlers for any teams, edges, requests, faults  *)
(* and telemetry events. And under the admin page, which only begins        *)
(* requests, so that all of it holds there: a quick reset that reported its *)
(* seed has seeded, for any number of resets and requests.                  *)
(***************************************************************************)
EXTENDS AdminConsole, SequenceTheorems, FiniteSetTheorems, TLAPS

Engineers == Len(SeedOrder)
Writes == Len(SeedOrder) + Len(SeedEdges)

WriteStatement ==
  [write : {"engineer"}, of : Engineer]
  \cup [write : {"edge"}, of : [edge : Edge, weight : Nat \ {0}]]

LEMMA Sizes ==
  /\ Engineers \in Nat \ {0} /\ Len(SeedEdges) \in Nat /\ Writes \in Nat \ {0}
  /\ DOMAIN SeedOrder = 1..Engineers /\ DOMAIN SeedEdges = 1..Len(SeedEdges)
BY ConstantsAssumption DEF Engineers, Writes

\* The seeder's script: the k-th statement.
LEMMA Script ==
  /\ Len(SeedStatements) = Writes
  /\ \A k \in 1..Engineers : SeedStatements[k] = [write |-> "engineer", of |-> SeedOrder[k]]
  /\ \A k \in (Engineers + 1)..Writes :
       SeedStatements[k] = [write |-> "edge", of |-> SeedEdges[k - Engineers]]
<1> DEFINE A == [k \in DOMAIN SeedOrder |-> [write |-> "engineer", of |-> SeedOrder[k]]]
           B == [k \in DOMAIN SeedEdges |-> [write |-> "edge", of |-> SeedEdges[k]]]
<1>1. A \in Seq(WriteStatement) /\ Len(A) = Engineers
  <2>1. A \in [1..Engineers -> WriteStatement]
    BY Sizes DEF WriteStatement, Engineer, Range
  <2>2. A \in Seq(WriteStatement)
    BY <2>1, Sizes, SeqDef
  <2>3. QED BY <2>1, <2>2, Sizes, LenProperties
<1>2. B \in Seq(WriteStatement) /\ Len(B) = Len(SeedEdges)
  <2>1. B \in [1..Len(SeedEdges) -> WriteStatement]
    <3>1. \A k \in 1..Len(SeedEdges) : SeedEdges[k] \in [edge : Edge, weight : Nat \ {0}]
      BY ConstantsAssumption, ElementOfSeq
    <3>2. QED BY <3>1, Sizes DEF WriteStatement
  <2>2. B \in Seq(WriteStatement)
    BY <2>1, Sizes, SeqDef
  <2>3. QED BY <2>1, <2>2, Sizes, LenProperties
<1>3. SeedStatements = A \o B
  BY DEF SeedStatements
<1>4. Len(A \o B) = Writes
  <2>1. Len(A \o B) = Len(A) + Len(B)
    BY <1>1, <1>2, ConcatProperties
  <2>2. QED BY <2>1, <1>1, <1>2 DEF Writes, Engineers
<1>c. \A k \in 1..Writes : (A \o B)[k] = IF k <= Engineers THEN A[k] ELSE B[k - Engineers]
  BY <1>1, <1>2, ConcatProperties DEF Writes, Engineers
<1>5. \A k \in 1..Engineers : (A \o B)[k] = A[k]
  BY <1>c, Sizes DEF Writes, Engineers
<1>6. \A k \in (Engineers + 1)..Writes : (A \o B)[k] = B[k - Engineers]
  BY <1>c, Sizes DEF Writes, Engineers
<1>7. \A k \in (Engineers + 1)..Writes : k - Engineers \in DOMAIN SeedEdges
  BY Sizes DEF Writes, Engineers
<1>8. QED BY <1>3, <1>4, <1>5, <1>6, <1>7, Sizes

LEMMA Seeds ==
  /\ \A k \in 1..Engineers : SeedOrder[k] \in Engineer
  /\ \A n \in Engineer : \E k \in 1..Engineers : SeedOrder[k] = n
  /\ \A k \in 1..Len(SeedEdges) :
       /\ SeedEdges[k] \in [edge : Edge, weight : Nat \ {0}]
       /\ SeedEdges[k].edge \in Seeded /\ SeedEdges[k].edge \in Edge
       /\ SeedWeight(SeedEdges[k].edge) = SeedEdges[k].weight
       /\ SeedEdges[k].weight \in Nat \ {0}
  /\ \A e \in Seeded : \E k \in 1..Len(SeedEdges) : SeedEdges[k].edge = e
<1>1. \A k \in 1..Engineers : SeedOrder[k] \in Engineer
  BY Sizes DEF Engineer, Range
<1>2. \A n \in Engineer : \E k \in 1..Engineers : SeedOrder[k] = n
  BY Sizes DEF Engineer, Range
<1>3. ASSUME NEW k \in 1..Len(SeedEdges)
      PROVE  /\ SeedEdges[k] \in [edge : Edge, weight : Nat \ {0}]
             /\ SeedEdges[k].edge \in Seeded /\ SeedEdges[k].edge \in Edge
             /\ SeedWeight(SeedEdges[k].edge) = SeedEdges[k].weight
             /\ SeedEdges[k].weight \in Nat \ {0}
  <2>1. SeedEdges[k] \in [edge : Edge, weight : Nat \ {0}] /\ SeedEdges[k] \in Range(SeedEdges)
    BY ConstantsAssumption, Sizes, ElementOfSeq DEF Range
  <2>2. SeedEdges[k].edge \in Seeded
    BY <2>1 DEF Seeded
  <2>3. (CHOOSE s \in Range(SeedEdges) : s.edge = SeedEdges[k].edge) = SeedEdges[k]
    <3>1. \A s \in Range(SeedEdges) : s.edge = SeedEdges[k].edge <=> s = SeedEdges[k]
      BY <2>1, ConstantsAssumption
    <3>2. QED BY <2>1, <3>1
  <2>4. SeedWeight(SeedEdges[k].edge) = SeedEdges[k].weight
    BY <2>3 DEF SeedWeight
  <2>5. QED BY <2>1, <2>2, <2>4
<1>4. \A e \in Seeded : \E k \in 1..Len(SeedEdges) : SeedEdges[k].edge = e
  BY Sizes DEF Seeded, Range
<1>5. QED BY <1>1, <1>2, <1>3, <1>4

------------------------------------------------------------------------------
(* The inductive invariant, request by request *)

Gds == {"dropStale", "project", "closeness", "betweenness", "degree", "drop"}

\* Where the handler of each kind can stand.
Places ==
  [none |-> {"idle"},
   seed |-> {"write", "ok", "error"},
   clear |-> {"countNodes", "countEdges", "delete", "ok", "error"},
   graph |-> {"nodes", "edges", "ok", "notFound", "error"},
   centrality |-> {"nodes", "edges", "ok", "notFound", "refused", "error"} \cup Gds]

InPlace(r) ==
  /\ req[r].at \in Places[req[r].kind]
  /\ req[r].at = "write" => req[r].k \in 1..Writes

Kept(r, events) == during[r] \cap events = {}

\* The k-th statement of the seeder's script has had its effect.
Written(k) ==
  IF k <= Engineers THEN SeedOrder[k] \in engineers
  ELSE weight[SeedEdges[k - Engineers].edge] >= SeedEdges[k - Engineers].weight

Seeding(r) ==
  req[r].kind = "seed" /\ Kept(r, {"delete"}) =>
    /\ req[r].at = "write" => \A j \in 1..Writes : j < req[r].k => Written(j)
    /\ req[r].at = "ok" => \A j \in 1..Writes : Written(j)

\* Between the two reads no engineer appears, and what was read last names only
\* engineers that were read first.
Reading(r) ==
  Kept(r, {"engineer"}) =>
    /\ req[r].at = "edges" => engineers \subseteq req[r].nodes
    /\ HasRead(r) => \A e \in req[r].edges : Ends(e) \subseteq req[r].nodes

\* The engineers a request lists stay in the graph, and a projection that
\* replaces its own one holds them too.
Listing(r) ==
  Kept(r, {"delete"}) =>
    /\ req[r].at \in {"edges", "dropStale", "project", "closeness"} => req[r].nodes \subseteq engineers
    /\ req[r].at = "closeness" => projection = None \/ req[r].nodes \subseteq projection
    /\ req[r].at \in {"betweenness", "degree", "drop"} => req[r].nodes \subseteq req[r].scored
    /\ req[r].kind = "centrality" /\ req[r].at = "ok" /\ Cardinality(req[r].nodes) > Threshold
         => req[r].nodes \subseteq req[r].scored

\* Left alone, a request finds no projection, then its own one.
Projecting(r) ==
  /\ req[r].at \in {"dropStale", "project", "closeness"} => req[r].nodes # {}
  /\ Kept(r, {"delete", "projection"}) =>
       /\ req[r].at = "project" => projection = None
       /\ req[r].at \in {"closeness", "betweenness", "degree", "drop"} => projection # None
       /\ req[r].at # "refused"

Claims(r) == InPlace(r) /\ Seeding(r) /\ Reading(r) /\ Listing(r) /\ Projecting(r)

IInv == TypeOK /\ \A r \in Request : Claims(r)

------------------------------------------------------------------------------
(* What a statement does to the database *)

Grows ==
  /\ engineers \subseteq engineers'
  /\ \A e \in Edge : weight'[e] >= weight[e] \/ (e \in Seeded /\ weight'[e] = SeedWeight(e))

Wiped == engineers' = {} /\ weight' = [e \in Edge |-> 0]

Reprojected == projection' \in {None, engineers} /\ engineers' = engineers

DbTypes ==
  /\ engineers \subseteq Engineer /\ weight \in [Edge -> Nat] /\ projection \subseteq Engineer
  /\ \A e \in Present : Ends(e) \subseteq engineers

\* A statement adds, or sets a seeded weight, or deletes everything; only the
\* statements of the centrality handler change the projection.
LEMMA EffectKinds ==
  ASSUME TypeOK, NEW r \in Request, InPlace(r), Active(r), Effect(r)
  PROVE  /\ DbTypes'
         /\ Grows \/ (Wiped /\ req[r].at = "delete")
         /\ \/ projection' = projection
            \/ Reprojected /\ req[r].at \in {"dropStale", "project", "drop"}
<1> USE DEF TypeOK
<1>0. /\ engineers \subseteq Engineer /\ weight \in [Edge -> Nat] /\ projection \subseteq Engineer
      /\ \A e \in Present : Ends(e) \subseteq engineers
  OBVIOUS
<1>1. ASSUME UNCHANGED <<engineers, weight, projection>>
      PROVE  DbTypes' /\ Grows /\ projection' = projection
  BY <1>0, <1>1 DEF DbTypes, Grows, Present
<1>2. CASE req[r].at = "write" /\ req[r].k <= Engineers
  <2>1. req[r].k \in 1..Engineers
    BY <1>2, Sizes DEF InPlace, Writes, Engineers
  <2>2. SeedStatements[req[r].k] = [write |-> "engineer", of |-> SeedOrder[req[r].k]]
    BY <2>1, Script
  <2>3. MergeEngineer(SeedOrder[req[r].k])
    BY <1>2, <2>2 DEF Effect
  <2>4. SeedOrder[req[r].k] \in Engineer
    BY <2>1, Seeds
  <2>5. DbTypes'
    BY <1>0, <2>3, <2>4 DEF DbTypes, MergeEngineer, Present
  <2>6. Grows /\ projection' = projection
    BY <1>0, <2>3 DEF MergeEngineer, Grows
  <2>7. QED BY <2>5, <2>6
<1>3. CASE req[r].at = "write" /\ ~(req[r].k <= Engineers)
  <2> DEFINE s == SeedEdges[req[r].k - Engineers]
  <2>1. req[r].k \in (Engineers + 1)..Writes /\ req[r].k - Engineers \in 1..Len(SeedEdges)
    BY <1>3, Sizes DEF InPlace, Writes, Engineers
  <2>2. SeedStatements[req[r].k] = [write |-> "edge", of |-> s]
    BY <2>1, Script
  <2>3. SetEdge(s.edge, s.weight)
    BY <1>3, <2>2 DEF Effect
  <2>4. s.edge \in Edge /\ s.edge \in Seeded /\ SeedWeight(s.edge) = s.weight /\ s.weight \in Nat \ {0}
    BY <2>1, Seeds
  <2> HIDE DEF s
  <2>5. DbTypes'
    BY <1>0, <2>3, <2>4 DEF DbTypes, SetEdge, Present
  <2>6. Grows /\ projection' = projection
    BY <1>0, <2>3, <2>4 DEF SetEdge, Grows
  <2>7. QED BY <2>5, <2>6
<1>4. CASE req[r].at = "delete"
  <2>1. DetachDelete
    BY <1>4 DEF Effect, Statements
  <2>2. DbTypes'
    BY <1>0, <2>1 DEF DbTypes, DetachDelete, Present
  <2>3. QED BY <1>4, <2>1, <2>2 DEF DetachDelete, Wiped
<1>5. CASE req[r].at \in {"dropStale", "project", "drop"}
  <2>1. (Project(None) \/ Project(engineers))
    BY <1>5 DEF Effect, DropStale, Statements
  <2>2. DbTypes' /\ Grows
    BY <1>0, <2>1 DEF DbTypes, Project, Present, Grows, None
  <2>3. Reprojected
    BY <2>1 DEF Reprojected, Project
  <2>4. QED BY <1>5, <2>2, <2>3
<1>6. CASE req[r].at \in Statements \ {"write", "delete", "dropStale", "project", "drop"}
  <2>1. UNCHANGED <<engineers, weight, projection>>
    BY <1>6 DEF Effect, db
  <2>2. QED BY <1>1, <2>1
<1>7. QED BY <1>2, <1>3, <1>4, <1>5, <1>6 DEF Active

------------------------------------------------------------------------------
(* Steps of others *)

\* A step as a request r sees it that does not take it.
Seen(r) ==
  /\ req'[r] = req[r]
  /\ during[r] \subseteq during'[r]
  /\ Grows \/ (Wiped /\ (Begun(r) /\ engineers # {} => "delete" \in during'[r]))
  /\ req[r].at = "edges" /\ ~(engineers' \subseteq engineers) => "engineer" \in during'[r]
  /\ projection' = projection \/ (Reprojected /\ (Active(r) => "projection" \in during'[r]))

LEMMA WrittenStays ==
  ASSUME TypeOK, Grows, NEW k \in 1..Writes, Written(k), weight' \in [Edge -> Nat]
  PROVE  Written(k)'
<1>1. CASE k <= Engineers
  BY <1>1 DEF Written, Grows, Engineers
<1>2. CASE ~(k <= Engineers)
  <2> DEFINE s == SeedEdges[k - Engineers]
  <2>1. k - Engineers \in 1..Len(SeedEdges)
    BY <1>2, Sizes DEF Writes, Engineers
  <2>2. s.edge \in Edge /\ s.edge \in Seeded /\ SeedWeight(s.edge) = s.weight /\ s.weight \in Nat \ {0}
    BY <2>1, Seeds
  <2>3. weight[s.edge] >= s.weight
    BY <1>2 DEF Written
  <2>4. weight'[s.edge] >= s.weight
    <3> HIDE DEF s
    <3>1. weight[s.edge] \in Nat /\ weight'[s.edge] \in Nat
      BY <2>2 DEF TypeOK
    <3>2. QED BY <2>2, <2>3, <3>1 DEF Grows
  <2>5. QED BY <1>2, <2>4 DEF Written, Engineers
<1>3. QED BY <1>1, <1>2

LEMMA Untouched ==
  ASSUME TypeOK, DbTypes', NEW r \in Request, Claims(r), Seen(r)
  PROVE  Claims(r)'
<1>1. InPlace(r)'
  BY DEF Claims, InPlace, Seen
<1>2. Seeding(r)'
  <2>1. SUFFICES ASSUME req[r].kind = "seed", Kept(r, {"delete"})'
                 PROVE  /\ req[r].at = "write" => \A j \in 1..Writes : j < req[r].k => Written(j)'
                        /\ req[r].at = "ok" => \A j \in 1..Writes : Written(j)'
    BY DEF Seeding, Seen
  <2>2. Kept(r, {"delete"})
    BY <2>1 DEF Kept, Seen
  <2>3. CASE Grows
    BY <2>1, <2>2, <2>3, WrittenStays DEF Claims, Seeding, DbTypes
  <2>4. CASE ~Grows
    <3>1. engineers = {}
      BY <2>1, <2>4 DEF Seen, Kept, Begun
    <3>2. ~Written(1)
      BY <3>1, Sizes DEF Written
    <3>3. 1 \in 1..Writes
      BY Sizes
    <3>4. req[r].at # "ok" /\ (req[r].at = "write" => ~(1 < req[r].k))
      BY <2>1, <2>2, <3>2, <3>3 DEF Claims, Seeding
    <3>5. req[r].at = "write" => req[r].k \in 1..Writes
      BY DEF Claims, InPlace
    <3>6. \A j \in 1..Writes : req[r].at = "write" => ~(j < req[r].k)
      BY <3>4, <3>5, Sizes
    <3>7. QED BY <3>4, <3>6
  <2>5. QED BY <2>3, <2>4
<1>3. Reading(r)'
  <2>1. Kept(r, {"engineer"})' => Kept(r, {"engineer"})
    BY DEF Kept, Seen
  <2>2. Kept(r, {"engineer"})' /\ req[r].at = "edges" => engineers' \subseteq engineers
    BY DEF Kept, Seen
  <2>3. HasRead(r)' <=> HasRead(r)
    BY DEF HasRead, Seen
  <2>4. QED BY <2>1, <2>2, <2>3 DEF Claims, Reading, Seen
<1>4. Listing(r)'
  <2>1. SUFFICES ASSUME Kept(r, {"delete"})'
                 PROVE  /\ req[r].at \in {"edges", "dropStale", "project", "closeness"} => req[r].nodes \subseteq engineers'
                        /\ req[r].at = "closeness" => projection' = None \/ req[r].nodes \subseteq projection'
                        /\ req[r].at \in {"betweenness", "degree", "drop"} => req[r].nodes \subseteq req[r].scored
                        /\ req[r].kind = "centrality" /\ req[r].at = "ok" /\ Cardinality(req[r].nodes) > Threshold
                             => req[r].nodes \subseteq req[r].scored
    BY DEF Listing, Seen
  <2>2. Kept(r, {"delete"})
    BY <2>1 DEF Kept, Seen
  <2>3. req[r].at \in {"edges", "dropStale", "project", "closeness"} => engineers \subseteq engineers'
    <3>1. req[r].at \in {"edges", "dropStale", "project", "closeness"} => Begun(r)
      BY DEF Claims, InPlace, Places, Begun
    <3>2. QED BY <2>1, <3>1 DEF Seen, Grows, Kept
  <2>4. QED BY <2>2, <2>3 DEF Claims, Listing, Seen, Reprojected
<1>5. Projecting(r)'
  <2>1. Kept(r, {"delete", "projection"})' => Kept(r, {"delete", "projection"})
    BY DEF Kept, Seen
  <2>2. Kept(r, {"delete", "projection"})' /\ Active(r) => projection' = projection
    BY DEF Kept, Seen
  <2>3. req[r].at \in {"project", "closeness", "betweenness", "degree", "drop"} => Active(r)
    BY DEF Active, Statements
  <2>4. QED BY <2>1, <2>2, <2>3 DEF Claims, Projecting, Seen
<1>6. QED BY <1>1, <1>2, <1>3, <1>4, <1>5 DEF Claims

\* What the history records of a statement of r.
LEMMA Observed ==
  ASSUME TypeOK, NEW r \in Request, Observe(r)
  PROVE  /\ during' \in [Request -> SUBSET {"delete", "engineer", "projection"}]
         /\ \A q \in Request :
              /\ during[q] \subseteq during'[q]
              /\ Begun(q) /\ engineers # {} /\ engineers' = {} => "delete" \in during'[q]
              /\ req[q].at = "edges" /\ ~(engineers' \subseteq engineers) => "engineer" \in during'[q]
              /\ q # r /\ Active(q) /\ req[r].at \in {"dropStale", "project", "drop"}
                   => "projection" \in during'[q]
<1>1. during' \in [Request -> SUBSET {"delete", "engineer", "projection"}]
  BY DEF Observe, TypeOK
<1>2. ASSUME NEW q \in Request
      PROVE  /\ during[q] \subseteq during'[q]
             /\ Begun(q) /\ engineers # {} /\ engineers' = {} => "delete" \in during'[q]
             /\ req[q].at = "edges" /\ ~(engineers' \subseteq engineers) => "engineer" \in during'[q]
             /\ q # r /\ Active(q) /\ req[r].at \in {"dropStale", "project", "drop"}
                  => "projection" \in during'[q]
  BY DEF Observe, ReadOrder
<1>3. QED BY <1>1, <1>2

\* A statement, refused, failed or not, as the other requests see it.
LEMMA ServeSeen ==
  ASSUME IInv, NEW r \in Request, Serve(r)
  PROVE  /\ DbTypes' /\ during' \in [Request -> SUBSET {"delete", "engineer", "projection"}]
         /\ \A q \in Request \ {r} : Seen(q)
         /\ \A q \in Request : during[q] \subseteq during'[q]
<1>1. TypeOK /\ Claims(r) /\ InPlace(r)
  BY DEF IInv, Claims
<1>2. DbTypes
  BY <1>1 DEF TypeOK, DbTypes
<1>3. ASSUME UNCHANGED db, NEW q \in Request \ {r}, req'[q] = req[q], during[q] \subseteq during'[q]
      PROVE  DbTypes' /\ Seen(q)
  <2>1. weight \in [Edge -> Nat]
    BY <1>1 DEF TypeOK
  <2>2. Grows
    BY <1>3, <2>1 DEF Grows, db
  <2>3. QED BY <1>2, <1>3, <2>2 DEF DbTypes, Seen, Present, db
<1>4. ASSUME Active(r), Effect(r), Observe(r), NEW q \in Request \ {r}, req'[q] = req[q]
      PROVE  Seen(q)
  <2>1. /\ Grows \/ (Wiped /\ req[r].at = "delete")
        /\ \/ projection' = projection
           \/ Reprojected /\ req[r].at \in {"dropStale", "project", "drop"}
    BY <1>1, <1>4, EffectKinds
  <2>2. QED BY <1>1, <1>4, <2>1, Observed DEF Seen, Wiped
<1>5. \A q \in Request \ {r} : req'[q] = req[q]
  BY <1>1 DEF Serve, Statement, Refuse, Fault, TypeOK
<1>6. DbTypes'
  <2>1. CASE UNCHANGED db
    BY <1>2, <2>1 DEF DbTypes, Present, db
  <2>2. CASE Active(r) /\ Effect(r)
    BY <1>1, <2>2, EffectKinds
  <2>3. QED BY <2>1, <2>2 DEF Serve, Statement, Refuse, Fault
<1>7. during' \in [Request -> SUBSET {"delete", "engineer", "projection"}]
      /\ \A q \in Request : during[q] \subseteq during'[q]
  <2>1. CASE Observe(r)
    BY <1>1, <2>1, Observed
  <2>2. CASE UNCHANGED during
    BY <1>1, <2>2 DEF TypeOK
  <2>3. QED BY <2>1, <2>2 DEF Serve, Statement, Refuse, Fault
<1>8. ASSUME NEW q \in Request \ {r}
      PROVE  Seen(q)
  <2>1. CASE UNCHANGED db
    BY <1>3, <1>5, <1>7, <1>8, <2>1
  <2>2. CASE Active(r) /\ Effect(r) /\ Observe(r)
    BY <1>4, <1>5, <1>8, <2>2
  <2>3. QED BY <2>1, <2>2 DEF Serve, Statement, Refuse, Fault
<1>9. QED BY <1>6, <1>7, <1>8

------------------------------------------------------------------------------
(* A request's own step *)

\* Where a handler goes, and what it has read then.
LEMMA Moves ==
  ASSUME IInv, NEW r \in Request, Statement(r)
  PROVE  /\ req' = [req EXCEPT ![r] = req'[r]]
         /\ req'[r].kind = req[r].kind
         /\ req'[r].at = NextStatement(r)
         /\ req'[r].k = IF NextStatement(r) = "write" THEN req[r].k + 1 ELSE req[r].k
         /\ req'[r].nodes = IF req[r].at = "nodes" THEN engineers ELSE req[r].nodes
         /\ req'[r].edges = IF req[r].at = "edges" THEN Present ELSE req[r].edges
         /\ req'[r].scored = IF req[r].at = "closeness" THEN projection ELSE req[r].scored
<1>1. req \in [Request ->
       [kind : {"none", "seed", "clear", "graph", "centrality"},
        at : Statements \cup Status \cup {"idle"},
        k : 0..(Len(SeedOrder) + Len(SeedEdges)),
        nodes : SUBSET Engineer, edges : SUBSET Edge, scored : SUBSET Engineer]]
  BY DEF IInv, TypeOK
<1>2. req' = [req EXCEPT ![r] = [Returned(r) EXCEPT
                 !.at = NextStatement(r), !.k = IF NextStatement(r) = "write" THEN @ + 1 ELSE @]]
  BY DEF Statement
<1> DEFINE q == req[r]
<1>3. /\ Returned(r).kind = q.kind /\ Returned(r).k = q.k
      /\ Returned(r).nodes = IF q.at = "nodes" THEN engineers ELSE q.nodes
      /\ Returned(r).edges = IF q.at = "edges" THEN Present ELSE q.edges
      /\ Returned(r).scored = IF q.at = "closeness" THEN projection ELSE q.scored
      /\ Returned(r) \in [kind : {q.kind}, at : {q.at}, k : {q.k}, nodes : {q.nodes, engineers},
                          edges : {q.edges, Present}, scored : {q.scored, projection}]
  BY <1>1 DEF Returned
<1>4. QED BY <1>1, <1>2, <1>3

\* The places a handler can go to.
LEMMA Directions ==
  ASSUME IInv, NEW r \in Request, Active(r)
  PROVE  /\ req[r].at = "write" =>
              NextStatement(r) = IF req[r].k = Writes THEN "ok" ELSE "write"
         /\ req[r].at = "nodes" => NextStatement(r) = "edges"
         /\ req[r].at = "edges" => NextStatement(r) =
              IF req[r].nodes = {} THEN "notFound"
              ELSE IF req[r].kind = "centrality" /\ Cardinality(req[r].nodes) > Threshold
              THEN "dropStale" ELSE "ok"
         /\ req[r].at \in {"countNodes", "countEdges", "delete"} \cup Gds =>
              NextStatement(r) = Following[req[r].at]
<1>1. req[r].at = "edges" => /\ Returned(r).nodes = req[r].nodes
                             /\ Returned(r).kind = req[r].kind
  BY DEF Returned, IInv, TypeOK
<1>2. req[r].at = "write" => NextStatement(r) = IF req[r].k = Writes THEN "ok" ELSE "write"
  BY Script DEF NextStatement, ReadOrder
<1>3. req[r].at = "nodes" => NextStatement(r) = "edges"
  BY DEF NextStatement, ReadOrder
<1>4. req[r].at = "edges" => NextStatement(r) = AfterRead(Returned(r))
  BY DEF NextStatement, ReadOrder
<1>5. req[r].at \in {"countNodes", "countEdges", "delete"} \cup Gds => NextStatement(r) = Following[req[r].at]
  BY DEF NextStatement, ReadOrder, Gds
<1>6. req[r].at = "edges" => AfterRead(Returned(r)) =
         IF req[r].nodes = {} THEN "notFound"
         ELSE IF req[r].kind = "centrality" /\ Cardinality(req[r].nodes) > Threshold
         THEN "dropStale" ELSE "ok"
  <2>1. req[r].nodes = {} => ~(Cardinality(req[r].nodes) > Threshold)
    BY FS_EmptySet, ConstantsAssumption
  <2>2. QED BY <1>1, <2>1 DEF AfterRead
<1>7. QED BY <1>2, <1>3, <1>4, <1>5, <1>6

\* The statement the seeder stands at has its effect: for an edge, because the
\* engineers have all been written before.
LEMMA WritesItsOwn ==
  ASSUME IInv, NEW r \in Request, req[r].at = "write", Kept(r, {"delete"}), Effect(r),
         NEW k, k = req[r].k
  PROVE  Written(k)'
<1>1. InPlace(r) /\ Seeding(r) /\ TypeOK /\ k \in 1..Writes /\ k \in Nat
  BY Sizes DEF IInv, Claims, InPlace
<1>2. req[r].kind = "seed"
  <2>1. req[r].kind \in {"none", "seed", "clear", "graph", "centrality"}
    BY <1>1 DEF TypeOK
  <2>2. QED BY <1>1, <2>1 DEF InPlace, Places, Gds
<1>3. CASE k <= Engineers
  <2>1. k \in 1..Engineers
    BY <1>1, <1>3, Sizes
  <2>2. SeedStatements[k] = [write |-> "engineer", of |-> SeedOrder[k]]
    BY <2>1, Script
  <2>3. MergeEngineer(SeedOrder[k])
    BY <2>2 DEF Effect
  <2>4. SeedOrder[k] \in engineers'
    BY <2>3 DEF MergeEngineer
  <2>5. QED BY <2>4, <1>3 DEF Written, Engineers
<1>4. CASE ~(k <= Engineers)
  <2> DEFINE s == SeedEdges[k - Engineers]
  <2>1. k \in (Engineers + 1)..Writes /\ k - Engineers \in 1..Len(SeedEdges)
    BY <1>1, <1>4, Sizes DEF Writes, Engineers
  <2>2. SeedStatements[k] = [write |-> "edge", of |-> s]
    BY <2>1, Script
  <2>3. SetEdge(s.edge, s.weight)
    BY <2>2 DEF Effect
  <2>4. s.edge \in Edge /\ s.weight \in Nat \ {0}
    BY <2>1, Seeds
  <2>5. Engineer \subseteq engineers
    <3>1. \A j \in 1..Engineers : j \in 1..Writes /\ j < k /\ Written(j)
      BY <1>1, <1>2, <2>1, Sizes DEF Seeding, Writes, Engineers
    <3>2. \A j \in 1..Engineers : SeedOrder[j] \in engineers
      BY <3>1, Sizes DEF Written
    <3>3. QED BY <3>2, Seeds
  <2>6. Ends(s.edge) \subseteq engineers
    BY <2>4, <2>5, ConstantsAssumption
  <2>7. weight'[s.edge] >= s.weight
    <3> HIDE DEF s
    <3>1. weight \in [Edge -> Nat] /\ weight' = [weight EXCEPT ![s.edge] = s.weight]
      BY <2>3, <2>6, <1>1 DEF SetEdge, TypeOK
    <3>2. QED BY <3>1, <2>4
  <2>8. QED BY <2>7, <1>4 DEF Written, Engineers
<1>5. QED BY <1>3, <1>4

LEMMA OwnStatement ==
  ASSUME IInv, NEW r \in Request, Statement(r)
  PROVE  Claims(r)'
<1>1. TypeOK /\ InPlace(r) /\ Seeding(r) /\ Reading(r) /\ Listing(r) /\ Projecting(r) /\ Active(r)
  BY DEF IInv, Claims, Statement
<1>2. /\ DbTypes' /\ during' \in [Request -> SUBSET {"delete", "engineer", "projection"}]
      /\ during[r] \subseteq during'[r]
  BY ServeSeen DEF Serve
<1>3. /\ Grows \/ (Wiped /\ req[r].at = "delete")
      /\ \/ projection' = projection
         \/ Reprojected /\ req[r].at \in {"dropStale", "project", "drop"}
  BY <1>1, EffectKinds DEF Statement
<1>4. /\ req[r].kind \in {"none", "seed", "clear", "graph", "centrality"}
      /\ req[r].at \in Statements /\ req[r].k \in Nat /\ req[r].nodes \subseteq Engineer
  BY <1>1, Sizes DEF TypeOK, Active
<1>5. /\ req'[r].kind = req[r].kind
      /\ req'[r].at = NextStatement(r)
      /\ req'[r].k = IF NextStatement(r) = "write" THEN req[r].k + 1 ELSE req[r].k
      /\ req'[r].nodes = IF req[r].at = "nodes" THEN engineers ELSE req[r].nodes
      /\ req'[r].edges = IF req[r].at = "edges" THEN Present ELSE req[r].edges
      /\ req'[r].scored = IF req[r].at = "closeness" THEN projection ELSE req[r].scored
  BY Moves
<1> DEFINE at == req[r].at
           next == req'[r].at
<1>6. /\ at = "write" => next = IF req[r].k = Writes THEN "ok" ELSE "write"
      /\ at = "nodes" => next = "edges"
      /\ at = "edges" => next = IF req[r].nodes = {} THEN "notFound"
                                ELSE IF req[r].kind = "centrality" /\ Cardinality(req[r].nodes) > Threshold
                                THEN "dropStale" ELSE "ok"
      /\ at = "countNodes" => next = "countEdges"
      /\ at = "countEdges" => next = "delete"
      /\ at = "delete" => next = "ok"
      /\ at = "dropStale" => next = "project"
      /\ at = "project" => next = "closeness"
      /\ at = "closeness" => next = "betweenness"
      /\ at = "betweenness" => next = "degree"
      /\ at = "degree" => next = "drop"
      /\ at = "drop" => next = "ok"
  BY <1>1, <1>5, Directions DEF Following, Gds
<1>7. /\ at = "write" => req[r].kind = "seed"
      /\ at \in {"countNodes", "countEdges", "delete"} => req[r].kind = "clear"
      /\ at \in {"nodes", "edges"} => req[r].kind \in {"graph", "centrality"}
      /\ at \in Gds => req[r].kind = "centrality"
  BY <1>1, <1>4 DEF InPlace, Places, Gds
<1>8. at \in {"write", "countNodes", "countEdges", "delete", "nodes", "edges"} \cup Gds
  BY <1>4 DEF Statements, Gds
<1>9. InPlace(r)'
  <2>1. next \in Places[req[r].kind]
    <3>1. CASE at \in {"write", "countNodes", "countEdges", "delete"}
      BY <3>1, <1>6, <1>7 DEF Places
    <3>2. CASE at \in {"nodes", "edges"}
      BY <3>2, <1>6, <1>7 DEF Places, Gds
    <3>3. CASE at \in Gds
      BY <3>3, <1>6, <1>7 DEF Places, Gds
    <3>4. QED BY <3>1, <3>2, <3>3, <1>8
  <2>2. next = "write" => at = "write" /\ req[r].k # Writes
    BY <1>6, <1>8 DEF Gds
  <2>3. next = "write" => req'[r].k \in 1..Writes
    BY <2>2, <1>1, <1>5, Sizes DEF InPlace
  <2>4. QED BY <2>1, <2>3, <1>5 DEF InPlace
<1>10. Seeding(r)'
  <2>1. SUFFICES ASSUME req'[r].kind = "seed", Kept(r, {"delete"})'
                 PROVE  /\ next = "write" => \A j \in 1..Writes : j < req'[r].k => Written(j)'
                        /\ next = "ok" => \A j \in 1..Writes : Written(j)'
    BY DEF Seeding
  <2>2. Kept(r, {"delete"}) /\ at = "write"
    BY <2>1, <1>2, <1>5, <1>7, <1>8 DEF Kept
  <2>3. \A j \in 1..Writes : j = req[r].k => Written(j)'
    BY <2>2, WritesItsOwn DEF Statement
  <2>4. \A j \in 1..Writes : j < req[r].k => Written(j)'
    BY <2>1, <2>2, <1>1, <1>2, <1>3, <1>5, WrittenStays DEF Seeding, DbTypes
  <2>5. req[r].k \in 1..Writes
    BY <2>2, <1>1 DEF InPlace
  <2>6. \A j \in 1..Writes : j < req[r].k + 1 => Written(j)'
    <3>1. \A j \in 1..Writes : j < req[r].k + 1 => j < req[r].k \/ j = req[r].k
      BY <2>5, Sizes
    <3>2. QED BY <3>1, <2>3, <2>4
  <2>7. next = "write" => \A j \in 1..Writes : j < req'[r].k => Written(j)'
    BY <2>6, <1>5
  <2>8. next = "ok" => \A j \in 1..Writes : j < req[r].k + 1
    BY <2>2, <1>6, Sizes
  <2>9. QED BY <2>6, <2>7, <2>8
<1>11. Reading(r)'
  <2>1. SUFFICES ASSUME Kept(r, {"engineer"})'
                 PROVE  /\ next = "edges" => engineers' \subseteq req'[r].nodes
                        /\ HasRead(r)' => \A e \in req'[r].edges : Ends(e) \subseteq req'[r].nodes
    BY DEF Reading
  <2>2. Kept(r, {"engineer"})
    BY <2>1, <1>2 DEF Kept
  <2>3. next = "edges" => at = "nodes"
    BY <1>6, <1>8 DEF Gds
  <2>4. at = "nodes" => engineers' = engineers
    <3>1. at = "nodes" => UNCHANGED db
      BY DEF Statement, Effect, Statements
    <3>2. QED BY <3>1 DEF db
  <2>5. at = "edges" => \A e \in Present : Ends(e) \subseteq req[r].nodes
    BY <2>2, <1>1 DEF Reading, TypeOK
  <2>6. HasRead(r)' => at # "nodes" /\ (at # "edges" => HasRead(r))
    BY <1>5, <1>6, <1>7, <1>8 DEF HasRead, Gds
  <2>7. QED BY <2>2, <2>3, <2>4, <2>5, <2>6, <1>1, <1>5 DEF Reading
<1>12. Listing(r)'
  <2>1. SUFFICES ASSUME Kept(r, {"delete"})'
                 PROVE  /\ next \in {"edges", "dropStale", "project", "closeness"} => req'[r].nodes \subseteq engineers'
                        /\ next = "closeness" => projection' = None \/ req'[r].nodes \subseteq projection'
                        /\ next \in {"betweenness", "degree", "drop"} => req'[r].nodes \subseteq req'[r].scored
                        /\ req'[r].kind = "centrality" /\ next = "ok" /\ Cardinality(req'[r].nodes) > Threshold
                             => req'[r].nodes \subseteq req'[r].scored
    BY DEF Listing
  <2>2. Kept(r, {"delete"})
    BY <2>1, <1>2 DEF Kept
  <2>3. next \in {"edges", "dropStale", "project", "closeness"} => Grows /\ at \in {"nodes", "edges", "dropStale", "project"}
    BY <1>3, <1>6, <1>8 DEF Gds
  <2>4. next \in {"edges", "dropStale", "project", "closeness"} => req'[r].nodes \subseteq engineers'
    BY <2>2, <2>3, <1>1, <1>5 DEF Listing, Grows
  <2>5. next = "closeness" => projection' = engineers
    <3>1. next = "closeness" => at = "project"
      BY <1>6, <1>8 DEF Gds
    <3>2. at = "project" => Project(engineers)
      BY DEF Statement, Effect, Statements
    <3>3. QED BY <3>1, <3>2 DEF Project
  <2>6. next = "closeness" => req'[r].nodes \subseteq projection'
    <3>1. next = "closeness" => at = "project"
      BY <1>6, <1>8 DEF Gds
    <3>2. QED BY <2>2, <2>5, <3>1, <1>1, <1>5 DEF Listing
  <2>7. next = "betweenness" => req'[r].nodes \subseteq req'[r].scored
    <3>1. next = "betweenness" => at = "closeness"
      BY <1>6, <1>8 DEF Gds
    <3>2. at = "closeness" => projection # None
      BY DEF Statement, Refused
    <3>3. QED BY <2>2, <3>1, <3>2, <1>1, <1>5 DEF Listing
  <2>8. next \in {"degree", "drop"} => req'[r].nodes \subseteq req'[r].scored
    <3>1. next \in {"degree", "drop"} => at \in {"betweenness", "degree"}
      BY <1>6, <1>8 DEF Gds
    <3>2. QED BY <2>2, <3>1, <1>1, <1>5 DEF Listing
  <2>9. req'[r].kind = "centrality" /\ next = "ok" /\ Cardinality(req'[r].nodes) > Threshold
          => req'[r].nodes \subseteq req'[r].scored
    <3>1. req'[r].kind = "centrality" /\ next = "ok" => at = "drop" \/ (at = "edges" /\ ~(Cardinality(req[r].nodes) > Threshold))
      BY <1>5, <1>6, <1>7, <1>8 DEF Gds
    <3>2. QED BY <2>2, <3>1, <1>1, <1>5 DEF Listing
  <2>10. QED BY <2>4, <2>6, <2>7, <2>8, <2>9
<1>13. Projecting(r)'
  <2>1. next \in {"dropStale", "project", "closeness"} => req'[r].nodes # {}
    BY <1>1, <1>5, <1>6, <1>8 DEF Projecting, Gds
  <2>2. SUFFICES ASSUME Kept(r, {"delete", "projection"})'
                 PROVE  /\ next = "project" => projection' = None
                        /\ next \in {"closeness", "betweenness", "degree", "drop"} => projection' # None
                        /\ next # "refused"
    BY <2>1 DEF Projecting
  <2>3. Kept(r, {"delete"}) /\ Kept(r, {"delete", "projection"})
    BY <2>2, <1>2 DEF Kept
  <2>4. next = "project" => projection' = None
    <3>1. next = "project" => at = "dropStale"
      BY <1>6, <1>8 DEF Gds
    <3>2. at = "dropStale" => Project(None)
      BY DEF Statement, Effect, Statements, DropStale
    <3>3. QED BY <3>1, <3>2 DEF Project
  <2>5. next = "closeness" => projection' # None
    <3>1. next = "closeness" => at = "project"
      BY <1>6, <1>8 DEF Gds
    <3>2. at = "project" => Project(engineers) /\ engineers # {}
      BY DEF Statement, Effect, Statements, Refused
    <3>3. QED BY <3>1, <3>2 DEF Project, None
  <2>6. next \in {"betweenness", "degree", "drop"} => projection' # None
    <3>1. next \in {"betweenness", "degree", "drop"} => at \in {"closeness", "betweenness", "degree"}
      BY <1>6, <1>8 DEF Gds
    <3>2. QED BY <2>3, <3>1, <1>1, <1>3 DEF Projecting
  <2>7. next # "refused"
    BY <1>6, <1>8 DEF Gds
  <2>8. QED BY <2>4, <2>5, <2>6, <2>7
<1>14. QED BY <1>9, <1>10, <1>11, <1>12, <1>13 DEF Claims

\* A handler that GDS stops or that fails promises nothing more, but GDS stops
\* it only after another request touched the graph or the projection.
LEMMA OwnRefuse ==
  ASSUME IInv, NEW r \in Request, Refuse(r)
  PROVE  Claims(r)'
<1>1. TypeOK /\ InPlace(r) /\ Listing(r) /\ Projecting(r) /\ Reading(r)
  BY DEF IInv, Claims
<1>2. req'[r] = [req[r] EXCEPT !.at = "refused"] /\ UNCHANGED <<db, during>>
  BY <1>1 DEF Refuse, TypeOK
<1>3. req'[r].at = "refused" /\ req'[r].kind = req[r].kind
  BY <1>1, <1>2 DEF TypeOK
<1>4. req[r].at \in {"project", "closeness", "betweenness", "drop"}
  BY DEF Refuse, Refused
<1>5. req[r].kind = "centrality"
  <2>1. req[r].kind \in {"none", "seed", "clear", "graph", "centrality"}
    BY <1>1 DEF TypeOK
  <2>2. QED BY <1>1, <1>4, <2>1 DEF InPlace, Places
<1>6. ~Kept(r, {"delete", "projection"})
  <2>1. SUFFICES ASSUME Kept(r, {"delete", "projection"})
                 PROVE  FALSE
    OBVIOUS
  <2>2. Kept(r, {"delete"})
    BY <2>1 DEF Kept
  <2>3. projection = None => req[r].at = "project"
    BY <1>1, <1>4, <2>1 DEF Projecting
  <2>4. req[r].at = "project" => projection = None /\ engineers # {}
    BY <1>1, <2>1, <2>2 DEF Projecting, Listing
  <2>5. QED BY <2>3, <2>4 DEF Refuse, Refused
<1>7. ~Kept(r, {"delete", "projection"})'
  BY <1>2, <1>6 DEF Kept
<1>8. InPlace(r)'
  BY <1>3, <1>5 DEF InPlace, Places
<1>9. Seeding(r)' /\ Listing(r)'
  BY <1>3, <1>5 DEF Seeding, Listing
<1>10. Reading(r)'
  BY <1>3 DEF Reading, HasRead
<1>11. Projecting(r)'
  BY <1>3, <1>7 DEF Projecting
<1>12. QED BY <1>8, <1>9, <1>10, <1>11 DEF Claims

LEMMA OwnFault ==
  ASSUME IInv, NEW r \in Request, Fault(r)
  PROVE  Claims(r)'
<1>1. TypeOK /\ InPlace(r)
  BY DEF IInv, Claims
<1>2. req'[r] = [req[r] EXCEPT !.at = "error"]
  BY <1>1 DEF Fault, TypeOK
<1>3. req'[r].at = "error" /\ req'[r].kind = req[r].kind
  BY <1>1, <1>2 DEF TypeOK
<1>4. req[r].kind \in {"seed", "clear", "graph", "centrality"}
  <2>1. req[r].kind \in {"none", "seed", "clear", "graph", "centrality"}
    BY <1>1 DEF TypeOK
  <2>2. req[r].at # "idle"
    BY DEF Fault, Active, Statements
  <2>3. QED BY <1>1, <2>1, <2>2 DEF InPlace, Places
<1>5. InPlace(r)'
  BY <1>3, <1>4 DEF InPlace, Places
<1>6. Seeding(r)' /\ Listing(r)' /\ Projecting(r)'
  BY <1>3 DEF Seeding, Listing, Projecting
<1>7. Reading(r)'
  BY <1>3 DEF Reading, HasRead
<1>8. QED BY <1>5, <1>6, <1>7 DEF Claims

LEMMA OwnBegin ==
  ASSUME IInv, NEW r \in Request, NEW kind \in Kinds, Begin(r, kind)
  PROVE  Claims(r)'
<1>1. TypeOK
  BY DEF IInv
<1>2. req'[r] = [req[r] EXCEPT !.kind = kind, !.at = First(kind), !.k = IF kind = "seed" THEN 1 ELSE 0]
  BY <1>1 DEF Begin, TypeOK
<1>3. req'[r].kind = kind /\ req'[r].at = First(kind) /\ (kind = "seed" => req'[r].k = 1)
  BY <1>1, <1>2 DEF TypeOK
<1>4. /\ kind = "seed" => First(kind) = "write"
      /\ kind = "clear" => First(kind) = "countNodes"
      /\ kind \in {"graph", "centrality"} => First(kind) = "nodes"
  BY DEF First, ReadOrder
<1>5. InPlace(r)'
  BY <1>3, <1>4, Sizes DEF InPlace, Places, Kinds
<1>6. Seeding(r)'
  <2>1. \A j \in 1..Writes : ~(j < 1)
    BY Sizes
  <2>2. QED BY <1>3, <1>4, <2>1 DEF Seeding
<1>7. Listing(r)' /\ Projecting(r)'
  BY <1>3, <1>4 DEF Listing, Projecting, Kinds
<1>8. Reading(r)'
  BY <1>3, <1>4 DEF Reading, HasRead, Kinds
<1>9. QED BY <1>5, <1>6, <1>7, <1>8 DEF Claims

------------------------------------------------------------------------------
(* The invariant *)

RequestType ==
  [kind : {"none", "seed", "clear", "graph", "centrality"},
   at : Statements \cup Status \cup {"idle"},
   k : 0..(Len(SeedOrder) + Len(SeedEdges)),
   nodes : SUBSET Engineer, edges : SUBSET Edge, scored : SUBSET Engineer]

LEMMA ServeTypes ==
  ASSUME IInv, NEW r \in Request, Serve(r), DbTypes',
         during' \in [Request -> SUBSET {"delete", "engineer", "projection"}]
  PROVE  TypeOK'
<1>1. TypeOK /\ req \in [Request -> RequestType]
  BY DEF IInv, TypeOK, RequestType
<1>2. req' \in [Request -> RequestType]
  <2>1. CASE Statement(r)
    <3>1. InPlace(r) /\ Active(r)
      BY <2>1 DEF IInv, Claims, Statement
    <3>2. Returned(r) \in RequestType /\ Returned(r).k = req[r].k
      BY <1>1 DEF Returned, RequestType, TypeOK, Present
    <3>3. NextStatement(r) \in Statements \cup Status
      BY <3>1, Directions DEF Following, Statements, Status, Gds, Active
    <3>4. NextStatement(r) = "write" => req[r].k + 1 \in 0..Writes
      <4>1. NextStatement(r) = "write" => req[r].at = "write" /\ req[r].k # Writes
        BY <3>1, Directions DEF Following, Statements, Gds, Active
      <4>2. QED BY <3>1, <4>1, Sizes DEF InPlace
    <3>5. [Returned(r) EXCEPT !.at = NextStatement(r),
             !.k = IF NextStatement(r) = "write" THEN @ + 1 ELSE @] \in RequestType
      BY <3>2, <3>3, <3>4 DEF RequestType, Writes
    <3>6. QED BY <1>1, <2>1, <3>5 DEF Statement
  <2>2. CASE Refuse(r)
    <3>1. [req[r] EXCEPT !.at = "refused"] \in RequestType
      BY <1>1 DEF RequestType, Status
    <3>2. req' = [req EXCEPT ![r] = [req[r] EXCEPT !.at = "refused"]]
      BY <2>2 DEF Refuse
    <3>3. QED BY <1>1, <3>1, <3>2
  <2>3. CASE Fault(r)
    <3>1. [req[r] EXCEPT !.at = "error"] \in RequestType
      BY <1>1 DEF RequestType, Status
    <3>2. req' = [req EXCEPT ![r] = [req[r] EXCEPT !.at = "error"]]
      BY <2>3 DEF Fault
    <3>3. QED BY <1>1, <3>1, <3>2
  <2>4. QED BY <2>1, <2>2, <2>3 DEF Serve
<1>3. faults' \in 0..MaxFaults /\ upserts' \in 0..MaxUpserts
  BY <1>1, ConstantsAssumption DEF Serve, Statement, Refuse, Fault, TypeOK
<1>4. QED BY <1>2, <1>3 DEF TypeOK, DbTypes, RequestType

LEMMA BeginTypes ==
  ASSUME IInv, NEW r \in Request, NEW kind \in Kinds, Begin(r, kind)
  PROVE  TypeOK'
<1>1. TypeOK /\ req \in [Request -> RequestType]
  BY DEF IInv, TypeOK, RequestType
<1>2. req' \in [Request -> RequestType]
  <2>1. First(kind) \in Statements
    BY DEF First, ReadOrder, Statements, Kinds
  <2>2. (IF kind = "seed" THEN 1 ELSE 0) \in 0..(Len(SeedOrder) + Len(SeedEdges))
    BY Sizes DEF Writes
  <2>3. req' = [req EXCEPT ![r] = [req[r] EXCEPT !.kind = kind, !.at = First(kind),
                                     !.k = IF kind = "seed" THEN 1 ELSE 0]]
    BY <1>1 DEF Begin, RequestType
  <2>4. [req[r] EXCEPT !.kind = kind, !.at = First(kind), !.k = IF kind = "seed" THEN 1 ELSE 0] \in RequestType
    BY <1>1, <2>1, <2>2 DEF RequestType, Kinds
  <2>5. QED BY <1>1, <2>3, <2>4
<1>3. QED BY <1>1, <1>2 DEF Begin, db, TypeOK, Present, RequestType

\* A telemetry event only raises one weight.
LEMMA UpsertSeen ==
  ASSUME IInv, NEW e \in Edge, Upsert(e)
  PROVE  TypeOK' /\ \A r \in Request : Seen(r)
<1>1. TypeOK
  BY DEF IInv
<1>2. weight' = [weight EXCEPT ![e] = weight[e] + 1] /\ weight[e] \in Nat
  BY <1>1 DEF Upsert, Incremented, TypeOK
<1>3. weight' \in [Edge -> Nat]
  BY <1>1, <1>2 DEF TypeOK
<1>4. \A f \in Edge : weight'[f] >= weight[f]
  BY <1>1, <1>2 DEF TypeOK
<1>5. \A f \in Present' : Ends(f) \subseteq engineers'
  BY <1>1, <1>2 DEF TypeOK, Present, Upsert
<1>6. TypeOK'
  BY <1>1, <1>3, <1>5, ConstantsAssumption DEF TypeOK, Upsert
<1>7. \A r \in Request : Seen(r)
  BY <1>4 DEF Seen, Grows, Upsert
<1>8. QED BY <1>6, <1>7

LEMMA Invariance ==
  ASSUME IInv, [Next]_vars
  PROVE  IInv'
<1>1. TypeOK /\ DbTypes /\ \A r \in Request : Claims(r)
  BY DEF IInv, TypeOK, DbTypes
<1>2. ASSUME NEW r \in Request, NEW kind \in Kinds, Begin(r, kind)
      PROVE  IInv'
  <2>1. TypeOK'
    BY <1>2, BeginTypes
  <2>2. Claims(r)'
    BY <1>2, OwnBegin
  <2>3. ASSUME NEW q \in Request, q # r
        PROVE  Claims(q)'
    <3>1. weight \in [Edge -> Nat]
      BY <1>1 DEF TypeOK
    <3>2. Grows
      BY <1>2, <3>1 DEF Begin, db, Grows
    <3>3. Seen(q)
      BY <1>1, <1>2, <2>3, <3>2 DEF Seen, Begin, db, TypeOK
    <3>4. DbTypes'
      BY <2>1 DEF TypeOK, DbTypes
    <3>5. QED BY <1>1, <3>3, <3>4, Untouched
  <2>4. QED BY <2>1, <2>2, <2>3 DEF IInv
<1>3. ASSUME NEW r \in Request, Serve(r)
      PROVE  IInv'
  <2>1. /\ DbTypes' /\ during' \in [Request -> SUBSET {"delete", "engineer", "projection"}]
        /\ \A q \in Request \ {r} : Seen(q)
    BY <1>3, ServeSeen
  <2>2. TypeOK'
    BY <1>3, <2>1, ServeTypes
  <2>3. Claims(r)'
    BY <1>3, OwnStatement, OwnRefuse, OwnFault DEF Serve
  <2>4. \A q \in Request \ {r} : Claims(q)'
    BY <1>1, <2>1, Untouched
  <2>5. QED BY <2>2, <2>3, <2>4 DEF IInv
<1>4. ASSUME NEW e \in Edge, Upsert(e)
      PROVE  IInv'
  <2>1. TypeOK' /\ \A r \in Request : Seen(r)
    BY <1>4, UpsertSeen
  <2>2. DbTypes'
    BY <2>1 DEF TypeOK, DbTypes
  <2>3. QED BY <1>1, <2>1, <2>2, Untouched DEF IInv
<1>5. ASSUME UNCHANGED vars
      PROVE  IInv'
  <2>1. TypeOK'
    BY <1>1, <1>5 DEF vars, TypeOK, Present
  <2>2. ASSUME NEW r \in Request
        PROVE  Claims(r)'
    <3>1. weight \in [Edge -> Nat]
      BY <1>1 DEF TypeOK
    <3>2. Seen(r)
      BY <1>5, <3>1 DEF vars, Seen, Grows
    <3>3. DbTypes'
      BY <2>1 DEF TypeOK, DbTypes
    <3>4. QED BY <1>1, <3>2, <3>3, Untouched
  <2>3. QED BY <2>1, <2>2 DEF IInv
<1>6. QED BY <1>2, <1>3, <1>4, <1>5 DEF Next

LEMMA Initially ==
  ASSUME Init
  PROVE  IInv
<1>1. TypeOK
  <2>1. req \in [Request -> RequestType]
    BY Sizes DEF Init, Pending, RequestType, Writes
  <2>2. during \in [Request -> SUBSET {"delete", "engineer", "projection"}]
    BY DEF Init
  <2>3. weight \in [Edge -> Nat] /\ Present = {}
    BY DEF Init, Present
  <2>4. QED BY <2>1, <2>2, <2>3, ConstantsAssumption DEF Init, TypeOK, RequestType, None
<1>2. ASSUME NEW r \in Request
      PROVE  Claims(r)
  <2>1. req[r].kind = "none" /\ req[r].at = "idle"
    BY DEF Init, Pending
  <2>2. InPlace(r)
    BY <2>1 DEF InPlace, Places
  <2>3. Seeding(r) /\ Listing(r) /\ Projecting(r)
    BY <2>1 DEF Seeding, Listing, Projecting
  <2>4. Reading(r)
    BY <2>1 DEF Reading, HasRead
  <2>5. QED BY <2>2, <2>3, <2>4 DEF Claims
<1>3. QED BY <1>1, <1>2 DEF IInv

\* What every reachable state of the graph handlers satisfies: the types, and
\* what each request may rely on while others write and fail.
THEOREM Invariant == Spec => []IInv
<1>1. Init => IInv
  BY Initially
<1>2. IInv /\ [Next]_vars => IInv'
  BY Invariance
<1>3. QED BY <1>1, <1>2, PTL DEF Spec

\* For any team, requests, faults and telemetry: an edge of an answer names an
\* engineer the answer lacks only if one was added between its two reads.
THEOREM EdgesOfAnswersNameNodes == Spec => []EdgesNameNodes
<1>1. IInv => EdgesNameNodes
  <2>1. ASSUME IInv, NEW r \in Request, HasRead(r), "engineer" \notin during[r], NEW e \in req[r].edges
        PROVE  Ends(e) \subseteq req[r].nodes
    BY <2>1 DEF IInv, Claims, Reading, Kept
  <2>2. QED BY <2>1 DEF EdgesNameNodes
<1>2. QED BY <1>1, Invariant, PTL

\* A seed that has answered 200 wrote its whole script.
LEMMA SeededWhenDone ==
  ASSUME IInv
  PROVE  SeededInFull
<1>1. SUFFICES ASSUME NEW r \in Request, req[r].kind = "seed", req[r].at = "ok", "delete" \notin during[r]
               PROVE  /\ Engineer \subseteq engineers
                      /\ \A e \in Seeded : weight[e] >= SeedWeight(e)
  BY DEF SeededInFull
<1>2. \A j \in 1..Writes : Written(j)
  BY <1>1 DEF IInv, Claims, Seeding, Kept
<1>3. Engineer \subseteq engineers
  <2>1. \A k \in 1..Engineers : SeedOrder[k] \in engineers
    BY <1>2, Sizes DEF Written, Writes, Engineers
  <2>2. QED BY <2>1, Seeds
<1>4. ASSUME NEW k \in 1..Len(SeedEdges)
      PROVE  weight[SeedEdges[k].edge] >= SeedWeight(SeedEdges[k].edge)
  <2>1. Engineers + k \in 1..Writes /\ ~(Engineers + k <= Engineers) /\ (Engineers + k) - Engineers = k
    BY Sizes DEF Writes, Engineers
  <2>2. Written(Engineers + k)
    BY <1>2, <2>1
  <2>3. weight[SeedEdges[k].edge] >= SeedEdges[k].weight
    BY <2>1, <2>2 DEF Written
  <2>4. QED BY <2>3, Seeds
<1>5. QED BY <1>3, <1>4, Seeds

\* For any teams of any size: a seed that answers 200 has left every engineer
\* and every edge, unless a clear came in between.
THEOREM SeedsInFull == Spec => []SeededInFull
BY SeededWhenDone, Invariant, PTL

\* For any number of centrality requests on one team: one that succeeds has a
\* score for every engineer it lists, unless the graph was cleared under it.
THEOREM AllListedAreScored == Spec => []ScoresAreComplete
<1>1. IInv => ScoresAreComplete
  BY DEF IInv, Claims, Listing, Kept, ScoresAreComplete
<1>2. QED BY <1>1, Invariant, PTL

\* For any number of centrality requests and failures: GDS refuses a query only
\* when another request changed the projection or the graph was deleted.
THEOREM NotRefusedAlone == Spec => []RefusedOnlyByOthers
<1>1. IInv => RefusedOnlyByOthers
  BY DEF IInv, Claims, Projecting, Kept, RefusedOnlyByOthers
<1>2. QED BY <1>1, Invariant, PTL

\* Whatever interleaves: a weight falls or an engineer goes only with a clear,
\* or by a seed setting the weight of an edge it generates.
THEOREM ForgetsOnlyByAdmin == Spec => OnlyAdminForgets
<1> DEFINE Kind(e) ==
      weight'[e] < weight[e] \/ ~(engineers \subseteq engineers') =>
        \/ engineers' = {} /\ \E r \in Request : req[r].at = "delete"
        \/ e \in Seeded /\ weight'[e] = SeedWeight(e)
<1>1. ASSUME IInv, [Next]_vars, NEW e \in Edge
      PROVE  Kind(e)
  <2>0. TypeOK /\ weight[e] \in Nat
    BY <1>1 DEF IInv, TypeOK
  <2>1. ASSUME UNCHANGED <<engineers, weight>>
        PROVE  Kind(e)
    BY <2>0, <2>1
  <2>2. ASSUME NEW r \in Request, Active(r), Effect(r)
        PROVE  Kind(e)
    <3>1. DbTypes' /\ (Grows \/ (Wiped /\ req[r].at = "delete"))
      BY <1>1, <2>2, EffectKinds DEF IInv, Claims
    <3>2. weight'[e] \in Nat
      BY <3>1 DEF DbTypes
    <3>3. QED BY <2>0, <3>1, <3>2 DEF Grows, Wiped
  <2>3. ASSUME NEW f \in Edge, Upsert(f)
        PROVE  Kind(e)
    <3>1. Grows /\ weight'[e] \in Nat
      <4>1. weight' = [weight EXCEPT ![f] = weight[f] + 1] /\ weight \in [Edge -> Nat] /\ engineers' = engineers
        BY <2>0, <2>3 DEF Upsert, Incremented, TypeOK
      <4>2. QED BY <4>1 DEF Grows
    <3>2. QED BY <2>0, <3>1 DEF Grows
  <2>4. QED BY <1>1, <2>1, <2>2, <2>3 DEF Next, Begin, Serve, Statement, Refuse, Fault, vars, db
<1>2. IInv /\ [Next]_vars => [\A e \in Edge : Kind(e)]_vars
  BY <1>1
<1>3. QED BY <1>2, Invariant, PTL DEF Spec, OnlyAdminForgets

------------------------------------------------------------------------------
(* The admin page *)

\* Every step of the page is a request begun, or leaves the handlers alone.
LEMMA PageStep ==
  ASSUME [ConsoleNext]_consoleVars
  PROVE  [Next]_vars
<1>1. CASE UNCHANGED consoleVars
  BY <1>1 DEF consoleVars
<1>2. CASE Page
  BY <1>2 DEF Page, ClickSeed, ClickClear, ClickReset, ResetSeed, Fetch, Answered, Lost,
              Settled, Flush, Flushed, Next, Kinds
<1>3. CASE Others
  BY <1>3 DEF Others, Next, Kinds
<1>4. QED BY <1>1, <1>2, <1>3 DEF ConsoleNext

\* For any page and any calls: the composition runs the handlers as they are
\* specified alone, so what is proved of them holds behind the page.
THEOREM ConsoleRunsHandlers == ConsoleSpec => Spec
<1>1. ConsoleInit => Init
  BY DEF ConsoleInit
<1>2. [ConsoleNext]_consoleVars => [Next]_vars
  BY PageStep
<1>3. QED BY <1>1, <1>2, PTL DEF ConsoleSpec, Spec

------------------------------------------------------------------------------
(* The inductive invariant *)

PageTypes ==
  /\ busy \in [Key -> BOOLEAN]
  /\ call \in [Request -> Reset \cup {Button, Nobody}]
  /\ stage \in [Reset -> {"none", "clear", "thenRedis", "redis", "thenSeed", "seed",
                          "done", "failed", "aborted"}]
  /\ flushing \subseteq Reset \cup {Button}
  /\ lost \in 0..MaxLost
  /\ clearedIn \subseteq Reset

Unbegun ==
  \A r \in Request : ~Begun(r) => during[r] = {} /\ call[r] = Nobody

\* A reset awaits the answer of its stage, and one answer.
CallsOfStages ==
  /\ \A r \in Request : call[r] \in Reset =>
       \/ req[r].kind = "clear" /\ stage[call[r]] = "clear"
       \/ req[r].kind = "seed" /\ stage[call[r]] = "seed"
  /\ \A r, q \in Request : call[r] \in Reset /\ call[q] = call[r] => q = r
  /\ \A c \in flushing \cap Reset : stage[c] = "redis"

\* While no fetch was lost the page awaits every handler that still clears; it
\* awaits one at a time, and knows it.
ClearsAwaited ==
  /\ \A r \in Request : call[r] # Nobody => req[r].kind \in {"seed", "clear"}
  /\ \A r \in Request : req[r].kind = "clear" /\ call[r] # Nobody => busy["clearGraph"]
  /\ \A r, q \in Request :
       req[r].kind = "clear" /\ call[r] # Nobody /\ req[q].kind = "clear" /\ call[q] # Nobody => q = r
  /\ lost = 0 => \A r \in Request : req[r].kind = "clear" /\ Active(r) => call[r] # Nobody

Full ==
  /\ Engineer \subseteq engineers
  /\ \A e \in Seeded : weight[e] >= SeedWeight(e)

Undisturbed(c) == stage[c] # "none" /\ c \notin clearedIn /\ lost = 0

\* While no other clear is called, only the reset's own one runs, and none
\* after it: its seed sees no delete, and what it seeded stays.
Resetting ==
  \A c \in Reset : Undisturbed(c) =>
    /\ \A r \in Request : req[r].kind = "clear" /\ Active(r) => call[r] = c
    /\ \A r \in Request : req[r].kind = "seed" /\ call[r] = c => "delete" \notin during[r]
    /\ stage[c] = "done" => Full

ConsoleInv ==
  IInv /\ PageTypes /\ Unbegun /\ CallsOfStages /\ ClearsAwaited /\ Resetting

LEMMA ClearingIsClear ==
  ASSUME IInv, NEW r \in Request, req[r].at = "delete"
  PROVE  req[r].kind = "clear" /\ Active(r)
<1>1. req[r].kind \in {"none", "seed", "clear", "graph", "centrality"} /\ InPlace(r)
  BY DEF IInv, TypeOK, Claims
<1>2. QED BY <1>1 DEF InPlace, Places, Gds, Active, Statements

LEMMA UnbegunIsIdle ==
  ASSUME IInv, NEW r \in Request, ~Begun(r)
  PROVE  ~Active(r) /\ req[r].at # "edges"
BY DEF IInv, Claims, InPlace, Places, Begun, Active, Statements

\* A request begun by the page.
LEMMA FetchKeeps ==
  ASSUME ConsoleInv, NEW r \in Request, NEW kind \in {"seed", "clear"},
         NEW by \in Reset \cup {Button}, Fetch(r, kind, by), IInv',
         \/ by = Button /\ UNCHANGED stage
         \/ by \in Reset /\ kind = "clear" /\ stage[by] = "none"
            /\ stage' = [stage EXCEPT ![by] = "clear"]
         \/ by \in Reset /\ kind = "seed" /\ stage[by] = "thenSeed"
            /\ stage' = [stage EXCEPT ![by] = "seed"],
         kind = "clear" => ~busy["clearGraph"]
  PROVE  ConsoleInv'
<1> USE DEF ConsoleInv
<1>1. /\ req' = [req EXCEPT ![r] = req'[r]] /\ req'[r].kind = kind /\ ~Begun(r)
      /\ UNCHANGED <<engineers, weight, projection, during, flushing, lost>>
      /\ call' = [call EXCEPT ![r] = by] /\ busy' = [busy EXCEPT ![KeyOf(kind)] = TRUE]
      /\ clearedIn' = IF kind = "clear" THEN clearedIn \cup {c \in Reset : stage[c] # "none"}
                      ELSE clearedIn
  BY DEF Fetch, Begin, IInv, TypeOK, db
<1>2. by # Nobody /\ Button \notin Reset /\ Nobody \notin Reset
  BY ConsoleAssumption
<1>3. PageTypes'
  <2>1. stage' \in [Reset -> {"none", "clear", "thenRedis", "redis", "thenSeed", "seed",
                              "done", "failed", "aborted"}]
    BY DEF PageTypes
  <2>2. busy' \in [Key -> BOOLEAN]
    BY <1>1 DEF PageTypes
  <2>3. call' \in [Request -> Reset \cup {Button, Nobody}]
    BY <1>1 DEF PageTypes
  <2>4. QED BY <1>1, <2>1, <2>2, <2>3 DEF PageTypes
<1>4. \A q \in Request : q # r => req'[q] = req[q] /\ call'[q] = call[q]
  BY <1>1 DEF IInv, TypeOK, PageTypes
<1>5. call[r] = Nobody /\ during[r] = {} /\ call'[r] = by /\ req'[r].kind = kind /\ ~Active(r)
  BY <1>1, UnbegunIsIdle DEF Unbegun, PageTypes
<1>6. Unbegun'
  BY <1>1, <1>4, <1>5 DEF Unbegun, Begun
<1>7. by \in Reset => \A q \in Request : call[q] # by
  BY <1>2 DEF CallsOfStages
<1>8. CallsOfStages'
  <2>1. \A c \in Reset : c # by => stage'[c] = stage[c]
    BY <1>2 DEF PageTypes
  <2>2. by \in Reset => stage'[by] = kind
    BY <1>2 DEF PageTypes
  <2>3. \A q \in Request : call'[q] \in Reset =>
       \/ req'[q].kind = "clear" /\ stage'[call'[q]] = "clear"
       \/ req'[q].kind = "seed" /\ stage'[call'[q]] = "seed"
    BY <1>2, <1>4, <1>5, <1>7, <2>1, <2>2 DEF CallsOfStages
  <2>4. \A p, q \in Request : call'[p] \in Reset /\ call'[q] = call'[p] => q = p
    BY <1>4, <1>5, <1>7 DEF CallsOfStages
  <2>5. \A c \in flushing' \cap Reset : stage'[c] = "redis"
    BY <1>1, <1>2, <2>1 DEF CallsOfStages
  <2>6. QED BY <2>3, <2>4, <2>5 DEF CallsOfStages
<1>9. ClearsAwaited'
  <2>1. ASSUME NEW q \in Request, req'[q].kind = "clear", call'[q] # Nobody
        PROVE  busy'["clearGraph"] = TRUE
    BY <1>1, <1>4, <1>5, <2>1 DEF ClearsAwaited, KeyOf, PageTypes, Key
  <2>2. ASSUME lost' = 0, NEW q \in Request, req'[q].kind = "clear", Active(q)'
        PROVE  call'[q] # Nobody
    BY <1>1, <1>2, <1>4, <1>5, <2>2 DEF ClearsAwaited, Active
  <2>3. \A q \in Request : call'[q] # Nobody => req'[q].kind \in {"seed", "clear"}
    BY <1>4, <1>5 DEF ClearsAwaited
  <2>4. ASSUME NEW p \in Request, NEW q \in Request, req'[p].kind = "clear", call'[p] # Nobody,
               req'[q].kind = "clear", call'[q] # Nobody
        PROVE  q = p
    BY <1>4, <1>5, <2>4 DEF ClearsAwaited
  <2>5. QED BY <2>1, <2>2, <2>3, <2>4 DEF ClearsAwaited
<1>10. Resetting'
  <2>1. SUFFICES ASSUME NEW c \in Reset, Undisturbed(c)'
                 PROVE  /\ \A q \in Request : req'[q].kind = "clear" /\ Active(q)' => call'[q] = c
                        /\ \A q \in Request : req'[q].kind = "seed" /\ call'[q] = c => "delete" \notin during'[q]
                        /\ stage'[c] = "done" => Full'
    BY DEF Resetting
  <2>2. lost = 0 /\ c \notin clearedIn /\ (kind = "clear" => stage[c] = "none")
    BY <1>1, <2>1 DEF Undisturbed
  <2>3. kind = "clear" => by = c
    BY <2>1, <2>2 DEF Undisturbed, PageTypes
  <2>4. kind = "seed" => Undisturbed(c)
    BY <2>1, <2>2, <1>2 DEF Undisturbed, PageTypes
  <2>5. \A q \in Request : req'[q].kind = "clear" /\ Active(q)' => call'[q] = c
    <3>1. CASE kind = "clear"
      <4>1. \A q \in Request : ~(req[q].kind = "clear" /\ Active(q))
        BY <3>1, <2>2 DEF ClearsAwaited
      <4>2. QED BY <4>1, <1>4, <1>5, <2>3, <3>1 DEF Active
    <3>2. CASE kind = "seed"
      BY <3>2, <2>4, <1>4, <1>5 DEF Resetting, Active
    <3>3. QED BY <3>1, <3>2
  <2>6. \A q \in Request : req'[q].kind = "seed" /\ call'[q] = c => "delete" \notin during'[q]
    <3>1. CASE kind = "clear"
      BY <3>1, <2>3, <1>4, <1>5, <1>7
    <3>2. CASE kind = "seed"
      BY <3>2, <2>4, <1>1, <1>4, <1>5 DEF Resetting
    <3>3. QED BY <3>1, <3>2
  <2>7. stage'[c] = "done" => Full'
    <3>1. stage'[c] = "done" => stage[c] = "done" /\ kind = "seed"
      BY <2>2, <2>3, <1>2 DEF PageTypes
    <3>2. QED BY <3>1, <2>4, <1>1 DEF Resetting, Full
  <2>8. QED BY <2>5, <2>6, <2>7
<1>11. QED BY <1>3, <1>6, <1>8, <1>9, <1>10

\* A fetch that settles: answered, or lost.
LEMMA SettledKeeps ==
  ASSUME ConsoleInv, NEW r \in Request, Answered(r) \/ Lost(r)
  PROVE  ConsoleInv'
<1> USE DEF ConsoleInv
<1> DEFINE label == IF Answered(r) THEN IF call[r] \in Reset THEN AfterCall(call[r], req[r].at = "ok") ELSE "none"
                    ELSE "aborted"
<1>1. /\ UNCHANGED <<vars, flushing, clearedIn>> /\ call[r] # Nobody
      /\ call' = [call EXCEPT ![r] = Nobody] /\ busy' = [busy EXCEPT ![KeyOf(req[r].kind)] = FALSE]
  BY DEF Answered, Lost, Settled
<1>2. IInv'
  BY <1>1, Invariance
<1>3. Button \notin Reset /\ Nobody \notin Reset /\ Nobody # Button
  BY ConsoleAssumption
<1>4. /\ Answered(r) => req[r].at \in Status /\ lost' = lost
      /\ Lost(r) => lost' = lost + 1 /\ lost < MaxLost
  BY DEF Answered, Lost
<1>5. \E l \in {"thenRedis", "thenSeed", "done", "failed", "aborted"} :
        /\ stage' = IF call[r] \in Reset THEN [stage EXCEPT ![call[r]] = l] ELSE stage
        /\ l = "thenSeed" => call[r] \notin Reset
        /\ l = "done" /\ call[r] \in Reset => req[r].kind = "seed" /\ req[r].at = "ok" /\ Answered(r)
  <2>1. CASE call[r] \notin Reset
    BY <2>1 DEF Answered, Lost, Settled
  <2>2. CASE call[r] \in Reset /\ Answered(r)
    <3>1. \/ req[r].kind = "clear" /\ stage[call[r]] = "clear"
          \/ req[r].kind = "seed" /\ stage[call[r]] = "seed"
      BY <2>2 DEF CallsOfStages
    <3>2. stage' = [stage EXCEPT ![call[r]] = AfterCall(call[r], req[r].at = "ok")]
      BY <2>2 DEF Answered, Settled
    <3>3. CASE req[r].kind = "clear" /\ stage[call[r]] = "clear"
      BY <2>2, <3>2, <3>3 DEF AfterCall
    <3>4. CASE req[r].kind = "seed" /\ stage[call[r]] = "seed" /\ req[r].at = "ok"
      BY <2>2, <3>2, <3>4 DEF AfterCall
    <3>5. CASE req[r].kind = "seed" /\ stage[call[r]] = "seed" /\ req[r].at # "ok"
      BY <2>2, <3>2, <3>5 DEF AfterCall
    <3>6. QED BY <3>1, <3>3, <3>4, <3>5
  <2>3. CASE call[r] \in Reset /\ Lost(r)
    BY <2>3 DEF Lost, Settled
  <2>4. QED BY <2>1, <2>2, <2>3
<1>6. PICK l \in {"thenRedis", "thenSeed", "done", "failed", "aborted"} :
        /\ stage' = IF call[r] \in Reset THEN [stage EXCEPT ![call[r]] = l] ELSE stage
        /\ l = "thenSeed" => call[r] \notin Reset
        /\ l = "done" /\ call[r] \in Reset => req[r].kind = "seed" /\ req[r].at = "ok" /\ Answered(r)
  BY <1>5
<1>7. PageTypes'
  <2>1. stage' \in [Reset -> {"none", "clear", "thenRedis", "redis", "thenSeed", "seed",
                              "done", "failed", "aborted"}]
    BY <1>6 DEF PageTypes
  <2>2. busy' \in [Key -> BOOLEAN]
    BY <1>1 DEF PageTypes
  <2>3. call' \in [Request -> Reset \cup {Button, Nobody}]
    BY <1>1 DEF PageTypes
  <2>4. lost' \in 0..MaxLost
    BY <1>4, ConsoleAssumption DEF PageTypes
  <2>5. QED BY <1>1, <2>1, <2>2, <2>3, <2>4 DEF PageTypes
<1>8. call'[r] = Nobody /\ \A q \in Request : q # r => call'[q] = call[q]
  BY <1>1 DEF PageTypes
<1>9. UNCHANGED <<req, during, engineers, weight>>
  BY <1>1 DEF vars
<1>10. Unbegun'
  BY <1>8, <1>9 DEF Unbegun, Begun
<1>11. \A c \in Reset : c # call[r] => stage'[c] = stage[c]
  BY <1>6 DEF PageTypes
<1>12. CallsOfStages'
  <2>1. \A q \in Request : call'[q] \in Reset => call'[q] = call[q] /\ call[q] # call[r]
    BY <1>3, <1>8 DEF CallsOfStages
  <2>2. \A q \in Request : call'[q] \in Reset =>
       \/ req'[q].kind = "clear" /\ stage'[call'[q]] = "clear"
       \/ req'[q].kind = "seed" /\ stage'[call'[q]] = "seed"
    BY <1>9, <1>11, <2>1 DEF CallsOfStages
  <2>3. \A p, q \in Request : call'[p] \in Reset /\ call'[q] = call'[p] => q = p
    BY <2>1 DEF CallsOfStages
  <2>4. \A c \in flushing' \cap Reset : stage'[c] = "redis"
    BY <1>1, <1>11 DEF CallsOfStages
  <2>5. QED BY <2>2, <2>3, <2>4 DEF CallsOfStages
<1>13. ClearsAwaited'
  <2>1. ASSUME NEW q \in Request, req'[q].kind = "clear", call'[q] # Nobody
        PROVE  busy'["clearGraph"] = TRUE
    <3>1. q # r /\ req[q].kind = "clear" /\ call[q] # Nobody
      BY <1>8, <1>9, <2>1
    <3>3. req[r].kind = "seed"
      BY <3>1, <1>1 DEF ClearsAwaited
    <3>4. QED BY <1>1, <3>1, <3>3 DEF ClearsAwaited, KeyOf, PageTypes, Key
  <2>2. ASSUME lost' = 0, NEW q \in Request, req'[q].kind = "clear", Active(q)'
        PROVE  call'[q] # Nobody
    <3>1. lost = 0 /\ Answered(r)
      BY <1>4, <2>2 DEF PageTypes
    <3>2. q # r
      BY <1>4, <1>9, <2>2, <3>1 DEF Active, Status, Statements
    <3>3. QED BY <1>8, <1>9, <2>2, <3>1, <3>2 DEF ClearsAwaited, Active
  <2>3. \A q \in Request : call'[q] # Nobody => call[q] # Nobody /\ req'[q] = req[q]
    BY <1>8, <1>9
  <2>4. QED BY <2>1, <2>2, <2>3, <1>9 DEF ClearsAwaited
<1>14. Resetting'
  <2>1. SUFFICES ASSUME NEW c \in Reset, Undisturbed(c)'
                 PROVE  /\ \A q \in Request : req'[q].kind = "clear" /\ Active(q)' => call'[q] = c
                        /\ \A q \in Request : req'[q].kind = "seed" /\ call'[q] = c => "delete" \notin during'[q]
                        /\ stage'[c] = "done" => Full'
    BY DEF Resetting
  <2>2. lost = 0 /\ Answered(r) /\ c \notin clearedIn /\ ~Active(r)
    BY <1>1, <1>4, <2>1 DEF Undisturbed, PageTypes, Active, Status, Statements
  <2>3. Undisturbed(c)
    <3>1. stage[c] # "none"
      <4>1. CASE c = call[r]
        BY <4>1 DEF CallsOfStages
      <4>2. CASE c # call[r]
        BY <4>2, <1>11, <2>1 DEF Undisturbed
      <4>3. QED BY <4>1, <4>2
    <3>2. QED BY <2>2, <3>1 DEF Undisturbed
  <2>4. \A q \in Request : req'[q].kind = "clear" /\ Active(q)' => call'[q] = c
    BY <1>8, <1>9, <2>2, <2>3 DEF Resetting, Active
  <2>5. \A q \in Request : req'[q].kind = "seed" /\ call'[q] = c => "delete" \notin during'[q]
    BY <1>3, <1>8, <1>9, <2>3 DEF Resetting
  <2>6. stage'[c] = "done" => Full'
    <3>1. CASE c # call[r]
      BY <3>1, <1>9, <1>11, <2>3 DEF Resetting, Full
    <3>2. CASE c = call[r] /\ stage'[c] = "done"
      <4>1. l = "done"
        BY <1>6, <3>2 DEF PageTypes
      <4>2. req[r].kind = "seed" /\ req[r].at = "ok" /\ "delete" \notin during[r]
        BY <1>6, <2>3, <3>2, <4>1 DEF Resetting
      <4>3. SeededInFull
        BY SeededWhenDone
      <4>4. QED BY <1>9, <4>2, <4>3 DEF SeededInFull, Full
    <3>3. QED BY <3>1, <3>2
  <2>7. QED BY <2>4, <2>5, <2>6
<1>15. QED BY <1>2, <1>7, <1>10, <1>12, <1>13, <1>14

\* The Redis calls: the reset moves on, nothing else does.
LEMMA FlushKeeps ==
  ASSUME ConsoleInv, NEW by \in Reset \cup {Button}, Flush(by) \/ Flushed(by)
  PROVE  ConsoleInv'
<1> USE DEF ConsoleInv
<1>1. /\ UNCHANGED <<vars, call, clearedIn>> /\ Button \notin Reset
      /\ \/ busy' = [busy EXCEPT !["clearRedis"] = TRUE] /\ flushing' = flushing \cup {by}
         \/ busy' = [busy EXCEPT !["clearRedis"] = FALSE] /\ flushing' = flushing \ {by}
      /\ lost' = lost \/ (lost < MaxLost /\ lost' = lost + 1)
  BY ConsoleAssumption DEF Flush, Flushed
<1>2. IInv'
  BY <1>1, Invariance
<1>3. UNCHANGED <<req, during, engineers, weight>>
  BY <1>1 DEF vars
<1>4. by \in Reset => stage[by] \in {"thenRedis", "redis"}
  BY <1>1 DEF Flush, Flushed, CallsOfStages
<1>5. \E l \in {"redis", "thenSeed", "aborted"} :
        /\ stage' = IF by \in Reset THEN [stage EXCEPT ![by] = l] ELSE stage
        /\ l # "redis" => by \notin flushing'
  <2>1. CASE by \notin Reset
    BY <2>1, <1>1 DEF Flush, Flushed
  <2>2. CASE by \in Reset /\ Flush(by)
    BY <2>2 DEF Flush
  <2>3. CASE by \in Reset /\ Flushed(by)
    <3>1. stage[by] = "redis"
      BY <2>3 DEF Flushed, CallsOfStages
    <3>2. QED BY <2>3, <3>1 DEF Flushed, AfterCall
  <2>4. QED BY <2>1, <2>2, <2>3
<1>6. PICK l \in {"redis", "thenSeed", "aborted"} :
        /\ stage' = IF by \in Reset THEN [stage EXCEPT ![by] = l] ELSE stage
        /\ l # "redis" => by \notin flushing'
  BY <1>5
<1>7. PageTypes'
  <2>1. stage' \in [Reset -> {"none", "clear", "thenRedis", "redis", "thenSeed", "seed",
                              "done", "failed", "aborted"}]
    BY <1>6 DEF PageTypes
  <2>2. busy' \in [Key -> BOOLEAN]
    BY <1>1 DEF PageTypes
  <2>3. lost' \in 0..MaxLost
    BY <1>1, ConsoleAssumption DEF PageTypes
  <2>4. QED BY <1>1, <2>1, <2>2, <2>3 DEF PageTypes
<1>8. /\ \A c \in Reset : c # by => stage'[c] = stage[c]
      /\ by \in Reset => stage'[by] = l
  BY <1>6 DEF PageTypes
<1>9. Unbegun'
  BY <1>1, <1>3 DEF Unbegun, Begun
<1>10. CallsOfStages'
  <2>1. \A r \in Request : call[r] \in Reset => call[r] # by
    BY <1>4 DEF CallsOfStages
  <2>2. \A c \in flushing' \cap Reset : stage'[c] = "redis"
    BY <1>1, <1>6, <1>8 DEF CallsOfStages
  <2>3. QED BY <1>1, <1>3, <1>8, <2>1, <2>2 DEF CallsOfStages
<1>11. ClearsAwaited'
  <2>1. busy'["clearGraph"] = busy["clearGraph"]
    BY <1>1 DEF PageTypes, Key
  <2>2. lost' = 0 => lost = 0
    BY <1>1 DEF PageTypes
  <2>3. QED BY <1>1, <1>3, <2>1, <2>2 DEF ClearsAwaited, Active
<1>12. Resetting'
  <2>1. SUFFICES ASSUME NEW c \in Reset, Undisturbed(c)'
                 PROVE  /\ \A q \in Request : req'[q].kind = "clear" /\ Active(q)' => call'[q] = c
                        /\ \A q \in Request : req'[q].kind = "seed" /\ call'[q] = c => "delete" \notin during'[q]
                        /\ stage'[c] = "done" => Full'
    BY DEF Resetting
  <2>2. Undisturbed(c)
    BY <1>1, <1>4, <1>8, <2>1 DEF Undisturbed, PageTypes
  <2>3. stage'[c] = "done" => stage[c] = "done"
    BY <1>8
  <2>4. QED BY <1>1, <1>3, <2>2, <2>3 DEF Resetting, Active, Full
<1>13. QED BY <1>2, <1>7, <1>9, <1>10, <1>11, <1>12

\* A step deletes, or is recorded to have deleted, only while a clear runs.
OnlyClearsDelete ==
  /\ (Grows /\ weight' \in [Edge -> Nat]) \/ \E x \in Request : req[x].kind = "clear" /\ Active(x)
  /\ \A q \in Request : "delete" \in during'[q] /\ "delete" \notin during[q]
       => \E x \in Request : req[x].kind = "clear" /\ Active(x)
  /\ \A q \in Request : ~Begun(q) => during'[q] = during[q]

\* The handlers and the readers, behind the page.
LEMMA OthersKeep ==
  ASSUME ConsoleInv, Others
  PROVE  ConsoleInv'
<1> USE DEF ConsoleInv
<1>1. UNCHANGED page
  BY DEF Others
<1>2. IInv'
  <2>1. [ConsoleNext]_consoleVars
    BY DEF ConsoleNext
  <2>2. QED BY <2>1, PageStep, Invariance
<1>3. PageTypes'
  BY <1>1 DEF page, PageTypes
<1>4. \A q \in Request :
        /\ req'[q].kind = req[q].kind \/ (~Begun(q) /\ req'[q].kind \in {"graph", "centrality"})
        /\ Active(q)' /\ req'[q].kind = "clear" => Active(q)
  <2>1. ASSUME NEW r \in Request, Serve(r), NEW q \in Request
        PROVE  req'[q].kind = req[q].kind /\ (Active(q)' => Active(q))
    <3>1. CASE q # r
      BY <2>1, <3>1 DEF Serve, Statement, Refuse, Fault, Active, IInv, TypeOK
    <3>2. CASE q = r
      <4>1. Active(r)
        BY <2>1 DEF Serve, Statement, Refuse, Fault
      <4>2. req'[r].kind = req[r].kind
        BY <2>1, Moves DEF Serve, Refuse, Fault, IInv, TypeOK
      <4>3. QED BY <3>2, <4>1, <4>2
    <3>3. QED BY <3>1, <3>2
  <2>2. ASSUME NEW r \in Request, NEW kind \in {"graph", "centrality"}, Begin(r, kind), NEW q \in Request
        PROVE  /\ req'[q].kind = req[q].kind \/ (~Begun(q) /\ req'[q].kind \in {"graph", "centrality"})
               /\ Active(q)' /\ req'[q].kind = "clear" => Active(q)
    <3>1. q # r => req'[q] = req[q]
      BY <2>2 DEF Begin, IInv, TypeOK
    <3>2. ~Begun(r) /\ req'[r].kind = kind
      BY <2>2 DEF Begin, IInv, TypeOK
    <3>3. QED BY <2>2, <3>1, <3>2 DEF Active
  <2>3. ASSUME NEW e \in Edge, Upsert(e)
        PROVE  UNCHANGED req
    BY <2>3 DEF Upsert
  <2>4. QED BY <2>1, <2>2, <2>3 DEF Others, Active
<1>5. \A q \in Request : ~Begun(q) => call[q] = Nobody
  BY DEF Unbegun
<1>6. UNCHANGED <<busy, call, stage, flushing, lost, clearedIn>>
  BY <1>1 DEF page
<1>7. Nobody \notin Reset
  BY ConsoleAssumption
<1>8. \A q \in Request : req'[q].kind \in {"seed", "clear"} \/ call[q] # Nobody => req'[q].kind = req[q].kind
  BY <1>4, <1>5
<1>9. CallsOfStages'
  BY <1>6, <1>7, <1>8 DEF CallsOfStages
<1>10. ClearsAwaited'
  BY <1>4, <1>6, <1>8 DEF ClearsAwaited
<1>11. OnlyClearsDelete
  <2>1. ASSUME NEW r \in Request, Serve(r)
        PROVE  OnlyClearsDelete
    <3>1. CASE UNCHANGED <<db, during>>
      <4>1. Grows /\ weight' \in [Edge -> Nat]
        BY <3>1 DEF Grows, db, IInv, TypeOK
      <4>2. QED BY <3>1, <4>1 DEF OnlyClearsDelete
    <3>2. CASE Observe(r) /\ (UNCHANGED db \/ (Active(r) /\ Effect(r)))
      <4>1. (Grows /\ weight' \in [Edge -> Nat]) \/ (Wiped /\ req[r].kind = "clear" /\ Active(r))
        <5>1. CASE UNCHANGED db
          BY <5>1 DEF Grows, db, IInv, TypeOK
        <5>2. CASE Active(r) /\ Effect(r)
          BY <5>2, EffectKinds, ClearingIsClear DEF IInv, Claims, DbTypes
        <5>3. QED BY <3>2, <5>1, <5>2
      <4>2. ASSUME NEW q \in Request, "delete" \in during'[q], "delete" \notin during[q]
            PROVE  Begun(q) /\ engineers # {} /\ engineers' = {}
        BY <3>2, <4>2 DEF Observe
      <4>3. engineers # {} /\ engineers' = {} => ~Grows
        BY DEF Grows
      <4>4. ASSUME NEW q \in Request, ~Begun(q)
            PROVE  during'[q] = during[q]
        <5>1. ~Active(q) /\ req[q].at # "edges"
          BY <4>4, UnbegunIsIdle
        <5>2. QED BY <3>2, <4>4, <5>1 DEF Observe, ReadOrder, IInv, TypeOK
      <4>5. QED BY <4>1, <4>2, <4>3, <4>4 DEF OnlyClearsDelete
    <3>3. QED BY <2>1, <3>1, <3>2 DEF Serve, Statement, Refuse, Fault
  <2>2. ASSUME UNCHANGED <<db, during>>
        PROVE  OnlyClearsDelete
    <3>1. Grows /\ weight' \in [Edge -> Nat]
      BY <2>2 DEF Grows, db, IInv, TypeOK
    <3>2. QED BY <2>2, <3>1 DEF OnlyClearsDelete
  <2>3. ASSUME NEW e \in Edge, Upsert(e)
        PROVE  OnlyClearsDelete
    <3>1. Grows /\ weight' \in [Edge -> Nat]
      <4>1. weight' = [weight EXCEPT ![e] = weight[e] + 1] /\ weight \in [Edge -> Nat] /\ engineers' = engineers
        BY <2>3 DEF Upsert, Incremented, IInv, TypeOK
      <4>2. QED BY <4>1 DEF Grows
    <3>2. QED BY <2>3, <3>1 DEF Upsert, OnlyClearsDelete
  <2>4. QED BY <2>1, <2>2, <2>3 DEF Others, Begin
<1>12. Unbegun'
  <2>1. \A q \in Request : ~Begun(q)' => ~Begun(q)
    BY <1>4 DEF Begun
  <2>2. QED BY <1>6, <1>11, <2>1 DEF Unbegun, OnlyClearsDelete
<1>13. Resetting'
  <2>1. SUFFICES ASSUME NEW c \in Reset, Undisturbed(c)'
                 PROVE  /\ \A q \in Request : req'[q].kind = "clear" /\ Active(q)' => call'[q] = c
                        /\ \A q \in Request : req'[q].kind = "seed" /\ call'[q] = c => "delete" \notin during'[q]
                        /\ stage'[c] = "done" => Full'
    BY DEF Resetting
  <2>2. Undisturbed(c)
    BY <1>6, <2>1 DEF Undisturbed
  <2>3. \A q \in Request : req'[q].kind = "clear" /\ Active(q)' => call'[q] = c
    BY <1>4, <1>6, <1>8, <2>2 DEF Resetting
  <2>4. stage[c] # "clear" => \A x \in Request : ~(req[x].kind = "clear" /\ Active(x))
    BY <2>2 DEF Resetting, CallsOfStages
  <2>5. ASSUME NEW q \in Request, req'[q].kind = "seed", call'[q] = c
        PROVE  "delete" \notin during'[q]
    <3>1. req[q].kind = "seed" /\ call[q] = c
      BY <1>6, <1>8, <2>5
    <3>2. stage[c] = "seed" /\ "delete" \notin during[q]
      BY <2>2, <3>1 DEF CallsOfStages, Resetting
    <3>3. QED BY <1>11, <2>4, <3>2 DEF OnlyClearsDelete
  <2>6. ASSUME stage'[c] = "done"
        PROVE  Full'
    <3>1. Full /\ Grows /\ weight' \in [Edge -> Nat]
      BY <1>6, <1>11, <2>2, <2>4, <2>6 DEF Resetting, OnlyClearsDelete
    <3>2. \A e \in Seeded : e \in Edge /\ SeedWeight(e) \in Nat
      BY Seeds
    <3>3. ASSUME NEW e \in Seeded
          PROVE  weight'[e] >= SeedWeight(e)
      <4>1. weight[e] \in Nat /\ weight'[e] \in Nat /\ weight[e] >= SeedWeight(e) /\ SeedWeight(e) \in Nat
        BY <3>1, <3>2 DEF Full, IInv, TypeOK
      <4>2. weight'[e] >= weight[e] \/ weight'[e] = SeedWeight(e)
        BY <3>1, <3>2 DEF Grows
      <4>3. QED BY <4>1, <4>2
    <3>4. QED BY <3>1, <3>3 DEF Full, Grows
  <2>7. QED BY <2>3, <2>5, <2>6
<1>14. QED BY <1>2, <1>3, <1>9, <1>10, <1>12, <1>13

LEMMA ConsoleInvariance ==
  ASSUME ConsoleInv, [ConsoleNext]_consoleVars
  PROVE  ConsoleInv'
<1>1. IInv'
  BY PageStep, Invariance DEF ConsoleInv
<1>2. ASSUME NEW r \in Request, ClickSeed(r) \/ ClickClear(r)
      PROVE  ConsoleInv'
  BY <1>1, <1>2, FetchKeeps DEF ClickSeed, ClickClear
<1>3. ASSUME NEW r \in Request, NEW c \in Reset, ClickReset(c, r)
      PROVE  ConsoleInv'
  <2>1. ~busy["clearGraph"] /\ Fetch(r, "clear", c) /\ stage[c] = "none" /\ stage' = [stage EXCEPT ![c] = "clear"]
    BY <1>3 DEF ClickReset, ResetEnabled, Key
  <2>2. QED BY <1>1, <2>1, FetchKeeps
<1>4. ASSUME NEW r \in Request, NEW c \in Reset, ResetSeed(c, r)
      PROVE  ConsoleInv'
  BY <1>1, <1>4, FetchKeeps DEF ResetSeed
<1>5. CASE UNCHANGED consoleVars
  BY <1>5, <1>1 DEF consoleVars, page, vars, ConsoleInv, PageTypes, Unbegun, Begun, CallsOfStages,
                    ClearsAwaited, Resetting, Undisturbed, Active, Full
<1>6. QED BY <1>2, <1>3, <1>4, <1>5, SettledKeeps, FlushKeeps, OthersKeep DEF ConsoleNext, Page

LEMMA ConsoleInitially ==
  ASSUME ConsoleInit
  PROVE  ConsoleInv
<1>1. IInv
  BY Initially DEF ConsoleInit
<1>2. PageTypes
  BY ConsoleAssumption DEF ConsoleInit, PageTypes
<1>3. \A r \in Request : call[r] = Nobody /\ during[r] = {} /\ ~Begun(r) /\ Nobody \notin Reset
  BY ConsoleAssumption DEF ConsoleInit, Init, Pending, Begun
<1>4. \A c \in Reset : stage[c] = "none"
  BY DEF ConsoleInit
<1>5. \A r \in Request : ~Active(r) /\ req[r].kind = "none"
  BY <1>1, <1>3, UnbegunIsIdle DEF Begun
<1>6. QED BY <1>1, <1>2, <1>3, <1>4, <1>5
          DEF ConsoleInv, Unbegun, CallsOfStages, ClearsAwaited, Resetting, Undisturbed, ConsoleInit

LEMMA ConsoleInvariant == ConsoleSpec => []ConsoleInv
BY ConsoleInitially, ConsoleInvariance, PTL DEF ConsoleSpec

\* For any numbers of calls, resets, engineers and edges: every variable of the
\* page and of the handlers behind it keeps its type.
THEOREM ConsoleTypes == ConsoleSpec => []ConsoleTypeOK
<1>1. ConsoleInv => ConsoleTypeOK
  BY DEF ConsoleInv, PageTypes, ConsoleTypeOK, IInv
<1>2. QED BY <1>1, ConsoleInvariant, PTL

\* For any number of quick resets, whatever buttons and resets overlap them: one
\* that reported its seed has left the whole demo graph, unless another clear was
\* called since it began or a fetch was lost.
THEOREM ResetsEndSeeded == ConsoleSpec => []ResetEndsSeeded
<1>1. ConsoleInv => ResetEndsSeeded
  BY DEF ConsoleInv, Resetting, Undisturbed, Full, ResetEndsSeeded
<1>2. QED BY <1>1, ConsoleInvariant, PTL
==============================================================================
