---------------------------- MODULE CandidateNodes ----------------------------
(***************************************************************************)
(* Candidate nodes in Neo4j: inserted for a simulation and removed again by *)
(* the API (graph_service.py), written for good by the extraction DAG, over *)
(* the profiles and reports in Redis. cleanup_stale_candidates has no caller *)
(* and is left out.                                                        *)
(***************************************************************************)
EXTENDS ProfileExtraction, SharedReports

VARIABLES
  node,        \* node[i]: no candidate node, one with is_temporary, or without
  projected,   \* candidates with SHARES_DOMAIN_WITH edges
  removed,     \* history: deleted, and neither inserted nor written since
  written      \* history: written by the DAG, and not inserted since

graphVars == <<node, projected, removed, written>>
vars == <<storeVars, unlisted, graphVars>>

TypeOK ==
  /\ DOMAIN redis \subseteq RedisKey
  /\ \A k \in DOMAIN redis : redis[k].until \in Nat /\ redis[k].until > time
  /\ Members \subseteq Id
  /\ \A i \in Id : Live(<<"candidate", i>>) => Value(<<"candidate", i>>) \in [key : Key, id : {i}]
  /\ time \in 0..MaxTime /\ faults \in 0..MaxFaults
  /\ node \in [Id -> {"absent", "temporary", "permanent"}]
  /\ projected \subseteq {i \in Id : node[i] # "absent"}
  /\ removed \subseteq Id /\ written \subseteq Id /\ unlisted \subseteq Id

Init ==
  /\ StoreInit
  /\ unlisted = {} /\ projected = {} /\ removed = {} /\ written = {}
  /\ node = [i \in Id |-> "absent"]

\* Variant: the edges are projected from a node that is merged again.
ProjectMerged(i) ==
  /\ node' = [node EXCEPT ![i] = IF @ = "absent" THEN "temporary" ELSE @]
  /\ projected' = projected \cup {i}
  /\ UNCHANGED <<removed, written>>

\* MATCH finds nothing once the candidate has been deleted.
ProjectEdges(i) ==
  /\ projected' = IF node[i] = "absent" THEN projected ELSE projected \cup {i}
  /\ UNCHANGED <<node, removed, written>>

MergeCandidate(i, flag) ==
  /\ node' = [node EXCEPT ![i] = flag]
  /\ removed' = removed \ {i}
  /\ written' = IF flag = "permanent" THEN written \cup {i} ELSE written \ {i}
  /\ UNCHANGED projected

DeleteTemporary(i) ==
  /\ node' = [node EXCEPT ![i] = IF @ = "temporary" THEN "absent" ELSE @]
  /\ projected' = IF node[i] = "temporary" THEN projected \ {i} ELSE projected
  /\ removed' = removed \cup {i}
  /\ UNCHANGED written

Insert(r) ==
  \E i \in Id : /\ Arrive(r, [Idle EXCEPT !.kind = "insert", !.at = "merge", !.id = i])
                /\ UNCHANGED graphVars

Delete(r) ==
  \E i \in Id : /\ Arrive(r, [Idle EXCEPT !.kind = "delete", !.at = "remove", !.id = i])
                /\ UNCHANGED graphVars

\* The one statement of a handler or task that stands at a label.
StatementAt(r) ==
  LET i == req[r].id IN
  CASE req[r].at = "merge" -> MergeCandidate(i, "temporary")
    [] req[r].at = "project" -> ProjectEdges(i)
    [] req[r].at = "remove" -> DeleteTemporary(i)
    [] req[r].at = "write" -> MergeCandidate(i, "permanent")

\* A failing request ends; Airflow tries the task again.
RunStatement(r) ==
  /\ req[r].at \in {"merge", "project", "remove", "write"}
  /\ \/ /\ Working /\ StatementAt(r)
        /\ Goto(r, IF req[r].at = "merge" THEN "project" ELSE "ok")
     \/ /\ Failing /\ (UNCHANGED graphVars \/ StatementAt(r))
        /\ IF req[r].at = "write" THEN UNCHANGED req ELSE Goto(r, "error")
  /\ UNCHANGED <<redis, time>>

Next ==
  \/ Tick /\ UNCHANGED <<unlisted, graphVars>>
  \/ \E x \in Result : CacheResult(x) /\ UNCHANGED <<unlisted, graphVars>>
  \/ \E r \in Request :
       \/ ExtractionSteps(r) /\ UNCHANGED graphVars
       \/ ReportSteps(r) /\ UNCHANGED <<unlisted, graphVars>>
       \/ (Insert(r) \/ Delete(r) \/ RunStatement(r)) /\ UNCHANGED unlisted

Spec == Init /\ [][Next]_vars

\* A simulation's candidate leaves nothing behind: once it was deleted, and not
\* inserted since, there is no node and there are no edges, also when the delete
\* overtook the second statement of the insert. What the DAG wrote stays: no
\* delete removes it, unless a simulation has inserted the same id over it.
DeleteOnlyTemporary ==
  \A i \in Id :
    IF i \in written THEN node[i] = "permanent"
    ELSE i \in removed => i \notin projected /\ node[i] = "absent"
==============================================================================
