------------------------------ MODULE RedisStore ------------------------------
(***************************************************************************)
(* The Redis of the API and the requests that use it. A key is a pair       *)
(* <<prefix, name>>; an entry holds a value and the time it expires. Time   *)
(* advances in days, the shortest lifetime any key is given. A handler      *)
(* opens a client for each access; when Redis does not answer, the access   *)
(* fails and may or may not have taken effect. FLUSH is the admin route     *)
(* that lists the stas:* keys and then deletes those it listed.             *)
(***************************************************************************)
EXTENDS Naturals, FiniteSets

CONSTANTS
  Request,    \* the requests and DAG runs
  Key,        \* GitHub URLs with their transcripts
  Id,         \* candidate ids
  Result,     \* simulation results
  Nothing,    \* no value
  MaxTime,    \* days
  MaxFaults   \* accesses and calls that fail

ASSUME StoreAssumption ==
  /\ IsFiniteSet(Request) /\ IsFiniteSet(Id)
  /\ MaxTime \in Nat /\ MaxFaults \in Nat
  /\ Nothing \notin Id \cup Key \cup Result

VARIABLES
  redis,      \* redis[k]: the entry of a key that exists
  time,
  req,        \* req[r]: what request r is, where it stands and what it holds
  faults

storeVars == <<redis, time, req, faults>>

RedisKey == ({"nlp"} \X Key) \cup ({"candidate"} \X Id) \cup ({"sim"} \X Result)
            \cup ({"report"} \X Request) \cup {<<"ids", Nothing>>}
Index == <<"ids", Nothing>>
Forever == MaxTime + 1

Live(k) == k \in DOMAIN redis
Value(k) == redis[k].value
Members == IF Live(Index) THEN Value(Index) ELSE {}

\* SETEX
Put(k, v, ttl) ==
  redis' = [x \in DOMAIN redis \cup {k} |->
              IF x = k THEN [value |-> v, until |-> time + ttl] ELSE redis[x]]

\* A request before it arrives. The fields after "holds" are histories.
Idle == [kind |-> "none", at |-> "idle", key |-> Nothing, id |-> Nothing,
         holds |-> Nothing, listed |-> {},
         missed |-> FALSE, owed |-> {}, since |-> 0, flushed |-> {}, faulted |-> FALSE]

StoreInit ==
  /\ redis = [k \in {} |-> Nothing]
  /\ time = 0
  /\ req = [r \in Request |-> Idle]
  /\ faults = 0

Begun(r) == req[r].kind # "none"
Goto(r, label) == req' = [req EXCEPT ![r].at = label]
Reach(r, q) == req' = [req EXCEPT ![r] = q]

Arrive(r, q) == ~Begun(r) /\ Reach(r, q) /\ UNCHANGED <<redis, time, faults>>

Failing == faults < MaxFaults /\ faults' = faults + 1
Working == UNCHANGED faults

\* Request q once the keys ks are gone: what it was owed may have expired.
Without(q, ks, byFlush) ==
  IF q.kind = "none" THEN q ELSE
  [q EXCEPT !.missed = @ /\ <<"nlp", q.key>> \notin ks,
            !.owed = {i \in @ : <<"candidate", i>> \notin ks},
            !.flushed = @ \cup (IF byFlush THEN ks ELSE {})]

Remaining(ks) == redis' = [x \in DOMAIN redis \ ks |-> redis[x]]

Tick ==
  /\ time < MaxTime
  /\ time' = time + 1
  /\ LET expired == {k \in DOMAIN redis : redis[k].until <= time + 1} IN
       /\ Remaining(expired)
       /\ req' = [q \in Request |-> Without(req[q], expired, FALSE)]
  /\ UNCHANGED faults

------------------------------------------------------------------------------
(* clear_redis *)

Flush(r) == Arrive(r, [Idle EXCEPT !.kind = "flush", !.at = "keys"])

FlushKeys(r) ==
  /\ req[r].at = "keys"
  /\ \/ Working /\ Reach(r, [req[r] EXCEPT !.listed = DOMAIN redis, !.at = "delete"])
     \/ Failing /\ Goto(r, "error")
  /\ UNCHANGED <<redis, time>>

FlushDelete(r) ==
  LET ks == req[r].listed \cap DOMAIN redis IN
  /\ req[r].at = "delete"
  /\ \/ /\ Working \/ Failing
        /\ Remaining(ks)
        /\ req' = [q \in Request |->
             IF q = r THEN [req[q] EXCEPT !.at = IF faults' = faults THEN "ok" ELSE "error"]
             ELSE Without(req[q], ks, TRUE)]
     \/ Failing /\ Goto(r, "error") /\ UNCHANGED redis
  /\ UNCHANGED time

FlushSteps(r) == FlushKeys(r) \/ FlushDelete(r)
==============================================================================
