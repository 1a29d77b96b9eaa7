----------------------------- MODULE SharedReports -----------------------------
(***************************************************************************)
(* Simulation results in Redis and the tokens that share them               *)
(* (services/simulation_engine.py, routers/simulation.py). A token is the   *)
(* request that made it; reading a report changes nothing and is not an     *)
(* action.                                                                 *)
(***************************************************************************)
EXTENDS RedisStore

CONSTANTS
  ResultTTL,   \* of a result, in days
  ReportTTL    \* of a shared report

ASSUME ReportsAssumption == {ResultTTL, ReportTTL} \subseteq Nat \ {0}

\* A run has ended and caches its result, once.
CacheResult(x) ==
  /\ ~Live(<<"sim", x>>) /\ time = 0
  /\ Put(<<"sim", x>>, x, ResultTTL)
  /\ UNCHANGED <<time, req, faults>>

Share(r) == \E x \in Result : Arrive(r, [Idle EXCEPT !.kind = "share", !.at = "load", !.holds = x])

\* get_result: without Redis, too, there is no result.
Load(r) ==
  /\ req[r].at = "load"
  /\ \/ Working /\ Goto(r, IF Live(<<"sim", req[r].holds>>) THEN "store" ELSE "notFound")
     \/ Failing /\ Goto(r, "notFound")
  /\ UNCHANGED <<redis, time>>

\* Variant: the report expires with the result.
PutWithResult(r) == Put(<<"report", r>>, req[r].holds, ResultTTL)

PutReport(r) == Put(<<"report", r>>, req[r].holds, ReportTTL)

StoreReport(r) ==
  /\ req[r].at = "store"
  /\ \/ /\ Working /\ Reach(r, [req[r] EXCEPT !.at = "ok", !.since = time])
        /\ PutReport(r)
     \/ /\ Failing /\ Goto(r, "error")
        /\ UNCHANGED redis \/ PutReport(r)
  /\ UNCHANGED time

ReportSteps(r) == Share(r) \/ Load(r) \/ StoreReport(r)

\* GET /simulation/report/{token}: the result it answers, or nothing.
SharedReport(token) == IF Live(<<"report", token>>) THEN {Value(<<"report", token>>)} ELSE {}

\* A token that was handed out reads the result it was made for, for seven days,
\* although the result itself may expire before the report is even stored, and
\* unless the cache was flushed.
TokenReadable ==
  \A r \in Request :
    /\ req[r].kind = "share" /\ req[r].at = "ok"
    /\ time < req[r].since + ReportTTL /\ <<"report", r>> \notin req[r].flushed
    => SharedReport(r) = {req[r].holds}
==============================================================================
