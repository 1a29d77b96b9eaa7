--------------------------- MODULE ProfileExtraction ---------------------------
(***************************************************************************)
(* Candidate profiles: POST /candidates/extract, GET /candidates/, and the  *)
(* extraction task of the Airflow DAG (services/nlp_agent.py,               *)
(* routers/candidates.py). A profile is the id and the key it was made for. *)
(* Each Airflow task is a process of its own: it shares the cache with the  *)
(* API, but not the semaphore. What GitHub and Claude answer is reduced to  *)
(* whether the request can go on.                                           *)
(***************************************************************************)
EXTENDS RedisStore

CONSTANTS
  Permits,     \* the semaphore's
  Limit,       \* of GET /candidates/
  CacheTTL,    \* of an extraction result, in days
  ProfileTTL   \* of a stored profile

ASSUME ExtractionAssumption ==
  {Permits, Limit, CacheTTL, ProfileTTL} \subseteq Nat \ {0}

VARIABLE unlisted   \* history: ids a failure or an overlapping flush may have
                    \* left stored without their place in the index

Profile(key, id) == [key |-> key, id |-> id]

Extract(r) ==
  \E key \in Key, id \in Id :
    /\ Arrive(r, [Idle EXCEPT !.kind = "extract", !.at = "check", !.key = key, !.id = id])
    /\ UNCHANGED unlisted

\* A DAG run that has validated its input and detected skills statically.
Trigger(r) ==
  \E key \in Key, id \in Id :
    /\ Arrive(r, [Idle EXCEPT !.kind = "dag", !.at = "check", !.key = key, !.id = id])
    /\ UNCHANGED unlisted

CacheKey(r) == <<"nlp", req[r].key>>

\* Where a request goes on that has its profile, and one that has not.
Served(r) == IF req[r].kind = "dag" THEN "write" ELSE "persist"
NotCached(r) == IF req[r].kind = "dag" THEN "recheck" ELSE "permit"

\* A read of the cache: a hit, a miss, or a failed access, taken for a miss.
Lookup(r, onMiss) ==
  /\ \/ Working /\ Live(CacheKey(r))
        /\ Reach(r, [req[r] EXCEPT !.holds = Value(CacheKey(r)), !.at = Served(r)])
     \/ Working /\ ~Live(CacheKey(r))
        /\ Reach(r, [req[r] EXCEPT !.missed = (onMiss = "context" /\ req[r].kind = "extract"),
                                   !.at = onMiss])
     \/ Failing /\ Goto(r, onMiss)
  /\ UNCHANGED <<redis, time, unlisted>>

Check(r) == req[r].at = "check" /\ Lookup(r, NotCached(r))

HoldsPermit(r) == req[r].kind = "extract" /\ req[r].at \in {"recheck", "context", "call", "cache"}

Acquire(r) ==
  /\ req[r].at = "permit"
  /\ Cardinality({q \in Request : HoldsPermit(q)}) < Permits
  /\ Goto(r, "recheck")
  /\ UNCHANGED <<redis, time, faults, unlisted>>

\* Variant: no second look at the cache.
CallAtOnce(r) ==
  /\ req[r].at = "recheck"
  /\ Reach(r, [req[r] EXCEPT !.missed = req[r].kind = "extract", !.at = "context"])
  /\ UNCHANGED <<redis, time, faults, unlisted>>

Recheck(r) == req[r].at = "recheck" /\ Lookup(r, "context")

\* The error is the answer of the API (502, 503, 500); the DAG falls back to
\* the skills it found statically.
Unextracted(r) ==
  Reach(r, [req[r] EXCEPT !.missed = FALSE,
              !.at = IF req[r].kind = "dag" THEN "write" ELSE "error"])

\* _fetch_github_context: what GitHub does not answer is left out, a body that
\* is not what it should be fails the request.
Context(r) ==
  /\ req[r].at = "context"
  /\ (Working /\ Goto(r, "call")) \/ (Failing /\ Unextracted(r))
  /\ UNCHANGED <<redis, time, unlisted>>

Call(r) ==
  /\ req[r].at = "call"
  /\ \/ Working /\ Reach(r, [req[r] EXCEPT !.holds = Profile(req[r].key, req[r].id),
                                           !.at = "cache"])
     \/ Failing /\ Unextracted(r)
  /\ UNCHANGED <<redis, time, unlisted>>

\* _cache_profile: a failure is logged. The permit is given back after it.
Cache(r) ==
  /\ req[r].at = "cache"
  /\ \/ /\ Working /\ Goto(r, Served(r))
        /\ Put(CacheKey(r), req[r].holds, CacheTTL)
     \/ /\ Failing /\ Reach(r, [req[r] EXCEPT !.missed = FALSE, !.at = Served(r)])
        /\ UNCHANGED redis \/ Put(CacheKey(r), req[r].holds, CacheTTL)
  /\ UNCHANGED <<time, unlisted>>

\* Variant: stored under the id that was asked for.
AskedId(r) == req[r].id

\* profile.candidate_id: of the request that filled the cache.
StoredId(r) == req[r].holds.id

Unsaved(r) == Reach(r, [req[r] EXCEPT !.at = "ok", !.faulted = TRUE])

Persist(r) ==
  LET k == <<"candidate", StoredId(r)>> IN
  /\ req[r].at = "persist"
  /\ \/ /\ Working /\ Reach(r, [req[r] EXCEPT !.at = "index", !.since = time])
        /\ Put(k, req[r].holds, ProfileTTL)
        /\ UNCHANGED unlisted
     \/ /\ Failing /\ Unsaved(r)
        /\ UNCHANGED redis \/ Put(k, req[r].holds, ProfileTTL)
        /\ unlisted' = unlisted \cup {StoredId(r)}
  /\ UNCHANGED time

\* Variant: the index expires like the cache.
ShortIndex(ids) == Put(Index, ids, CacheTTL)

\* SADD: the index never expires, and no member is ever removed.
PutIndex(ids) == Put(Index, ids, Forever)

AddToIndex(r) ==
  /\ req[r].at = "index"
  /\ \/ /\ Working /\ Goto(r, "ok")
        /\ PutIndex(Members \cup {StoredId(r)})
        /\ unlisted' = unlisted \ {StoredId(r)}
     \/ /\ Failing /\ Unsaved(r)
        /\ UNCHANGED redis \/ PutIndex(Members \cup {StoredId(r)})
        /\ unlisted' = unlisted \cup {StoredId(r)}
  /\ UNCHANGED time

------------------------------------------------------------------------------
(* GET /candidates/ *)

List(r) ==
  /\ Arrive(r, [Idle EXCEPT !.kind = "list", !.at = "members"])
  /\ UNCHANGED unlisted

\* list(ids)[:limit]: any of the members, before anything is sorted.
FirstOf(ids) ==
  {s \in SUBSET ids : Cardinality(s) = IF Cardinality(ids) < Limit THEN Cardinality(ids) ELSE Limit}

ReadMembers(r) ==
  /\ req[r].at = "members"
  /\ \/ Working /\ \E ids \in FirstOf(Members) :
          Reach(r, [req[r] EXCEPT !.listed = ids, !.at = "gets",
                      !.owed = IF Cardinality(Members) > Limit THEN {}
                               ELSE {i \in Members : Live(<<"candidate", i>>)}])
     \/ Failing /\ Reach(r, [req[r] EXCEPT !.at = "ok", !.faulted = TRUE])
  /\ UNCHANGED <<redis, time, unlisted>>

\* Variant: the loop ends at the first profile that has expired.
StopAtExpired(q, i) ==
  IF Live(<<"candidate", i>>) THEN [q EXCEPT !.listed = @ \ {i}, !.owed = @ \ {i}]
  ELSE [q EXCEPT !.listed = {}]

\* One GET: an expired profile is skipped. What was listed is owed no longer.
Listed(q, i) ==
  [q EXCEPT !.listed = @ \ {i},
            !.owed = IF Live(<<"candidate", i>>) THEN @ \ {i} ELSE @]

ReadListed(r) ==
  /\ req[r].at = "gets"
  /\ \/ /\ Working
        /\ IF req[r].listed = {} THEN Goto(r, "ok")
           ELSE \E i \in req[r].listed : Reach(r, Listed(req[r], i))
     \/ Failing /\ Reach(r, [req[r] EXCEPT !.at = "ok", !.faulted = TRUE])
  /\ UNCHANGED <<redis, time, unlisted>>

------------------------------------------------------------------------------

\* A flush that deletes the index leaves the profiles it did not list without it.
FlushIndex(r) ==
  /\ FlushSteps(r)
  /\ unlisted' = IF Live(Index) /\ Index \notin DOMAIN redis'
                 THEN unlisted \cup {i \in Id : <<"candidate", i>> \in DOMAIN redis'}
                 ELSE unlisted

ExtractionSteps(r) ==
  \/ Extract(r) \/ Trigger(r) \/ Check(r) \/ Acquire(r) \/ Recheck(r)
  \/ Context(r) \/ Call(r) \/ Cache(r)
  \/ Persist(r) \/ AddToIndex(r)
  \/ List(r) \/ ReadMembers(r) \/ ReadListed(r)
  \/ (Flush(r) /\ UNCHANGED unlisted) \/ FlushIndex(r)

------------------------------------------------------------------------------
(* Properties *)

\* Concurrent requests for one key each pass the first look at the cache. The
\* second one, under the semaphore, bounds what they cost: of the calls to
\* Claude made for a key since it was last not cached, at most Permits have
\* not failed, however many requests wait, unless Redis does.
CallsPerKey ==
  \A k \in Key :
    Cardinality({r \in Request : req[r].key = k /\ req[r].missed}) <= Permits

\* GET /candidates/{id}: what it answers, or nothing.
Found(id) == IF Live(<<"candidate", id>>) THEN {Value(<<"candidate", id>>)} ELSE {}

\* The page router.push()es to: of the profile answered, not of the id asked for.
Destination(q) == q.holds.id

\* The web page goes on to /candidates/<id of the answer>, which need not be
\* the id it asked for. It finds a profile there, for seven days, unless storing
\* it failed or the cache was flushed.
AnswerIsFound ==
  \A r \in Request :
    LET q == req[r] IN
    /\ q.kind = "extract" /\ q.at = "ok" /\ ~q.faulted
    /\ time < q.since + ProfileTTL /\ <<"candidate", Destination(q)>> \notin q.flushed
    => \E p \in Found(Destination(q)) : p.id = Destination(q)

\* A stored profile is in the index, from its second write on and for as long as
\* it lives, unless that write failed or a flush overlapped the first.
StoredIsIndexed ==
  \A i \in Id :
    Live(<<"candidate", i>>) =>
      \/ i \in Members \cup unlisted
      \/ \E r \in Request : req[r].at = "index" /\ StoredId(r) = i

\* With no more ids in the index than the limit, a list has every profile that
\* was stored when it began and still is, whatever expires, is flushed or is
\* stored while it reads them one by one.
ListIsComplete ==
  \A r \in Request :
    req[r].kind = "list" /\ req[r].at = "ok" /\ ~req[r].faulted => req[r].owed = {}
==============================================================================
