------------------------- MODULE CandidateNodes_proofs -------------------------
(***************************************************************************)
(* For any requests, keys, candidate ids, limits and lifetimes: what the API *)
(* and the extraction DAG keep in Redis and Neo4j has its types, a profile  *)
(* that was answered is found, a token that was handed out is readable, a   *)
(* stored profile is in the index, a list is complete, a key costs at most  *)
(* as many calls as the semaphore has permits, and a simulation's candidate *)
(* leaves nothing behind.                                                  *)
(***************************************************************************)
EXTENDS CandidateNodes, FiniteSetTheorems, TLAPS

Profiles == [key : Key, id : Id]

Kinds == {"none", "extract", "dag", "list", "share", "insert", "delete", "flush"}

Labels == {"idle", "check", "permit", "recheck", "context", "call", "cache", "persist", "index",
           "write", "members", "gets", "load", "store", "notFound", "keys", "delete", "merge",
           "project", "remove", "ok", "error"}

\* What a request is, as a record.
Req ==
  [kind : Kinds, at : Labels,
   key : Key \cup {Nothing}, id : Id \cup {Nothing},
   holds : Profiles \cup Result \cup {Nothing}, listed : SUBSET (Id \cup RedisKey),
   missed : BOOLEAN, owed : SUBSET Id, since : 0..MaxTime, flushed : SUBSET RedisKey,
   faulted : BOOLEAN]

\* Where a request of each kind can stand.
Stands(q) ==
  \/ q.kind = "none" /\ q.at = "idle"
  \/ q.kind = "extract" /\ q.at \in {"check", "permit", "recheck", "context", "call", "cache",
                                     "persist", "index", "ok", "error"}
  \/ q.kind = "dag" /\ q.at \in {"check", "recheck", "context", "call", "cache", "write", "ok"}
  \/ q.kind = "list" /\ q.at \in {"members", "gets", "ok"}
  \/ q.kind = "share" /\ q.at \in {"load", "store", "notFound", "ok", "error"}
  \/ q.kind = "insert" /\ q.at \in {"merge", "project", "ok", "error"}
  \/ q.kind = "delete" /\ q.at \in {"remove", "ok", "error"}
  \/ q.kind = "flush" /\ q.at \in {"keys", "delete", "ok", "error"}

\* And what it has and holds there.
Carries(q) ==
  /\ q.kind \in {"extract", "dag"} => q.key \in Key
  /\ q.kind \in {"extract", "dag", "insert", "delete"} => q.id \in Id
  /\ q.at \in {"cache", "persist", "index"} => q.holds \in Profiles
  /\ q.kind = "extract" /\ q.at = "ok" => q.holds \in Profiles
  /\ q.kind = "share" => q.holds \in Result
  /\ q.kind = "list" => q.listed \subseteq Id
  /\ q.missed => q.kind = "extract"
  /\ q.since <= time

ReqInv == req \in [Request -> Req] /\ \A r \in Request : Stands(req[r]) /\ Carries(req[r])

\* An entry has not expired, the index never does, and values are of their keys.
RedisInv ==
  /\ DOMAIN redis \subseteq RedisKey
  /\ \A k \in DOMAIN redis : redis[k].until \in Nat /\ redis[k].until > time
  /\ \A k \in Key : Live(<<"nlp", k>>) => Value(<<"nlp", k>>) \in Profiles
  /\ \A i \in Id : Live(<<"candidate", i>>) => Value(<<"candidate", i>>) \in [key : Key, id : {i}]
  /\ Live(Index) => Value(Index) \in SUBSET Id /\ redis[Index].until > MaxTime

GraphInv ==
  /\ node \in [Id -> {"absent", "temporary", "permanent"}]
  /\ projected \subseteq {i \in Id : node[i] # "absent"}
  /\ removed \subseteq Id /\ written \subseteq Id
  /\ \A i \in Id : node[i] = "permanent" <=> i \in written
  /\ DeleteOnlyTemporary

Bounds == time \in 0..MaxTime /\ faults \in 0..MaxFaults /\ unlisted \subseteq Id

IInv == Bounds /\ ReqInv /\ RedisInv /\ GraphInv

\* What a profile that was answered, a token that was handed out and a list that
\* is being read are owed, and what a miss has cost.
Kept(k, since, ttl) == Live(k) /\ redis[k].until >= since + ttl

AnswerInv(q) ==
  /\ q.kind = "extract" /\ q.at \in {"index", "ok"} /\ ~q.faulted
  /\ time < q.since + ProfileTTL /\ <<"candidate", q.holds.id>> \notin q.flushed
  => Kept(<<"candidate", q.holds.id>>, q.since, ProfileTTL)

TokenInv(r, q) ==
  /\ q.kind = "share" /\ q.at = "ok"
  /\ time < q.since + ReportTTL /\ <<"report", r>> \notin q.flushed
  => Kept(<<"report", r>>, q.since, ReportTTL) /\ Value(<<"report", r>>) = q.holds

OwedInv(q) ==
  /\ q.kind = "list" /\ q.at = "gets" =>
       q.owed \subseteq q.listed /\ \A i \in q.owed : Live(<<"candidate", i>>)
  /\ q.kind = "list" /\ q.at = "ok" /\ ~q.faulted => q.owed = {}

MissInv(r) == req[r].missed /\ ~Live(CacheKey(r)) => HoldsPermit(r)

PromiseInv(r) == AnswerInv(req[r]) /\ TokenInv(r, req[r]) /\ OwedInv(req[r]) /\ MissInv(r)

Promises == \A r \in Request : PromiseInv(r)

------------------------------------------------------------------------------
(* Requests and keys *)

LEMMA Constants ==
  /\ IsFiniteSet(Request) /\ IsFiniteSet(Id) /\ MaxTime \in Nat /\ MaxFaults \in Nat
  /\ Permits \in Nat \ {0} /\ Limit \in Nat \ {0} /\ CacheTTL \in Nat \ {0}
  /\ ProfileTTL \in Nat \ {0} /\ ResultTTL \in Nat \ {0} /\ ReportTTL \in Nat \ {0}
BY StoreAssumption, ExtractionAssumption, ReportsAssumption

\* A request that is given a record becomes it, and no other changes.
LEMMA ReachFacts ==
  ASSUME req \in [Request -> Req], NEW r \in Request, NEW q \in Req, Reach(r, q)
  PROVE  req' \in [Request -> Req] /\ req'[r] = q /\ \A u \in Request \ {r} : req'[u] = req[u]
BY DEF Reach

\* Going to a label changes nothing else of the request.
LEMMA GotoFacts ==
  ASSUME req \in [Request -> Req], NEW r \in Request, NEW l \in Labels, Goto(r, l)
  PROVE  [req[r] EXCEPT !.at = l] \in Req /\ Reach(r, [req[r] EXCEPT !.at = l])
<1>1. req[r] \in Req /\ req' = [req EXCEPT ![r] = [req[r] EXCEPT !.at = l]]
  BY DEF Goto
<1>. QED BY <1>1 DEF Req, Reach

\* A request of its kind at a label it can stand at keeps the invariant.
LEMMA Moved ==
  ASSUME IInv, NEW r \in Request, NEW q \in Req, Reach(r, q), Stands(q), Carries(q), time' = time
  PROVE  ReqInv'
<1>1. req' \in [Request -> Req] /\ req'[r] = q /\ \A u \in Request \ {r} : req'[u] = req[u]
  BY ReachFacts DEF IInv, ReqInv
<1>2. ASSUME NEW u \in Request PROVE Stands(req[u])' /\ Carries(req[u])'
  <2>1. CASE u = r
    BY <1>1, <2>1 DEF Stands, Carries
  <2>2. CASE u # r
    BY <1>1, <2>2 DEF IInv, ReqInv, Stands, Carries
  <2>. QED BY <2>1, <2>2
<1>. QED BY <1>1, <1>2 DEF ReqInv

\* A new request of a kind is a record of its type.
LEMMA IdleType ==
  Idle \in Req /\ Idle.since = 0 /\ ~Idle.missed /\ Idle.kind = "none" /\ Idle.listed = {}
BY Constants DEF Idle, Req, Kinds, Labels

\* SETEX and SADD: one key gets an entry, the others keep theirs.
LEMMA PutFacts ==
  ASSUME NEW k, NEW v, NEW ttl, Put(k, v, ttl)
  PROVE  /\ DOMAIN redis' = DOMAIN redis \cup {k}
         /\ redis'[k] = [value |-> v, until |-> time + ttl]
         /\ \A x \in DOMAIN redis \ {k} : redis'[x] = redis[x]
BY DEF Put

\* An entry with a value of its key and a lifetime keeps the store's types.
LEMMA PutKeeps ==
  ASSUME IInv, NEW k \in RedisKey, NEW v, NEW ttl \in Nat \ {0}, Put(k, v, ttl), time' = time,
         \A x \in Key : k = <<"nlp", x>> => v \in Profiles,
         \A i \in Id : k = <<"candidate", i>> => v \in [key : Key, id : {i}],
         k = Index => v \in SUBSET Id /\ ttl = Forever
  PROVE  RedisInv'
<1>1. /\ DOMAIN redis' = DOMAIN redis \cup {k}
      /\ redis'[k] = [value |-> v, until |-> time + ttl]
      /\ \A x \in DOMAIN redis \ {k} : redis'[x] = redis[x]
  BY PutFacts
<1>2. RedisInv /\ time \in Nat /\ MaxTime \in Nat
  BY Constants DEF IInv, Bounds
<1>3. redis'[k].value = v /\ redis'[k].until = time + ttl
  BY <1>1
<1>4. DOMAIN redis' \subseteq RedisKey
  BY <1>1, <1>2 DEF RedisInv
<1>5. ASSUME NEW x \in DOMAIN redis' PROVE redis'[x].until \in Nat /\ redis'[x].until > time'
  <2>1. CASE x = k
    BY <1>2, <1>3, <2>1
  <2>2. CASE x # k
    BY <1>1, <1>2, <2>2 DEF RedisInv
  <2>. QED BY <2>1, <2>2
<1>6. ASSUME NEW x \in Key, <<"nlp", x>> \in DOMAIN redis'
      PROVE  redis'[<<"nlp", x>>].value \in Profiles
  <2>1. CASE <<"nlp", x>> = k
    BY <1>3, <2>1
  <2>2. CASE <<"nlp", x>> # k
    BY <1>1, <1>2, <1>6, <2>2 DEF RedisInv, Live, Value
  <2>. QED BY <2>1, <2>2
<1>7. ASSUME NEW i \in Id, <<"candidate", i>> \in DOMAIN redis'
      PROVE  redis'[<<"candidate", i>>].value \in [key : Key, id : {i}]
  <2>1. CASE <<"candidate", i>> = k
    BY <1>3, <2>1
  <2>2. CASE <<"candidate", i>> # k
    BY <1>1, <1>2, <1>7, <2>2 DEF RedisInv, Live, Value
  <2>. QED BY <2>1, <2>2
<1>8. ASSUME Index \in DOMAIN redis'
      PROVE  redis'[Index].value \in SUBSET Id /\ redis'[Index].until > MaxTime
  <2>1. CASE Index = k
    BY <1>2, <1>3, <2>1 DEF Forever
  <2>2. CASE Index # k
    BY <1>1, <1>2, <1>8, <2>2 DEF RedisInv, Live, Value
  <2>. QED BY <2>1, <2>2
<1>. QED BY <1>4, <1>5, <1>6, <1>7, <1>8 DEF RedisInv, Live, Value, Index

\* Entries that are removed, with those that expire among them.
LEMMA RemoveKeeps ==
  ASSUME IInv, NEW ks, Remaining(ks), time' \in Nat,
         \A k \in DOMAIN redis \ ks : redis[k].until > time'
  PROVE  RedisInv'
<1>1. DOMAIN redis' = DOMAIN redis \ ks /\ \A x \in DOMAIN redis \ ks : redis'[x] = redis[x]
  BY DEF Remaining
<1>. QED BY <1>1 DEF IInv, RedisInv, Live, Value, Index

\* An access that fails, or works, is counted.
LEMMA FaultBounds ==
  ASSUME IInv, Failing \/ Working
  PROVE  faults' \in 0..MaxFaults
BY Constants DEF IInv, Bounds, Failing, Working

------------------------------------------------------------------------------
(* The types of a step *)

Types == ReqInv /\ RedisInv /\ Bounds

LEMMA Here ==
  ASSUME IInv, NEW r \in Request
  PROVE  /\ req \in [Request -> Req] /\ req[r] \in Req /\ Stands(req[r]) /\ Carries(req[r])
         /\ time \in 0..MaxTime /\ time \in Nat /\ RedisInv
BY Constants DEF IInv, ReqInv, Bounds

\* A step that only moves one request.
LEMMA MovedOnly ==
  ASSUME IInv, NEW r \in Request, NEW q \in Req, Reach(r, q), Stands(q), Carries(q),
         UNCHANGED <<redis, time>>, Failing \/ Working, unlisted' \in SUBSET Id
  PROVE  Types'
<1>1. ReqInv'
  BY Moved
<1>2. RedisInv'
  BY DEF IInv, RedisInv, Live, Value
<1>. QED BY <1>1, <1>2, FaultBounds DEF Types, IInv, Bounds

\* A step that only sends one request to a label.
LEMMA WentOnly ==
  ASSUME IInv, NEW r \in Request, NEW l \in Labels, Goto(r, l),
         Stands([req[r] EXCEPT !.at = l]), Carries([req[r] EXCEPT !.at = l]),
         UNCHANGED <<redis, time>>, Failing \/ Working, unlisted' \in SUBSET Id
  PROVE  Types'
BY Here, GotoFacts, MovedOnly

\* A request arrives.
LEMMA ArriveTypes ==
  ASSUME IInv, NEW r \in Request, NEW q \in Req, Arrive(r, q), Stands(q), Carries(q),
         unlisted' = unlisted
  PROVE  Types'
BY MovedOnly DEF Arrive, Working, IInv, Bounds

LEMMA ArrivalTypes ==
  ASSUME IInv, NEW r \in Request, unlisted' = unlisted,
         Extract(r) \/ Trigger(r) \/ List(r) \/ Share(r) \/ Insert(r) \/ Delete(r) \/ Flush(r)
  PROVE  Types'
<1>0. time \in Nat
  BY Here
<1>1. ASSUME NEW key \in Key, NEW id \in Id, NEW kind \in {"extract", "dag"},
             Arrive(r, [Idle EXCEPT !.kind = kind, !.at = "check", !.key = key, !.id = id])
      PROVE  Types'
  <2> DEFINE q == [Idle EXCEPT !.kind = kind, !.at = "check", !.key = key, !.id = id]
  <2>1. q \in Req
    BY IdleType DEF Req, Kinds, Labels
  <2>2. q.kind = kind /\ q.at = "check" /\ q.key = key /\ q.id = id /\ ~q.missed /\ q.since = 0
    BY IdleType DEF Req
  <2> HIDE DEF q
  <2>3. Stands(q) /\ Carries(q)
    BY <1>0, <2>2 DEF Stands, Carries
  <2>4. Arrive(r, q)
    BY <1>1 DEF q
  <2>. QED BY <2>1, <2>3, <2>4, ArriveTypes
<1>2. ASSUME NEW id \in Id, NEW kind \in {"insert", "delete"}, NEW at \in {"merge", "remove"},
             kind = "insert" <=> at = "merge",
             Arrive(r, [Idle EXCEPT !.kind = kind, !.at = at, !.id = id])
      PROVE  Types'
  <2> DEFINE q == [Idle EXCEPT !.kind = kind, !.at = at, !.id = id]
  <2>1. q \in Req
    BY IdleType DEF Req, Kinds, Labels
  <2>2. q.kind = kind /\ q.at = at /\ q.id = id /\ ~q.missed /\ q.since = 0
    BY IdleType DEF Req
  <2> HIDE DEF q
  <2>3. Stands(q) /\ Carries(q)
    BY <1>0, <1>2, <2>2 DEF Stands, Carries
  <2>4. Arrive(r, q)
    BY <1>2 DEF q
  <2>. QED BY <2>1, <2>3, <2>4, ArriveTypes
<1>3. ASSUME NEW x \in Result,
             Arrive(r, [Idle EXCEPT !.kind = "share", !.at = "load", !.holds = x])
      PROVE  Types'
  <2> DEFINE q == [Idle EXCEPT !.kind = "share", !.at = "load", !.holds = x]
  <2>1. q \in Req
    BY IdleType DEF Req, Kinds, Labels
  <2>2. q.kind = "share" /\ q.at = "load" /\ q.holds = x /\ ~q.missed /\ q.since = 0
    BY IdleType DEF Req
  <2> HIDE DEF q
  <2>3. Stands(q) /\ Carries(q)
    BY <1>0, <2>2 DEF Stands, Carries
  <2>4. Arrive(r, q)
    BY <1>3 DEF q
  <2>. QED BY <2>1, <2>3, <2>4, ArriveTypes
<1>4. ASSUME NEW kind \in {"list", "flush"}, NEW at \in {"members", "keys"},
             kind = "list" <=> at = "members",
             Arrive(r, [Idle EXCEPT !.kind = kind, !.at = at])
      PROVE  Types'
  <2> DEFINE q == [Idle EXCEPT !.kind = kind, !.at = at]
  <2>1. q \in Req
    BY IdleType DEF Req, Kinds, Labels
  <2>2. q.kind = kind /\ q.at = at /\ q.listed = {} /\ ~q.missed /\ q.since = 0
    BY IdleType DEF Req
  <2> HIDE DEF q
  <2>3. Stands(q) /\ Carries(q)
    BY <1>0, <1>4, <2>2 DEF Stands, Carries
  <2>4. Arrive(r, q)
    BY <1>4 DEF q
  <2>. QED BY <2>1, <2>3, <2>4, ArriveTypes
<1>. QED BY <1>1, <1>2, <1>3, <1>4 DEF Extract, Trigger, List, Share, Insert, Delete, Flush

\* A look at the cache: a hit is a profile of the request's key.
LEMMA LookupTypes ==
  ASSUME IInv, NEW r \in Request, req[r].at \in {"check", "recheck"},
         NEW onMiss \in {"recheck", "permit", "context"},
         req[r].kind = "dag" => onMiss # "permit",
         Lookup(r, onMiss)
  PROVE  Types'
<1>0. /\ req \in [Request -> Req] /\ req[r] \in Req /\ Stands(req[r]) /\ Carries(req[r])
      /\ RedisInv
  BY Here
<1>1. req[r].kind \in {"extract", "dag"} /\ req[r].key \in Key
  BY <1>0 DEF Stands, Carries
<1>2. UNCHANGED <<redis, time>> /\ unlisted' \in SUBSET Id /\ onMiss \in Labels
  BY DEF Lookup, IInv, Bounds, Labels
<1>3. ASSUME Working, Live(CacheKey(r)),
             Reach(r, [req[r] EXCEPT !.holds = Value(CacheKey(r)), !.at = Served(r)])
      PROVE  Types'
  <2> DEFINE q == [req[r] EXCEPT !.holds = Value(CacheKey(r)), !.at = Served(r)]
  <2>1. Value(CacheKey(r)) \in Profiles
    BY <1>0, <1>1, <1>3 DEF RedisInv, CacheKey
  <2>2. q \in Req /\ Stands(q) /\ Carries(q)
    BY <1>0, <1>1, <2>1 DEF Req, Labels, Stands, Carries, Served
  <2>. QED BY <1>2, <1>3, <2>2, MovedOnly
<1>4. ASSUME Working,
             Reach(r, [req[r] EXCEPT !.missed = (onMiss = "context" /\ req[r].kind = "extract"),
                                     !.at = onMiss])
      PROVE  Types'
  <2> DEFINE m == (onMiss = "context" /\ req[r].kind = "extract")
  <2> DEFINE q == [req[r] EXCEPT !.missed = m, !.at = onMiss]
  <2>1. m \in BOOLEAN /\ (m => req[r].kind = "extract")
    OBVIOUS
  <2> HIDE DEF m
  <2>2. q \in Req /\ Stands(q) /\ Carries(q)
    BY <1>0, <1>1, <1>2, <2>1 DEF Req, Labels, Stands, Carries
  <2>3. Reach(r, q)
    BY <1>4 DEF m
  <2>. QED BY <1>2, <1>4, <2>2, <2>3, MovedOnly
<1>5. ASSUME Failing, Goto(r, onMiss) PROVE Types'
  <2>1. Stands([req[r] EXCEPT !.at = onMiss]) /\ Carries([req[r] EXCEPT !.at = onMiss])
    BY <1>0, <1>1 DEF Req, Stands, Carries
  <2>. QED BY <1>2, <1>5, <2>1, WentOnly
<1>. QED BY <1>3, <1>4, <1>5 DEF Lookup

\* The error of an extraction, and the DAG's fallback.
LEMMA UnextractedTypes ==
  ASSUME IInv, NEW r \in Request, req[r].at \in {"context", "call"}, Unextracted(r), Failing,
         UNCHANGED <<redis, time, unlisted>>
  PROVE  Types'
<1> DEFINE q == [req[r] EXCEPT !.missed = FALSE,
                   !.at = IF req[r].kind = "dag" THEN "write" ELSE "error"]
<1>0. req[r] \in Req /\ Stands(req[r]) /\ Carries(req[r])
  BY Here
<1>1. q \in Req /\ Stands(q) /\ Carries(q)
  BY <1>0 DEF Req, Labels, Stands, Carries
<1>. QED BY <1>1, MovedOnly DEF Unextracted, IInv, Bounds

\* Waiting for a permit, GitHub and Claude.
LEMMA CallTypes ==
  ASSUME IInv, NEW r \in Request,
         Check(r) \/ Acquire(r) \/ Recheck(r) \/ Context(r) \/ Call(r)
  PROVE  Types'
<1>0. req[r] \in Req /\ Stands(req[r]) /\ Carries(req[r]) /\ unlisted \in SUBSET Id
  BY Here DEF IInv, Bounds
<1>1. CASE Check(r)
  BY <1>1, LookupTypes DEF Check, NotCached
<1>2. CASE Recheck(r)
  BY <1>2, LookupTypes DEF Recheck
<1>3. CASE Acquire(r)
  <2>1. "recheck" \in Labels /\ req[r].kind = "extract"
    BY <1>0, <1>3 DEF Labels, Acquire, Stands
  <2>2. Stands([req[r] EXCEPT !.at = "recheck"]) /\ Carries([req[r] EXCEPT !.at = "recheck"])
    BY <1>0, <2>1 DEF Req, Stands, Carries
  <2>. QED BY <1>0, <1>3, <2>1, <2>2, WentOnly DEF Acquire, Working
<1>4. CASE Context(r)
  <2>1. CASE Working /\ Goto(r, "call")
    <3>1. "call" \in Labels /\ req[r].kind \in {"extract", "dag"}
      BY <1>0, <1>4 DEF Labels, Context, Stands
    <3>2. Stands([req[r] EXCEPT !.at = "call"]) /\ Carries([req[r] EXCEPT !.at = "call"])
      BY <1>0, <3>1 DEF Req, Stands, Carries
    <3>. QED BY <1>0, <1>4, <2>1, <3>1, <3>2, WentOnly DEF Context
  <2>. QED BY <1>4, <2>1, UnextractedTypes DEF Context
<1>5. CASE Call(r)
  <2>1. CASE Working /\ Reach(r, [req[r] EXCEPT !.holds = Profile(req[r].key, req[r].id),
                                                !.at = "cache"])
    <3> DEFINE q == [req[r] EXCEPT !.holds = Profile(req[r].key, req[r].id), !.at = "cache"]
    <3>1. req[r].kind \in {"extract", "dag"}
      BY <1>0, <1>5 DEF Call, Stands
    <3>2. Profile(req[r].key, req[r].id) \in Profiles
      BY <1>0, <3>1 DEF Carries, Profile, Profiles
    <3>3. q \in Req /\ Stands(q) /\ Carries(q)
      BY <1>0, <3>1, <3>2 DEF Req, Labels, Stands, Carries
    <3>. QED BY <1>0, <1>5, <2>1, <3>3, MovedOnly DEF Call
  <2>. QED BY <1>5, <2>1, UnextractedTypes DEF Call
<1>. QED BY <1>1, <1>2, <1>3, <1>4, <1>5

\* The profile is cached, stored and listed.
LEMMA StoreTypes ==
  ASSUME IInv, NEW r \in Request, Cache(r) \/ Persist(r) \/ AddToIndex(r)
  PROVE  Types'
<1>0. /\ req[r] \in Req /\ Stands(req[r]) /\ Carries(req[r]) /\ RedisInv
      /\ unlisted \in SUBSET Id /\ time \in 0..MaxTime /\ time' = time
  BY Here DEF IInv, Bounds, Cache, Persist, AddToIndex
<1>1. req[r].kind \in {"extract", "dag"} /\ req[r].key \in Key /\ req[r].holds \in Profiles
  BY <1>0 DEF Cache, Persist, AddToIndex, Stands, Carries
<1>2. StoredId(r) \in Id /\ req[r].holds \in [key : Key, id : {StoredId(r)}]
  BY <1>1 DEF StoredId, Profiles
<1>3. faults' \in 0..MaxFaults
  BY FaultBounds DEF Cache, Persist, AddToIndex
<1>4. unlisted' \in SUBSET Id
  BY <1>0, <1>2 DEF Cache, Persist, AddToIndex
<1>5. CASE Cache(r)
  <2>1. CacheKey(r) \in RedisKey /\ \A i \in Id : CacheKey(r) # <<"candidate", i>>
    BY <1>1 DEF CacheKey, RedisKey
  <2>2. CacheKey(r) # Index
    BY DEF CacheKey, Index
  <2>3. RedisInv'
    <3>1. CASE UNCHANGED redis
      BY <1>0, <3>1 DEF RedisInv, Live, Value
    <3>2. CASE Put(CacheKey(r), req[r].holds, CacheTTL)
      BY <1>0, <1>1, <2>1, <2>2, <3>2, PutKeeps, Constants
    <3>. QED BY <1>5, <3>1, <3>2 DEF Cache
  <2>4. ASSUME NEW m \in {req[r].missed, FALSE},
               Reach(r, [req[r] EXCEPT !.missed = m, !.at = Served(r)])
        PROVE  ReqInv'
    <3> DEFINE q == [req[r] EXCEPT !.missed = m, !.at = Served(r)]
    <3>1. q \in Req
      <4>1. m \in BOOLEAN /\ Served(r) \in Labels
        BY <1>0 DEF Req, Labels, Served
      <4>. QED BY <1>0, <4>1 DEF Req
    <3>2. Stands(q) /\ Carries(q)
      BY <1>0, <1>1, <2>4 DEF Req, Stands, Carries, Served
    <3>. QED BY <1>0, <2>4, <3>1, <3>2, Moved
  <2>5. Goto(r, Served(r)) => Reach(r, [req[r] EXCEPT !.missed = req[r].missed, !.at = Served(r)])
    <3>1. [req[r] EXCEPT !.missed = req[r].missed, !.at = Served(r)] = [req[r] EXCEPT !.at = Served(r)]
      BY <1>0 DEF Req
    <3>2. Served(r) \in Labels
      BY DEF Served, Labels
    <3>. QED BY <3>1, <3>2, Here, GotoFacts
  <2>6. ReqInv'
    <3>1. CASE Goto(r, Served(r))
      BY <2>4, <2>5, <3>1
    <3>2. CASE Reach(r, [req[r] EXCEPT !.missed = FALSE, !.at = Served(r)])
      BY <2>4, <3>2
    <3>. QED BY <1>5, <3>1, <3>2 DEF Cache
  <2>. QED BY <1>0, <1>3, <1>4, <2>3, <2>6 DEF Types, Bounds
<1>6. ASSUME Persist(r) \/ AddToIndex(r) PROVE ReqInv'
  <2>0. req[r].kind = "extract"
    BY <1>0, <1>6 DEF Persist, AddToIndex, Stands
  <2>1. ASSUME Unsaved(r) PROVE ReqInv'
    <3> DEFINE q == [req[r] EXCEPT !.at = "ok", !.faulted = TRUE]
    <3>1. q \in Req /\ Stands(q) /\ Carries(q)
      BY <1>0, <1>1, <2>0 DEF Req, Labels, Stands, Carries
    <3>. QED BY <1>0, <2>1, <3>1, Moved DEF Unsaved
  <2>2. ASSUME Reach(r, [req[r] EXCEPT !.at = "index", !.since = time]) PROVE ReqInv'
    <3> DEFINE q == [req[r] EXCEPT !.at = "index", !.since = time]
    <3>1. q \in Req
      BY <1>0 DEF Req, Labels
    <3>2. q.since = time /\ time <= time
      BY <1>0 DEF Req
    <3>3. Stands(q) /\ Carries(q)
      BY <1>0, <1>1, <2>0, <3>2 DEF Req, Stands, Carries
    <3>. QED BY <1>0, <2>2, <3>1, <3>3, Moved
  <2>3. ASSUME Goto(r, "ok") PROVE ReqInv'
    <3>1. "ok" \in Labels
      BY DEF Labels
    <3>2. Stands([req[r] EXCEPT !.at = "ok"]) /\ Carries([req[r] EXCEPT !.at = "ok"])
      BY <1>0, <1>1, <2>0 DEF Req, Stands, Carries
    <3>. QED BY <1>0, <2>3, <3>1, <3>2, Here, GotoFacts, Moved
  <2>. QED BY <1>6, <2>1, <2>2, <2>3 DEF Persist, AddToIndex
<1>7. CASE Persist(r)
  <2> DEFINE k == <<"candidate", StoredId(r)>>
  <2>1. /\ k \in RedisKey /\ k # Index /\ \A x \in Key : k # <<"nlp", x>>
        /\ \A i \in Id : k = <<"candidate", i>> => i = StoredId(r)
    BY <1>2 DEF RedisKey, Index
  <2>2. RedisInv'
    <3>1. CASE UNCHANGED redis
      BY <1>0, <3>1 DEF RedisInv, Live, Value
    <3>2. CASE Put(k, req[r].holds, ProfileTTL)
      BY <1>0, <1>2, <2>1, <3>2, PutKeeps, Constants
    <3>. QED BY <1>7, <3>1, <3>2 DEF Persist
  <2>. QED BY <1>0, <1>3, <1>4, <1>6, <1>7, <2>2 DEF Types, Bounds
<1>8. CASE AddToIndex(r)
  <2>1. Index \in RedisKey /\ (\A x \in Key : Index # <<"nlp", x>>)
        /\ \A i \in Id : Index # <<"candidate", i>>
    BY DEF RedisKey, Index
  <2>2. Members \cup {StoredId(r)} \in SUBSET Id /\ Forever \in Nat \ {0}
    BY <1>0, <1>2, Constants DEF Members, RedisInv, Forever
  <2>3. RedisInv'
    <3>1. CASE UNCHANGED redis
      BY <1>0, <3>1 DEF RedisInv, Live, Value
    <3>2. CASE Put(Index, Members \cup {StoredId(r)}, Forever)
      BY <1>0, <2>1, <2>2, <3>2, PutKeeps
    <3>. QED BY <1>8, <3>1, <3>2 DEF AddToIndex, PutIndex
  <2>. QED BY <1>0, <1>3, <1>4, <1>6, <1>8, <2>3 DEF Types, Bounds
<1>. QED BY <1>5, <1>7, <1>8

\* A list, and the keys a flush finds.
LEMMA ReadTypes ==
  ASSUME IInv, NEW r \in Request, ReadMembers(r) \/ ReadListed(r) \/ FlushKeys(r),
         unlisted' \in SUBSET Id
  PROVE  Types'
<1>0. /\ req[r] \in Req /\ Stands(req[r]) /\ Carries(req[r]) /\ RedisInv
      /\ UNCHANGED <<redis, time>>
  BY Here DEF ReadMembers, ReadListed, FlushKeys
<1>1. req[r].kind \in {"list", "flush"} /\ (req[r].kind = "flush" <=> req[r].at = "keys")
  BY <1>0 DEF ReadMembers, ReadListed, FlushKeys, Stands
<1>2. Members \in SUBSET Id
  BY <1>0 DEF Members, RedisInv
<1>3. ASSUME NEW l \in {"ok", "error"}, Goto(r, l), Failing \/ Working,
             l = "error" => req[r].kind = "flush"
      PROVE  Types'
  <2>1. l \in Labels
    BY DEF Labels
  <2>2. Stands([req[r] EXCEPT !.at = l]) /\ Carries([req[r] EXCEPT !.at = l])
    BY <1>0, <1>1, <1>3 DEF Req, Stands, Carries
  <2>. QED BY <1>0, <1>3, <2>1, <2>2, WentOnly
<1>4. ASSUME Failing, Reach(r, [req[r] EXCEPT !.at = "ok", !.faulted = TRUE]) PROVE Types'
  <2> DEFINE q == [req[r] EXCEPT !.at = "ok", !.faulted = TRUE]
  <2>1. q \in Req /\ Stands(q) /\ Carries(q)
    BY <1>0, <1>1 DEF Req, Labels, Stands, Carries
  <2>. QED BY <1>0, <1>4, <2>1, MovedOnly
<1>5. ASSUME Working, NEW ids \in SUBSET Id, NEW owed \in SUBSET Id, req[r].at = "members",
             Reach(r, [req[r] EXCEPT !.listed = ids, !.at = "gets", !.owed = owed])
      PROVE  Types'
  <2> DEFINE q == [req[r] EXCEPT !.listed = ids, !.at = "gets", !.owed = owed]
  <2>1. q \in Req
    BY <1>0 DEF Req, Labels
  <2>2. Stands(q) /\ Carries(q)
    BY <1>0, <1>1, <1>5 DEF Req, Stands, Carries
  <2>. QED BY <1>0, <1>5, <2>1, <2>2, MovedOnly
<1>6. ASSUME Working, NEW i, req[r].at = "gets", Reach(r, Listed(req[r], i)) PROVE Types'
  <2> DEFINE owed == IF Live(<<"candidate", i>>) THEN req[r].owed \ {i} ELSE req[r].owed
  <2> DEFINE q == [req[r] EXCEPT !.listed = @ \ {i}, !.owed = owed]
  <2>0. Listed(req[r], i) = q /\ owed \in SUBSET Id
    BY <1>0 DEF Listed, Req
  <2> HIDE DEF owed
  <2>1. q \in Req
    BY <1>0, <2>0 DEF Req
  <2>2. Stands(q) /\ Carries(q)
    BY <1>0, <1>1 DEF Req, Stands, Carries
  <2>. QED BY <1>0, <1>6, <2>0, <2>1, <2>2, MovedOnly
<1>7. ASSUME Working, req[r].at = "keys",
             Reach(r, [req[r] EXCEPT !.listed = DOMAIN redis, !.at = "delete"])
      PROVE  Types'
  <2> DEFINE q == [req[r] EXCEPT !.listed = DOMAIN redis, !.at = "delete"]
  <2>1. q \in Req
    BY <1>0 DEF Req, Labels, RedisInv
  <2>2. Stands(q) /\ Carries(q)
    BY <1>0, <1>1, <1>7 DEF Req, Stands, Carries
  <2>. QED BY <1>0, <1>7, <2>1, <2>2, MovedOnly
<1>8. CASE ReadMembers(r)
  <2>1. CASE Failing /\ Reach(r, [req[r] EXCEPT !.at = "ok", !.faulted = TRUE])
    BY <1>4, <2>1
  <2>2. ASSUME Working, NEW ids \in FirstOf(Members),
               Reach(r, [req[r] EXCEPT !.listed = ids, !.at = "gets",
                      !.owed = IF Cardinality(Members) > Limit THEN {}
                               ELSE {i \in Members : Live(<<"candidate", i>>)}])
        PROVE  Types'
    <3> DEFINE owed == IF Cardinality(Members) > Limit THEN {}
                       ELSE {i \in Members : Live(<<"candidate", i>>)}
    <3>1. ids \in SUBSET Id /\ owed \in SUBSET Id
      BY <1>2 DEF FirstOf
    <3>2. Reach(r, [req[r] EXCEPT !.listed = ids, !.at = "gets", !.owed = owed])
      BY <2>2
    <3> HIDE DEF owed
    <3>. QED BY <1>5, <1>8, <2>2, <3>1, <3>2 DEF ReadMembers
  <2>. QED BY <1>8, <2>1, <2>2 DEF ReadMembers
<1>9. CASE ReadListed(r)
  <2>1. ASSUME Working, Goto(r, "ok") PROVE Types'
    BY <1>3, <2>1
  <2>2. ASSUME Working, NEW i, Reach(r, Listed(req[r], i)) PROVE Types'
    BY <1>6, <1>9, <2>2 DEF ReadListed
  <2>3. ASSUME Failing, Reach(r, [req[r] EXCEPT !.at = "ok", !.faulted = TRUE]) PROVE Types'
    BY <1>4, <2>3
  <2>. QED BY <1>9, <2>1, <2>2, <2>3 DEF ReadListed
<1>10. CASE FlushKeys(r)
  BY <1>0, <1>1, <1>3, <1>7, <1>10 DEF FlushKeys
<1>. QED BY <1>8, <1>9, <1>10

\* A result is cached, loaded and shared.
LEMMA ReportTypes ==
  ASSUME IInv, NEW r \in Request, Load(r) \/ StoreReport(r), unlisted' = unlisted
  PROVE  Types'
<1>0. /\ req[r] \in Req /\ Stands(req[r]) /\ Carries(req[r]) /\ RedisInv
      /\ unlisted \in SUBSET Id /\ time \in 0..MaxTime /\ time' = time
  BY Here DEF IInv, Bounds, Load, StoreReport
<1>1. req[r].kind = "share"
  BY <1>0 DEF Load, StoreReport, Stands
<1>2. ASSUME NEW l \in {"store", "notFound", "ok", "error"}
      PROVE  /\ l \in Labels
             /\ Stands([req[r] EXCEPT !.at = l]) /\ Carries([req[r] EXCEPT !.at = l])
  <2>1. l \in Labels
    BY DEF Labels
  <2>. QED BY <1>0, <1>1, <2>1 DEF Req, Stands, Carries
<1>3. CASE Load(r)
  <2>1. PICK l \in {"store", "notFound", "ok", "error"} : Goto(r, l)
    BY <1>3 DEF Load
  <2>. QED BY <1>0, <1>2, <1>3, <2>1, WentOnly DEF Load
<1>4. CASE StoreReport(r)
  <2>1. ReqInv'
    <3>1. ASSUME Reach(r, [req[r] EXCEPT !.at = "ok", !.since = time]) PROVE ReqInv'
      <4> DEFINE q == [req[r] EXCEPT !.at = "ok", !.since = time]
      <4>1. q \in Req
        BY <1>0 DEF Req, Labels
      <4>2. q.since = time /\ time <= time
        BY <1>0 DEF Req
      <4>3. Stands(q) /\ Carries(q)
        BY <1>0, <1>1, <4>2 DEF Req, Stands, Carries
      <4>. QED BY <1>0, <3>1, <4>1, <4>3, Moved
    <3>2. ASSUME Goto(r, "error") PROVE ReqInv'
      <4>1. [req[r] EXCEPT !.at = "error"] \in Req /\ Reach(r, [req[r] EXCEPT !.at = "error"])
        BY <1>2, <3>2, Here, GotoFacts
      <4>. QED BY <1>0, <1>2, <4>1, Moved
    <3>. QED BY <1>4, <3>1, <3>2 DEF StoreReport
  <2>2. RedisInv'
    <3>1. CASE UNCHANGED redis
      BY <1>0, <3>1 DEF RedisInv, Live, Value
    <3>2. CASE PutReport(r)
      <4>1. /\ <<"report", r>> \in RedisKey /\ <<"report", r>> # Index
            /\ \A x \in Key : <<"report", r>> # <<"nlp", x>>
            /\ \A i \in Id : <<"report", r>> # <<"candidate", i>>
        BY DEF RedisKey, Index
      <4>. QED BY <1>0, <3>2, <4>1, PutKeeps, Constants DEF PutReport
    <3>. QED BY <1>4, <3>1, <3>2 DEF StoreReport
  <2>3. faults' \in 0..MaxFaults
    BY <1>4, FaultBounds DEF StoreReport
  <2>. QED BY <1>0, <2>1, <2>2, <2>3 DEF Types, Bounds
<1>. QED BY <1>3, <1>4

LEMMA ResultTypes ==
  ASSUME IInv, NEW x \in Result, CacheResult(x), unlisted' = unlisted
  PROVE  Types'
<1>1. ReqInv' /\ Bounds' /\ time' = time
  BY DEF CacheResult, IInv, ReqInv, Carries, Stands, Bounds
<1>2. /\ <<"sim", x>> \in RedisKey /\ <<"sim", x>> # Index
      /\ \A k \in Key : <<"sim", x>> # <<"nlp", k>>
      /\ \A i \in Id : <<"sim", x>> # <<"candidate", i>>
  BY DEF RedisKey, Index
<1>3. RedisInv'
  BY <1>1, <1>2, PutKeeps, Constants DEF CacheResult
<1>. QED BY <1>1, <1>3 DEF Types

\* What the keys ks, going away, leave of request q.
Lost(p, q, ks) ==
  /\ p.kind = q.kind /\ p.at = q.at /\ p.key = q.key /\ p.id = q.id
  /\ p.holds = q.holds /\ p.listed = q.listed /\ p.since = q.since /\ p.faulted = q.faulted
  /\ p.missed => q.missed /\ (q.kind # "none" => <<"nlp", q.key>> \notin ks)
  /\ p.owed \subseteq q.owed /\ q.flushed \subseteq p.flushed
  /\ q.kind # "none" => \A i \in p.owed : <<"candidate", i>> \notin ks

LEMMA WithoutFacts ==
  ASSUME NEW q \in Req, NEW ks \in SUBSET RedisKey, NEW flush,
         NEW p, p = Without(q, ks, flush)
  PROVE  p \in Req /\ Lost(p, q, ks) /\ (q.kind # "none" /\ flush = TRUE => ks \subseteq p.flushed)
<1>1. CASE q.kind = "none"
  BY <1>1 DEF Without, Lost
<1>2. CASE q.kind # "none"
  <2> DEFINE m == q.missed /\ <<"nlp", q.key>> \notin ks
  <2> DEFINE o == {i \in q.owed : <<"candidate", i>> \notin ks}
  <2> DEFINE f == q.flushed \cup (IF flush THEN ks ELSE {})
  <2>1. p = [q EXCEPT !.missed = m, !.owed = o, !.flushed = f]
    BY <1>2 DEF Without
  <2>2. /\ m \in BOOLEAN /\ o \in SUBSET Id /\ f \in SUBSET RedisKey
        /\ m => q.missed /\ <<"nlp", q.key>> \notin ks
        /\ o \subseteq q.owed /\ (\A i \in o : <<"candidate", i>> \notin ks)
        /\ q.flushed \subseteq f /\ (flush = TRUE => ks \subseteq f)
    BY DEF Req
  <2> HIDE DEF m, o, f
  <2>3. /\ p \in Req /\ p.missed = m /\ p.owed = o /\ p.flushed = f
        /\ p.kind = q.kind /\ p.at = q.at /\ p.key = q.key /\ p.id = q.id
        /\ p.holds = q.holds /\ p.listed = q.listed /\ p.since = q.since /\ p.faulted = q.faulted
    BY <2>1, <2>2 DEF Req
  <2>. QED BY <2>2, <2>3 DEF Lost
<1>. QED BY <1>1, <1>2

\* A request that loses keys still stands where it stood.
LEMMA WithoutKeeps ==
  ASSUME IInv, NEW u \in Request, NEW ks \in SUBSET RedisKey, NEW flush,
         req'[u] = Without(req[u], ks, flush), time' \in Nat, time <= time'
  PROVE  req'[u] \in Req /\ Stands(req[u])' /\ Carries(req[u])'
<1>0. req[u] \in Req /\ Stands(req[u]) /\ Carries(req[u]) /\ time \in Nat
  BY Here
<1>a. PICK q \in Req : q = req[u]
  BY <1>0
<1>b. PICK p : p = req'[u]
  OBVIOUS
<1>c. p = Without(q, ks, flush)
  BY <1>a, <1>b DEF Without
<1>d. p \in Req /\ Lost(p, q, ks)
  BY <1>c, WithoutFacts
<1>1. /\ p \in Req /\ p.kind = req[u].kind /\ p.at = req[u].at /\ p.key = req[u].key
      /\ p.id = req[u].id /\ p.holds = req[u].holds /\ p.listed = req[u].listed
      /\ p.since = req[u].since /\ (p.missed => req[u].missed)
  BY <1>a, <1>d DEF Lost
<1>2. p.since \in Nat /\ p.since <= time'
  <2>1. req[u].since \in Nat /\ req[u].since <= time
    BY <1>0, Constants DEF Req, Carries
  <2>. QED BY <1>0, <1>1, <2>1
<1>3. Stands(req[u])'
  BY <1>0, <1>1, <1>b DEF Stands
<1>4. Carries(req[u])'
  BY <1>0, <1>1, <1>2, <1>b DEF Carries
<1>. QED BY <1>1, <1>3, <1>4, <1>b

\* A day passes, and entries expire.
LEMMA TickTypes ==
  ASSUME IInv, Tick, unlisted' = unlisted
  PROVE  Types'
<1> DEFINE expired == {k \in DOMAIN redis : redis[k].until <= time + 1}
<1>1. /\ time \in 0..MaxTime /\ time' = time + 1 /\ time' \in 0..MaxTime /\ faults' = faults
      /\ Remaining(expired) /\ req' = [q \in Request |-> Without(req[q], expired, FALSE)]
      /\ expired \in SUBSET RedisKey
  BY Constants DEF Tick, IInv, Bounds, RedisInv
<1>2. RedisInv'
  <2>1. \A k \in DOMAIN redis \ expired : redis[k].until > time'
    BY <1>1 DEF IInv, RedisInv
  <2>. QED BY <1>1, <2>1, RemoveKeeps
<1>3. ASSUME NEW u \in Request PROVE req'[u] \in Req /\ Stands(req[u])' /\ Carries(req[u])'
  <2>1. req'[u] = Without(req[u], expired, FALSE)
    BY <1>1
  <2>2. time' \in Nat /\ time <= time'
    BY <1>1, Constants
  <2> HIDE DEF expired
  <2>. QED BY <1>1, <2>1, <2>2, WithoutKeeps
<1>4. req' \in [Request -> Req]
  BY <1>1, <1>3
<1>. QED BY <1>1, <1>2, <1>3, <1>4 DEF Types, ReqInv, Bounds, IInv

\* A flush removes the keys it listed.
LEMMA FlushTypes ==
  ASSUME IInv, NEW r \in Request, FlushDelete(r), unlisted' \in SUBSET Id
  PROVE  Types'
<1> DEFINE ks == req[r].listed \cap DOMAIN redis
<1>0. /\ req[r] \in Req /\ Stands(req[r]) /\ Carries(req[r]) /\ RedisInv
      /\ time \in 0..MaxTime /\ time' = time /\ time \in Nat /\ req \in [Request -> Req]
  BY Here DEF FlushDelete
<1>1. req[r].kind = "flush" /\ ks \in SUBSET RedisKey
  BY <1>0 DEF FlushDelete, Stands, RedisInv
<1>2. ASSUME NEW l \in {"ok", "error"}
      PROVE  /\ [req[r] EXCEPT !.at = l] \in Req /\ l \in Labels
             /\ Stands([req[r] EXCEPT !.at = l]) /\ Carries([req[r] EXCEPT !.at = l])
  <2>1. l \in Labels
    BY DEF Labels
  <2>. QED BY <1>0, <1>1, <2>1 DEF Req, Stands, Carries
<1>3. CASE Failing /\ Goto(r, "error") /\ UNCHANGED redis
  BY <1>0, <1>2, <1>3, WentOnly
<1>4. ASSUME Remaining(ks), Failing \/ Working,
             NEW l \in {"ok", "error"},
             req' = [q \in Request |-> IF q = r THEN [req[q] EXCEPT !.at = l]
                                       ELSE Without(req[q], ks, TRUE)]
      PROVE  Types'
  <2>1. RedisInv'
    BY <1>0, <1>4, RemoveKeeps DEF RedisInv
  <2>2. ASSUME NEW u \in Request PROVE req'[u] \in Req /\ Stands(req[u])' /\ Carries(req[u])'
    <3>1. CASE u = r
      <4>1. req'[u] = [req[r] EXCEPT !.at = l]
        BY <1>4, <3>1
      <4>2. req'[u] \in Req /\ Stands(req'[u]) /\ Carries([req[r] EXCEPT !.at = l])
        BY <1>2, <4>1
      <4>. QED BY <1>0, <4>1, <4>2 DEF Stands, Carries
    <3>2. CASE u # r
      <4>1. req'[u] = Without(req[u], ks, TRUE)
        BY <1>4, <3>2
      <4>2. time' \in Nat /\ time <= time'
        BY <1>0
      <4> HIDE DEF ks
      <4>. QED BY <1>1, <4>1, <4>2, WithoutKeeps
    <3>. QED BY <3>1, <3>2
  <2>3. req' \in [Request -> Req]
    BY <1>4, <2>2
  <2>. QED BY <1>0, <1>4, <2>1, <2>2, <2>3, FaultBounds DEF Types, ReqInv, Bounds
<1>5. ASSUME Remaining(ks), Failing \/ Working,
             req' = [q \in Request |->
               IF q = r THEN [req[q] EXCEPT !.at = IF faults' = faults THEN "ok" ELSE "error"]
               ELSE Without(req[q], ks, TRUE)]
      PROVE  Types'
  <2>1. CASE faults' = faults
    <3>1. req' = [q \in Request |-> IF q = r THEN [req[q] EXCEPT !.at = "ok"]
                                       ELSE Without(req[q], ks, TRUE)]
      BY <1>5, <2>1
    <3>. QED BY <1>4, <1>5, <3>1
  <2>2. CASE faults' # faults
    <3>1. req' = [q \in Request |-> IF q = r THEN [req[q] EXCEPT !.at = "error"]
                                       ELSE Without(req[q], ks, TRUE)]
      BY <1>5, <2>2
    <3>. QED BY <1>4, <1>5, <3>1
  <2>. QED BY <2>1, <2>2
<1>. QED BY <1>3, <1>5 DEF FlushDelete

------------------------------------------------------------------------------
(* The graph *)

\* A statement on one candidate.
LEMMA StatementTypes ==
  ASSUME IInv, NEW r \in Request, RunStatement(r), unlisted' = unlisted
  PROVE  Types' /\ GraphInv'
<1>0. req[r] \in Req /\ Stands(req[r]) /\ Carries(req[r]) /\ unlisted \in SUBSET Id
  BY Here DEF IInv, Bounds
<1>1. /\ req[r].kind \in {"insert", "delete", "dag"} /\ req[r].id \in Id
      /\ req[r].kind = "insert" <=> req[r].at \in {"merge", "project"}
      /\ req[r].kind = "dag" <=> req[r].at = "write"
      /\ req[r].at \in {"merge", "project", "remove", "write"}
  BY <1>0 DEF RunStatement, Stands, Carries
<1>2. Types'
  <2>1. ASSUME NEW l \in {"project", "ok", "error"}, Goto(r, l), Failing \/ Working,
               l = "project" => req[r].kind = "insert", l = "error" => req[r].kind # "dag"
        PROVE  Types'
    <3>1. l \in Labels
      BY DEF Labels
    <3>2. Stands([req[r] EXCEPT !.at = l]) /\ Carries([req[r] EXCEPT !.at = l])
      BY <1>0, <1>1, <2>1 DEF Req, Stands, Carries
    <3>. QED BY <1>0, <2>1, <3>1, <3>2, WentOnly DEF RunStatement
  <2>2. CASE Failing /\ UNCHANGED req
    <3>1. ReqInv' /\ RedisInv'
      BY <2>2 DEF RunStatement, IInv, ReqInv, RedisInv, Live, Value, Carries, Stands
    <3>. QED BY <1>0, <2>2, <3>1, FaultBounds DEF Types, Bounds, RunStatement, IInv
  <2>. QED BY <1>1, <2>1, <2>2 DEF RunStatement
<1>3. GraphInv
  BY DEF IInv
<1>4. ASSUME NEW i \in Id, NEW flag \in {"temporary", "permanent"}, MergeCandidate(i, flag)
      PROVE  GraphInv'
  BY <1>3, <1>4 DEF GraphInv, MergeCandidate, DeleteOnlyTemporary
<1>5. ASSUME NEW i \in Id, ProjectEdges(i) PROVE GraphInv'
  BY <1>3, <1>5 DEF GraphInv, ProjectEdges, DeleteOnlyTemporary
<1>6. ASSUME NEW i \in Id, DeleteTemporary(i) PROVE GraphInv'
  BY <1>3, <1>6 DEF GraphInv, DeleteTemporary, DeleteOnlyTemporary
<1>7. UNCHANGED graphVars => GraphInv'
  BY DEF IInv, graphVars, GraphInv, DeleteOnlyTemporary
<1>8. ASSUME StatementAt(r) PROVE GraphInv'
  <2>1. CASE req[r].at = "merge"
    <3>1. MergeCandidate(req[r].id, "temporary")
      BY <1>8, <2>1 DEF StatementAt
    <3>. QED BY <1>1, <1>4, <3>1
  <2>2. CASE req[r].at = "project"
    <3>1. ProjectEdges(req[r].id)
      BY <1>8, <2>2 DEF StatementAt
    <3>. QED BY <1>1, <1>5, <3>1
  <2>3. CASE req[r].at = "remove"
    <3>1. DeleteTemporary(req[r].id)
      BY <1>8, <2>3 DEF StatementAt
    <3>. QED BY <1>1, <1>6, <3>1
  <2>4. CASE req[r].at = "write"
    <3>1. MergeCandidate(req[r].id, "permanent")
      BY <1>8, <2>4 DEF StatementAt
    <3>. QED BY <1>1, <1>4, <3>1
  <2>. QED BY <1>1, <2>1, <2>2, <2>3, <2>4
<1>. QED BY <1>2, <1>7, <1>8 DEF RunStatement

------------------------------------------------------------------------------
(* The invariant *)

LEMMA Initially == Init => IInv
<1> SUFFICES ASSUME Init PROVE IInv
  OBVIOUS
<1>1. Bounds /\ RedisInv
  BY Constants DEF Init, StoreInit, Bounds, RedisInv, Live
<1>2. ReqInv
  <2>1. req = [r \in Request |-> Idle] /\ time = 0
    BY DEF Init, StoreInit
  <2>2. Stands(Idle) /\ Carries(Idle)
    BY <2>1, IdleType DEF Idle, Stands, Carries
  <2>. QED BY <2>1, <2>2, IdleType DEF ReqInv
<1>3. GraphInv
  BY DEF Init, GraphInv, DeleteOnlyTemporary
<1>. QED BY <1>1, <1>2, <1>3 DEF IInv

LEMMA Invariance == IInv /\ [Next]_vars => IInv'
<1> SUFFICES ASSUME IInv, [Next]_vars PROVE IInv'
  OBVIOUS
<1>1. UNCHANGED graphVars => GraphInv'
  BY DEF IInv, graphVars, GraphInv, DeleteOnlyTemporary
<1>2. CASE Tick /\ UNCHANGED <<unlisted, graphVars>>
  BY <1>1, <1>2, TickTypes DEF IInv, Types
<1>3. ASSUME NEW x \in Result, CacheResult(x), UNCHANGED <<unlisted, graphVars>> PROVE IInv'
  BY <1>1, <1>3, ResultTypes DEF IInv, Types
<1>4. ASSUME NEW r \in Request, ExtractionSteps(r), UNCHANGED graphVars PROVE IInv'
  <2>1. unlisted \in SUBSET Id
    BY DEF IInv, Bounds
  <2>2. CASE Extract(r) \/ Trigger(r) \/ List(r) \/ (Flush(r) /\ UNCHANGED unlisted)
    BY <1>1, <1>4, <2>2, ArrivalTypes DEF IInv, Types, Extract, Trigger, List
  <2>3. CASE Check(r) \/ Acquire(r) \/ Recheck(r) \/ Context(r) \/ Call(r)
    BY <1>1, <1>4, <2>3, CallTypes DEF IInv, Types
  <2>4. CASE Cache(r) \/ Persist(r) \/ AddToIndex(r)
    BY <1>1, <1>4, <2>4, StoreTypes DEF IInv, Types
  <2>5. CASE ReadMembers(r) \/ ReadListed(r)
    BY <1>1, <1>4, <2>1, <2>5, ReadTypes DEF IInv, Types, ReadMembers, ReadListed
  <2>6. CASE FlushIndex(r)
    <3>1. unlisted' \in SUBSET Id
      BY <2>1, <2>6 DEF FlushIndex
    <3>. QED BY <1>1, <1>4, <2>6, <3>1, ReadTypes, FlushTypes
              DEF FlushIndex, FlushSteps, IInv, Types
  <2>. QED BY <1>4, <2>2, <2>3, <2>4, <2>5, <2>6 DEF ExtractionSteps
<1>5. ASSUME NEW r \in Request, ReportSteps(r), UNCHANGED <<unlisted, graphVars>> PROVE IInv'
  BY <1>1, <1>5, ArrivalTypes, ReportTypes DEF ReportSteps, IInv, Types
<1>6. ASSUME NEW r \in Request, Insert(r) \/ Delete(r) \/ RunStatement(r), UNCHANGED unlisted
      PROVE  IInv'
  BY <1>1, <1>6, ArrivalTypes, StatementTypes DEF Insert, Delete, IInv, Types
<1>7. CASE UNCHANGED vars
  <2>1. ReqInv' /\ RedisInv' /\ Bounds'
    BY <1>7 DEF vars, storeVars, IInv, ReqInv, Carries, Stands, RedisInv, Live, Value, Bounds
  <2>. QED BY <1>1, <1>7, <2>1 DEF vars, IInv
<1>. QED BY <1>2, <1>3, <1>4, <1>5, <1>6, <1>7 DEF Next

LEMMA AlwaysIInv == Spec => []IInv
BY Initially, Invariance, PTL DEF Spec

\* What is stored, requested and projected is of its type, entries are gone when
\* they expire, and a stored profile is of the id it is stored under.
THEOREM TypeCorrect == Spec => []TypeOK
<1>1. IInv => TypeOK
  <2> SUFFICES ASSUME IInv PROVE TypeOK
    OBVIOUS
  <2>1. Members \subseteq Id
    BY DEF Members, IInv, RedisInv
  <2>. QED BY <2>1 DEF TypeOK, IInv, RedisInv, Bounds, GraphInv
<1>. QED BY <1>1, AlwaysIInv, PTL

\* A deleted simulation candidate leaves neither node nor edges, and what the
\* DAG wrote is never deleted (insert_candidate and delete_candidate of
\* graph_service.py with the DAG's write).
THEOREM NothingLeftBehind == Spec => []DeleteOnlyTemporary
<1>1. IInv => DeleteOnlyTemporary
  BY DEF IInv, GraphInv
<1>. QED BY <1>1, AlwaysIInv, PTL

------------------------------------------------------------------------------
(* What a request is owed, while another one takes a step *)

\* A step that removes nothing, and stores no report under the token v.
Grows(v) ==
  /\ time' = time
  /\ \A k \in DOMAIN redis : k \in DOMAIN redis'
  /\ \A i \in Id : Live(<<"candidate", i>>) =>
       \/ redis'[<<"candidate", i>>] = redis[<<"candidate", i>>]
       \/ redis'[<<"candidate", i>>].until = time + ProfileTTL
  /\ Live(<<"report", v>>) => redis'[<<"report", v>>] = redis[<<"report", v>>]

LEMMA StillGrows ==
  ASSUME NEW v \in Request, UNCHANGED <<redis, time>>
  PROVE  Grows(v)
BY DEF Grows, Live

LEMMA PutGrows ==
  ASSUME NEW u \in Request, NEW k, NEW v, NEW ttl, Put(k, v, ttl), time' = time,
         \A i \in Id : k = <<"candidate", i>> => ttl = ProfileTTL, k # <<"report", u>>
  PROVE  Grows(u)
<1>1. /\ DOMAIN redis' = DOMAIN redis \cup {k}
      /\ redis'[k] = [value |-> v, until |-> time + ttl]
      /\ \A x \in DOMAIN redis \ {k} : redis'[x] = redis[x]
  BY PutFacts
<1>2. ASSUME NEW i \in Id, Live(<<"candidate", i>>)
      PROVE  \/ redis'[<<"candidate", i>>] = redis[<<"candidate", i>>]
             \/ redis'[<<"candidate", i>>].until = time + ProfileTTL
  <2>1. CASE k = <<"candidate", i>>
    BY <1>1, <2>1
  <2>2. CASE k # <<"candidate", i>>
    BY <1>1, <1>2, <2>2 DEF Live
  <2>. QED BY <2>1, <2>2
<1>3. Live(<<"report", u>>) => redis'[<<"report", u>>] = redis[<<"report", u>>]
  BY <1>1 DEF Live
<1>. QED BY <1>1, <1>2, <1>3 DEF Grows

\* What was kept is kept by a step that removes nothing.
LEMMA GrowsKept ==
  ASSUME IInv, NEW v \in Request, Grows(v), NEW i \in Id, NEW since \in 0..MaxTime, since <= time,
         Kept(<<"candidate", i>>, since, ProfileTTL)
  PROVE  Kept(<<"candidate", i>>, since, ProfileTTL)'
<1> DEFINE k == <<"candidate", i>>
<1>1. /\ k \in DOMAIN redis /\ redis[k].until >= since + ProfileTTL /\ redis[k].until \in Nat
      /\ time \in Nat /\ since \in Nat /\ ProfileTTL \in Nat
  BY Constants DEF Kept, Live, IInv, RedisInv, Bounds
<1>2. k \in DOMAIN redis' /\ (redis'[k] = redis[k] \/ redis'[k].until = time + ProfileTTL)
  BY <1>1 DEF Grows, Live
<1>3. redis'[k].until >= since + ProfileTTL
  <2>1. CASE redis'[k] = redis[k]
    BY <1>1, <2>1
  <2>2. CASE redis'[k].until = time + ProfileTTL
    BY <1>1, <2>2
  <2>. QED BY <1>2, <2>1, <2>2
<1>. QED BY <1>2, <1>3 DEF Kept, Live

\* A request that a step leaves alone is owed what it was owed, and has it.
LEMMA GrowsKeeps ==
  ASSUME IInv, NEW v \in Request, PromiseInv(v), Grows(v), req'[v] = req[v]
  PROVE  PromiseInv(v)'
<1>0. req[v] \in Req /\ Carries(req[v]) /\ time' = time
  BY Here DEF Grows
<1>1. AnswerInv(req[v])'
  <2> SUFFICES ASSUME req[v].kind = "extract", req[v].at \in {"index", "ok"}, ~req[v].faulted,
                      time < req[v].since + ProfileTTL,
                      <<"candidate", req[v].holds.id>> \notin req[v].flushed
               PROVE  Kept(<<"candidate", req[v].holds.id>>, req[v].since, ProfileTTL)'
    BY <1>0 DEF AnswerInv, Kept, Live
  <2>1. PICK i \in Id, since \in 0..MaxTime : i = req[v].holds.id /\ since = req[v].since
    BY <1>0 DEF Req, Carries, Profiles
  <2>2. Kept(<<"candidate", i>>, since, ProfileTTL) /\ since <= time
    BY <1>0, <2>1 DEF PromiseInv, AnswerInv, Kept, Live, Carries
  <2>3. Kept(<<"candidate", i>>, since, ProfileTTL)'
    BY <2>2, GrowsKept
  <2>. QED BY <2>1, <2>3 DEF Kept, Live
<1>2. TokenInv(v, req[v])'
  BY <1>0 DEF PromiseInv, TokenInv, Kept, Live, Value, Grows
<1>3. OwedInv(req[v])'
  BY DEF PromiseInv, OwedInv, Live, Grows
<1>4. MissInv(v)'
  BY DEF PromiseInv, MissInv, Live, Grows, CacheKey, HoldsPermit
<1>. QED BY <1>1, <1>2, <1>3, <1>4 DEF PromiseInv

\* A request of which only the label and what it is not owed changes.
LEMMA Quiet ==
  ASSUME NEW r \in Request, NEW q, req'[r] = q,
         ~(q.kind = "extract" /\ q.at \in {"index", "ok"} /\ ~q.faulted),
         ~(q.kind = "share" /\ q.at = "ok"),
         ~(q.kind = "list" /\ (q.at = "gets" \/ (q.at = "ok" /\ ~q.faulted)))
  PROVE  AnswerInv(req[r])' /\ TokenInv(r, req[r])' /\ OwedInv(req[r])'
BY DEF AnswerInv, TokenInv, OwedInv

\* Keys that expire, or that a flush removes and is known to have removed.
LEMMA LostKeeps ==
  ASSUME IInv, NEW u \in Request, PromiseInv(u), NEW ks \in SUBSET RedisKey, NEW flush,
         req'[u] = Without(req[u], ks, flush), Remaining(ks), time' \in Nat, time <= time',
         flush = TRUE \/ \A k \in ks : k \in DOMAIN redis /\ redis[k].until <= time'
  PROVE  PromiseInv(u)'
<1>0. Carries(req[u]) /\ Stands(req[u]) /\ time \in Nat
  BY Here
<1>a. PICK q \in Req : q = req[u]
  BY Here
<1>b. PICK p : p = req'[u]
  OBVIOUS
<1>c. p = Without(q, ks, flush)
  BY <1>a, <1>b DEF Without
<1>1. /\ q = req[u] /\ p = req'[u] /\ p \in Req /\ Lost(p, q, ks)
      /\ q.kind # "none" /\ flush = TRUE => ks \subseteq p.flushed
  <2>1. /\ p \in Req /\ Lost(p, q, ks)
        /\ q.kind # "none" /\ flush = TRUE => ks \subseteq p.flushed
    BY <1>c, WithoutFacts
  <2>. QED BY <1>a, <1>b, <2>1
<1>2. /\ p.kind = q.kind /\ p.at = q.at /\ p.key = q.key /\ p.holds = q.holds
      /\ p.listed = q.listed /\ p.since = q.since /\ p.faulted = q.faulted
      /\ p.missed => q.missed /\ (q.kind # "none" => <<"nlp", q.key>> \notin ks)
      /\ p.owed \subseteq q.owed /\ q.flushed \subseteq p.flushed
      /\ q.kind # "none" => \A i \in p.owed : <<"candidate", i>> \notin ks
  BY <1>1 DEF Lost
<1>3. DOMAIN redis' = DOMAIN redis \ ks /\ \A k \in DOMAIN redis \ ks : redis'[k] = redis[k]
  BY DEF Remaining
<1>4. ASSUME NEW k, NEW ttl \in Nat, q.kind # "none", k \notin p.flushed,
             time' < q.since + ttl, Kept(k, q.since, ttl)
      PROVE  k \in DOMAIN redis' /\ redis'[k] = redis[k]
  <2>1. k \in DOMAIN redis /\ redis[k].until >= q.since + ttl
    BY <1>4 DEF Kept, Live
  <2>2. redis[k].until \in Nat /\ q.since \in Nat
    BY <2>1, Constants DEF IInv, RedisInv, Req
  <2>3. k \notin ks
    BY <1>1, <1>4, <2>1, <2>2
  <2>. QED BY <1>3, <2>1, <2>3
<1>5. AnswerInv(req[u])'
  <2> SUFFICES ASSUME p.kind = "extract", p.at \in {"index", "ok"}, ~p.faulted,
                      time' < p.since + ProfileTTL, <<"candidate", p.holds.id>> \notin p.flushed
               PROVE  Kept(<<"candidate", p.holds.id>>, p.since, ProfileTTL)'
    BY <1>1 DEF AnswerInv, Kept, Live
  <2>1. time < q.since + ProfileTTL /\ <<"candidate", q.holds.id>> \notin q.flushed
    <3>1. q.since \in Nat /\ ProfileTTL \in Nat
      BY Constants DEF Req
    <3>. QED BY <1>0, <1>2, <3>1
  <2>2. Kept(<<"candidate", q.holds.id>>, q.since, ProfileTTL)
    BY <1>1, <1>2, <2>1 DEF PromiseInv, AnswerInv, Kept, Live
  <2>3. /\ <<"candidate", q.holds.id>> \in DOMAIN redis'
        /\ redis'[<<"candidate", q.holds.id>>] = redis[<<"candidate", q.holds.id>>]
    BY <1>2, <1>4, <2>2, Constants
  <2>. QED BY <1>2, <2>2, <2>3 DEF Kept, Live
<1>6. TokenInv(u, req[u])'
  <2> SUFFICES ASSUME p.kind = "share", p.at = "ok",
                      time' < p.since + ReportTTL, <<"report", u>> \notin p.flushed
               PROVE  Kept(<<"report", u>>, p.since, ReportTTL)' /\ Value(<<"report", u>>)' = p.holds
    BY <1>1 DEF TokenInv, Kept, Live, Value
  <2>1. time < q.since + ReportTTL /\ <<"report", u>> \notin q.flushed
    <3>1. q.since \in Nat /\ ReportTTL \in Nat
      BY Constants DEF Req
    <3>. QED BY <1>0, <1>2, <3>1
  <2>2. Kept(<<"report", u>>, q.since, ReportTTL) /\ Value(<<"report", u>>) = q.holds
    BY <1>1, <1>2, <2>1 DEF PromiseInv, TokenInv, Kept, Live, Value
  <2>3. <<"report", u>> \in DOMAIN redis' /\ redis'[<<"report", u>>] = redis[<<"report", u>>]
    BY <1>2, <1>4, <2>2, Constants
  <2>. QED BY <1>2, <2>2, <2>3 DEF Kept, Live, Value
<1>7. OwedInv(req[u])'
  <2>1. q.kind = "list" /\ q.at = "gets" =>
          q.owed \subseteq q.listed /\ \A i \in q.owed : <<"candidate", i>> \in DOMAIN redis
    BY <1>1 DEF PromiseInv, OwedInv, Live
  <2>2. q.kind = "list" /\ q.at = "ok" /\ ~q.faulted => q.owed = {}
    BY <1>1 DEF PromiseInv, OwedInv
  <2>3. p.kind = "list" /\ p.at = "gets" =>
          p.owed \subseteq p.listed /\ \A i \in p.owed : <<"candidate", i>> \in DOMAIN redis'
    BY <1>2, <1>3, <2>1
  <2>4. p.kind = "list" /\ p.at = "ok" /\ ~p.faulted => p.owed = {}
    BY <1>2, <2>2
  <2>. QED BY <1>1, <2>3, <2>4 DEF OwedInv, Live
<1>8. MissInv(u)'
  <2>1. q.missed /\ <<"nlp", q.key>> \notin DOMAIN redis =>
          q.kind = "extract" /\ q.at \in {"recheck", "context", "call", "cache"}
    BY <1>1 DEF PromiseInv, MissInv, Live, CacheKey, HoldsPermit
  <2>2. q.missed => q.kind # "none"
    BY <1>0, <1>1 DEF Carries
  <2>3. p.missed /\ <<"nlp", p.key>> \notin DOMAIN redis' =>
          p.kind = "extract" /\ p.at \in {"recheck", "context", "call", "cache"}
    BY <1>2, <1>3, <2>1, <2>2
  <2>. QED BY <1>1, <2>3 DEF MissInv, Live, CacheKey, HoldsPermit
<1>. QED BY <1>5, <1>6, <1>7, <1>8 DEF PromiseInv

------------------------------------------------------------------------------
(* What a request is owed, by its own steps *)

OthersKept(r) == \A u \in Request \ {r} : PromiseInv(u)'

\* A step of one request that leaves the store alone.
LEMMA StillOthers ==
  ASSUME IInv, Promises, NEW r \in Request, NEW q, Reach(r, q), UNCHANGED <<redis, time>>
  PROVE  OthersKept(r) /\ Grows(r) /\ req'[r] = q
<1>1. req'[r] = q /\ \A u \in Request \ {r} : req'[u] = req[u]
  BY Here DEF Reach
<1>2. \A u \in Request : Grows(u)
  BY StillGrows
<1>. QED BY <1>1, <1>2, GrowsKeeps DEF OthersKept, Promises

\* A step of one request that writes a key.
LEMMA PutOthers ==
  ASSUME IInv, Promises, NEW r \in Request, NEW q, Reach(r, q), time' = time,
         NEW k, NEW v, NEW ttl, Put(k, v, ttl),
         \A i \in Id : k = <<"candidate", i>> => ttl = ProfileTTL,
         \A u \in Request \ {r} : k # <<"report", u>>
  PROVE  OthersKept(r) /\ req'[r] = q
<1>1. req'[r] = q /\ \A u \in Request \ {r} : req'[u] = req[u]
  BY Here DEF Reach
<1>2. \A u \in Request \ {r} : Grows(u)
  BY PutGrows
<1>. QED BY <1>1, <1>2, GrowsKeeps DEF OthersKept, Promises

\* Both hold of all requests, once the one that took the step has what it is owed.
LEMMA Together ==
  ASSUME NEW r \in Request, OthersKept(r), PromiseInv(r)'
  PROVE  Promises'
BY DEF OthersKept, Promises

\* A miss is paid for by a permit, or has filled the cache.
LEMMA MissKept ==
  ASSUME NEW r \in Request, PromiseInv(r), NEW q, req'[r] = q,
         \/ ~q.missed
         \/ q.kind = "extract" /\ q.at \in {"recheck", "context", "call", "cache"}
         \/ <<"nlp", q.key>> \in DOMAIN redis'
         \/ /\ q.missed = req[r].missed /\ q.key = req[r].key /\ ~HoldsPermit(r)
            /\ \A k \in DOMAIN redis : k \in DOMAIN redis'
  PROVE  MissInv(r)'
BY DEF PromiseInv, MissInv, Live, CacheKey, HoldsPermit

\* Going to a label.
LEMMA GotoReach ==
  ASSUME IInv, NEW r \in Request, NEW l, Goto(r, l)
  PROVE  /\ Reach(r, [req[r] EXCEPT !.at = l])
         /\ [req[r] EXCEPT !.at = l].at = l
         /\ \A f \in {"kind", "key", "holds", "listed", "missed", "owed", "since", "flushed", "faulted"} :
              [req[r] EXCEPT !.at = l][f] = req[r][f]
BY Here DEF Goto, Reach, Req

\* A request that becomes one that is owed nothing yet.
LEMMA QuietStep ==
  ASSUME IInv, Promises, NEW r \in Request, NEW q, Reach(r, q), UNCHANGED <<redis, time>>,
         ~(q.kind = "extract" /\ q.at \in {"index", "ok"} /\ ~q.faulted),
         ~(q.kind = "share" /\ q.at = "ok"),
         ~(q.kind = "list" /\ (q.at = "gets" \/ (q.at = "ok" /\ ~q.faulted))),
         \/ ~q.missed
         \/ q.kind = "extract" /\ q.at \in {"recheck", "context", "call", "cache"}
         \/ q.missed = req[r].missed /\ q.key = req[r].key /\ ~HoldsPermit(r)
         \/ <<"nlp", q.key>> \in DOMAIN redis
  PROVE  Promises'
<1>1. OthersKept(r) /\ Grows(r) /\ req'[r] = q /\ PromiseInv(r)
  BY StillOthers DEF Promises
<1>2. MissInv(r)'
  BY <1>1, MissKept DEF Grows
<1>. QED BY <1>1, <1>2, Quiet, Together DEF PromiseInv

LEMMA ArrivalKeeps ==
  ASSUME IInv, Promises, NEW r \in Request,
         Extract(r) \/ Trigger(r) \/ List(r) \/ Share(r) \/ Insert(r) \/ Delete(r) \/ Flush(r)
  PROVE  Promises'
<1>1. ASSUME NEW q, Arrive(r, q), ~q.missed, q.at \notin {"index", "ok", "gets"}
      PROVE  Promises'
  BY <1>1, QuietStep DEF Arrive
<1>2. CASE Extract(r)
  <2>1. PICK key \in Key, id \in Id : Arrive(r, [Idle EXCEPT !.kind = "extract", !.at = "check", !.key = key, !.id = id])
    BY <1>2 DEF Extract
  <2> DEFINE q == [Idle EXCEPT !.kind = "extract", !.at = "check", !.key = key, !.id = id]
  <2>2. q.missed = FALSE /\ q.at = "check"
    BY DEF Idle
  <2> HIDE DEF q
  <2>3. Arrive(r, q)
    BY <2>1 DEF q
  <2>. QED BY <1>1, <2>2, <2>3
<1>3. CASE Trigger(r)
  <2>1. PICK key \in Key, id \in Id : Arrive(r, [Idle EXCEPT !.kind = "dag", !.at = "check", !.key = key, !.id = id])
    BY <1>3 DEF Trigger
  <2> DEFINE q == [Idle EXCEPT !.kind = "dag", !.at = "check", !.key = key, !.id = id]
  <2>2. q.missed = FALSE /\ q.at = "check"
    BY DEF Idle
  <2> HIDE DEF q
  <2>3. Arrive(r, q)
    BY <2>1 DEF q
  <2>. QED BY <1>1, <2>2, <2>3
<1>4. CASE List(r)
  <2>1. Arrive(r, [Idle EXCEPT !.kind = "list", !.at = "members"])
    BY <1>4 DEF List
  <2> DEFINE q == [Idle EXCEPT !.kind = "list", !.at = "members"]
  <2>2. q.missed = FALSE /\ q.at = "members"
    BY DEF Idle
  <2> HIDE DEF q
  <2>3. Arrive(r, q)
    BY <2>1 DEF q
  <2>. QED BY <1>1, <2>2, <2>3
<1>5. CASE Flush(r)
  <2>1. Arrive(r, [Idle EXCEPT !.kind = "flush", !.at = "keys"])
    BY <1>5 DEF Flush
  <2> DEFINE q == [Idle EXCEPT !.kind = "flush", !.at = "keys"]
  <2>2. q.missed = FALSE /\ q.at = "keys"
    BY DEF Idle
  <2> HIDE DEF q
  <2>3. Arrive(r, q)
    BY <2>1 DEF q
  <2>. QED BY <1>1, <2>2, <2>3
<1>6. CASE Share(r)
  <2>1. PICK x \in Result : Arrive(r, [Idle EXCEPT !.kind = "share", !.at = "load", !.holds = x])
    BY <1>6 DEF Share
  <2> DEFINE q == [Idle EXCEPT !.kind = "share", !.at = "load", !.holds = x]
  <2>2. q.missed = FALSE /\ q.at = "load"
    BY DEF Idle
  <2> HIDE DEF q
  <2>3. Arrive(r, q)
    BY <2>1 DEF q
  <2>. QED BY <1>1, <2>2, <2>3
<1>7. CASE Insert(r)
  <2>1. PICK i \in Id : Arrive(r, [Idle EXCEPT !.kind = "insert", !.at = "merge", !.id = i])
    BY <1>7 DEF Insert
  <2> DEFINE q == [Idle EXCEPT !.kind = "insert", !.at = "merge", !.id = i]
  <2>2. q.missed = FALSE /\ q.at = "merge"
    BY DEF Idle
  <2> HIDE DEF q
  <2>3. Arrive(r, q)
    BY <2>1 DEF q
  <2>. QED BY <1>1, <2>2, <2>3
<1>8. CASE Delete(r)
  <2>1. PICK i \in Id : Arrive(r, [Idle EXCEPT !.kind = "delete", !.at = "remove", !.id = i])
    BY <1>8 DEF Delete
  <2> DEFINE q == [Idle EXCEPT !.kind = "delete", !.at = "remove", !.id = i]
  <2>2. q.missed = FALSE /\ q.at = "remove"
    BY DEF Idle
  <2> HIDE DEF q
  <2>3. Arrive(r, q)
    BY <2>1 DEF q
  <2>. QED BY <1>1, <2>2, <2>3
<1>. QED BY <1>2, <1>3, <1>4, <1>5, <1>6, <1>7, <1>8

\* A look at the cache: a miss counts only under the semaphore.
LEMMA LookupKeeps ==
  ASSUME IInv, Promises, NEW r \in Request, req[r].at \in {"check", "recheck"},
         NEW onMiss \in {"recheck", "permit", "context"},
         onMiss # "context" => ~HoldsPermit(r),
         Lookup(r, onMiss)
  PROVE  Promises'
<1>0. req[r] \in Req /\ req[r].kind \in {"extract", "dag"} /\ UNCHANGED <<redis, time>>
  BY Here DEF Stands, Lookup
<1>1. ASSUME Live(CacheKey(r)),
             Reach(r, [req[r] EXCEPT !.holds = Value(CacheKey(r)), !.at = Served(r)])
      PROVE  Promises'
  <2> DEFINE q == [req[r] EXCEPT !.holds = Value(CacheKey(r)), !.at = Served(r)]
  <2>1. q.kind = req[r].kind /\ q.at \in {"write", "persist"} /\ q.key = req[r].key
    BY <1>0 DEF Req, Served
  <2>2. <<"nlp", q.key>> \in DOMAIN redis
    BY <1>1, <2>1 DEF Live, CacheKey
  <2> HIDE DEF q
  <2>3. Reach(r, q)
    BY <1>1 DEF q
  <2>. QED BY <1>0, <2>1, <2>2, <2>3, QuietStep
<1>2. ASSUME NEW m \in BOOLEAN, m => onMiss = "context" /\ req[r].kind = "extract",
             Reach(r, [req[r] EXCEPT !.missed = m, !.at = onMiss])
      PROVE  Promises'
  <2> DEFINE q == [req[r] EXCEPT !.missed = m, !.at = onMiss]
  <2>1. q.kind = req[r].kind /\ q.at = onMiss /\ q.missed = m
    BY <1>0 DEF Req
  <2> HIDE DEF q
  <2>2. Reach(r, q)
    BY <1>2 DEF q
  <2>. QED BY <1>0, <1>2, <2>1, <2>2, QuietStep
<1>3. ASSUME Goto(r, onMiss) PROVE Promises'
  <2> DEFINE q == [req[r] EXCEPT !.at = onMiss]
  <2>1. Reach(r, q) /\ q.at = onMiss /\ q.kind = req[r].kind /\ q.key = req[r].key /\ q.missed = req[r].missed
    BY <1>0, <1>3, GotoReach DEF Req
  <2>2. q.missed => q.kind = "extract"
    BY <2>1, Here DEF Carries
  <2> HIDE DEF q
  <2>. QED BY <1>0, <2>1, <2>2, QuietStep
<1>4. ASSUME Reach(r, [req[r] EXCEPT !.missed = (onMiss = "context" /\ req[r].kind = "extract"),
                                     !.at = onMiss])
      PROVE  Promises'
  <2> DEFINE m == (onMiss = "context" /\ req[r].kind = "extract")
  <2>1. m \in BOOLEAN /\ (m => onMiss = "context" /\ req[r].kind = "extract")
    OBVIOUS
  <2>2. Reach(r, [req[r] EXCEPT !.missed = m, !.at = onMiss])
    BY <1>4
  <2> HIDE DEF m
  <2>. QED BY <1>2, <2>1, <2>2
<1>. QED BY <1>1, <1>3, <1>4 DEF Lookup

LEMMA CallKeeps ==
  ASSUME IInv, Promises, NEW r \in Request,
         Check(r) \/ Acquire(r) \/ Recheck(r) \/ Context(r) \/ Call(r)
  PROVE  Promises'
<1>0. req[r] \in Req /\ Stands(req[r]) /\ Carries(req[r])
  BY Here
<1>1. CASE Check(r)
  <2>1. ~HoldsPermit(r)
    BY <1>1 DEF Check, HoldsPermit
  <2>. QED BY <1>1, <2>1, LookupKeeps DEF Check, NotCached
<1>2. CASE Recheck(r)
  BY <1>2, LookupKeeps DEF Recheck
<1>3. ASSUME NEW l \in {"recheck", "call"}, Goto(r, l), UNCHANGED <<redis, time>>
      PROVE  Promises'
  <2> DEFINE q == [req[r] EXCEPT !.at = l]
  <2>1. Reach(r, q) /\ q.at = l /\ q.missed = req[r].missed /\ q.kind = req[r].kind
    BY <1>0, <1>3, GotoReach DEF Req
  <2>2. q.missed => q.kind = "extract"
    BY <1>0, <2>1 DEF Carries
  <2> HIDE DEF q
  <2>. QED BY <1>3, <2>1, <2>2, QuietStep
<1>4. ASSUME Unextracted(r), req[r].kind \in {"extract", "dag"}, UNCHANGED <<redis, time>> PROVE Promises'
  <2> DEFINE q == [req[r] EXCEPT !.missed = FALSE,
                     !.at = IF req[r].kind = "dag" THEN "write" ELSE "error"]
  <2>1. q.at \in {"write", "error"} /\ ~q.missed /\ q.kind = req[r].kind
    BY <1>0 DEF Req
  <2> HIDE DEF q
  <2>2. Reach(r, q)
    BY <1>4 DEF q, Unextracted
  <2>. QED BY <1>4, <2>1, <2>2, QuietStep
<1>5. CASE Acquire(r)
  BY <1>3, <1>5 DEF Acquire
<1>6. CASE Context(r)
  BY <1>0, <1>3, <1>4, <1>6 DEF Context, Stands
<1>7. CASE Call(r)
  <2>1. ASSUME Reach(r, [req[r] EXCEPT !.holds = Profile(req[r].key, req[r].id), !.at = "cache"])
        PROVE  Promises'
    <3> DEFINE q == [req[r] EXCEPT !.holds = Profile(req[r].key, req[r].id), !.at = "cache"]
    <3>1. q.at = "cache" /\ q.missed = req[r].missed /\ q.kind = req[r].kind
      BY <1>0 DEF Req
    <3>2. q.missed => q.kind = "extract"
      BY <1>0, <3>1 DEF Carries
    <3> HIDE DEF q
    <3>3. Reach(r, q)
      BY <2>1 DEF q
    <3>. QED BY <1>7, <3>1, <3>2, <3>3, QuietStep DEF Call
  <2>. QED BY <1>0, <1>4, <1>7, <2>1 DEF Call, Stands
<1>. QED BY <1>1, <1>2, <1>5, <1>6, <1>7

\* Caching: what the call gave is in the cache before the permit is given back.
LEMMA CacheKeeps ==
  ASSUME IInv, Promises, NEW r \in Request, Cache(r)
  PROVE  Promises'
<1>0. /\ req[r] \in Req /\ req[r].kind \in {"extract", "dag"} /\ req[r].key \in Key
      /\ Served(r) \in {"write", "persist"} /\ time' = time /\ PromiseInv(r)
  BY Here DEF Cache, Stands, Carries, Served, Promises
<1>1. PICK q : /\ Reach(r, q) /\ q.kind = req[r].kind /\ q.at = Served(r) /\ q.key = req[r].key
               /\ ~q.missed \/ Put(CacheKey(r), req[r].holds, CacheTTL)
               /\ UNCHANGED redis \/ Put(CacheKey(r), req[r].holds, CacheTTL)
  <2>1. CASE Goto(r, Served(r)) /\ Put(CacheKey(r), req[r].holds, CacheTTL)
    <3> DEFINE q == [req[r] EXCEPT !.at = Served(r)]
    <3>1. Reach(r, q) /\ q.kind = req[r].kind /\ q.at = Served(r) /\ q.key = req[r].key
      BY <1>0, <2>1, GotoReach DEF Req
    <3> HIDE DEF q
    <3>. QED BY <2>1, <3>1
  <2>2. CASE /\ Reach(r, [req[r] EXCEPT !.missed = FALSE, !.at = Served(r)])
             /\ UNCHANGED redis \/ Put(CacheKey(r), req[r].holds, CacheTTL)
    <3> DEFINE q == [req[r] EXCEPT !.missed = FALSE, !.at = Served(r)]
    <3>1. q.kind = req[r].kind /\ q.at = Served(r) /\ q.key = req[r].key /\ q.missed = FALSE
      BY <1>0 DEF Req
    <3>2. Reach(r, q)
      BY <2>2
    <3> HIDE DEF q
    <3>. QED BY <2>2, <3>1, <3>2
  <2>. QED BY <2>1, <2>2 DEF Cache
<1>2. CASE UNCHANGED redis /\ ~q.missed
  BY <1>0, <1>1, <1>2, QuietStep
<1>3. CASE Put(CacheKey(r), req[r].holds, CacheTTL)
  <2>1. \A i \in Id : CacheKey(r) # <<"candidate", i>>
    BY DEF CacheKey
  <2>2. \A u \in Request \ {r} : CacheKey(r) # <<"report", u>>
    BY DEF CacheKey
  <2>3. OthersKept(r) /\ req'[r] = q
    BY <1>0, <1>1, <1>3, <2>1, <2>2, PutOthers
  <2>4. <<"nlp", q.key>> \in DOMAIN redis'
    BY <1>1, <1>3, PutFacts DEF CacheKey
  <2>5. MissInv(r)'
    BY <1>0, <2>3, <2>4, MissKept
  <2>. QED BY <1>0, <1>1, <2>3, <2>5, Quiet, Together DEF PromiseInv
<1>. QED BY <1>1, <1>2, <1>3

\* Storing the profile, and listing it: the answer is found where it says.
LEMMA PersistKeeps ==
  ASSUME IInv, Promises, NEW r \in Request, Persist(r) \/ AddToIndex(r)
  PROVE  Promises'
<1>0. /\ req[r] \in Req /\ req[r].kind = "extract" /\ req[r].holds \in Profiles
      /\ time' = time /\ time \in Nat /\ PromiseInv(r)
      /\ ~HoldsPermit(r) /\ StoredId(r) \in Id
  BY Here DEF Persist, AddToIndex, Stands, Carries, HoldsPermit, Promises, StoredId, Profiles
<1>1. PICK k, v, ttl : /\ UNCHANGED redis \/ Put(k, v, ttl)
                       /\ \/ k = <<"candidate", StoredId(r)>> /\ ttl = ProfileTTL
                          \/ k = Index
                       /\ Persist(r) => k = <<"candidate", StoredId(r)>>
                       /\ Persist(r) /\ req'[r].at = "index" => Put(k, v, ttl)
                       /\ ~Persist(r) => k = Index
  <2>1. CASE Persist(r)
    <3> DEFINE k == <<"candidate", StoredId(r)>>
    <3>1. CASE Put(k, req[r].holds, ProfileTTL)
      BY <2>1, <3>1
    <3>2. CASE Unsaved(r)
      <4>1. req'[r].at = "ok"
        BY <1>0, <3>2, Here DEF Unsaved, Reach, Req
      <4>2. UNCHANGED redis \/ Put(k, req[r].holds, ProfileTTL)
        BY <2>1 DEF Persist
      <4>. QED BY <2>1, <4>1, <4>2
    <3>. QED BY <2>1, <3>1, <3>2 DEF Persist
  <2>2. CASE AddToIndex(r) /\ ~Persist(r)
    BY <2>2 DEF AddToIndex, PutIndex
  <2>. QED BY <2>1, <2>2
<1>2. PICK q : /\ Reach(r, q) /\ q.kind = "extract" /\ q.key = req[r].key /\ q.missed = req[r].missed
               /\ q.holds = req[r].holds /\ q.flushed = req[r].flushed
               /\ \/ q.at = "ok" /\ q.faulted
                  \/ q.at = "index" /\ q.since = time /\ Persist(r)
                  \/ AddToIndex(r) /\ q.at = "ok" /\ q.since = req[r].since /\ q.faulted = req[r].faulted
  <2>1. CASE Unsaved(r)
    <3> DEFINE q == [req[r] EXCEPT !.at = "ok", !.faulted = TRUE]
    <3>1. /\ q.kind = "extract" /\ q.key = req[r].key /\ q.missed = req[r].missed
          /\ q.holds = req[r].holds /\ q.flushed = req[r].flushed /\ q.at = "ok" /\ q.faulted = TRUE
      BY <1>0 DEF Req
    <3>2. Reach(r, q)
      BY <2>1 DEF Unsaved
    <3> HIDE DEF q
    <3>. QED BY <3>1, <3>2
  <2>2. CASE Persist(r) /\ Reach(r, [req[r] EXCEPT !.at = "index", !.since = time])
    <3> DEFINE q == [req[r] EXCEPT !.at = "index", !.since = time]
    <3>1. /\ q.kind = "extract" /\ q.key = req[r].key /\ q.missed = req[r].missed
          /\ q.holds = req[r].holds /\ q.flushed = req[r].flushed /\ q.at = "index" /\ q.since = time
      BY <1>0 DEF Req
    <3>2. Reach(r, q)
      BY <2>2
    <3> HIDE DEF q
    <3>. QED BY <2>2, <3>1, <3>2
  <2>3. CASE AddToIndex(r) /\ Goto(r, "ok")
    <3> DEFINE q == [req[r] EXCEPT !.at = "ok"]
    <3>1. /\ q.kind = "extract" /\ q.key = req[r].key /\ q.missed = req[r].missed
          /\ q.holds = req[r].holds /\ q.flushed = req[r].flushed /\ q.at = "ok"
          /\ q.since = req[r].since /\ q.faulted = req[r].faulted
      BY <1>0 DEF Req
    <3>2. Reach(r, q)
      BY <2>3, GotoReach
    <3> HIDE DEF q
    <3>. QED BY <2>3, <3>1, <3>2
  <2>. QED BY <2>1, <2>2, <2>3 DEF Persist, AddToIndex
<1>3. /\ \A u \in Request : k # <<"report", u>>
      /\ \A i \in Id : k = <<"candidate", i>> => ttl = ProfileTTL
      /\ k \notin {<<"candidate", i>> : i \in Id} \/ k = <<"candidate", StoredId(r)>>
  BY <1>1 DEF Index
<1>4. OthersKept(r) /\ req'[r] = q /\ Grows(r)
  <2>1. CASE UNCHANGED redis
    BY <1>0, <1>2, <2>1, StillOthers
  <2>2. CASE Put(k, v, ttl)
    BY <1>0, <1>2, <1>3, <2>2, PutOthers, PutGrows
  <2>. QED BY <1>1, <2>1, <2>2
<1>5. MissInv(r)'
  BY <1>0, <1>2, <1>4, MissKept DEF Grows
<1>6. TokenInv(r, req[r])' /\ OwedInv(req[r])'
  BY <1>2, <1>4 DEF TokenInv, OwedInv
<1>7. AnswerInv(req[r])'
  <2>1. CASE q.at = "ok" /\ q.faulted
    BY <1>4, <2>1 DEF AnswerInv
  <2>2. CASE q.at = "index" /\ q.since = time /\ Persist(r)
    <3>1. k = <<"candidate", q.holds.id>> /\ Put(k, v, ttl) /\ ttl = ProfileTTL
      BY <1>1, <1>2, <1>3, <1>4, <2>2, <1>0 DEF StoredId
    <3>2. k \in DOMAIN redis' /\ redis'[k].until = time + ProfileTTL
      <4>0. Put(k, v, ttl)
        BY <3>1
      <4>1. redis'[k] = [value |-> v, until |-> time + ttl] /\ k \in DOMAIN redis'
        BY <4>0 DEF Put
      <4>. QED BY <3>1, <4>1
    <3>3. time + ProfileTTL >= q.since + ProfileTTL
      BY <1>0, <2>2, Constants
    <3>. QED BY <1>4, <3>1, <3>2, <3>3 DEF AnswerInv, Kept, Live
  <2>3. CASE /\ AddToIndex(r) /\ q.at = "ok" /\ q.since = req[r].since
             /\ q.faulted = req[r].faulted
    <3> SUFFICES ASSUME ~q.faulted, time < q.since + ProfileTTL,
                        <<"candidate", q.holds.id>> \notin q.flushed
                 PROVE  Kept(<<"candidate", q.holds.id>>, q.since, ProfileTTL)'
      BY <1>0, <1>4 DEF AnswerInv, Kept, Live
    <3>1. PICK i \in Id, since \in 0..MaxTime : i = q.holds.id /\ since = q.since
      BY <1>0, <1>2, <2>3 DEF Req, Profiles
    <3>2. req[r].at = "index" /\ req[r].since <= time
      BY <2>3, Here DEF AddToIndex, Carries
    <3>3. Kept(<<"candidate", i>>, since, ProfileTTL) /\ since <= time
      BY <1>0, <1>2, <2>3, <3>1, <3>2 DEF PromiseInv, AnswerInv, Kept, Live
    <3>4. Kept(<<"candidate", i>>, since, ProfileTTL)'
      BY <1>4, <3>3, GrowsKept
    <3>. QED BY <3>1, <3>4 DEF Kept, Live
  <2>. QED BY <1>2, <2>1, <2>2, <2>3
<1>. QED BY <1>4, <1>5, <1>6, <1>7, Together DEF PromiseInv

\* With no more members than the limit, every one of them is read.
LEMMA AllListed ==
  ASSUME NEW S \in SUBSET Id, ~(Cardinality(S) > Limit), NEW s \in FirstOf(S)
  PROVE  s = S
<1>1. IsFiniteSet(S)
  BY Constants, FS_Subset
<1>2. Cardinality(S) \in Nat
  BY <1>1, FS_CardinalityType
<1>3. s \subseteq S /\ Cardinality(s) = Cardinality(S)
  BY <1>2, Constants DEF FirstOf
<1>. QED BY <1>1, <1>3, FS_Subset

\* A list is owed what it has not read yet.
LEMMA ReadKeeps ==
  ASSUME IInv, Promises, NEW r \in Request, ReadMembers(r) \/ ReadListed(r)
  PROVE  Promises'
<1>0. /\ req[r] \in Req /\ req[r].kind = "list" /\ ~req[r].missed
      /\ UNCHANGED <<redis, time>> /\ Members \in SUBSET Id /\ PromiseInv(r)
  BY Here DEF ReadMembers, ReadListed, Stands, Carries, Members, RedisInv, Promises
<1>1. ASSUME NEW q, Reach(r, q), q.kind = "list", q.missed = FALSE,
             q.at = "gets" => q.owed \subseteq q.listed /\ \A i \in q.owed : Live(<<"candidate", i>>),
             q.at = "ok" /\ ~q.faulted => q.owed = {}
      PROVE  Promises'
  <2>1. OthersKept(r) /\ req'[r] = q
    BY <1>0, <1>1, StillOthers
  <2>2. AnswerInv(req[r])' /\ TokenInv(r, req[r])'
    BY <1>1, <2>1 DEF AnswerInv, TokenInv
  <2>3. OwedInv(req[r])'
    BY <1>0, <1>1, <2>1 DEF OwedInv, Live
  <2>4. MissInv(r)'
    BY <1>0, <1>1, <2>1, MissKept
  <2>. QED BY <2>1, <2>2, <2>3, <2>4, Together DEF PromiseInv
<1>2. ASSUME Reach(r, [req[r] EXCEPT !.at = "ok", !.faulted = TRUE]) PROVE Promises'
  <2> DEFINE q == [req[r] EXCEPT !.at = "ok", !.faulted = TRUE]
  <2>1. q.kind = "list" /\ q.missed = FALSE /\ q.at = "ok" /\ q.faulted = TRUE
    BY <1>0 DEF Req
  <2>2. Reach(r, q)
    BY <1>2
  <2> HIDE DEF q
  <2>. QED BY <1>1, <2>1, <2>2
<1>3. CASE ReadMembers(r)
  <2>1. ASSUME NEW ids \in FirstOf(Members),
               Reach(r, [req[r] EXCEPT !.listed = ids, !.at = "gets",
                      !.owed = IF Cardinality(Members) > Limit THEN {}
                               ELSE {i \in Members : Live(<<"candidate", i>>)}])
        PROVE  Promises'
    <3> DEFINE owed == IF Cardinality(Members) > Limit THEN {}
                       ELSE {i \in Members : Live(<<"candidate", i>>)}
    <3> DEFINE q == [req[r] EXCEPT !.listed = ids, !.at = "gets", !.owed = owed]
    <3>1. owed \subseteq ids
      <4>1. CASE Cardinality(Members) > Limit
        BY <4>1
      <4>2. CASE ~(Cardinality(Members) > Limit)
        <5>1. PICK S \in SUBSET Id : S = Members
          BY <1>0
        <5>2. ids = S
          BY <2>1, <4>2, <5>1, AllListed DEF FirstOf
        <5>. QED BY <5>1, <5>2
      <4>. QED BY <4>1, <4>2
    <3>2. \A i \in owed : Live(<<"candidate", i>>)
      OBVIOUS
    <3>3. Reach(r, q)
      BY <2>1
    <3> HIDE DEF owed
    <3>4. q.kind = "list" /\ q.missed = FALSE /\ q.at = "gets" /\ q.owed = owed /\ q.listed = ids
      BY <1>0 DEF Req
    <3> HIDE DEF q
    <3>. QED BY <1>1, <3>1, <3>2, <3>3, <3>4
  <2>. QED BY <1>2, <1>3, <2>1 DEF ReadMembers
<1>4. CASE ReadListed(r)
  <2>0. req[r].owed \subseteq req[r].listed /\ \A i \in req[r].owed : Live(<<"candidate", i>>)
    BY <1>0, <1>4 DEF PromiseInv, OwedInv, ReadListed
  <2>1. ASSUME req[r].listed = {}, Goto(r, "ok") PROVE Promises'
    <3> DEFINE q == [req[r] EXCEPT !.at = "ok"]
    <3>1. q.kind = "list" /\ q.missed = FALSE /\ q.at = "ok" /\ q.owed = {}
      BY <1>0, <2>0, <2>1 DEF Req
    <3>2. Reach(r, q)
      BY <2>1, GotoReach
    <3> HIDE DEF q
    <3>. QED BY <1>1, <3>1, <3>2
  <2>2. ASSUME NEW i, Reach(r, Listed(req[r], i)) PROVE Promises'
    <3> DEFINE owed == IF Live(<<"candidate", i>>) THEN req[r].owed \ {i} ELSE req[r].owed
    <3> DEFINE q == [req[r] EXCEPT !.listed = @ \ {i}, !.owed = owed]
    <3>1. Reach(r, q)
      BY <2>2 DEF Listed
    <3>2. owed \subseteq req[r].listed \ {i} /\ \A j \in owed : Live(<<"candidate", j>>)
      BY <2>0
    <3> HIDE DEF owed
    <3>3. /\ q.kind = "list" /\ q.missed = FALSE /\ q.at = "gets" /\ q.owed = owed
          /\ q.listed = req[r].listed \ {i}
      BY <1>0, <1>4 DEF Req, ReadListed
    <3> HIDE DEF q
    <3>. QED BY <1>1, <3>1, <3>2, <3>3
  <2>. QED BY <1>2, <1>4, <2>1, <2>2 DEF ReadListed
<1>. QED BY <1>3, <1>4

\* A token is handed out once its report is stored.
LEMMA ReportKeeps ==
  ASSUME IInv, Promises, NEW r \in Request, Load(r) \/ StoreReport(r)
  PROVE  Promises'
<1>0. /\ req[r] \in Req /\ req[r].kind = "share" /\ req[r].missed = FALSE
      /\ time' = time /\ time \in Nat /\ PromiseInv(r)
  BY Here DEF Load, StoreReport, Stands, Carries, Promises, Req
<1>1. ASSUME NEW l, l # "ok", Goto(r, l), UNCHANGED redis PROVE Promises'
  <2> DEFINE q == [req[r] EXCEPT !.at = l]
  <2>1. q.kind = "share" /\ q.missed = FALSE /\ q.at = l
    BY <1>0 DEF Req
  <2>2. Reach(r, q)
    BY <1>1, GotoReach
  <2> HIDE DEF q
  <2>. QED BY <1>0, <1>1, <2>1, <2>2, QuietStep
<1>2. ASSUME NEW q, Reach(r, q), q.kind = "share", q.missed = FALSE, q.holds = req[r].holds,
             q.at = "ok" => q.since = time, PutReport(r)
      PROVE  Promises'
  <2> DEFINE k == <<"report", r>>
  <2>0. Put(k, req[r].holds, ReportTTL)
    BY <1>2 DEF PutReport
  <2>1. OthersKept(r) /\ req'[r] = q
    <3>1. \A u \in Request \ {r} : k # <<"report", u>>
      OBVIOUS
    <3>2. \A i \in Id : k # <<"candidate", i>>
      OBVIOUS
    <3> HIDE DEF k
    <3>. QED BY <1>0, <1>2, <2>0, <3>1, <3>2, PutOthers
  <2>2. k \in DOMAIN redis' /\ redis'[k] = [value |-> req[r].holds, until |-> time + ReportTTL]
    BY <2>0 DEF Put
  <2>3. AnswerInv(req[r])' /\ OwedInv(req[r])'
    BY <1>2, <2>1 DEF AnswerInv, OwedInv
  <2>4. TokenInv(r, req[r])'
    <3>1. time + ReportTTL >= time + ReportTTL
      BY <1>0, Constants
    <3>. QED BY <1>2, <2>1, <2>2, <3>1 DEF TokenInv, Kept, Live, Value
  <2>5. MissInv(r)'
    BY <1>0, <1>2, <2>1, MissKept
  <2>. QED BY <2>1, <2>3, <2>4, <2>5, Together DEF PromiseInv
<1>3. CASE Load(r)
  BY <1>1, <1>3 DEF Load
<1>4. CASE StoreReport(r)
  <2>1. ASSUME Reach(r, [req[r] EXCEPT !.at = "ok", !.since = time]), PutReport(r) PROVE Promises'
    <3> DEFINE q == [req[r] EXCEPT !.at = "ok", !.since = time]
    <3>1. q.kind = "share" /\ q.missed = FALSE /\ q.holds = req[r].holds /\ q.since = time
      BY <1>0 DEF Req
    <3>2. Reach(r, q)
      BY <2>1
    <3> HIDE DEF q
    <3>. QED BY <1>2, <2>1, <3>1, <3>2
  <2>2. ASSUME Goto(r, "error"), PutReport(r) PROVE Promises'
    <3> DEFINE q == [req[r] EXCEPT !.at = "error"]
    <3>1. q.kind = "share" /\ q.missed = FALSE /\ q.holds = req[r].holds /\ q.at = "error"
      BY <1>0 DEF Req
    <3>2. Reach(r, q)
      BY <2>2, GotoReach
    <3> HIDE DEF q
    <3>. QED BY <1>2, <2>2, <3>1, <3>2
  <2>. QED BY <1>1, <1>4, <2>1, <2>2 DEF StoreReport
<1>. QED BY <1>3, <1>4

LEMMA ResultKeeps ==
  ASSUME IInv, Promises, NEW x \in Result, CacheResult(x)
  PROVE  Promises'
<1> DEFINE k == <<"sim", x>>
<1>1. Put(k, x, ResultTTL) /\ time' = time /\ req' = req
  BY DEF CacheResult
<1>2. (\A u \in Request : k # <<"report", u>>) /\ \A i \in Id : k # <<"candidate", i>>
  OBVIOUS
<1> HIDE DEF k
<1>3. \A u \in Request : Grows(u)
  BY <1>1, <1>2, PutGrows
<1>. QED BY <1>1, <1>3, GrowsKeeps DEF Promises

LEMMA StatementKeeps ==
  ASSUME IInv, Promises, NEW r \in Request, RunStatement(r)
  PROVE  Promises'
<1>0. /\ req[r] \in Req /\ req[r].kind \in {"insert", "delete", "dag"} /\ req[r].missed = FALSE
      /\ UNCHANGED <<redis, time>>
  BY Here DEF RunStatement, Stands, Carries, Req
<1>1. ASSUME NEW l, Goto(r, l) PROVE Promises'
  <2> DEFINE q == [req[r] EXCEPT !.at = l]
  <2>1. q.kind = req[r].kind /\ q.missed = FALSE
    BY <1>0 DEF Req
  <2>2. Reach(r, q)
    BY <1>1, GotoReach
  <2> HIDE DEF q
  <2>. QED BY <1>0, <2>1, <2>2, QuietStep
<1>2. ASSUME UNCHANGED req PROVE Promises'
  BY <1>0, <1>2, StillGrows, GrowsKeeps DEF Promises
<1>. QED BY <1>1, <1>2 DEF RunStatement

\* A day passes: what expires was owed no longer.
LEMMA TickKeeps ==
  ASSUME IInv, Promises, Tick
  PROVE  Promises'
<1> DEFINE expired == {k \in DOMAIN redis : redis[k].until <= time + 1}
<1>1. /\ time \in 0..MaxTime /\ time' = time + 1 /\ Remaining(expired)
      /\ req' = [q \in Request |-> Without(req[q], expired, FALSE)]
      /\ expired \in SUBSET RedisKey
  BY DEF Tick, IInv, Bounds, RedisInv
<1>2. time' \in Nat /\ time <= time'
  BY <1>1, Constants
<1>3. \A k \in expired : k \in DOMAIN redis /\ redis[k].until <= time'
  BY <1>1
<1>4. \A u \in Request : req'[u] = Without(req[u], expired, FALSE)
  BY <1>1
<1> HIDE DEF expired
<1>. QED BY <1>1, <1>2, <1>3, <1>4, LostKeeps DEF Promises

\* A flush: what it removes is known to have been flushed.
LEMMA FlushKeeps ==
  ASSUME IInv, Promises, NEW r \in Request, FlushSteps(r)
  PROVE  Promises'
<1>0. /\ req[r] \in Req /\ req[r].kind = "flush" /\ req[r].missed = FALSE
      /\ time' = time /\ time \in Nat /\ RedisInv
  BY Here DEF FlushSteps, FlushKeys, FlushDelete, Stands, Carries, Req
<1>1. ASSUME NEW l, Goto(r, l), UNCHANGED redis PROVE Promises'
  <2> DEFINE q == [req[r] EXCEPT !.at = l]
  <2>1. q.kind = "flush" /\ q.missed = FALSE
    BY <1>0 DEF Req
  <2>2. Reach(r, q)
    BY <1>1, GotoReach
  <2> HIDE DEF q
  <2>. QED BY <1>0, <1>1, <2>1, <2>2, QuietStep
<1>2. ASSUME Reach(r, [req[r] EXCEPT !.listed = DOMAIN redis, !.at = "delete"]), UNCHANGED redis
      PROVE  Promises'
  <2> DEFINE q == [req[r] EXCEPT !.listed = DOMAIN redis, !.at = "delete"]
  <2>1. q.kind = "flush" /\ q.missed = FALSE
    BY <1>0 DEF Req
  <2>2. Reach(r, q)
    BY <1>2
  <2> HIDE DEF q
  <2>. QED BY <1>0, <1>2, <2>1, <2>2, QuietStep
<1>3. ASSUME NEW ks \in SUBSET RedisKey, Remaining(ks), NEW l,
             req' = [q \in Request |-> IF q = r THEN [req[q] EXCEPT !.at = l]
                                       ELSE Without(req[q], ks, TRUE)]
      PROVE  Promises'
  <2>1. \A u \in Request \ {r} : req'[u] = Without(req[u], ks, TRUE)
    BY <1>3
  <2>2. ASSUME NEW u \in Request \ {r} PROVE PromiseInv(u)'
    <3>1. PromiseInv(u) /\ time' \in Nat /\ time <= time'
      BY <1>0 DEF Promises
    <3>2. PICK flush : flush = TRUE
      OBVIOUS
    <3>3. req'[u] = Without(req[u], ks, flush)
      BY <2>1, <3>2
    <3>. QED BY <1>3, <3>1, <3>2, <3>3, LostKeeps
  <2> DEFINE q == [req[r] EXCEPT !.at = l]
  <2>3. q.kind = "flush" /\ q.missed = FALSE
    BY <1>0 DEF Req
  <2>4. req'[r] = q
    BY <1>3
  <2> HIDE DEF q
  <2>5. MissInv(r)'
    BY <2>3, <2>4, MissKept DEF Promises
  <2>. QED BY <2>2, <2>3, <2>4, <2>5, Quiet, Together DEF PromiseInv, OthersKept
<1>4. CASE FlushDelete(r)
  <2> DEFINE ks == req[r].listed \cap DOMAIN redis
  <2>1. ks \in SUBSET RedisKey
    BY <1>0 DEF RedisInv
  <2>2. ASSUME Remaining(ks),
               req' = [q \in Request |->
                 IF q = r THEN [req[q] EXCEPT !.at = IF faults' = faults THEN "ok" ELSE "error"]
                 ELSE Without(req[q], ks, TRUE)]
        PROVE  Promises'
    <3>1. PICK l : l = IF faults' = faults THEN "ok" ELSE "error"
      OBVIOUS
    <3>2. req' = [q \in Request |-> IF q = r THEN [req[q] EXCEPT !.at = l]
                                       ELSE Without(req[q], ks, TRUE)]
      BY <2>2, <3>1
    <3> HIDE DEF ks
    <3>. QED BY <1>3, <2>1, <2>2, <3>2
  <2>. QED BY <1>1, <1>4, <2>2 DEF FlushDelete
<1>. QED BY <1>1, <1>2, <1>4 DEF FlushSteps, FlushKeys

LEMMA PromisedInitially == Init => Promises
BY DEF Init, StoreInit, Idle, Promises, PromiseInv, AnswerInv, TokenInv, OwedInv, MissInv

LEMMA PromisesStep ==
  ASSUME IInv, Promises, [Next]_vars
  PROVE  Promises'
<1>1. CASE UNCHANGED vars
  BY <1>1, StillGrows, GrowsKeeps DEF vars, storeVars, Promises
<1>2. ASSUME NEW r \in Request, ExtractionSteps(r) PROVE Promises'
  BY <1>2, ArrivalKeeps, CallKeeps, CacheKeeps, PersistKeeps, ReadKeeps, FlushKeeps
     DEF ExtractionSteps, FlushIndex
<1>3. ASSUME NEW r \in Request, ReportSteps(r) PROVE Promises'
  BY <1>3, ArrivalKeeps, ReportKeeps DEF ReportSteps
<1>4. ASSUME NEW r \in Request, Insert(r) \/ Delete(r) \/ RunStatement(r) PROVE Promises'
  BY <1>4, ArrivalKeeps, StatementKeeps
<1>. QED BY <1>1, <1>2, <1>3, <1>4, TickKeeps, ResultKeeps DEF Next

LEMMA AlwaysPromises == Spec => [](IInv /\ Promises)
<1>1. Init => IInv /\ Promises
  BY Initially, PromisedInitially
<1>2. IInv /\ Promises /\ [Next]_vars => (IInv /\ Promises)'
  BY Invariance, PromisesStep
<1>. QED BY <1>1, <1>2, PTL DEF Spec

\* The web page finds the profile it is sent to, for seven days (routers/candidates.py,
\* nlp_agent.py and the page of candidates/new).
THEOREM AnswersAreFound == Spec => []AnswerIsFound
<1>1. IInv /\ Promises => AnswerIsFound
  <2> SUFFICES ASSUME IInv, Promises, NEW r \in Request,
                      req[r].kind = "extract", req[r].at = "ok", ~req[r].faulted,
                      time < req[r].since + ProfileTTL,
                      <<"candidate", req[r].holds.id>> \notin req[r].flushed
               PROVE  \E p \in Found(req[r].holds.id) : p.id = req[r].holds.id
    BY DEF AnswerIsFound, Destination
  <2>1. req[r].holds \in Profiles /\ RedisInv
    BY Here DEF Carries
  <2>2. Live(<<"candidate", req[r].holds.id>>)
    BY DEF Promises, PromiseInv, AnswerInv, Kept, Live
  <2>3. PICK i \in Id : i = req[r].holds.id
    BY <2>1 DEF Profiles
  <2>4. Live(<<"candidate", i>>)
    BY <2>2, <2>3 DEF Live
  <2>5. Value(<<"candidate", i>>) \in [key : Key, id : {i}]
    BY <2>1, <2>4 DEF RedisInv
  <2>6. Value(<<"candidate", i>>) \in Found(i) /\ Value(<<"candidate", i>>).id = i
    BY <2>4, <2>5 DEF Found
  <2>. QED BY <2>3, <2>6 DEF Found, Live, Value
<1>. QED BY <1>1, AlwaysPromises, PTL

\* A token reads the result it was made for, for seven days (simulation_engine.py
\* and routers/simulation.py).
THEOREM TokensAreReadable == Spec => []TokenReadable
<1>1. IInv /\ Promises => TokenReadable
  BY DEF Promises, PromiseInv, TokenInv, TokenReadable, Kept, SharedReport
<1>. QED BY <1>1, AlwaysPromises, PTL

\* A list has every profile that was stored when it began and still is
\* (list_candidates of nlp_agent.py).
THEOREM ListsAreComplete == Spec => []ListIsComplete
<1>1. IInv /\ Promises => ListIsComplete
  BY DEF Promises, PromiseInv, OwedInv, ListIsComplete
<1>. QED BY <1>1, AlwaysPromises, PTL

------------------------------------------------------------------------------
(* The index *)

\* Steps that take nothing out of the index and store no profile.
LEMMA IndexFrame ==
  ASSUME StoredIsIndexed,
         \A i \in Id : Live(<<"candidate", i>>)' => Live(<<"candidate", i>>),
         Members \subseteq Members', unlisted \subseteq unlisted',
         \A r \in Request : req[r].at = "index" =>
           req'[r].at = "index" /\ req'[r].holds = req[r].holds
  PROVE  StoredIsIndexed'
<1> SUFFICES ASSUME NEW i \in Id, Live(<<"candidate", i>>)'
             PROVE  \/ i \in Members' \cup unlisted'
                    \/ \E r \in Request : req'[r].at = "index" /\ req'[r].holds.id = i
  BY DEF StoredIsIndexed, StoredId
<1>1. i \in Members \cup unlisted \/ \E r \in Request : req[r].at = "index" /\ req[r].holds.id = i
  BY DEF StoredIsIndexed, StoredId
<1>. QED BY <1>1

\* A step of a request that stands elsewhere, and touches neither profiles nor the index.
LEMMA IndexUntouched ==
  ASSUME IInv, StoredIsIndexed, NEW r \in Request, req[r].at # "index",
         \A u \in Request \ {r} : req'[u] = req[u],
         unlisted' = unlisted,
         \/ UNCHANGED redis
         \/ \E k, v, ttl : Put(k, v, ttl) /\ k # Index /\ \A i \in Id : k # <<"candidate", i>>
  PROVE  StoredIsIndexed'
<1>1. CASE UNCHANGED redis
  BY <1>1, IndexFrame DEF Live, Members, Value
<1>2. ASSUME NEW k, NEW v, NEW ttl, Put(k, v, ttl), k # Index,
             \A i \in Id : k # <<"candidate", i>>
      PROVE  StoredIsIndexed'
  <2>1. /\ DOMAIN redis' = DOMAIN redis \cup {k}
        /\ \A x \in DOMAIN redis \ {k} : redis'[x] = redis[x]
    BY <1>2, PutFacts
  <2>2. Members' = Members
    BY <1>2, <2>1 DEF Members, Live, Value
  <2>3. \A i \in Id : Live(<<"candidate", i>>)' => Live(<<"candidate", i>>)
    BY <1>2, <2>1 DEF Live
  <2>. QED BY <2>2, <2>3, IndexFrame
<1>. QED BY <1>1, <1>2

\* Every step of a request at another label moves no other request.
LEMMA OnlyOne ==
  ASSUME IInv, NEW r \in Request, NEW q, Reach(r, q)
  PROVE  \A u \in Request \ {r} : req'[u] = req[u]
BY Here DEF Reach

LEMMA PersistIndexed ==
  ASSUME IInv, StoredIsIndexed, NEW r \in Request, Persist(r)
  PROVE  StoredIsIndexed'
<1>0. req[r] \in Req /\ req[r].at = "persist" /\ req[r].holds \in Profiles
  BY Here DEF Persist, Carries
<1>1. StoredId(r) \in Id
  BY <1>0 DEF StoredId, Profiles
<1>2. \A u \in Request \ {r} : req'[u] = req[u]
  BY OnlyOne DEF Persist, Unsaved
<1>3. /\ unlisted \subseteq unlisted'
      /\ \/ StoredId(r) \in unlisted'
         \/ req'[r].at = "index" /\ req'[r].holds = req[r].holds
  <2>1. CASE Reach(r, [req[r] EXCEPT !.at = "index", !.since = time]) /\ UNCHANGED unlisted
    BY <1>0, <2>1, Here DEF Reach, Req
  <2>2. CASE unlisted' = unlisted \cup {StoredId(r)}
    BY <2>2
  <2>. QED BY <2>1, <2>2 DEF Persist
<1>4. /\ Members' = Members
      /\ \A i \in Id : Live(<<"candidate", i>>)' => Live(<<"candidate", i>>) \/ i = StoredId(r)
  <2>1. CASE UNCHANGED redis
    BY <2>1 DEF Members, Live, Value
  <2>2. CASE Put(<<"candidate", StoredId(r)>>, req[r].holds, ProfileTTL)
    <3> DEFINE k == <<"candidate", StoredId(r)>>
    <3>1. /\ DOMAIN redis' = DOMAIN redis \cup {k}
          /\ \A x \in DOMAIN redis \ {k} : redis'[x] = redis[x]
      BY <2>2 DEF Put
    <3>2. k # Index /\ \A i \in Id : <<"candidate", i>> = k => i = StoredId(r)
      BY DEF Index
    <3> HIDE DEF k
    <3>3. Members' = Members
      BY <3>1, <3>2 DEF Members, Live, Value
    <3>. QED BY <3>1, <3>2, <3>3 DEF Live
  <2>. QED BY <2>1, <2>2 DEF Persist
<1>5. ASSUME NEW i \in Id, Live(<<"candidate", i>>)'
      PROVE  \/ i \in Members' \cup unlisted'
             \/ \E u \in Request : req'[u].at = "index" /\ req'[u].holds.id = i
  <2>1. CASE i = StoredId(r)
    BY <1>3, <2>1 DEF StoredId
  <2>2. CASE i # StoredId(r)
    <3>1. i \in Members \cup unlisted \/ \E u \in Request : req[u].at = "index" /\ req[u].holds.id = i
      BY <1>4, <1>5, <2>2 DEF StoredIsIndexed, StoredId
    <3>. QED BY <1>0, <1>2, <1>3, <1>4, <3>1
  <2>. QED BY <2>1, <2>2
<1>. QED BY <1>5 DEF StoredIsIndexed, StoredId

LEMMA AddIndexed ==
  ASSUME IInv, StoredIsIndexed, NEW r \in Request, AddToIndex(r)
  PROVE  StoredIsIndexed'
<1>0. req[r] \in Req /\ req[r].at = "index"
  BY Here DEF AddToIndex
<1>2. \A u \in Request \ {r} : req'[u] = req[u]
  BY OnlyOne, GotoReach DEF AddToIndex, Unsaved
<1>3. \A i \in Id : <<"candidate", i>> # Index
  BY DEF Index
<1>4. /\ \A i \in Id : Live(<<"candidate", i>>)' => Live(<<"candidate", i>>)
      /\ Members \subseteq Members'
      /\ PutIndex(Members \cup {StoredId(r)}) => Members' = Members \cup {StoredId(r)}
  <2>1. CASE PutIndex(Members \cup {StoredId(r)})
    <3>1. /\ DOMAIN redis' = DOMAIN redis \cup {Index}
          /\ redis'[Index] = [value |-> Members \cup {StoredId(r)}, until |-> time + Forever]
      BY <2>1 DEF Put, PutIndex
    <3>. QED BY <1>3, <3>1 DEF Live, Members, Value
  <2>2. CASE UNCHANGED redis /\ ~PutIndex(Members \cup {StoredId(r)})
    BY <2>2 DEF Live, Members, Value
  <2>. QED BY <2>1, <2>2 DEF AddToIndex
<1>5. unlisted \subseteq unlisted' \cup {StoredId(r)} /\ StoredId(r) \in Members' \cup unlisted'
  BY <1>4 DEF AddToIndex
<1>6. ASSUME NEW i \in Id, Live(<<"candidate", i>>)'
      PROVE  \/ i \in Members' \cup unlisted'
             \/ \E u \in Request : req'[u].at = "index" /\ req'[u].holds.id = i
  <2>1. i \in Members \cup unlisted \/ \E u \in Request : req[u].at = "index" /\ req[u].holds.id = i
    BY <1>4, <1>6 DEF StoredIsIndexed, StoredId
  <2>2. StoredId(r) = req[r].holds.id
    BY DEF StoredId
  <2>. QED BY <1>2, <1>4, <1>5, <2>1, <2>2
<1>. QED BY <1>6 DEF StoredIsIndexed, StoredId

------------------------------------------------------------------------------
(* What a miss has cost *)

Holding == {"recheck", "context", "call", "cache"}
Holders == {q \in Request : HoldsPermit(q)}
Missing(k) == {r \in Request : req[r].key = k /\ req[r].missed}

CostInv == Cardinality(Holders) <= Permits /\ CallsPerKey

\* A step gives a request neither a permit nor, unless its key is not cached, a miss.
Costless(u, q) ==
  /\ q.kind = "extract" /\ q.at \in Holding => HoldsPermit(u)
  /\ q.missed => \/ req[u].missed /\ q.key = req[u].key
                 \/ <<"nlp", q.key>> \notin DOMAIN redis'

LEMMA SmallerSet ==
  ASSUME NEW S \in SUBSET Request, NEW T \in SUBSET S
  PROVE  /\ Cardinality(S) \in Nat /\ Cardinality(T) \in Nat
         /\ Cardinality(T) <= Cardinality(S)
<1>1. IsFiniteSet(S)
  BY Constants, FS_Subset
<1>2. IsFiniteSet(T) /\ Cardinality(T) <= Cardinality(S)
  BY <1>1, FS_Subset
<1>. QED BY <1>1, <1>2, FS_CardinalityType

\* The misses of a key that is not cached all hold permits.
LEMMA CostFrame ==
  ASSUME CostInv, Promises',
         \A u \in Request : HoldsPermit(u)' => HoldsPermit(u),
         \A u \in Request : req'[u].missed =>
           \/ req[u].missed /\ req'[u].key = req[u].key
           \/ <<"nlp", req'[u].key>> \notin DOMAIN redis'
  PROVE  CostInv'
<1>1. PICK A \in SUBSET Request, B \in SUBSET Request : A = Holders /\ B = Holders'
  BY DEF Holders
<1>2. B \subseteq A /\ Cardinality(A) <= Permits
  BY <1>1 DEF Holders, CostInv
<1>3. Cardinality(B) <= Permits
  BY <1>2, SmallerSet, Constants
<1>4. ASSUME NEW k \in Key PROVE Cardinality(Missing(k)') <= Permits
  <2>1. PICK S \in SUBSET Request, T \in SUBSET Request : S = Missing(k) /\ T = Missing(k)'
    BY DEF Missing
  <2>2. Cardinality(S) <= Permits
    BY <2>1 DEF CostInv, CallsPerKey, Missing
  <2>3. CASE <<"nlp", k>> \in DOMAIN redis'
    <3>1. T \subseteq S
      BY <2>1, <2>3 DEF Missing
    <3>. QED BY <2>1, <2>2, <3>1, SmallerSet, Constants
  <2>4. CASE <<"nlp", k>> \notin DOMAIN redis'
    <3>1. T \subseteq B
      BY <1>1, <2>1, <2>4 DEF Missing, Holders, Promises, PromiseInv, MissInv, Live, CacheKey
    <3>. QED BY <1>3, <2>1, <3>1, SmallerSet, Constants
  <2>. QED BY <2>3, <2>4
<1>5. Cardinality(Holders') <= Permits
  BY <1>1, <1>3
<1>. QED BY <1>4, <1>5 DEF CostInv, CallsPerKey, Missing, Holders

\* A step of one request.
LEMMA OneCosts ==
  ASSUME IInv, CostInv, Promises', NEW r \in Request, NEW q, Reach(r, q), Costless(r, q)
  PROVE  CostInv'
<1>1. req'[r] = q /\ \A u \in Request \ {r} : req'[u] = req[u]
  BY OnlyOne, Here DEF Reach
<1>2. \A u \in Request : HoldsPermit(u)' => HoldsPermit(u)
  BY <1>1 DEF HoldsPermit, Costless, Holding
<1>3. \A u \in Request : req'[u].missed =>
        \/ req[u].missed /\ req'[u].key = req[u].key
        \/ <<"nlp", req'[u].key>> \notin DOMAIN redis'
  BY <1>1 DEF Costless
<1>. QED BY <1>2, <1>3, CostFrame

LEMMA GotoCosts ==
  ASSUME IInv, CostInv, Promises', NEW r \in Request, NEW l, Goto(r, l),
         l \in Holding => req[r].kind # "extract" \/ HoldsPermit(r)
  PROVE  CostInv'
<1> DEFINE q == [req[r] EXCEPT !.at = l]
<1>1. /\ q.kind = req[r].kind /\ q.at = l /\ q.missed = req[r].missed /\ q.key = req[r].key
  BY Here DEF Req
<1>2. Reach(r, q)
  BY GotoReach
<1> HIDE DEF q
<1>3. Costless(r, q)
  BY <1>1 DEF Costless
<1>. QED BY <1>2, <1>3, OneCosts

LEMMA ArrivalCosts ==
  ASSUME IInv, CostInv, Promises', NEW r \in Request,
         Extract(r) \/ Trigger(r) \/ List(r) \/ Share(r) \/ Insert(r) \/ Delete(r) \/ Flush(r)
  PROVE  CostInv'
<1>1. ASSUME NEW q, Arrive(r, q), q.missed = FALSE, q.at \notin Holding PROVE CostInv'
  <2>1. Costless(r, q)
    BY <1>1 DEF Costless
  <2>. QED BY <1>1, <2>1, OneCosts DEF Arrive
<1>2. CASE Extract(r)
  <2>1. PICK key \in Key, id \in Id : Arrive(r, [Idle EXCEPT !.kind = "extract", !.at = "check", !.key = key, !.id = id])
    BY <1>2 DEF Extract
  <2> DEFINE q == [Idle EXCEPT !.kind = "extract", !.at = "check", !.key = key, !.id = id]
  <2>2. q.missed = FALSE /\ q.at = "check"
    BY DEF Idle, Holding
  <2> HIDE DEF q
  <2>3. Arrive(r, q)
    BY <2>1 DEF q
  <2>. QED BY <1>1, <2>2, <2>3 DEF Holding
<1>3. CASE Trigger(r)
  <2>1. PICK key \in Key, id \in Id : Arrive(r, [Idle EXCEPT !.kind = "dag", !.at = "check", !.key = key, !.id = id])
    BY <1>3 DEF Trigger
  <2> DEFINE q == [Idle EXCEPT !.kind = "dag", !.at = "check", !.key = key, !.id = id]
  <2>2. q.missed = FALSE /\ q.at = "check"
    BY DEF Idle, Holding
  <2> HIDE DEF q
  <2>3. Arrive(r, q)
    BY <2>1 DEF q
  <2>. QED BY <1>1, <2>2, <2>3 DEF Holding
<1>4. CASE List(r)
  <2>1. Arrive(r, [Idle EXCEPT !.kind = "list", !.at = "members"])
    BY <1>4 DEF List
  <2> DEFINE q == [Idle EXCEPT !.kind = "list", !.at = "members"]
  <2>2. q.missed = FALSE /\ q.at = "members"
    BY DEF Idle, Holding
  <2> HIDE DEF q
  <2>3. Arrive(r, q)
    BY <2>1 DEF q
  <2>. QED BY <1>1, <2>2, <2>3 DEF Holding
<1>5. CASE Flush(r)
  <2>1. Arrive(r, [Idle EXCEPT !.kind = "flush", !.at = "keys"])
    BY <1>5 DEF Flush
  <2> DEFINE q == [Idle EXCEPT !.kind = "flush", !.at = "keys"]
  <2>2. q.missed = FALSE /\ q.at = "keys"
    BY DEF Idle, Holding
  <2> HIDE DEF q
  <2>3. Arrive(r, q)
    BY <2>1 DEF q
  <2>. QED BY <1>1, <2>2, <2>3 DEF Holding
<1>6. CASE Share(r)
  <2>1. PICK x \in Result : Arrive(r, [Idle EXCEPT !.kind = "share", !.at = "load", !.holds = x])
    BY <1>6 DEF Share
  <2> DEFINE q == [Idle EXCEPT !.kind = "share", !.at = "load", !.holds = x]
  <2>2. q.missed = FALSE /\ q.at = "load"
    BY DEF Idle, Holding
  <2> HIDE DEF q
  <2>3. Arrive(r, q)
    BY <2>1 DEF q
  <2>. QED BY <1>1, <2>2, <2>3 DEF Holding
<1>7. CASE Insert(r)
  <2>1. PICK i \in Id : Arrive(r, [Idle EXCEPT !.kind = "insert", !.at = "merge", !.id = i])
    BY <1>7 DEF Insert
  <2> DEFINE q == [Idle EXCEPT !.kind = "insert", !.at = "merge", !.id = i]
  <2>2. q.missed = FALSE /\ q.at = "merge"
    BY DEF Idle, Holding
  <2> HIDE DEF q
  <2>3. Arrive(r, q)
    BY <2>1 DEF q
  <2>. QED BY <1>1, <2>2, <2>3 DEF Holding
<1>8. CASE Delete(r)
  <2>1. PICK i \in Id : Arrive(r, [Idle EXCEPT !.kind = "delete", !.at = "remove", !.id = i])
    BY <1>8 DEF Delete
  <2> DEFINE q == [Idle EXCEPT !.kind = "delete", !.at = "remove", !.id = i]
  <2>2. q.missed = FALSE /\ q.at = "remove"
    BY DEF Idle, Holding
  <2> HIDE DEF q
  <2>3. Arrive(r, q)
    BY <2>1 DEF q
  <2>. QED BY <1>1, <2>2, <2>3 DEF Holding
<1>. QED BY <1>2, <1>3, <1>4, <1>5, <1>6, <1>7, <1>8

LEMMA LookupCosts ==
  ASSUME IInv, CostInv, Promises', NEW r \in Request, req[r].at \in {"check", "recheck"},
         NEW onMiss \in {"recheck", "permit", "context"},
         onMiss \in Holding => req[r].kind # "extract" \/ HoldsPermit(r),
         Lookup(r, onMiss)
  PROVE  CostInv'
<1>0. req[r] \in Req /\ req[r].key \in Key /\ redis' = redis
  BY Here DEF Stands, Carries, Lookup
<1>1. ASSUME Reach(r, [req[r] EXCEPT !.holds = Value(CacheKey(r)), !.at = Served(r)])
      PROVE  CostInv'
  <2> DEFINE q == [req[r] EXCEPT !.holds = Value(CacheKey(r)), !.at = Served(r)]
  <2>1. q.at \in {"write", "persist"} /\ q.missed = req[r].missed /\ q.key = req[r].key
    BY <1>0 DEF Req, Served
  <2>2. Reach(r, q)
    BY <1>1
  <2> HIDE DEF q
  <2>3. Costless(r, q)
    BY <2>1 DEF Costless, Holding
  <2>. QED BY <2>2, <2>3, OneCosts
<1>2. ASSUME ~Live(CacheKey(r)),
             Reach(r, [req[r] EXCEPT !.missed = (onMiss = "context" /\ req[r].kind = "extract"),
                                     !.at = onMiss])
      PROVE  CostInv'
  <2> DEFINE m == (onMiss = "context" /\ req[r].kind = "extract")
  <2>0. m \in BOOLEAN
    OBVIOUS
  <2> HIDE DEF m
  <2> DEFINE q == [req[r] EXCEPT !.missed = m, !.at = onMiss]
  <2>1. q.at = onMiss /\ q.kind = req[r].kind /\ q.key = req[r].key
    BY <1>0 DEF Req
  <2>2. Reach(r, q)
    BY <1>2 DEF m
  <2> HIDE DEF q
  <2>3. Costless(r, q)
    BY <1>0, <1>2, <2>1 DEF Costless, Live, CacheKey
  <2>. QED BY <2>2, <2>3, OneCosts
<1>. QED BY <1>1, <1>2, GotoCosts DEF Lookup

\* Acquiring: one request more holds a permit, and there was one left.
LEMMA AcquireCosts ==
  ASSUME IInv, CostInv, NEW r \in Request, Acquire(r)
  PROVE  CostInv'
<1>1. \A u \in Request \ {r} : req'[u] = req[u]
  BY OnlyOne, GotoReach DEF Acquire
<1>2. req'[r].missed = req[r].missed /\ req'[r].key = req[r].key
  BY Here DEF Acquire, Goto, Req
<1>3. PICK A \in SUBSET Request, B \in SUBSET Request : A = Holders /\ B = Holders'
  BY DEF Holders
<1>4. B \subseteq A \cup {r} /\ Cardinality(A) < Permits
  BY <1>1, <1>3 DEF Holders, HoldsPermit, Acquire
<1>5. Cardinality(B) <= Permits
  <2>1. IsFiniteSet(A)
    BY Constants, FS_Subset
  <2>2. Cardinality(A) \in Nat
    BY <2>1, FS_CardinalityType
  <2>3. Cardinality(A \cup {r}) = IF r \in A THEN Cardinality(A) ELSE Cardinality(A) + 1
    BY <2>1, FS_AddElement
  <2>4. Cardinality(B) \in Nat /\ Cardinality(B) <= Cardinality(A \cup {r})
    BY <1>4, SmallerSet
  <2>. QED BY <1>4, <2>2, <2>3, <2>4, Constants
<1>6. \A k \in Key : Missing(k)' = Missing(k)
  BY <1>1, <1>2 DEF Missing
<1>7. \A k \in Key : Cardinality(Missing(k)') <= Permits
  BY <1>6 DEF CostInv, CallsPerKey, Missing
<1>8. Cardinality(Holders') <= Permits
  BY <1>3, <1>5
<1>. QED BY <1>7, <1>8 DEF CostInv, CallsPerKey, Missing, Holders

LEMMA CallCosts ==
  ASSUME IInv, CostInv, Promises', NEW r \in Request,
         Check(r) \/ Recheck(r) \/ Context(r) \/ Call(r) \/ Cache(r) \/ Persist(r) \/ AddToIndex(r)
  PROVE  CostInv'
<1>0. req[r] \in Req /\ Stands(req[r]) /\ Carries(req[r])
  BY Here
<1>1. CASE Check(r)
  <2>1. NotCached(r) \in Holding => req[r].kind # "extract"
    BY DEF NotCached, Holding
  <2>. QED BY <1>1, <2>1, LookupCosts DEF Check, NotCached
<1>2. CASE Recheck(r)
  <2>1. req[r].kind # "extract" \/ HoldsPermit(r)
    BY <1>2 DEF Recheck, HoldsPermit
  <2>. QED BY <1>2, <2>1, LookupCosts DEF Recheck
<1>3. ASSUME Unextracted(r) PROVE CostInv'
  <2> DEFINE q == [req[r] EXCEPT !.missed = FALSE,
                     !.at = IF req[r].kind = "dag" THEN "write" ELSE "error"]
  <2>1. q.missed = FALSE /\ q.at \in {"write", "error"}
    BY <1>0 DEF Req
  <2>2. Reach(r, q)
    BY <1>3 DEF Unextracted
  <2> HIDE DEF q
  <2>3. Costless(r, q)
    BY <2>1 DEF Costless, Holding
  <2>. QED BY <2>2, <2>3, OneCosts
<1>4. CASE Context(r)
  <2>1. req[r].kind # "extract" \/ HoldsPermit(r)
    BY <1>4 DEF Context, HoldsPermit
  <2>. QED BY <1>3, <1>4, <2>1, GotoCosts DEF Context
<1>5. CASE Call(r)
  <2>1. ASSUME Reach(r, [req[r] EXCEPT !.holds = Profile(req[r].key, req[r].id), !.at = "cache"])
        PROVE  CostInv'
    <3> DEFINE q == [req[r] EXCEPT !.holds = Profile(req[r].key, req[r].id), !.at = "cache"]
    <3>1. q.kind = req[r].kind /\ q.missed = req[r].missed /\ q.key = req[r].key
      BY <1>0 DEF Req
    <3>2. Reach(r, q)
      BY <2>1
    <3> HIDE DEF q
    <3>3. Costless(r, q)
      BY <1>5, <3>1 DEF Costless, HoldsPermit, Call
    <3>. QED BY <3>2, <3>3, OneCosts
  <2>. QED BY <1>3, <1>5, <2>1 DEF Call
<1>6. CASE Cache(r)
  <2>1. Served(r) \notin Holding
    BY DEF Served, Holding
  <2>2. ASSUME Reach(r, [req[r] EXCEPT !.missed = FALSE, !.at = Served(r)]) PROVE CostInv'
    <3> DEFINE q == [req[r] EXCEPT !.missed = FALSE, !.at = Served(r)]
    <3>1. q.missed = FALSE /\ q.at = Served(r)
      BY <1>0 DEF Req
    <3>2. Reach(r, q)
      BY <2>2
    <3> HIDE DEF q
    <3>3. Costless(r, q)
      BY <2>1, <3>1 DEF Costless
    <3>. QED BY <3>2, <3>3, OneCosts
  <2>. QED BY <1>6, <2>1, <2>2, GotoCosts DEF Cache
<1>7. CASE Persist(r) \/ AddToIndex(r)
  <2>1. ASSUME NEW l \in {"ok", "index"}, NEW f \in {req[r].faulted, TRUE},
               NEW t \in {req[r].since, time},
               Reach(r, [req[r] EXCEPT !.at = l, !.faulted = f, !.since = t])
        PROVE  CostInv'
    <3> DEFINE q == [req[r] EXCEPT !.at = l, !.faulted = f, !.since = t]
    <3>1. q.at = l /\ q.missed = req[r].missed /\ q.key = req[r].key
      BY <1>0 DEF Req
    <3>2. Reach(r, q)
      BY <2>1
    <3> HIDE DEF q
    <3>3. Costless(r, q)
      BY <3>1 DEF Costless, Holding
    <3>. QED BY <3>2, <3>3, OneCosts
  <2>2. ASSUME Reach(r, [req[r] EXCEPT !.at = "index", !.since = time]) PROVE CostInv'
    <3>1. [req[r] EXCEPT !.at = "index", !.since = time]
            = [req[r] EXCEPT !.at = "index", !.faulted = req[r].faulted, !.since = time]
      BY <1>0 DEF Req
    <3>. QED BY <2>1, <2>2, <3>1
  <2>3. ASSUME Unsaved(r) PROVE CostInv'
    <3>1. [req[r] EXCEPT !.at = "ok", !.faulted = TRUE]
            = [req[r] EXCEPT !.at = "ok", !.faulted = TRUE, !.since = req[r].since]
      BY <1>0 DEF Req
    <3>. QED BY <2>1, <2>3, <3>1 DEF Unsaved
  <2>4. "ok" \notin Holding
    BY DEF Holding
  <2>. QED BY <1>7, <2>2, <2>3, <2>4, GotoCosts DEF Persist, AddToIndex
<1>. QED BY <1>1, <1>2, <1>4, <1>5, <1>6, <1>7

\* Requests that are not extractions.
LEMMA OtherCosts ==
  ASSUME IInv, CostInv, Promises', NEW r \in Request, NEW q, Reach(r, q),
         req[r].kind # "extract", q.kind = req[r].kind, q.missed = req[r].missed
  PROVE  CostInv'
<1>1. req[r].missed = FALSE
  BY Here DEF Carries, Req
<1>2. Costless(r, q)
  BY <1>1 DEF Costless
<1>. QED BY <1>2, OneCosts

LEMMA SideCosts ==
  ASSUME IInv, CostInv, Promises', NEW r \in Request,
         ReadMembers(r) \/ ReadListed(r) \/ FlushKeys(r) \/ Load(r) \/ StoreReport(r) \/ RunStatement(r)
  PROVE  CostInv'
<1>0. req[r] \in Req /\ req[r].kind # "extract"
  BY Here DEF ReadMembers, ReadListed, FlushKeys, Load, StoreReport, RunStatement, Stands
<1>1. ASSUME NEW l, Goto(r, l) PROVE CostInv'
  BY <1>0, <1>1, GotoCosts
<1>2. ASSUME UNCHANGED req PROVE CostInv'
  BY <1>2, CostFrame DEF HoldsPermit
<1>3. CASE Load(r) \/ RunStatement(r)
  BY <1>1, <1>2, <1>3 DEF Load, RunStatement
<1>4. ASSUME Reach(r, [req[r] EXCEPT !.at = "ok", !.faulted = TRUE]) PROVE CostInv'
  <2> DEFINE q == [req[r] EXCEPT !.at = "ok", !.faulted = TRUE]
  <2>1. q.kind = req[r].kind /\ q.missed = req[r].missed
    BY <1>0 DEF Req
  <2>2. Reach(r, q)
    BY <1>4
  <2> HIDE DEF q
  <2>. QED BY <1>0, <2>1, <2>2, OtherCosts
<1>5. CASE StoreReport(r)
  <2>1. ASSUME Reach(r, [req[r] EXCEPT !.at = "ok", !.since = time]) PROVE CostInv'
    <3> DEFINE q == [req[r] EXCEPT !.at = "ok", !.since = time]
    <3>1. q.kind = req[r].kind /\ q.missed = req[r].missed
      BY <1>0 DEF Req
    <3>2. Reach(r, q)
      BY <2>1
    <3> HIDE DEF q
    <3>. QED BY <1>0, <3>1, <3>2, OtherCosts
  <2>. QED BY <1>1, <1>5, <2>1 DEF StoreReport
<1>6. ASSUME NEW x, NEW l, NEW y,
             Reach(r, [req[r] EXCEPT !.listed = x, !.at = l, !.owed = y])
      PROVE  CostInv'
  <2> DEFINE q == [req[r] EXCEPT !.listed = x, !.at = l, !.owed = y]
  <2>1. q.kind = req[r].kind /\ q.missed = req[r].missed
    BY <1>0 DEF Req
  <2>2. Reach(r, q)
    BY <1>6
  <2> HIDE DEF q
  <2>. QED BY <1>0, <2>1, <2>2, OtherCosts
<1>7. CASE ReadMembers(r)
  BY <1>4, <1>6, <1>7 DEF ReadMembers
<1>8. CASE ReadListed(r)
  <2>1. ASSUME NEW i, Reach(r, Listed(req[r], i)) PROVE CostInv'
    <3> DEFINE q == Listed(req[r], i)
    <3>1. q.kind = req[r].kind /\ q.missed = req[r].missed
      BY <1>0 DEF Req, Listed
    <3>2. Reach(r, q)
      BY <2>1
    <3> HIDE DEF q
    <3>. QED BY <1>0, <3>1, <3>2, OtherCosts
  <2>. QED BY <1>1, <1>4, <1>8, <2>1 DEF ReadListed
<1>9. CASE FlushKeys(r)
  <2>1. ASSUME Reach(r, [req[r] EXCEPT !.listed = DOMAIN redis, !.at = "delete"]) PROVE CostInv'
    <3> DEFINE q == [req[r] EXCEPT !.listed = DOMAIN redis, !.at = "delete"]
    <3>1. q.kind = req[r].kind /\ q.missed = req[r].missed
      BY <1>0 DEF Req
    <3>2. Reach(r, q)
      BY <2>1
    <3> HIDE DEF q
    <3>. QED BY <1>0, <3>1, <3>2, OtherCosts
  <2>. QED BY <1>1, <1>9, <2>1 DEF FlushKeys
<1>. QED BY <1>3, <1>5, <1>7, <1>8, <1>9

\* Keys that go away take permits and misses from no one, but for the misses
\* of the keys themselves.
LEMMA LostCosts ==
  ASSUME IInv, NEW u \in Request, NEW ks \in SUBSET RedisKey, NEW flush,
         req'[u] = Without(req[u], ks, flush)
  PROVE  /\ HoldsPermit(u)' => HoldsPermit(u)
         /\ req'[u].missed => req[u].missed /\ req'[u].key = req[u].key
         /\ req'[u].at = req[u].at /\ req'[u].holds = req[u].holds
<1>1. PICK q \in Req : q = req[u]
  BY Here
<1>2. PICK p : p = req'[u]
  OBVIOUS
<1>3. p = Without(q, ks, flush)
  BY <1>1, <1>2 DEF Without
<1>4. Lost(p, q, ks)
  BY <1>3, WithoutFacts
<1>. QED BY <1>1, <1>2, <1>4 DEF Lost, HoldsPermit

LEMMA TickCosts ==
  ASSUME IInv, CostInv, Promises', Tick
  PROVE  CostInv'
<1> DEFINE expired == {k \in DOMAIN redis : redis[k].until <= time + 1}
<1>1. expired \in SUBSET RedisKey
  BY DEF IInv, RedisInv
<1>2. \A u \in Request : req'[u] = Without(req[u], expired, FALSE)
  BY DEF Tick
<1> HIDE DEF expired
<1>. QED BY <1>1, <1>2, LostCosts, CostFrame

LEMMA FlushCosts ==
  ASSUME IInv, CostInv, Promises', NEW r \in Request, FlushDelete(r)
  PROVE  CostInv'
<1> DEFINE ks == req[r].listed \cap DOMAIN redis
<1>0. req[r] \in Req /\ req[r].kind = "flush" /\ req[r].missed = FALSE /\ ks \in SUBSET RedisKey
  BY Here DEF FlushDelete, Stands, Carries, Req, RedisInv
<1>1. ASSUME NEW l, req' = [q \in Request |->
               IF q = r THEN [req[q] EXCEPT !.at = l] ELSE Without(req[q], ks, TRUE)]
      PROVE  CostInv'
  <2>1. PICK flush : flush = TRUE
    OBVIOUS
  <2>2. \A u \in Request \ {r} : req'[u] = Without(req[u], ks, flush)
    BY <1>1, <2>1
  <2>3. req'[r].kind = "flush" /\ req'[r].missed = FALSE
    BY <1>0, <1>1 DEF Req
  <2> HIDE DEF ks
  <2>4. \A u \in Request \ {r} :
          /\ HoldsPermit(u)' => HoldsPermit(u)
          /\ req'[u].missed => req[u].missed /\ req'[u].key = req[u].key
    BY <1>0, <2>2, LostCosts
  <2>. QED BY <2>3, <2>4, CostFrame DEF HoldsPermit
<1>2. ASSUME req' = [q \in Request |->
               IF q = r THEN [req[q] EXCEPT !.at = IF faults' = faults THEN "ok" ELSE "error"]
               ELSE Without(req[q], ks, TRUE)]
      PROVE  CostInv'
  <2>1. PICK l : l = IF faults' = faults THEN "ok" ELSE "error"
    OBVIOUS
  <2>. QED BY <1>1, <1>2, <2>1
<1>3. ASSUME Goto(r, "error") PROVE CostInv'
  BY <1>0, <1>3, GotoCosts
<1>. QED BY <1>2, <1>3 DEF FlushDelete

LEMMA CostStep ==
  ASSUME IInv, CostInv, Promises', [Next]_vars
  PROVE  CostInv'
<1>1. ASSUME UNCHANGED req PROVE CostInv'
  BY <1>1, CostFrame DEF HoldsPermit
<1>2. ASSUME NEW r \in Request, ExtractionSteps(r) PROVE CostInv'
  BY <1>2, ArrivalCosts, CallCosts, AcquireCosts, SideCosts, FlushCosts
     DEF ExtractionSteps, FlushIndex, FlushSteps
<1>3. ASSUME NEW r \in Request, ReportSteps(r) PROVE CostInv'
  BY <1>3, ArrivalCosts, SideCosts DEF ReportSteps
<1>4. ASSUME NEW r \in Request, Insert(r) \/ Delete(r) \/ RunStatement(r) PROVE CostInv'
  BY <1>4, ArrivalCosts, SideCosts
<1>5. ASSUME NEW x \in Result, CacheResult(x) PROVE CostInv'
  BY <1>1, <1>5 DEF CacheResult
<1>6. CASE UNCHANGED vars
  BY <1>1, <1>6 DEF vars, storeVars
<1>. QED BY <1>2, <1>3, <1>4, <1>5, <1>6, TickCosts DEF Next

\* Of the calls to Claude made for a key since it was last not cached, at most as
\* many have not failed as the semaphore has permits (extract_profile of
\* nlp_agent.py, the second look at the cache under the semaphore).
THEOREM CostIsBounded == Spec => []CallsPerKey
<1>1. Init => CostInv
  <2> SUFFICES ASSUME Init PROVE CostInv
    OBVIOUS
  <2>1. Holders = {} /\ \A k \in Key : Missing(k) = {}
    BY DEF Init, StoreInit, Idle, Holders, HoldsPermit, Missing
  <2>2. Cardinality({}) <= Permits
    BY FS_EmptySet, Constants
  <2>3. Cardinality(Holders) <= Permits /\ \A k \in Key : Cardinality(Missing(k)) <= Permits
    BY <2>1, <2>2
  <2>. QED BY <2>3 DEF CostInv, CallsPerKey, Missing
<1>2. IInv /\ Promises /\ (IInv /\ Promises)' /\ CostInv /\ [Next]_vars => CostInv'
  BY CostStep
<1>3. CostInv => CallsPerKey
  BY DEF CostInv
<1>. QED BY <1>1, <1>2, <1>3, AlwaysPromises, PTL DEF Spec

------------------------------------------------------------------------------
(* The index, step by step *)

\* A step that writes neither profiles nor the index.
WritesElsewhere ==
  \/ UNCHANGED redis
  \/ \E k, v, ttl : Put(k, v, ttl) /\ k # Index /\ \A i \in Id : k # <<"candidate", i>>

LEMMA OthersIndexed ==
  ASSUME IInv, StoredIsIndexed, NEW r \in Request, unlisted' = unlisted,
         \/ Extract(r) \/ Trigger(r) \/ List(r) \/ Flush(r) \/ Share(r) \/ Insert(r) \/ Delete(r)
         \/ Check(r) \/ Acquire(r) \/ Recheck(r) \/ Context(r) \/ Call(r) \/ Cache(r)
         \/ ReadMembers(r) \/ ReadListed(r) \/ FlushKeys(r) \/ Load(r) \/ StoreReport(r)
         \/ RunStatement(r)
  PROVE  StoredIsIndexed'
<1>1. req[r].at # "index"
  BY Here DEF Extract, Trigger, List, Flush, Share, Insert, Delete, Arrive, Begun, Stands,
       Check, Acquire, Recheck, Context, Call, Cache, ReadMembers, ReadListed, FlushKeys,
       Load, StoreReport, RunStatement
<1>2. \A u \in Request \ {r} : req'[u] = req[u]
  <2>1. ASSUME NEW l, Goto(r, l) PROVE \A u \in Request \ {r} : req'[u] = req[u]
    BY <2>1, OnlyOne, GotoReach
  <2>2. ASSUME UNCHANGED req PROVE \A u \in Request \ {r} : req'[u] = req[u]
    BY <2>2
  <2>3. CASE Extract(r) \/ Trigger(r) \/ List(r) \/ Flush(r) \/ Share(r) \/ Insert(r) \/ Delete(r)
    BY <2>3, OnlyOne DEF Extract, Trigger, List, Flush, Share, Insert, Delete, Arrive
  <2>4. CASE Check(r) \/ Recheck(r) \/ Context(r) \/ Call(r) \/ Acquire(r)
    BY <2>1, <2>4, OnlyOne DEF Check, Recheck, Lookup, Context, Call, Unextracted, Acquire
  <2>5. CASE Cache(r) \/ Load(r) \/ StoreReport(r) \/ RunStatement(r)
    BY <2>1, <2>2, <2>5, OnlyOne DEF Cache, Load, StoreReport, RunStatement
  <2>6. CASE ReadMembers(r) \/ ReadListed(r) \/ FlushKeys(r)
    BY <2>1, <2>6, OnlyOne DEF ReadMembers, ReadListed, FlushKeys
  <2>. QED BY <2>3, <2>4, <2>5, <2>6
<1>3. WritesElsewhere
  <2>1. CASE Cache(r) /\ ~UNCHANGED redis
    <3>1. /\ Put(CacheKey(r), req[r].holds, CacheTTL)
          /\ CacheKey(r) # Index /\ \A i \in Id : CacheKey(r) # <<"candidate", i>>
      BY <2>1 DEF Cache, CacheKey, Index
    <3>. QED BY <3>1 DEF WritesElsewhere
  <2>2. CASE StoreReport(r) /\ ~UNCHANGED redis
    <3>1. /\ Put(<<"report", r>>, req[r].holds, ReportTTL)
          /\ <<"report", r>> # Index /\ \A i \in Id : <<"report", r>> # <<"candidate", i>>
      BY <2>2 DEF StoreReport, PutReport, Index
    <3>. QED BY <3>1 DEF WritesElsewhere
  <2>3. CASE ~Cache(r) /\ ~StoreReport(r)
    <3>1. UNCHANGED redis
      BY <2>3 DEF Extract, Trigger, List, Flush, Share, Insert, Delete, Arrive, Check, Acquire,
           Recheck, Lookup, Context, Call, ReadMembers, ReadListed, FlushKeys, Load, RunStatement
    <3>. QED BY <3>1 DEF WritesElsewhere
  <2>. QED BY <2>1, <2>2, <2>3 DEF WritesElsewhere
<1>. QED BY <1>1, <1>2, <1>3, IndexUntouched DEF WritesElsewhere

\* A day passes: profiles expire, the index never does.
LEMMA TickIndexed ==
  ASSUME IInv, StoredIsIndexed, Tick, unlisted' = unlisted
  PROVE  StoredIsIndexed'
<1> DEFINE expired == {k \in DOMAIN redis : redis[k].until <= time + 1}
<1>1. /\ Remaining(expired) /\ time \in 0..MaxTime /\ time < MaxTime /\ MaxTime \in Nat
      /\ expired \in SUBSET RedisKey
  BY Constants DEF Tick, IInv, Bounds, RedisInv
<1>2. \A u \in Request : req'[u] = Without(req[u], expired, FALSE)
  BY DEF Tick
<1>3. Live(Index) => Index \notin expired
  <2>1. Live(Index) => redis[Index].until > MaxTime /\ redis[Index].until \in Nat
    BY DEF IInv, RedisInv, Live
  <2>. QED BY <1>1, <2>1
<1> HIDE DEF expired
<1>4. DOMAIN redis' = DOMAIN redis \ expired /\ \A k \in DOMAIN redis \ expired : redis'[k] = redis[k]
  BY <1>1 DEF Remaining
<1>5. Members' = Members
  BY <1>3, <1>4 DEF Members, Live, Value
<1>6. \A i \in Id : Live(<<"candidate", i>>)' => Live(<<"candidate", i>>)
  BY <1>4 DEF Live
<1>7. \A u \in Request : req'[u].at = req[u].at /\ req'[u].holds = req[u].holds
  BY <1>1, <1>2, LostCosts
<1>. QED BY <1>5, <1>6, <1>7, IndexFrame

\* A flush that removes the index leaves what it did not list to the unlisted.
LEMMA FlushIndexed ==
  ASSUME IInv, StoredIsIndexed, NEW r \in Request, FlushDelete(r), FlushIndex(r)
  PROVE  StoredIsIndexed'
<1> DEFINE ks == req[r].listed \cap DOMAIN redis
<1>0. req[r] \in Req /\ req[r].at = "delete" /\ ks \in SUBSET RedisKey
  BY Here DEF FlushDelete, RedisInv
<1>1. /\ DOMAIN redis' \subseteq DOMAIN redis /\ \A k \in DOMAIN redis' : redis'[k] = redis[k]
  BY DEF FlushDelete, Remaining
<1>2. \A u \in Request \ {r} : req'[u].at = req[u].at /\ req'[u].holds = req[u].holds
  <2>1. ASSUME NEW l, Goto(r, l)
        PROVE  \A u \in Request \ {r} : req'[u].at = req[u].at /\ req'[u].holds = req[u].holds
    BY <2>1, OnlyOne, GotoReach
  <2>2. ASSUME \A u \in Request \ {r} : req'[u] = Without(req[u], ks, TRUE)
        PROVE  \A u \in Request \ {r} : req'[u].at = req[u].at /\ req'[u].holds = req[u].holds
    <3>1. PICK flush : flush = TRUE
      OBVIOUS
    <3>2. \A u \in Request \ {r} : req'[u] = Without(req[u], ks, flush)
      BY <2>2, <3>1
    <3> HIDE DEF ks
    <3>. QED BY <1>0, <3>2, LostCosts
  <2>. QED BY <2>1, <2>2 DEF FlushDelete
<1>3. \A i \in Id : Live(<<"candidate", i>>)' => Live(<<"candidate", i>>)
  BY <1>1 DEF Live
<1>4. CASE Live(Index) /\ Index \notin DOMAIN redis'
  <2>1. \A i \in Id : Live(<<"candidate", i>>)' => i \in unlisted'
    BY <1>4 DEF FlushIndex, Live
  <2>. QED BY <2>1 DEF StoredIsIndexed
<1>5. CASE ~(Live(Index) /\ Index \notin DOMAIN redis')
  <2>1. unlisted' = unlisted
    BY <1>5 DEF FlushIndex
  <2>2. Members' = Members
    BY <1>1, <1>5 DEF Members, Live, Value
  <2>. QED BY <1>0, <1>2, <1>3, <2>1, <2>2, IndexFrame
<1>. QED BY <1>4, <1>5

LEMMA IndexStep ==
  ASSUME IInv, StoredIsIndexed, [Next]_vars
  PROVE  StoredIsIndexed'
<1>1. ASSUME UNCHANGED vars PROVE StoredIsIndexed'
  BY <1>1, IndexFrame DEF vars, storeVars, Live, Members, Value
<1>2. ASSUME NEW r \in Request, ExtractionSteps(r) PROVE StoredIsIndexed'
  <2>1. CASE FlushIndex(r)
    <3>1. CASE FlushKeys(r)
      <4>1. unlisted' = unlisted
        BY <2>1, <3>1 DEF FlushIndex, FlushKeys, Live
      <4>. QED BY <3>1, <4>1, OthersIndexed
    <3>. QED BY <2>1, <3>1, FlushIndexed DEF FlushIndex, FlushSteps
  <2>2. CASE Persist(r) \/ AddToIndex(r)
    BY <2>2, PersistIndexed, AddIndexed
  <2>3. CASE \/ Extract(r) \/ Trigger(r) \/ List(r) \/ (Flush(r) /\ UNCHANGED unlisted)
             \/ Check(r) \/ Acquire(r) \/ Recheck(r) \/ Context(r) \/ Call(r) \/ Cache(r)
             \/ ReadMembers(r) \/ ReadListed(r)
    <3>1. unlisted' = unlisted
      BY <2>3 DEF Extract, Trigger, List, Check, Acquire, Recheck, Lookup, Context, Call, Cache,
           ReadMembers, ReadListed
    <3>. QED BY <2>3, <3>1, OthersIndexed
  <2>. QED BY <1>2, <2>1, <2>2, <2>3 DEF ExtractionSteps
<1>3. ASSUME NEW r \in Request, ReportSteps(r), unlisted' = unlisted PROVE StoredIsIndexed'
  BY <1>3, OthersIndexed DEF ReportSteps
<1>4. ASSUME NEW r \in Request, Insert(r) \/ Delete(r) \/ RunStatement(r), UNCHANGED unlisted
      PROVE  StoredIsIndexed'
  BY <1>4, OthersIndexed
<1>5. ASSUME NEW x \in Result, CacheResult(x), unlisted' = unlisted PROVE StoredIsIndexed'
  <2> DEFINE k == <<"sim", x>>
  <2>1. Put(k, x, ResultTTL) /\ req' = req
    BY <1>5 DEF CacheResult
  <2>2. k # Index /\ \A i \in Id : k # <<"candidate", i>>
    BY DEF Index
  <2> HIDE DEF k
  <2>3. /\ DOMAIN redis' = DOMAIN redis \cup {k}
        /\ \A y \in DOMAIN redis \ {k} : redis'[y] = redis[y]
    BY <2>1, PutFacts
  <2>4. Members' = Members /\ \A i \in Id : Live(<<"candidate", i>>)' => Live(<<"candidate", i>>)
    BY <2>2, <2>3 DEF Members, Live, Value
  <2>. QED BY <1>5, <2>1, <2>4, IndexFrame
<1>. QED BY <1>1, <1>2, <1>3, <1>4, <1>5, TickIndexed DEF Next

\* A stored profile is in the index for as long as it lives (_persist_profile and
\* clear_redis), unless its second write failed or a flush overlapped the first.
THEOREM StoredAreIndexed == Spec => []StoredIsIndexed
<1>1. Init => StoredIsIndexed
  BY DEF Init, StoreInit, StoredIsIndexed, Live
<1>2. IInv /\ StoredIsIndexed /\ [Next]_vars => StoredIsIndexed'
  BY IndexStep
<1>. QED BY <1>1, <1>2, AlwaysIInv, PTL DEF Spec
==============================================================================
