------------------------------ MODULE JwksCache ------------------------------
(***************************************************************************)
(* The signing keys of bearer tokens (core/auth.py): one cache for all      *)
(* requests of the process, filled from a provider that rotates its keys.   *)
(* A request runs from one await to the next undisturbed, and the only await *)
(* is the fetch. No router depends on require_auth yet.                     *)
(* Left out: the development bypass, a missing header, the claims, and what *)
(* else jwt.decode rejects.                                                *)
(***************************************************************************)
EXTENDS Naturals, FiniteSets, FiniteSetsExt

CONSTANTS
  Bearer,         \* places of concurrent requests, each with a token
  Kid,            \* key ids
  KeyTTL,       \* _JWKS_CACHE_TTL
  MaxNow,         \* bound: the clock
  MaxRotations    \* bound: keys added to or taken from the provider's set

ASSUME JwksAssumption ==
  KeyTTL \in Nat \ {0} /\ MaxNow \in Nat /\ MaxRotations \in Nat

VARIABLES
  now,
  cache,       \* the empty set, or the one record of the keys and their time
  auth,        \* auth[b]: where request b stands
  published,   \* the provider's keys
  seen,        \* history: seen[k], when key k was last published
  rotations

keyVars == <<now, cache, auth, published, seen, rotations>>

Idle == [at |-> "idle"]

CacheEntry == [keys : SUBSET Kid, fetchedAt : 0..MaxNow]

\* "first" and "again" are the awaits of the two calls of _fetch_jwks, on the
\* way to the provider; answers is its set of keys, or none so far. The last
\* two fields are histories: whether the provider has had the token's key all
\* through the request, and whether at some moment of it.
Request ==
  [at : {"first", "again", "accepted", "unknown", "unavailable"},
   kid : Kid, since : 0..MaxNow, answers : {s \in SUBSET SUBSET Kid : Cardinality(s) <= 1},
   throughout : BOOLEAN, ever : BOOLEAN]

Arriving(k) ==
  [at |-> "first", kid |-> k, since |-> 0, answers |-> {},
   throughout |-> k \in published, ever |-> k \in published]

JwksTypeOK ==
  /\ now \in 0..MaxNow /\ rotations \in 0..MaxRotations
  /\ cache \in SUBSET CacheEntry /\ Cardinality(cache) <= 1
  /\ DOMAIN auth = Bearer /\ \A b \in Bearer : auth[b] \in Request \cup {Idle}
  /\ published \subseteq Kid /\ seen \in [Kid -> 0..MaxNow]

JwksInit ==
  /\ now = 0 /\ cache = {} /\ rotations = 0
  /\ published \in (SUBSET Kid) \ {{}}
  /\ seen = [k \in Kid |-> 0]
  /\ auth = [b \in Bearer |-> Idle]

Fetching(b) == auth[b].at \in {"first", "again"}

\* The entry is fresh, and its keys are taken from it.
Fresh == {e \in cache : now - e.fetchedAt < KeyTTL}

Verdict(q, at) == [q EXCEPT !.at = at, !.since = 0, !.answers = {}]
Await(q, at) == [q EXCEPT !.at = at, !.since = now, !.answers = {}]

\* Variant: the cache is not cleared, and fetching again finds it fresh.
RefetchCached(b, q) ==
  /\ auth' = [auth EXCEPT ![b] = Verdict(q, "unknown")]
  /\ UNCHANGED cache

\* A key that is not among those fetched may be new: clear, and fetch again,
\* past the cache, which nobody can fill before the request has sent its own.
Refetch(b, q) ==
  /\ cache' = {}
  /\ auth' = [auth EXCEPT ![b] = Await(q, "again")]

\* require_auth up to its verdict or its first await
Authenticate(b) ==
  /\ auth[b] = Idle
  /\ \E k \in Kid :
       LET q == Arriving(k) IN
       \/ /\ Fresh = {}
          /\ auth' = [auth EXCEPT ![b] = Await(q, "first")]
          /\ UNCHANGED cache
       \/ \E e \in Fresh :
            \/ /\ k \in e.keys
               /\ auth' = [auth EXCEPT ![b] = Verdict(q, "accepted")]
               /\ UNCHANGED cache
            \/ k \notin e.keys /\ Refetch(b, q)
  /\ UNCHANGED <<now, published, seen, rotations>>

\* The provider answers.
ProviderAnswers(b) ==
  /\ Fetching(b) /\ auth[b].answers = {}
  /\ auth' = [auth EXCEPT ![b].answers = {published}]
  /\ UNCHANGED <<now, cache, published, seen, rotations>>

\* Variant: the keys count from when they arrive.
StoredNow(b, keys) == [keys |-> keys, fetchedAt |-> now]

\* "now" was read before the await: the keys are no younger than their entry.
Stored(b, keys) == [keys |-> keys, fetchedAt |-> auth[b].since]

\* The answer arrives, and replaces what other requests may have stored since.
Fetched(b) ==
  /\ Fetching(b)
  /\ \E keys \in auth[b].answers :
       \/ /\ auth[b].kid \in keys
          /\ cache' = {Stored(b, keys)}
          /\ auth' = [auth EXCEPT ![b] = Verdict(@, "accepted")]
       \/ /\ auth[b].kid \notin keys /\ auth[b].at = "first"
          /\ Refetch(b, auth[b])
       \/ /\ auth[b].kid \notin keys /\ auth[b].at = "again"
          /\ cache' = {Stored(b, keys)}
          /\ auth' = [auth EXCEPT ![b] = Verdict(@, "unknown")]
  /\ UNCHANGED <<now, published, seen, rotations>>

\* A timeout, a broken connection, a status that is an error: 503.
FetchFails(b) ==
  /\ Fetching(b)
  /\ auth' = [auth EXCEPT ![b] = Verdict(@, "unavailable")]
  /\ UNCHANGED <<now, cache, published, seen, rotations>>

\* The verdict is the route's answer, or lets it go on.
Respond(b) ==
  /\ auth[b].at \in {"accepted", "unknown", "unavailable"}
  /\ auth' = [auth EXCEPT ![b] = Idle]
  /\ UNCHANGED <<now, cache, published, seen, rotations>>

\* The provider adds a key or takes one away, but never the last.
Rotate(k) ==
  /\ rotations < MaxRotations /\ rotations' = rotations + 1
  /\ published # {k}
  /\ published' = IF k \in published THEN published \ {k} ELSE published \cup {k}
  /\ seen' = [seen EXCEPT ![k] = now]
  /\ auth' = [b \in Bearer |->
       IF Fetching(b)
       THEN [auth[b] EXCEPT !.throughout = @ /\ auth[b].kid \in published',
                            !.ever = @ \/ auth[b].kid \in published']
       ELSE auth[b]]
  /\ UNCHANGED <<now, cache>>

KeyTick ==
  /\ now < MaxNow /\ now' = now + 1
  /\ seen' = [k \in Kid |-> IF k \in published THEN now' ELSE seen[k]]
  /\ UNCHANGED <<cache, auth, published, rotations>>

JwksNext ==
  \/ \E b \in Bearer : Authenticate(b) \/ ProviderAnswers(b) \/ Fetched(b)
                         \/ FetchFails(b) \/ Respond(b)
  \/ \E k \in Kid : Rotate(k)
  \/ KeyTick

JwksSpec == JwksInit /\ [][JwksNext]_keyVars

\* A key is called unknown only if the provider lacked it at some moment of the
\* request, whatever other requests cleared or stored meanwhile; it is accepted
\* only if the provider had it less than the cache's lifetime ago, or at some
\* moment of the request, also when a slow answer has replaced a newer one.
\* (The second fetch, and the time an entry counts from.)
VerdictsFollowRotation ==
  [][\A b \in Bearer :
       LET q == auth'[b] IN
       /\ q.at = "unknown" => ~q.throughout
       /\ q.at = "accepted" /\ auth[b].at # "accepted" =>
            q.ever \/ now - seen[q.kid] < KeyTTL]_keyVars
==============================================================================
