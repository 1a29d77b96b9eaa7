----------------------------- MODULE AdminConsole -----------------------------
(***************************************************************************)
(* The admin page (apps/web/app/admin/page.tsx) as the one caller of the    *)
(* seed and clear routes, over TeamGraph. Its handlers are atomic; each     *)
(* call of run(key, fn) sets busy[key] until the fetch settles and the page *)
(* renders the flags into its buttons. A quick reset is three calls in a    *)
(* row, with the statistics fetched after each: between two calls no flag   *)
(* is set. Its calls test the flags of the click that started it, all false. *)
(* A fetch may be lost: it rejects while its handler goes on.               *)
(***************************************************************************)
EXTENDS TeamGraph

CONSTANTS
  Reset,      \* quick resets confirmed on the page
  Button,     \* the caller that is not a reset
  Nobody,     \* no call
  MaxLost     \* fetches that are lost

ASSUME ConsoleAssumption ==
  /\ Button \notin Reset /\ Nobody \notin Reset \cup {Button}
  /\ MaxLost \in Nat

VARIABLES
  busy,       \* busy[key]
  call,       \* call[r]: who awaits the answer to request r
  stage,      \* stage[c]: the call of reset c, or the gap before the next one
  flushing,   \* callers that await DELETE /admin/redis
  lost,       \* fetches that rejected
  clearedIn   \* history: resets since whose start another clear was called

page == <<busy, call, stage, flushing, lost, clearedIn>>
consoleVars == <<vars, page>>

Key == {"seed", "clearGraph", "clearRedis"}
KeyOf(kind) == IF kind = "seed" THEN "seed" ELSE "clearGraph"

ConsoleTypeOK ==
  /\ TypeOK
  /\ busy \in [Key -> BOOLEAN]
  /\ call \in [Request -> Reset \cup {Button, Nobody}]
  /\ stage \in [Reset -> {"none", "clear", "thenRedis", "redis", "thenSeed", "seed",
                          "done", "failed", "aborted"}]
  /\ flushing \subseteq Reset \cup {Button}
  /\ lost \in 0..MaxLost
  /\ clearedIn \subseteq Reset

ConsoleInit ==
  /\ Init
  /\ busy = [k \in Key |-> FALSE]
  /\ call = [r \in Request |-> Nobody]
  /\ stage = [c \in Reset |-> "none"]
  /\ flushing = {} /\ lost = 0 /\ clearedIn = {}

------------------------------------------------------------------------------

\* run(key, fn) up to its fetch
Fetch(r, kind, by) ==
  /\ Begin(r, kind)
  /\ busy' = [busy EXCEPT ![KeyOf(kind)] = TRUE]
  /\ call' = [call EXCEPT ![r] = by]
  /\ clearedIn' = IF kind = "clear" THEN clearedIn \cup {c \in Reset : stage[c] # "none"}
                  ELSE clearedIn
  /\ UNCHANGED <<flushing, lost>>

ClickSeed(r) == ~busy["seed"] /\ Fetch(r, "seed", Button) /\ UNCHANGED stage

ClickClear(r) == ~busy["clearGraph"] /\ Fetch(r, "clear", Button) /\ UNCHANGED stage

\* Variant: the reset's button is disabled by its own seeding only.
EnabledUnlessSeeding == ~busy["seed"]

\* disabled={busy.clearGraph || busy.clearRedis || busy.seed}
ResetEnabled == \A k \in Key : ~busy[k]

ClickReset(c, r) ==
  /\ stage[c] = "none"
  /\ ResetEnabled
  /\ Fetch(r, "clear", c)
  /\ stage' = [stage EXCEPT ![c] = "clear"]

ResetSeed(c, r) ==
  /\ stage[c] = "thenSeed"
  /\ Fetch(r, "seed", c)
  /\ stage' = [stage EXCEPT ![c] = "seed"]

\* The call of a reset has settled: an HTTP error is logged and the next call
\* follows all the same, a rejected fetch ends the reset.
AfterCall(c, ok) ==
  CASE stage[c] = "clear" -> "thenRedis"
    [] stage[c] = "redis" -> "thenSeed"
    [] OTHER -> IF ok THEN "done" ELSE "failed"

Settled(r, label) ==
  /\ call' = [call EXCEPT ![r] = Nobody]
  /\ busy' = [busy EXCEPT ![KeyOf(req[r].kind)] = FALSE]
  /\ stage' = IF call[r] \in Reset THEN [stage EXCEPT ![call[r]] = label] ELSE stage
  /\ UNCHANGED <<vars, flushing, clearedIn>>

Answered(r) ==
  /\ call[r] # Nobody
  /\ req[r].at \in Status
  /\ Settled(r, IF call[r] \in Reset THEN AfterCall(call[r], req[r].at = "ok") ELSE "none")
  /\ UNCHANGED lost

Lost(r) ==
  /\ call[r] # Nobody
  /\ lost < MaxLost
  /\ lost' = lost + 1
  /\ Settled(r, "aborted")

\* DELETE /admin/redis, from the button or from reset c
Flush(by) ==
  /\ IF by \in Reset THEN stage[by] = "thenRedis" ELSE ~busy["clearRedis"]
  /\ flushing' = flushing \cup {by}
  /\ busy' = [busy EXCEPT !["clearRedis"] = TRUE]
  /\ stage' = IF by \in Reset THEN [stage EXCEPT ![by] = "redis"] ELSE stage
  /\ UNCHANGED <<vars, call, lost, clearedIn>>

Flushed(by) ==
  /\ by \in flushing
  /\ flushing' = flushing \ {by}
  /\ busy' = [busy EXCEPT !["clearRedis"] = FALSE]
  /\ \/ /\ stage' = IF by \in Reset THEN [stage EXCEPT ![by] = AfterCall(by, TRUE)] ELSE stage
        /\ UNCHANGED lost
     \/ /\ lost < MaxLost /\ lost' = lost + 1
        /\ stage' = IF by \in Reset THEN [stage EXCEPT ![by] = "aborted"] ELSE stage
  /\ UNCHANGED <<vars, call, clearedIn>>

Page ==
  \/ \E r \in Request :
       \/ ClickSeed(r) \/ ClickClear(r) \/ Answered(r) \/ Lost(r)
       \/ \E c \in Reset : ClickReset(c, r) \/ ResetSeed(c, r)
  \/ \E by \in Reset \cup {Button} : Flush(by) \/ Flushed(by)

Others ==
  /\ \/ \E r \in Request : Serve(r) \/ \E kind \in {"graph", "centrality"} : Begin(r, kind)
     \/ \E e \in Edge : Upsert(e)
  /\ UNCHANGED page

ConsoleNext == Page \/ Others

ConsoleSpec == ConsoleInit /\ [][ConsoleNext]_consoleVars

------------------------------------------------------------------------------
(* Properties *)

\* A quick reset that reported its seed leaves the whole demo graph, although
\* its calls test flags of the past, buttons and a second reset can start in its
\* gaps, and HTTP errors of its clear are passed over: unless another clear was
\* called after it began, or a fetch was lost and its clear is still running.
ResetEndsSeeded ==
  \A c \in Reset : stage[c] = "done" /\ c \notin clearedIn /\ lost = 0 =>
    /\ Engineer \subseteq engineers
    /\ \A e \in Seeded : weight[e] >= SeedWeight(e)
==============================================================================
