----------------------------- MODULE EventStream ------------------------------
(***************************************************************************)
(* What POST /simulation/run-stream promises a client, with nothing said   *)
(* about threads and queues: the progress events of a run in order, none   *)
(* left out, then exactly one result or error, and a result only after the *)
(* last progress event. SimulationStream implements this specification.    *)
(***************************************************************************)
EXTENDS Naturals, Sequences

CONSTANTS
  Request,    \* the stream requests
  Blocks      \* [Request -> Nat]: progress reports in a complete run

VARIABLE sent \* sent[r]: events the client of r has received

Terminal == {"result", "error"}

Ended(r) == \E k \in DOMAIN sent[r] : sent[r][k].type \in Terminal

StreamInit == sent = [r \in Request |-> <<>>]

Emit(r, type, n) ==
  /\ ~Ended(r)
  /\ sent' = [sent EXCEPT ![r] = Append(@, [type |-> type, n |-> n])]

EmitProgress(r) ==
  Len(sent[r]) < Blocks[r] /\ Emit(r, "progress", Len(sent[r]) + 1)

EmitResult(r) == Len(sent[r]) = Blocks[r] /\ Emit(r, "result", 0)

EmitError(r) == Emit(r, "error", 0)

StreamNext == \E r \in Request : EmitProgress(r) \/ EmitResult(r) \/ EmitError(r)

StreamSpec == StreamInit /\ [][StreamNext]_sent
==============================================================================
