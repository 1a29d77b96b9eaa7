----------------------------- MODULE EventLedger -----------------------------
(***************************************************************************)
(* What the telemetry pipeline promises about one Kafka topic and its one  *)
(* consumer group, with nothing said about how: messages are settled in    *)
(* the order they were published, one at a time, and none is settled       *)
(* before its effect is on record (an edge weight in the graph or an entry *)
(* in the dead-letter queue) unless it is one that needs no effect.        *)
(* TelemetryConsumers implements this specification.                       *)
(***************************************************************************)
EXTENDS Naturals, Sequences

CONSTANTS
  Topic,      \* the telemetry topics
  Event,      \* the events that may be published
  Ignorable   \* the events that ask for no effect at all

VARIABLES
  log,        \* log[t]: the messages published to t, in order
  settled,    \* settled[t]: how many of them the group will never see again
  recorded    \* recorded[t]: positions whose effect is on record

ledgerVars == <<log, settled, recorded>>

LedgerTypeOK ==
  /\ log \in [Topic -> Seq(Event)]
  /\ settled \in [Topic -> Nat]
  /\ recorded \in [Topic -> SUBSET Nat]

LedgerInit ==
  /\ log = [t \in Topic |-> <<>>]
  /\ settled = [t \in Topic |-> 0]
  /\ recorded = [t \in Topic |-> {}]

Publish(t, e) ==
  /\ log' = [log EXCEPT ![t] = Append(@, e)]
  /\ UNCHANGED <<settled, recorded>>

\* At-least-once: an effect may be recorded again, but only for the message
\* being handled or for the one settled last, never for an older one.
Record(t, i) ==
  /\ i \in {settled[t], settled[t] + 1}
  /\ recorded' = [recorded EXCEPT ![t] = @ \cup {i}]
  /\ UNCHANGED <<log, settled>>

Settle(t) ==
  LET next == settled[t] + 1 IN
  /\ next \in 1..Len(log[t])
  /\ next \in recorded[t] \/ log[t][next] \in Ignorable
  /\ settled' = [settled EXCEPT ![t] = next]
  /\ UNCHANGED <<log, recorded>>

LedgerNext ==
  \E t \in Topic :
    \/ \E e \in Event : Publish(t, e)
    \/ \E i \in 1..Len(log[t]) : Record(t, i)
    \/ Settle(t)

LedgerSpec == LedgerInit /\ [][LedgerNext]_ledgerVars

\* Every settled message left a trace or needed none.
LedgerNoSilentLoss ==
  \A t \in Topic : \A i \in 1..settled[t] :
    i \in recorded[t] \/ log[t][i] \in Ignorable
==============================================================================
