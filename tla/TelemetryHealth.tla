--------------------------- MODULE TelemetryHealth ---------------------------
(***************************************************************************)
(* One run of the hourly health check (airflow/dags/telemetry_health.py)    *)
(* beside the telemetry consumers. check_consumer_lag takes the topics one  *)
(* by one: the end offset from one client, then the offset committed by a   *)
(* group from another. check_dlq_depth runs in parallel; the alert waits    *)
(* for both. A task that raises is tried again and is left out: its reads   *)
(* change nothing.                                                         *)
(***************************************************************************)
EXTENDS TelemetryConsumers

CONSTANTS
  ConsumerGroup,   \* [Topic -> group]: the consumers' (kafka/topics.py)
  CheckedGroup,    \* [Topic -> group]: the group whose offset the check reads
  LagThreshold,    \* a natural number, as the next
  DlqThreshold,
  None             \* not read yet

VARIABLES
  end,        \* end[t]: the end offset read, None before
  lag,        \* lag[t]: the lag computed, None before
  depth,      \* depth[t]: the end offset of t's dead-letter queue, None before
  alerted,    \* the alert, once the last task ran: breached topics and queues
  backlog     \* history: what t's consumers were behind when end[t] was read

healthVars == <<end, lag, depth, alerted, backlog>>

Measured == \A t \in Topic : lag[t] # None /\ depth[t] # None

HealthInit ==
  /\ Init
  /\ end = [t \in Topic |-> None]
  /\ lag = [t \in Topic |-> None]
  /\ depth = [t \in Topic |-> None]
  /\ alerted = None
  /\ backlog = [t \in Topic |-> 0]

\* committed(tp) or 0: a group that has committed nothing counts from the start.
GroupOffset(group, t) == IF group = ConsumerGroup[t] THEN committed[t] ELSE 0

ReadEnd(t) ==
  /\ end[t] = None
  /\ \A u \in Topic : end[u] # None => lag[u] # None
  /\ end' = [end EXCEPT ![t] = Len(log[t])]
  /\ backlog' = [backlog EXCEPT ![t] = Len(log[t]) - committed[t]]
  /\ UNCHANGED <<vars, lag, depth, alerted>>

\* max(0, end - committed)
ReadCommitted(t) ==
  LET offset == GroupOffset(CheckedGroup[t], t) IN
  /\ end[t] # None /\ lag[t] = None
  /\ lag' = [lag EXCEPT ![t] = IF end[t] > offset THEN end[t] - offset ELSE 0]
  /\ UNCHANGED <<vars, end, depth, alerted, backlog>>

ReadDepth(t) ==
  /\ depth[t] = None
  /\ depth' = [depth EXCEPT ![t] = Len(dlq[t])]
  /\ UNCHANGED <<vars, end, lag, alerted, backlog>>

SendAlert ==
  /\ Measured /\ alerted = None
  /\ alerted' = [lag |-> {t \in Topic : lag[t] > LagThreshold},
                 dlq |-> {t \in Topic : depth[t] > DlqThreshold}]
  /\ UNCHANGED <<vars, end, lag, depth, backlog>>

HealthNext ==
  \/ Next /\ UNCHANGED healthVars
  \/ \E t \in Topic : ReadEnd(t) \/ ReadCommitted(t) \/ ReadDepth(t)
  \/ SendAlert

HealthSpec == HealthInit /\ [][HealthNext]_<<vars, healthVars>>

\* The lag of a topic is "for the production consumer group", so a breach means
\* that the consumers were behind by more than the threshold. They may catch up
\* between the two reads: the lag is at most the backlog at the first.
LagIsOfConsumers ==
  alerted # None => \A t \in alerted.lag : backlog[t] > LagThreshold
==============================================================================
