------------------------------- MODULE MCHealth -------------------------------
(* One topic with two reviews, and the group names of kafka/topics.py:13 and   *)
(* telemetry_health.py:106.                                                    *)
EXTENDS TelemetryHealth

MCTopic == {"pr"}
MCEvent == {"first", "second"}
MCTopicOf == [e \in MCEvent |-> "pr"]
MCEngineer == {"ana", "bo"}
MCPairOf == [e \in MCEvent |-> <<"ana", "bo">>]
MCConsumerGroup == [pr |-> "stas-pr-review-consumer"]
MCCheckedGroup == [pr |-> "stas-stas-github-pr-reviewed-consumer"]
==============================================================================
