------------------------------ MODULE MCTelemetry ------------------------------
(* TelemetryConsumers on two topics. PR: two reviews of one pair and bytes    *)
(* that do not deserialize. Slack: a resolved thread and an unresolved one.   *)
(* The resolved thread names an engineer the graph does not have.             *)
EXTENDS TelemetryConsumers

MCTopic == {"pr", "slack"}
MCEvent == {"review", "garbage", "thread", "open"}
MCTopicOf == [e \in MCEvent |-> IF e \in {"thread", "open"} THEN "slack" ELSE "pr"]
MCEngineer == {"ana", "bo", "ghost"}
MCPairOf == [e \in MCEvent |->
               IF e = "thread" THEN <<"ana", "ghost">> ELSE <<"ana", "bo">>]
MCRegistered == {"ana", "bo"}
MCMalformed == {"garbage"}
MCUnresolved == {"open"}
================================================================================
