----------------------------- MODULE MCJobQueue -----------------------------
(* Two jobs of one priority and one above it, one worker fewer than jobs,  *)
(* room for two in the queue and one in the channel: the queue fills, a    *)
(* retry meets a full queue and a result meets a full channel.             *)
EXTENDS JobQueue

CONSTANTS j1, j2, j3

MCPriority == [j \in Jobs |-> IF j = j3 THEN 1 ELSE 0]
MCRetries  == [j \in Jobs |-> IF j = j1 THEN 1 ELSE 0]
=============================================================================
