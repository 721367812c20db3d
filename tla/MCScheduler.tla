---------------------------- MODULE MCScheduler ----------------------------
(* An instance of Scheduler for TLC: an every-minute job before one that    *)
(* runs every other minute, polled every 20 or every 30 seconds.            *)
EXTENDS Scheduler

MCPeriod == <<6, 12>>
MCPolls == {2, 3}

(* The instance is one the theorem about missed occurrences is about.       *)
ASSUME LoopKeepsUp
=============================================================================
