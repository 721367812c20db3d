---------------------------- MODULE MCExecution -----------------------------
(* An instance of Execution for TLC: one job with a quota, one without, one *)
(* thread beside the dispatcher's.                                          *)
EXTENDS Execution

MCJob == {"backup", "sync"}
MCPeriod == [j \in MCJob |-> IF j = "backup" THEN 1 ELSE 3]
MCLimit == [j \in MCJob |-> IF j = "backup" THEN 1 ELSE 0]
MCMaxRuns == [j \in MCJob |-> IF j = "backup" THEN 1 ELSE 0]
=============================================================================
