--------------------------- MODULE MCRunPipeline ---------------------------
(* An instance of RunPipeline for TLC: the daemon starts one unit after     *)
(* boot, too early for the first failure to be reported.                   *)
EXTENDS RunPipeline

MCEarlyStart == {1}

(* Long histories of one job beside short ones of another.                  *)
MCMaxRuns == <<4, 1>>
=============================================================================
