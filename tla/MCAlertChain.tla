---------------------------- MODULE MCAlertChain ----------------------------
(* Instances of AlertChain for TLC: the levels of build_escalating_alerter  *)
(* with "critical" after two failures instead of five.                      *)
EXTENDS AlertChain

MCJob == {"backup"}
MCLevel == {"warning", "critical"}
MCAfter == [l \in MCLevel |-> IF l = "warning" THEN 1 ELSE 2]
=============================================================================
