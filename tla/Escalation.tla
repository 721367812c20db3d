----------------------------- MODULE Escalation -----------------------------
(* EscalationPolicy and EscalationTracker of src/cronwatch/job_escalation.py*)
EXTENDS Integers

CONSTANTS
    Job,
    Level,          \* the names in policy.levels
    After,          \* after_failures of each level; no two levels share one
    DefaultLevel,   \* policy.default_level
    None

VARIABLES
    count,      \* consecutive_failures of each job
    lastLevel   \* last_level of each job

Reached(n) == {l \in Level : After[l] <= n}

(* level_for()                                                              *)
LevelFor(n) ==
    IF Reached(n) = {} THEN DefaultLevel
    ELSE CHOOSE l \in Reached(n) : \A m \in Reached(n) : After[m] <= After[l]

(* record_failure() returns the level it leaves in last_level.              *)
RecordFailure(j) ==
    /\ count' = [count EXCEPT ![j] = @ + 1]
    /\ lastLevel' = [lastLevel EXCEPT ![j] = LevelFor(count[j] + 1)]

(* record_success() that leaves the count alone.                            *)
RecordSuccessKeepingCount(j) ==
    /\ lastLevel' = [lastLevel EXCEPT ![j] = None]
    /\ UNCHANGED count

RecordSuccess(j) ==
    /\ count' = [count EXCEPT ![j] = 0]
    /\ lastLevel' = [lastLevel EXCEPT ![j] = None]
=============================================================================
