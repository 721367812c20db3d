-------------------------------- MODULE Quota --------------------------------
(* QuotaTracker of src/cronwatch/job_quota.py: the times of the runs of a   *)
(* job that counted, evicted whenever they are looked at.                   *)
EXTENDS Integers, Sequences, Subsequences

CONSTANTS
    Job,
    MaxRuns,   \* max_runs_for; 0 is "unlimited"
    Window     \* window_seconds_for

VARIABLES now, timestamps

Init == timestamps = [j \in Job |-> <<>>]

(* evict_before() that also drops what is exactly Window old.               *)
EvictEdge(j) == Only(timestamps[j], {t \in Nat : t > now - Window})
Evict(j) == Only(timestamps[j], {t \in Nat : t >= now - Window})

(* check() and remaining() read the list, filter it and store it again, and *)
(* count what they stored; a job without a limit is not even evicted.       *)
Limited(j) == MaxRuns[j] > 0
Exceeded(j, kept) == Len(kept) >= MaxRuns[j]
Store(j, kept) == timestamps' = [timestamps EXCEPT ![j] = kept]

(* record() at the time at which the run was checked.                       *)
Record(j, t) == timestamps' = [timestamps EXCEPT ![j] = Append(@, t)]

Idle == UNCHANGED timestamps
=============================================================================
