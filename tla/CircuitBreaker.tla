--------------------------- MODULE CircuitBreaker ---------------------------
(* CircuitBreaker of src/cronwatch/circuit_breaker.py: its per-job state    *)
(* and the operations RunPipeline calls.  A job without an entry in _state  *)
(* is one whose entry has the defaults of _BreakerState, so reset(), which  *)
(* pops the entry, restores them.                                           *)
EXTENDS Integers

CONSTANTS
    Job,
    Threshold,        \* threshold
    RecoveryWindow,   \* recovery_window
    None

VARIABLES
    now,        \* _utcnow()
    failures,   \* consecutive_failures of each job
    openSince   \* open_since of each job

(* is_open(): the job is to be skipped.                                     *)
IsOpen(j) ==
    /\ openSince[j] # None
    /\ now - openSince[j] < RecoveryWindow

(* record_failure() that trips again at every failure past the threshold.   *)
RecordFailureAnew(j) ==
    /\ failures' = [failures EXCEPT ![j] = @ + 1]
    /\ openSince' = IF failures[j] + 1 >= Threshold
                      THEN [openSince EXCEPT ![j] = now]
                      ELSE openSince

(* record_failure(): open_since is set once and not moved by later failures.*)
RecordFailure(j) ==
    /\ failures' = [failures EXCEPT ![j] = @ + 1]
    /\ openSince' = IF failures[j] + 1 >= Threshold /\ openSince[j] = None
                      THEN [openSince EXCEPT ![j] = now]
                      ELSE openSince

(* record_success(); reset() has the same effect.                           *)
Close(j) ==
    /\ failures' = [failures EXCEPT ![j] = 0]
    /\ openSince' = [openSince EXCEPT ![j] = None]

(* record(), the one call run_pipeline.py:88 makes.                         *)
Record(j, ok) == IF ok THEN Close(j) ELSE RecordFailure(j)
=============================================================================
