------------------------------ MODULE Notifier ------------------------------
(* Notifier of src/cronwatch/notifier.py: whether a result is worth an      *)
(* alert.  A job without an entry in _states has the defaults of            *)
(* NotifierState; last_notified_at starts at 0.0, the zero of               *)
(* time.monotonic(), which on Linux is the boot of the machine.             *)
EXTENDS Integers

CONSTANTS
    Job,
    MinInterval,        \* min_interval_seconds
    NotifyOnRecovery,   \* notify_on_recovery
    None

VARIABLES
    now,            \* time.monotonic()
    lastNotified,   \* last_notified_at of each job
    lastExit,       \* last_exit_code: None, or whether it was 0
    streak          \* consecutive_failures

WasFailing(j) == lastExit[j] = "nonzero"

(* The value should_notify() returns: a recovery is not rate-limited.       *)
Notifies(j, ok) ==
    IF ok THEN WasFailing(j) /\ NotifyOnRecovery
          ELSE now - lastNotified[j] >= MinInterval

(* A rate limiter that lets each suppressed failure extend the silence.     *)
ShouldNotifyRestarting(j, ok) ==
    /\ lastExit' = [lastExit EXCEPT ![j] = IF ok THEN "zero" ELSE "nonzero"]
    /\ streak' = [streak EXCEPT ![j] = IF ok THEN 0 ELSE @ + 1]
    /\ lastNotified' = [lastNotified EXCEPT ![j] = now]

(* One that remembers the exit code only of the failures it reports.        *)
ShouldNotifyForgetful(j, ok) ==
    /\ lastExit' = IF Notifies(j, ok)
                     THEN [lastExit EXCEPT ![j] = IF ok THEN "zero" ELSE "nonzero"]
                     ELSE [lastExit EXCEPT ![j] = "zero"]
    /\ streak' = [streak EXCEPT ![j] = IF ok THEN 0 ELSE @ + 1]
    /\ lastNotified' = IF Notifies(j, ok) THEN [lastNotified EXCEPT ![j] = now]
                                          ELSE lastNotified

(* should_notify(), its effect on the state.                                *)
ShouldNotify(j, ok) ==
    /\ lastExit' = [lastExit EXCEPT ![j] = IF ok THEN "zero" ELSE "nonzero"]
    /\ streak' = [streak EXCEPT ![j] = IF ok THEN 0 ELSE @ + 1]
    /\ lastNotified' = IF Notifies(j, ok) THEN [lastNotified EXCEPT ![j] = now]
                                          ELSE lastNotified

(* A NotifierState whose last_notified_at starts as None.                   *)
ResetToNone(j) ==
    /\ lastExit' = [lastExit EXCEPT ![j] = None]
    /\ streak' = [streak EXCEPT ![j] = 0]
    /\ lastNotified' = [lastNotified EXCEPT ![j] = None]

(* reset(): the entry of the job is dropped.                                *)
Reset(j) ==
    /\ lastExit' = [lastExit EXCEPT ![j] = None]
    /\ streak' = [streak EXCEPT ![j] = 0]
    /\ lastNotified' = [lastNotified EXCEPT ![j] = 0]
=============================================================================
