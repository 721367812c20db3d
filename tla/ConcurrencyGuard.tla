-------------------------- MODULE ConcurrencyGuard --------------------------
(* ConcurrencyGuard of src/cronwatch/job_concurrency.py.  A semaphore that  *)
(* has been replaced in _semaphores is of no further interest: release()    *)
(* looks the semaphore up anew, so nobody gives a slot back to the old one. *)
EXTENDS Integers

CONSTANTS
    Job,
    Limit,   \* policy.limit_for
    NoSem    \* the job has no entry in _semaphores

VARIABLES
    slots,   \* value of the semaphore _semaphores leads to, per job
    raced    \* history: how often a job's semaphore was created over another

(* Semaphore(max(1, limit))                                                 *)
Cap(j) == IF Limit[j] < 1 THEN 1 ELSE Limit[j]

Init ==
    /\ slots = [j \in Job |-> NoSem]
    /\ raced = [j \in Job |-> 0]

(* The test and the assignment of _semaphore_for(): another thread may have *)
(* created the semaphore between the two.                                   *)
Missing(j) == slots[j] = NoSem

Create(j) ==
    /\ slots' = [slots EXCEPT ![j] = Cap(j)]
    /\ raced' = IF Missing(j) THEN raced ELSE [raced EXCEPT ![j] = @ + 1]

(* acquire(block=False): its result, and its effect when it succeeds.       *)
Free(j) == slots[j] > 0
Take(j) ==
    /\ slots' = [slots EXCEPT ![j] = @ - 1]
    /\ UNCHANGED raced

Release(j) ==
    /\ slots' = [slots EXCEPT ![j] = @ + 1]
    /\ UNCHANGED raced

Idle == UNCHANGED <<slots, raced>>
=============================================================================
