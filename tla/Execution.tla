----------------------------- MODULE Execution ------------------------------
(* Jobs on their way through the executors that wrap one another, called by *)
(* the dispatcher's loop (Dispatcher, in the main thread) and by threads of *)
(* their own, all on one guard, one quota tracker and one trace store:      *)
(*   QuotaExecutor or RetryingExecutor, over ConcurrentExecutor, over       *)
(*   TracingExecutor, over TimedExecutor, over run_job.                     *)
(* Other orders do not fit: what QuotaExecutor and RetryingExecutor return  *)
(* has no attribute success, which the executors around them would read.    *)
EXTENDS Integers, Sequences, FiniteSets

CONSTANTS
    Job, Period,
    Daemon,        \* the main thread, in the dispatcher's loop
    Worker,        \* other threads that run jobs
    Limit, NoSem,
    MaxRuns, Window,
    MaxAttempts,   \* policy.attempts_for
    MaxTraces,
    NoJob,
    MaxTime,       \* bound on the clock
    MaxCalls       \* bound on the calls of run() that begin

Thread == Worker \cup {Daemon}

ASSUME ConstantsAssumption ==
    /\ IsFiniteSet(Job) /\ IsFiniteSet(Worker)
    /\ Daemon \notin Worker
    /\ Period \in [Job -> Nat \ {0}]
    /\ Limit \in [Job -> Int]
    /\ NoSem \notin Int
    /\ MaxRuns \in [Job -> Nat]
    /\ Window \in Nat \ {0}
    /\ MaxAttempts \in Int
    /\ MaxTraces \in Nat
    /\ NoJob \notin Job
    /\ MaxTime \in Nat /\ MaxCalls \in Nat

VARIABLES
    now,
    heap, due, tickNow, dropped,   \* Dispatcher
    slots, raced,                           \* ConcurrencyGuard
    timestamps,                             \* Quota
    order, traces, carried, recorded, met, torn,   \* TraceStore
    outer,     \* the outermost executor: "quota" or "retry"
    pc,        \* where each thread is, see TypeOK
    job,       \* the job a thread is running
    began,     \* QuotaExecutor.run: its now
    kept,      \* evict_before: the list about to be stored
    attempt,   \* with_retry: the attempt being made
    outcome,   \* how the innermost run ended: "ok", "failed" or "raised"
    pending,   \* threads whose timer fired too late to be cancelled
    calls,     \* how many calls have begun
    leaked,    \* history: slots of each job that were not given back
    overlap,   \* history: jobs of which two calls ran at once
    won        \* history: when each run that succeeded under the quota was checked

dispatcherVars == <<heap, due, tickNow, dropped>>
guardVars == <<slots, raced>>
traceVars == <<order, traces, carried, recorded, met, torn>>
callVars == <<job, began, kept, attempt, outcome, calls, overlap, won>>
vars == <<now, dispatcherVars, guardVars, timestamps, traceVars,
          outer, pc, pending, leaked, callVars>>

Queue == INSTANCE Dispatcher
Guard == INSTANCE ConcurrencyGuard
Tracker == INSTANCE Quota
Traces == INSTANCE TraceStore

(* Where a thread is in TraceStore.record(), with its id listed.            *)
Recording == {"store", "evict", "pop", "drop"}
Recorders == {t \in Thread : pc[t] \in Recording}

(* Threads that have a slot of job j.                                       *)
Held == {"held", "run", "timer", "trace", "store", "evict", "pop", "drop", "release"}
Inside(j) == {t \in Thread : job[t] = j /\ pc[t] \in Held}

(* Threads that are anywhere in run() for job j.                            *)
Busy(j) == {t \in Thread : job[t] = j /\ pc[t] # "idle"}

Goto(t, label) == pc' = [pc EXCEPT ![t] = label]
End(t, result) == outcome' = [outcome EXCEPT ![t] = result]

Init ==
    /\ now = 0
    /\ Queue!Init /\ Guard!Init /\ Tracker!Init /\ Traces!Init
    /\ outer \in {"quota", "retry"}
    /\ pc = [t \in Thread |-> "idle"]
    /\ job = [t \in Thread |-> NoJob]
    /\ began = [t \in Thread |-> 0]
    /\ kept = [t \in Thread |-> <<>>]
    /\ attempt = [t \in Thread |-> 0]
    /\ outcome = [t \in Thread |-> "ok"]
    /\ pending = {}
    /\ calls = 0
    /\ leaked = [j \in Job |-> 0]
    /\ overlap = {}
    /\ won = [j \in Job |-> <<>>]

-----------------------------------------------------------------------------
(* Entering and leaving the outermost executor *)

(* run(job): QuotaExecutor begins with check(), RetryingExecutor with the   *)
(* first attempt.                                                           *)
Enter(t, j) ==
    /\ calls < MaxCalls
    /\ calls' = calls + 1
    /\ job' = [job EXCEPT ![t] = j]
    /\ overlap' = IF Busy(j) = {} THEN overlap ELSE overlap \cup {j}
    /\ IF outer = "quota"
       THEN /\ began' = [began EXCEPT ![t] = now]
            /\ kept' = [kept EXCEPT ![t] = IF Tracker!Limited(j) THEN Tracker!Evict(j) ELSE <<>>]
            /\ Goto(t, IF Tracker!Limited(j) THEN "check" ELSE "look")
            /\ UNCHANGED attempt
       ELSE /\ attempt' = [attempt EXCEPT ![t] = 1]
            /\ Goto(t, "look")
            /\ UNCHANGED <<began, kept>>
    /\ UNCHANGED <<outcome, won>>

(* What a thread carries through a call, forgotten at its end.              *)
Forget(t) ==
    /\ job' = [job EXCEPT ![t] = NoJob]
    /\ began' = [began EXCEPT ![t] = 0]
    /\ kept' = [kept EXCEPT ![t] = <<>>]
    /\ attempt' = [attempt EXCEPT ![t] = 0]
    /\ outcome' = [outcome EXCEPT ![t] = "ok"]
    /\ UNCHANGED <<calls, overlap>>

(* run() returns: a worker is free again, the dispatcher queues the job.    *)
Return(t) ==
    /\ Forget(t)
    /\ Goto(t, IF t = Daemon THEN "requeue" ELSE "idle")
    /\ Queue!Idle

(* run() raises: for the dispatcher that is the end of the tick.            *)
Raise(t) ==
    /\ Forget(t)
    /\ Goto(t, "idle")
    /\ IF t = Daemon THEN Queue!Abandon
                     ELSE Queue!Idle

-----------------------------------------------------------------------------
(* The dispatcher's loop and the calls of the workers *)

StartTick ==
    /\ pc[Daemon] = "idle"
    /\ tickNow < now
    /\ Queue!Drain
    /\ Goto(Daemon, "next")
    /\ UNCHANGED <<now, guardVars, timestamps, traceVars, outer, pending, leaked, callVars>>

RunNext ==
    /\ pc[Daemon] = "next"
    /\ due # <<>>
    /\ Enter(Daemon, Head(due).job)
    /\ Queue!Idle
    /\ UNCHANGED <<now, guardVars, timestamps, traceVars, outer, pending, leaked>>

Requeue ==
    /\ pc[Daemon] = "requeue"
    /\ \/ Queue!Requeue /\ Goto(Daemon, "next")
       \/ Queue!Abandon /\ Goto(Daemon, "idle")
    /\ UNCHANGED <<now, guardVars, timestamps, traceVars, outer, pending, leaked, callVars>>

EndTick ==
    /\ pc[Daemon] = "next"
    /\ due = <<>>
    /\ Goto(Daemon, "idle")
    /\ UNCHANGED <<now, dispatcherVars, guardVars, timestamps, traceVars, outer, pending, leaked, callVars>>

Call(t, j) ==
    /\ t \in Worker
    /\ pc[t] = "idle"
    /\ Enter(t, j)
    /\ UNCHANGED <<now, dispatcherVars, guardVars, timestamps, traceVars, outer, pending, leaked>>

-----------------------------------------------------------------------------
(* QuotaExecutor.run *)

(* check() stores what it kept, raises QuotaExceededError, which ends run() *)
(* with a result of its own, or lets the job run.                           *)
CheckQuota(t) ==
    /\ pc[t] = "check"
    /\ Tracker!Store(job[t], kept[t])
    /\ IF Tracker!Exceeded(job[t], kept[t])
       THEN Return(t) /\ UNCHANGED won
       ELSE /\ Goto(t, "look")
            /\ kept' = [kept EXCEPT ![t] = <<>>]
            /\ Queue!Idle
            /\ UNCHANGED <<job, began, attempt, outcome, calls, overlap, won>>
    /\ UNCHANGED <<now, guardVars, traceVars, outer, pending, leaked>>

(* The result is back; success is recorded, under the time of the check.    *)
RecordRun(t) ==
    /\ pc[t] = "back"
    /\ outer = "quota"
    /\ IF outcome[t] = "ok"
       THEN /\ Tracker!Record(job[t], began[t])
            /\ won' = [won EXCEPT ![job[t]] = Append(@, began[t])]
       ELSE UNCHANGED <<timestamps, won>>
    /\ Return(t)
    /\ UNCHANGED <<now, guardVars, traceVars, outer, pending, leaked>>

-----------------------------------------------------------------------------
(* with_retry *)

(* After a failed attempt that was not the last: sleep, and try again.      *)
TryAgain(t) ==
    /\ pc[t] = "back"
    /\ outer = "retry"
    /\ IF outcome[t] = "ok" \/ attempt[t] >= MaxAttempts
       THEN Return(t) /\ UNCHANGED won
       ELSE /\ Goto(t, "look")
            /\ attempt' = [attempt EXCEPT ![t] = @ + 1]
            /\ Queue!Idle
            /\ UNCHANGED <<job, began, kept, outcome, calls, overlap, won>>
    /\ UNCHANGED <<now, guardVars, timestamps, traceVars, outer, pending, leaked>>

-----------------------------------------------------------------------------
(* ConcurrentExecutor.run *)

Look(t) ==
    /\ pc[t] = "look"
    /\ Goto(t, IF Guard!Missing(job[t]) THEN "create" ELSE "get")
    /\ UNCHANGED <<now, dispatcherVars, guardVars, timestamps, traceVars, outer, pending, leaked, callVars>>

Create(t) ==
    /\ pc[t] = "create"
    /\ Guard!Create(job[t])
    /\ Goto(t, "get")
    /\ UNCHANGED <<now, dispatcherVars, timestamps, traceVars, outer, pending, leaked, callVars>>

(* try_acquire(); without a slot the result of a skipped run is built with  *)
(* arguments ExecutionResult does not have, and run() raises.  And a guard  *)
(* that waits for the slot, and a try_acquire() that does not heed what     *)
(* acquire() returns.                                                       *)
AcquireWaiting(t) ==
    /\ pc[t] = "get"
    /\ Guard!Free(job[t])
    /\ Guard!Take(job[t])
    /\ Goto(t, "held")
    /\ Queue!Idle
    /\ UNCHANGED <<now, timestamps, traceVars, outer, pending, leaked, callVars>>

AcquireUnheeded(t) ==
    /\ pc[t] = "get"
    /\ IF Guard!Free(job[t]) THEN Guard!Take(job[t]) ELSE Guard!Idle
    /\ Goto(t, "held")
    /\ Queue!Idle
    /\ UNCHANGED <<now, timestamps, traceVars, outer, pending, leaked, callVars>>

Acquire(t) ==
    /\ pc[t] = "get"
    /\ IF Guard!Free(job[t])
       THEN /\ Guard!Take(job[t])
            /\ Goto(t, "held")
            /\ Queue!Idle
            /\ UNCHANGED callVars
       ELSE Raise(t) /\ Guard!Idle /\ UNCHANGED won
    /\ UNCHANGED <<now, timestamps, traceVars, outer, pending, leaked>>

(* A guard that gives the slot back only after a run that returned.         *)
GiveBackWithoutFinally(t) ==
    /\ pc[t] = "release"
    /\ IF outcome[t] = "raised"
       THEN Raise(t) /\ Guard!Idle /\ UNCHANGED won
       ELSE Guard!Release(job[t]) /\ Goto(t, "back") /\ Queue!Idle /\ UNCHANGED callVars
    /\ UNCHANGED <<now, timestamps, traceVars, outer, pending, leaked>>

(* The finally clause.                                                      *)
GiveBack(t) ==
    /\ pc[t] = "release"
    /\ Guard!Release(job[t])
    /\ IF outcome[t] = "raised"
       THEN Raise(t) /\ UNCHANGED won
       ELSE Goto(t, "back") /\ Queue!Idle /\ UNCHANGED callVars
    /\ UNCHANGED <<now, timestamps, traceVars, outer, pending, leaked>>

-----------------------------------------------------------------------------
(* TracingExecutor.run over TimedExecutor.run over run_job *)

(* Everything up to the yield of enforce_timeout, whose timer now runs.     *)
Start(t) ==
    /\ pc[t] = "held"
    /\ Goto(t, "run")
    /\ UNCHANGED <<now, dispatcherVars, guardVars, timestamps, traceVars, outer, pending, leaked, callVars>>

(* run_job returns: it turns every exception of its own into a result.      *)
Finish(t) ==
    /\ pc[t] = "run"
    /\ \E result \in {"ok", "failed"} : End(t, result)
    /\ Goto(t, "timer")
    /\ UNCHANGED <<now, dispatcherVars, guardVars, timestamps, traceVars, outer, pending, leaked,
                   job, began, kept, attempt, calls, overlap, won>>

CancelTimer(t) ==
    /\ pc[t] = "timer"
    /\ Goto(t, "trace")
    /\ UNCHANGED <<now, dispatcherVars, guardVars, timestamps, traceVars, outer, pending, leaked, callVars>>

(* TraceStore.record(), of which any step may find what another thread left. *)
ListTrace(t) ==
    /\ pc[t] = "trace"
    /\ Traces!List(t, Recorders = {})
    /\ Goto(t, "store")
    /\ UNCHANGED <<now, dispatcherVars, guardVars, timestamps, outer, pending, leaked, callVars>>

StoreTrace(t) ==
    /\ pc[t] = "store"
    /\ Traces!Store(t)
    /\ Goto(t, "evict")
    /\ UNCHANGED <<now, dispatcherVars, guardVars, timestamps, outer, pending, leaked, callVars>>

LookForOldest(t) ==
    /\ pc[t] = "evict"
    /\ Goto(t, IF Traces!TooMany THEN "pop" ELSE "release")
    /\ UNCHANGED <<now, dispatcherVars, guardVars, timestamps, traceVars, outer, pending, leaked, callVars>>

(* pop(0) of a list that other threads have emptied raises IndexError.      *)
PopOldest(t) ==
    /\ pc[t] = "pop"
    /\ IF order = <<>>
       THEN /\ End(t, "raised")
            /\ Goto(t, "release")
            /\ UNCHANGED traceVars
       ELSE /\ Traces!Pop(t)
            /\ Goto(t, "drop")
            /\ UNCHANGED outcome
    /\ UNCHANGED <<now, dispatcherVars, guardVars, timestamps, outer, pending, leaked,
                   job, began, kept, attempt, calls, overlap, won>>

DropOldest(t) ==
    /\ pc[t] = "drop"
    /\ Traces!Drop(t)
    /\ Goto(t, "evict")
    /\ UNCHANGED <<now, dispatcherVars, guardVars, timestamps, outer, pending, leaked, callVars>>

(* What an exception inside TimedExecutor.run comes to: it is caught, but   *)
(* the result built from it has the wrong arguments; no trace is recorded   *)
(* and the slot is given back.                                              *)
Unwind(t) ==
    /\ End(t, "raised")
    /\ Goto(t, "release")
    /\ UNCHANGED <<dispatcherVars, guardVars, job, began, kept, attempt, calls, overlap, won>>

(* In the main thread SIGALRM raises JobTimeoutError where it is, and       *)
(* alarm(0) ends that before TimedExecutor.run is left.                     *)
Alarm ==
    /\ pc[Daemon] \in {"run", "timer"}
    /\ Unwind(Daemon)
    /\ UNCHANGED <<now, timestamps, traceVars, outer, pending, leaked>>

(* Elsewhere a timer thread decides to raise in the thread that runs the    *)
(* job, and may be overtaken by that thread before it does.                 *)
TimerFires(t) ==
    /\ t \in Worker \ pending
    /\ pc[t] \in {"run", "timer"}
    /\ pending' = pending \cup {t}
    /\ UNCHANGED <<now, dispatcherVars, guardVars, timestamps, traceVars, outer, pc, leaked, callVars>>

(* The exception lands: inside the with block, on the way out of it or in   *)
(* record(), before the slot is given back or before the try that would     *)
(* give it back, or where the thread has no slot.                           *)
Land(t) ==
    /\ t \in pending
    /\ pending' = pending \ {t}
    /\ \/ /\ pc[t] \in {"run", "timer", "trace"}
          /\ Unwind(t)
          /\ UNCHANGED <<leaked, traceVars>>
       \/ /\ pc[t] \in Recording
          /\ Unwind(t)
          /\ Traces!Leave(t)
          /\ UNCHANGED leaked
       \/ /\ pc[t] \in {"held", "release"}
          /\ leaked' = [leaked EXCEPT ![job[t]] = @ + 1]
          /\ Raise(t) /\ Guard!Idle /\ UNCHANGED <<traceVars, won>>
       \/ /\ pc[t] \in {"check", "look", "create", "get", "back"}
          /\ Raise(t) /\ Guard!Idle /\ UNCHANGED <<leaked, traceVars, won>>
       \/ /\ pc[t] = "idle"
          /\ UNCHANGED <<pc, dispatcherVars, guardVars, leaked, traceVars, callVars>>
    /\ UNCHANGED <<now, timestamps, outer>>

-----------------------------------------------------------------------------
(* Somebody asks QuotaTracker.remaining().                                  *)
Remaining(j) ==
    /\ outer = "quota" /\ Tracker!Limited(j)
    /\ Tracker!Store(j, Tracker!Evict(j))
    /\ UNCHANGED <<now, dispatcherVars, guardVars, traceVars, outer, pc, pending, leaked, callVars>>

AdvanceClock ==
    /\ now < MaxTime
    /\ now' = now + 1
    /\ UNCHANGED <<dispatcherVars, guardVars, timestamps, traceVars, outer, pc, pending, leaked, callVars>>

Step(t) ==
    \/ CheckQuota(t) \/ RecordRun(t) \/ TryAgain(t)
    \/ Look(t) \/ Create(t) \/ Acquire(t) \/ GiveBack(t)
    \/ Start(t) \/ Finish(t) \/ CancelTimer(t)
    \/ ListTrace(t) \/ StoreTrace(t) \/ LookForOldest(t) \/ PopOldest(t) \/ DropOldest(t)

Loop == StartTick \/ RunNext \/ Requeue \/ EndTick

Next ==
    \/ Loop
    \/ \E t \in Thread : Step(t)
    \/ \E t \in Worker, j \in Job : Call(t, j)
    \/ Alarm
    \/ \E t \in Worker : TimerFires(t) \/ Land(t)
    \/ \E j \in Job : Remaining(j)
    \/ AdvanceClock

Spec == Init /\ [][Next]_vars

(* A thread that can go on does: jobs end, and no lock is waited for.       *)
FairSpec == Spec /\ \A t \in Thread : WF_vars(Step(t))

-----------------------------------------------------------------------------
(* Properties *)

TypeOK ==
    /\ now \in Nat /\ tickNow \in Nat
    /\ heap \in Seq(Queue!Entry) /\ due \in Seq(Queue!Entry)
    /\ \A k \in 1 .. Len(heap) - 1 : heap[k].at <= heap[k + 1].at
    /\ dropped \subseteq Job
    /\ slots \in [Job -> Nat \cup {NoSem}]
    /\ raced \in [Job -> Nat]
    /\ timestamps \in [Job -> Seq(Nat)] /\ won \in [Job -> Seq(Nat)]
    /\ order \in Seq(Nat) /\ recorded \in Nat
    /\ traces \subseteq Nat /\ carried \in [Thread -> Nat]
    /\ met \in BOOLEAN /\ torn \in BOOLEAN
    /\ outer \in {"quota", "retry"}
    /\ pc \in [Thread -> {"idle", "next", "requeue", "check", "look", "create", "get",
                          "held", "run", "timer", "trace", "store", "evict", "pop",
                          "drop", "release", "back"}]
    /\ job \in [Thread -> Job \cup {NoJob}]
    /\ began \in [Thread -> Nat] /\ attempt \in [Thread -> Nat]
    /\ kept \in [Thread -> Seq(Nat)]
    /\ outcome \in [Thread -> {"ok", "failed", "raised"}]
    /\ pending \subseteq Worker
    /\ calls \in Nat
    /\ leaked \in [Job -> Nat]
    /\ overlap \subseteq Job

(* A job is in the queue or in the tick exactly once, whatever the tick is  *)
(* doing, unless an exception left the tick while the job was drained       *)
(* (job_dispatcher.py:41-54); and what waits in the queue between ticks is  *)
(* later than the last tick, so no occurrence is run twice.                 *)
QueuedOnce ==
    /\ \A j \in Job : Queue!Copies(j) = IF j \in dropped THEN 0 ELSE 1
    /\ \A k \in DOMAIN heap : heap[k].at > tickNow

(* No more threads run a job than its limit allows; and each time a thread  *)
(* creates its semaphore over one that another thread has just created      *)
(* (job_concurrency.py:40-53) lets in no more than the limit once again.    *)
LimitKept ==
    \A j \in Job : Cardinality(Inside(j)) <= Guard!Cap(j) * (1 + raced[j])

(* Every slot comes back, after a failure, a timeout or a refusal as after  *)
(* a success (concurrent_executor.py:35-38): the free slots and the slots   *)
(* in use are the limit, less the slots lost to an exception that landed    *)
(* outside the try.  Threads that raced for the semaphore only add slots,   *)
(* each of them no more than the limit.                                     *)
SlotsReturn ==
    \A j \in Job : slots[j] # NoSem =>
        LET found == slots[j] + Cardinality(Inside(j)) + leaked[j]
        IN found \in Guard!Cap(j) .. Guard!Cap(j) * (1 + raced[j])

(* job_quota.py:3 - runs of a job that succeed and begin within any stretch *)
(* of Window, ends included, are no more than its limit, wherever the       *)
(* stretch lies, as long as no two calls for the job overlap.               *)
QuotaBudget ==
    \A j \in Job \ overlap : MaxRuns[j] > 0 => \A i \in DOMAIN won[j] :
        Cardinality({k \in DOMAIN won[j] :
            won[j][k] \in won[j][i] .. won[j][i] + Window}) <= MaxRuns[j]

(* The list holds the traces recorded last, in their order, however the     *)
(* calls of record() interleave (job_tracing.py:66-72).  It is longer than  *)
(* the store may be by no more than one for each call under way, and what   *)
(* it lists can be found, or is about to be stored, unless an exception has *)
(* left a call of record().  If besides no two calls have ever overlapped,  *)
(* the store between calls is as full as it may be, and list and dictionary *)
(* are in step; two that overlap may drop a trace too many, or store one    *)
(* that is no longer listed and so is never dropped.                        *)
TracesAreNewest ==
    /\ \A k \in DOMAIN order : order[k] = recorded - Len(order) + k
    /\ ~torn => /\ Len(order) <= MaxTraces + Cardinality(Recorders)
                /\ \A k \in DOMAIN order :
                      order[k] \in traces \/ \E t \in Thread : pc[t] = "store" /\ carried[t] = order[k]
    /\ ~torn /\ ~met /\ Recorders = {} =>
            /\ Len(order) = IF recorded < MaxTraces THEN recorded ELSE MaxTraces
            /\ traces = {order[k] : k \in DOMAIN order}

(* Every call of run() ends: retries are used up, and nobody waits for a    *)
(* slot (job_retry.py:57-71, job_concurrency.py:46-53).                     *)
CallsEnd == \A t \in Worker : pc[t] # "idle" ~> pc[t] = "idle"
=============================================================================
