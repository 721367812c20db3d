---------------------------- MODULE RunPipeline ----------------------------
(* RunPipeline.tick() of src/cronwatch/run_pipeline.py with the circuit     *)
(* breaker, the notifier and the history it drives, the daemon around it    *)
(* (time, restarts, resets by an operator) and the alerter it calls.        *)
(*                                                                          *)
(* Jobs are numbered by their place in config.jobs (their names differ).    *)
(* Which jobs are due, how a run ends and whether an alert arrives is up to *)
(* the environment.  Restarts lose the breaker's and the notifier's memory, *)
(* the history is a file and survives.                                      *)
EXTENDS Integers, Sequences

CONSTANTS
    NumJobs,
    Threshold,
    RecoveryWindow,
    MinInterval,
    NotifyOnRecovery,
    None,
    StartTimes,   \* the clock when the daemon first starts
    MaxTime,      \* bound on the clock
    MaxRuns,      \* bound on the entries of each job's history
    MaxResets     \* bound on the restarts and resets

Job == 1..NumJobs

ASSUME ConstantsAssumption ==
    /\ NumJobs \in Nat
    /\ Threshold \in Nat \ {0}
    /\ RecoveryWindow \in Nat
    /\ MinInterval \in Nat
    /\ NotifyOnRecovery \in BOOLEAN
    /\ None \notin Nat \cup {"zero", "nonzero", "failing", "recovered"}
    /\ StartTimes \subseteq Nat
    /\ MaxTime \in Nat
    /\ MaxRuns \in [Job -> Nat]
    /\ MaxResets \in Nat

VARIABLES
    now,
    pc,        \* "idle" between ticks; "next" at a job of the loop; "run"; then, for a
               \* run that is over, "recorded" in the history, "ask" the notifier, "send"
    job,       \* the job the loop is at; NumJobs + 1 at its end
    hist,      \* the history file of each job: whether a run succeeded, and when it ended
    failures, openSince,              \* CircuitBreaker
    lastNotified, lastExit, streak,   \* Notifier
    resets,    \* number of restarts and resets so far
    epoch,     \* history: length of hist[j] when the breaker last forgot job j
    told,      \* history: what the last alert that arrived said of the job
    unsent,    \* history: jobs whose last alert did not arrive
    forgot,    \* history: jobs the notifier forgot since their last alert arrived
    cut        \* history: jobs whose last run is on file but the daemon died before
               \* the notifier heard of it

breakerVars == <<failures, openSince>>
notifierVars == <<lastNotified, lastExit, streak>>
historyVars == <<resets, epoch, told, unsent, forgot, cut>>
vars == <<now, pc, job, hist, breakerVars, notifierVars, historyVars>>

Breaker == INSTANCE CircuitBreaker
Notify == INSTANCE Notifier

Init ==
    /\ now \in StartTimes
    /\ pc = "idle"
    /\ job = 1
    /\ hist = [j \in Job |-> <<>>]
    /\ failures = [j \in Job |-> 0]
    /\ openSince = [j \in Job |-> None]
    /\ lastNotified = [j \in Job |-> 0]
    /\ lastExit = [j \in Job |-> None]
    /\ streak = [j \in Job |-> 0]
    /\ resets = 0
    /\ epoch = [j \in Job |-> 0]
    /\ told = [j \in Job |-> None]
    /\ unsent = {}
    /\ forgot = {}
    /\ cut = {}

-----------------------------------------------------------------------------
(* One call of tick() *)

StartTick ==
    /\ pc = "idle"
    /\ pc' = "next"
    /\ job' = 1
    /\ UNCHANGED <<now, hist, breakerVars, notifierVars, historyVars>>

(* The job is not due, or its circuit is open, or another process holds its *)
(* lock (runner_result.skipped): whichever it is, nothing is recorded.      *)
PassOver ==
    /\ pc = "next"
    /\ job \in Job
    /\ job' = job + 1
    /\ UNCHANGED <<now, pc, hist, breakerVars, notifierVars, historyVars>>

(* tick() without the test of the circuit breaker.                          *)
StartRunUnguarded ==
    /\ pc = "next"
    /\ job \in Job
    /\ pc' = "run"
    /\ UNCHANGED <<now, job, hist, breakerVars, notifierVars, historyVars>>

(* The job is due, its circuit is not open and its lock is free.            *)
StartRun ==
    /\ pc = "next"
    /\ job \in Job
    /\ ~Breaker!IsOpen(job)
    /\ pc' = "run"
    /\ UNCHANGED <<now, job, hist, breakerVars, notifierVars, historyVars>>

(* The run is over and its result is appended to the history file.          *)
RecordHistory(ok) ==
    /\ pc = "run"
    /\ Len(hist[job]) < MaxRuns[job]
    /\ hist' = [hist EXCEPT ![job] = Append(@, [ok |-> ok, at |-> now])]
    /\ pc' = "recorded"
    /\ UNCHANGED <<now, job, breakerVars, notifierVars, historyVars>>

LastOk(j) == hist[j][Len(hist[j])].ok

(* circuit_breaker.record()                                                 *)
RecordBreaker ==
    /\ pc = "recorded"
    /\ Breaker!Record(job, LastOk(job))
    /\ pc' = "ask"
    /\ UNCHANGED <<now, job, hist, notifierVars, historyVars>>

(* notifier.should_notify(), and on to alerter.send or to the next job.     *)
AskNotifier ==
    /\ pc = "ask"
    /\ Notify!ShouldNotify(job, LastOk(job))
    /\ IF Notify!Notifies(job, LastOk(job))
         THEN pc' = "send" /\ job' = job
         ELSE pc' = "next" /\ job' = job + 1
    /\ cut' = cut \ {job}
    /\ UNCHANGED <<now, hist, breakerVars, resets, epoch, told, unsent, forgot>>

(* runner.run or history.record raises: tick() ends there, the jobs after   *)
(* this one are not looked at, and breaker and notifier hear nothing.       *)
RunRaises ==
    /\ pc = "run"
    /\ pc' = "idle"
    /\ UNCHANGED <<now, job, hist, breakerVars, notifierVars, historyVars>>

Delivered ==
    /\ pc = "send"
    /\ pc' = "next"
    /\ job' = job + 1
    /\ told' = [told EXCEPT ![job] = IF LastOk(job) THEN "recovered" ELSE "failing"]
    /\ unsent' = unsent \ {job}
    /\ forgot' = forgot \ {job}
    /\ UNCHANGED <<now, hist, breakerVars, notifierVars, resets, epoch, cut>>

(* EmailAlerter.send swallows the error, or another alerter's raises and    *)
(* ends the tick.  The notifier has already counted the alert.              *)
SendFails ==
    /\ pc = "send"
    /\ \/ pc' = "next" /\ job' = job + 1
       \/ pc' = "idle" /\ job' = job
    /\ unsent' = unsent \cup {job}
    /\ UNCHANGED <<now, hist, breakerVars, notifierVars, resets, epoch, told, forgot, cut>>

EndTick ==
    /\ pc = "next"
    /\ job = NumJobs + 1
    /\ pc' = "idle"
    /\ UNCHANGED <<now, job, hist, breakerVars, notifierVars, historyVars>>

-----------------------------------------------------------------------------
(* Around it *)

AdvanceClock ==
    /\ now < MaxTime
    /\ now' = now + 1
    /\ UNCHANGED <<pc, job, hist, breakerVars, notifierVars, historyVars>>

CountReset == resets < MaxResets /\ resets' = resets + 1

(* The daemon dies, at any point of a tick, and is started again.           *)
Restart ==
    /\ CountReset
    /\ pc' = "idle"
    /\ failures' = [j \in Job |-> 0]
    /\ openSince' = [j \in Job |-> None]
    /\ lastNotified' = [j \in Job |-> 0]
    /\ lastExit' = [j \in Job |-> None]
    /\ streak' = [j \in Job |-> 0]
    /\ epoch' = [j \in Job |-> Len(hist[j])]
    /\ forgot' = Job
    /\ unsent' = IF pc = "send" THEN unsent \cup {job} ELSE unsent
    /\ cut' = IF pc \in {"recorded", "ask"} THEN cut \cup {job} ELSE cut
    /\ UNCHANGED <<now, job, hist, told>>

ResetBreaker(j) ==
    /\ CountReset
    /\ pc = "idle"
    /\ Breaker!Close(j)
    /\ epoch' = [epoch EXCEPT ![j] = Len(hist[j])]
    /\ UNCHANGED <<now, pc, job, hist, notifierVars, told, unsent, forgot, cut>>

ResetNotifier(j) ==
    /\ CountReset
    /\ pc = "idle"
    /\ Notify!Reset(j)
    /\ forgot' = forgot \cup {j}
    /\ UNCHANGED <<now, pc, job, hist, breakerVars, epoch, told, unsent, cut>>

Next ==
    \/ StartTick
    \/ PassOver
    \/ StartRun
    \/ \E ok \in BOOLEAN : RecordHistory(ok)
    \/ RecordBreaker
    \/ AskNotifier
    \/ RunRaises
    \/ Delivered
    \/ SendFails
    \/ EndTick
    \/ AdvanceClock
    \/ Restart
    \/ \E j \in Job : ResetBreaker(j) \/ ResetNotifier(j)

Spec == Init /\ [][Next]_vars

-----------------------------------------------------------------------------
(* Properties *)

TypeOK ==
    /\ now \in Nat
    /\ pc \in {"idle", "next", "run", "recorded", "ask", "send"}
    /\ job \in 1..(NumJobs + 1)
    /\ pc \in {"run", "recorded", "ask", "send"} => job \in Job
    /\ hist \in [Job -> Seq([ok : BOOLEAN, at : Nat])]
    /\ failures \in [Job -> Nat]
    /\ openSince \in [Job -> Nat \cup {None}]
    /\ lastNotified \in [Job -> Nat]
    /\ lastExit \in [Job -> {None, "zero", "nonzero"}]
    /\ streak \in [Job -> Nat]
    /\ resets \in 0..MaxResets
    /\ epoch \in [Job -> Nat]
    /\ told \in [Job -> {None, "failing", "recovered"}]
    /\ unsent \subseteq Job
    /\ forgot \subseteq Job
    /\ cut \subseteq Job

(* The entries of j's history the breaker has heard of: all of them, except *)
(* that of a run which is being recorded.                                   *)
Heard(j) == Len(hist[j]) - (IF pc = "recorded" /\ job = j THEN 1 ELSE 0)

(* The breaker is a function of the history file: it counts exactly the     *)
(* failures at the end of it, and if there are Threshold of them it opened  *)
(* between the end of the Threshold-th and that of the next                 *)
(* (circuit_breaker.py:42-53, run_pipeline.py:85-88).                       *)
BreakerReflectsHistory ==
    \A j \in Job : \E m \in epoch[j]..Heard(j) :
        /\ m = epoch[j] \/ hist[j][m].ok
        /\ \A k \in (m + 1)..Heard(j) : ~hist[j][k].ok
        /\ failures[j] = Heard(j) - m
        /\ failures[j] < Threshold => openSince[j] = None
        /\ failures[j] >= Threshold =>
             /\ openSince[j] \in hist[j][m + Threshold].at..now
             /\ m + Threshold < Len(hist[j]) =>
                  openSince[j] <= hist[j][m + Threshold + 1].at

(* The runs of j that ended after the first m failed, and m is where the    *)
(* breaker's memory of j or the last success is.                            *)
FailingSince(j, m) ==
    /\ m \in epoch[j]..Len(hist[j])
    /\ m = epoch[j] \/ hist[j][m].ok
    /\ \A k \in (m + 1)..Len(hist[j]) : ~hist[j][k].ok

(* No run of a job starts within RecoveryWindow of the failure that made    *)
(* Threshold of them in a row, for as long as the daemon remembers them     *)
(* (run_pipeline.py:55).                                                    *)
QuietAfterTrip(j) ==
    \A m \in epoch[j]..Len(hist[j]) :
        FailingSince(j, m) /\ Len(hist[j]) - m >= Threshold =>
            now - hist[j][m + Threshold].at >= RecoveryWindow

NoRunWhileOpen == [][pc = "next" /\ pc' = "run" => QuietAfterTrip(job)]_vars

Sending(j) == pc = "send" /\ job = j

(* The run of j that is on file last is one the notifier has yet to hear of.*)
Unheard(j) == pc \in {"recorded", "ask"} /\ job = j

(* Whoever reads the alerts does not go on believing that a job fails after *)
(* it succeeded, unless the alert was lost or the notifier forgot the job   *)
(* (notifier.py:47-55, run_pipeline.py:85-93).                              *)
RecoveryIsReported ==
    NotifyOnRecovery =>
        \A j \in Job : told[j] = "failing" /\ hist[j] # <<>> /\ LastOk(j) =>
            j \in unsent \cup forgot \/ Sending(j) \/ Unheard(j)

(* Rate limiting delays the news of an outage, it never hides it: a job     *)
(* whose runs failed for MinInterval or longer is known to fail, across     *)
(* restarts and resets, and a daemon that dies before its notifier hears of *)
(* the last of these runs makes up for it at the next                       *)
(* (notifier.py:57-65, run_pipeline.py:85-93).                              *)
LongOutageIsReported ==
    \A j \in Job :
        (\E i \in DOMAIN hist[j] :
            /\ \A k \in i..Len(hist[j]) : ~hist[j][k].ok
            /\ hist[j][Len(hist[j])].at - hist[j][i].at >= MinInterval)
        => told[j] = "failing" \/ j \in unsent \cup cut \/ Sending(j) \/ Unheard(j)

(* circuit_breaker.py:34 and :61 - after recovery_window "a single retry"   *)
(* is allowed: a run starts only RecoveryWindow after every failure that    *)
(* found or left the breaker open.                                          *)
SingleRetry ==
    [][pc = "next" /\ pc' = "run" =>
        \A m \in epoch[job]..Len(hist[job]) : FailingSince(job, m) =>
            \A k \in (m + Threshold)..Len(hist[job]) :
                now - hist[job][k].at >= RecoveryWindow]_vars

(* test_notifier.py:26 - the first failure of a job a daemon sees is        *)
(* reported (test_failed_job_triggers_first_notification).                  *)
FirstFailureIsReported ==
    \A j \in Job : Len(hist[j]) = 1 /\ ~LastOk(j) =>
        told[j] = "failing" \/ j \in unsent \cup cut \/ Sending(j) \/ Unheard(j)
=============================================================================
