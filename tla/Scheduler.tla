----------------------------- MODULE Scheduler -----------------------------
(* Scheduler of src/cronwatch/scheduler.py: run_forever, tick and           *)
(* _should_run over jobs whose cron schedule fires every Period[j] units.   *)
(*                                                                          *)
(* tick() reads the clock once and runs its jobs one after the other, each  *)
(* run holding up the loop; the next tick is poll_interval after the end of *)
(* this one.  The unit of time is 10 seconds: tolerance_seconds and         *)
(* poll_interval are 3, the 60-second guard is 6.  A clock reading of n     *)
(* stands for n units and a fraction of one, the same fraction throughout,  *)
(* so no tick is exactly on an occurrence or on the edge of its tolerance.  *)
(* A sleep lasts as long as asked, and a tick that runs nothing no time.    *)
EXTENDS Integers

CONSTANTS
    NumJobs,
    Period,        \* the distance between two occurrences of each job's schedule
    Minute,        \* the 60 seconds of _should_run
    Tolerance,     \* tolerance_seconds of is_due
    Polls,         \* the values given to poll_interval of run_forever
    MaxDuration,   \* bound: how long a run takes
    None,
    MaxTime,       \* bound on the clock
    MaxFaults      \* bound on the crashes and the calls of reset_job

Job == 1..NumJobs

ASSUME ConstantsAssumption ==
    /\ NumJobs \in Nat
    /\ Minute \in Nat \ {0}
    /\ Period \in [Job -> {n \in Nat : n >= Minute}]
    /\ Tolerance \in Nat /\ Tolerance < Minute
    /\ Polls \subseteq Nat \ {0}
    /\ MaxDuration \in Nat
    /\ None \notin Int
    /\ MaxTime \in Nat /\ MaxFaults \in Nat

VARIABLES
    now,
    pc,        \* "sleep", "loop" at a job of tick(), "run" a job, "down" after a crash
    poll,      \* poll_interval
    wake,      \* when the sleep of run_forever ends
    tickNow,   \* the variable now of tick(), read when it starts
    job,       \* the job the loop of tick() is at
    started,   \* when the current run started
    lastRun,   \* _last_run
    faults,
    upSince,   \* history: when the daemon was last started
    ran,       \* history: the occurrences of each job run since upSince
    known,     \* history: those of them run since the last reset_job
    lastStart  \* history: when each job was last started, since upSince and reset_job

loopVars == <<poll, wake, tickNow, job, started>>
historyVars == <<upSince, ran, known, lastStart>>
vars == <<now, pc, loopVars, lastRun, faults, historyVars>>

(* croniter(schedule, now).get_prev(): the last occurrence before now.      *)
Prev(j) == (tickNow \div Period[j]) * Period[j]

(* is_due() with a tolerance smaller than the poll interval.                *)
DueNarrow(j) == tickNow - Prev(j) < Tolerance - 2

(* is_due(): less than Tolerance, since tickNow stands for a little more.   *)
Due(j) == tickNow - Prev(j) < Tolerance

(* _should_run without the guard against double-firing.                     *)
ShouldRunUnguarded(j) == Due(j)

ShouldRun(j) ==
    /\ lastRun[j] # None => tickNow - lastRun[j] >= Minute
    /\ Due(j)

Init ==
    /\ now \in 0..(Minute - 1)
    /\ pc = "sleep"
    /\ poll \in Polls
    /\ wake = now
    /\ tickNow = now /\ job = 1 /\ started = now
    /\ lastRun = [j \in Job |-> None]
    /\ faults = 0
    /\ upSince = now
    /\ ran = [j \in Job |-> {}]
    /\ known = [j \in Job |-> {}]
    /\ lastStart = [j \in Job |-> None]

-----------------------------------------------------------------------------
(* run_forever and tick *)

StartTick ==
    /\ pc = "sleep"
    /\ now >= wake
    /\ pc' = "loop"
    /\ tickNow' = now
    /\ job' = 1
    /\ UNCHANGED <<now, poll, wake, started, lastRun, faults, historyVars>>

SkipJob ==
    /\ pc = "loop"
    /\ job \in Job
    /\ ~ShouldRun(job)
    /\ job' = job + 1
    /\ UNCHANGED <<now, pc, poll, wake, tickNow, started, lastRun, faults, historyVars>>

StartRun ==
    /\ pc = "loop"
    /\ job \in Job
    /\ ShouldRun(job)
    /\ pc' = "run"
    /\ started' = now
    /\ ran' = [ran EXCEPT ![job] = @ \cup {Prev(job)}]
    /\ known' = [known EXCEPT ![job] = @ \cup {Prev(job)}]
    /\ lastStart' = [lastStart EXCEPT ![job] = now]
    /\ UNCHANGED <<now, poll, wake, tickNow, job, lastRun, faults, upSince>>

(* tick() that keeps no record of a run.                                    *)
FinishRunForgetting ==
    /\ pc = "run"
    /\ pc' = "loop"
    /\ job' = job + 1
    /\ UNCHANGED <<now, poll, wake, tickNow, started, lastRun, faults, historyVars>>

(* tick() that records when the run ended.                                  *)
FinishRunLate ==
    /\ pc = "run"
    /\ lastRun' = [lastRun EXCEPT ![job] = now]
    /\ pc' = "loop"
    /\ job' = job + 1
    /\ UNCHANGED <<now, poll, wake, tickNow, started, faults, historyVars>>

(* run_job returned.  _last_run gets the time of the tick, not of the run;  *)
(* an alert goes out if the run failed, and if alerter.send raises,         *)
(* run_forever ends with it.                                                *)
FinishRun ==
    /\ pc = "run"
    /\ lastRun' = [lastRun EXCEPT ![job] = tickNow]
    /\ pc' = "loop"
    /\ job' = job + 1
    /\ UNCHANGED <<now, poll, wake, tickNow, started, faults, historyVars>>

EndTick ==
    /\ pc = "loop"
    /\ job = NumJobs + 1
    /\ pc' = "sleep"
    /\ wake' = now + poll
    /\ UNCHANGED <<now, poll, tickNow, job, started, lastRun, faults, historyVars>>

-----------------------------------------------------------------------------
(* Around it *)

(* Time passes while the daemon sleeps, waits for a job, or is down.        *)
AdvanceClock ==
    /\ now < MaxTime
    /\ \/ pc = "sleep" /\ now < wake
       \/ pc = "run" /\ now - started < MaxDuration
       \/ pc = "down"
    /\ now' = now + 1
    /\ UNCHANGED <<pc, loopVars, lastRun, faults, historyVars>>

(* The process dies, of an exception out of tick() or of a signal.          *)
Crash ==
    /\ pc # "down"
    /\ faults < MaxFaults
    /\ faults' = faults + 1
    /\ pc' = "down"
    /\ UNCHANGED <<now, loopVars, lastRun, historyVars>>

(* A new Scheduler starts with an empty _last_run and ticks at once.        *)
Restart ==
    /\ pc = "down"
    /\ pc' = "sleep"
    /\ poll' \in Polls
    /\ wake' = now
    /\ lastRun' = [j \in Job |-> None]
    /\ upSince' = now
    /\ ran' = [j \in Job |-> {}]
    /\ known' = [j \in Job |-> {}]
    /\ lastStart' = [j \in Job |-> None]
    /\ UNCHANGED <<now, tickNow, job, started, faults>>

(* reset_job(), between two ticks.                                          *)
ResetJob(j) ==
    /\ pc = "sleep"
    /\ lastRun[j] # None
    /\ faults < MaxFaults
    /\ faults' = faults + 1
    /\ lastRun' = [lastRun EXCEPT ![j] = None]
    /\ known' = [known EXCEPT ![j] = {}]
    /\ lastStart' = [lastStart EXCEPT ![j] = None]
    /\ UNCHANGED <<now, pc, loopVars, upSince, ran>>

Next ==
    \/ StartTick \/ SkipJob \/ StartRun \/ FinishRun \/ EndTick
    \/ AdvanceClock \/ Crash \/ Restart
    \/ \E j \in Job : ResetJob(j)

Spec == Init /\ [][Next]_vars

-----------------------------------------------------------------------------
(* Properties *)

TypeOK ==
    /\ now \in Nat /\ wake \in Nat /\ tickNow \in Nat /\ started \in Nat /\ upSince \in Nat
    /\ poll \in Polls
    /\ pc \in {"sleep", "loop", "run", "down"}
    /\ job \in 1..(NumJobs + 1)
    /\ lastRun \in [Job -> Nat \cup {None}]
    /\ \A j \in Job : lastRun[j] # None => lastRun[j] <= tickNow
    /\ lastStart \in [Job -> Nat \cup {None}]
    /\ faults \in 0..MaxFaults
    /\ ran \in [Job -> SUBSET Int] /\ known \in [Job -> SUBSET Int]

(* No occurrence of a schedule runs its job twice, however often the daemon *)
(* polls in its tolerance and however long runs take, unless the daemon was *)
(* restarted or the job reset in between (scheduler.py:57-63).              *)
OncePerOccurrence ==
    [][pc = "loop" /\ pc' = "run" => Prev(job) \notin known[job]]_vars

(* The occurrences of j since the daemon is up whose tolerance has expired. *)
Expired(j) == {t \in upSince..(now - Tolerance - 1) : t % Period[j] = 0}

(* _last_run keeps the start of the tick, so a job that had to wait for the *)
(* jobs before it can start again less than a minute after its last start,  *)
(* but never by more than those jobs took (scheduler.py:48).                *)
StartsAreSpaced ==
    [][\A j \in Job : lastStart'[j] # lastStart[j] /\ None \notin {lastStart[j], lastStart'[j]} =>
        lastStart'[j] - lastStart[j] >= Minute - (j - 1) * MaxDuration]_vars

(* What the daemon must be given not to miss two occurrences in a row: the  *)
(* schedules are by the minute, it polls within the tolerance, and a poll   *)
(* and the runs of a tick take two minutes at most, those of all jobs but   *)
(* one no more than one.                                                    *)
LoopKeepsUp ==
    /\ \A j \in Job : Period[j] % Minute = 0
    /\ \A p \in Polls : /\ p <= Tolerance
                        /\ p + (NumJobs - 1) * MaxDuration <= Minute
                        /\ p + NumJobs * MaxDuration <= 2 * Minute

(* A held-up loop and a guard that looks back a minute over the boundary    *)
(* make the daemon miss occurrences (scheduler.py:30, :60), but never two   *)
(* of a job in a row while LoopKeepsUp.                                     *)
NoTwoMissedInARow ==
    pc = "sleep" => \A j \in Job : \A t \in Expired(j) :
        t + Period[j] \in Expired(j) => t \in ran[j] \/ t + Period[j] \in ran[j]
=============================================================================
