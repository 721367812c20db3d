----------------------------- MODULE AlertChain -----------------------------
(* Results of jobs on their way to an alerter: what feeds the chain, an     *)
(* EscalatingAlerter (src/cronwatch/escalating_alerter.py) that counts the  *)
(* failures it is shown and puts the level in front of the job's name, and  *)
(* inside it a RateLimitedAlerter (rate_limited_alerter.py) whose limiter   *)
(* is shared with components that send under the plain name of a job.       *)
EXTENDS Integers, Sequences, FiniteSets

CONSTANTS
    Job,
    Level, After, DefaultLevel,
    Window, MaxAlerts,
    Upstream,    \* what feeds the chain: "pipeline" or "scheduler"
    NotifyOnRecovery,   \* of the pipeline's notifier
    None,
    MaxTime,     \* bound on the clock
    MaxOutage,   \* bound on the failures in a row
    MaxLog       \* bound on the alerts offered to the limiter

Plain == "plain"

(* The names the limiter sees: a job's own, or one with a level before it.  *)
Name == (Level \cup {DefaultLevel, Plain}) \X Job

ASSUME ConstantsAssumption ==
    /\ After \in [Level -> Nat]
    /\ Plain \notin Level \cup {DefaultLevel}
    /\ None \notin Level \cup {DefaultLevel}
    /\ Window \in Nat \ {0}
    /\ MaxAlerts \in Nat \ {0}
    /\ Upstream \in {"pipeline", "scheduler"}
    /\ NotifyOnRecovery \in BOOLEAN
    /\ MaxTime \in Nat /\ MaxOutage \in Nat /\ MaxLog \in Nat

VARIABLES
    now,
    count, lastLevel,   \* EscalationTracker
    timestamps,         \* RateLimiter
    failing,  \* the jobs whose last_exit_code in the pipeline's notifier is a failure's
    outage,   \* how many runs of each job failed since its last success
    slipped,  \* history: jobs whose notifier was reset, or not told of a success, when
              \* it took the job for failing; until the tracker hears of a success
    log,      \* history: every alert offered to the limiter and its fate
    since     \* history: length of the log when each name was last reset

feedVars == <<failing, outage, slipped>>
vars == <<now, count, lastLevel, timestamps, feedVars, log, since>>

Tracker == INSTANCE Escalation
Limiter == INSTANCE RateLimiter

Init ==
    /\ now = 0
    /\ count = [j \in Job |-> 0]
    /\ lastLevel = [j \in Job |-> None]
    /\ timestamps = [n \in Name |-> <<>>]
    /\ failing = {}
    /\ outage = [j \in Job |-> 0]
    /\ slipped = {}
    /\ log = <<>>
    /\ since = [n \in Name |-> 0]

(* RateLimitedAlerter.send that takes a slot only for what arrives.         *)
SendRecordingArrivals(n) ==
    /\ Len(log) < MaxLog
    /\ \E fate \in IF Limiter!IsAllowed(n) THEN {"delivered", "lost"} ELSE {"suppressed"} :
        /\ IF fate = "delivered" THEN Limiter!Admit(n) ELSE Limiter!Decline(n)
        /\ log' = Append(log, [name |-> n, at |-> now, fate |-> fate])

(* RateLimitedAlerter.send: the slot is taken before inner.send is called,  *)
(* and stays taken if that loses the alert or raises.                       *)
Send(n) ==
    /\ Len(log) < MaxLog
    /\ \E fate \in IF Limiter!IsAllowed(n) THEN {"delivered", "lost"} ELSE {"suppressed"} :
        /\ IF fate = "suppressed" THEN Limiter!Decline(n) ELSE Limiter!Admit(n)
        /\ log' = Append(log, [name |-> n, at |-> now, fate |-> fate])

-----------------------------------------------------------------------------

(* should_notify() keeps the exit code of a failure, whether it reports it  *)
(* or not; Scheduler.tick asks no notifier.                                 *)
NoteFailure(j) ==
    /\ outage[j] < MaxOutage
    /\ outage' = [outage EXCEPT ![j] = @ + 1]
    /\ failing' = IF Upstream = "pipeline" THEN failing \cup {j} ELSE failing
    /\ UNCHANGED slipped

(* A failure the feeder passes on: Scheduler.tick passes on every failure,  *)
(* RunPipeline.tick those the notifier does not hold back.                  *)
FailureShown(j) ==
    /\ NoteFailure(j)
    /\ Tracker!RecordFailure(j)
    /\ Send(<<Tracker!LevelFor(count[j] + 1), j>>)
    /\ UNCHANGED <<now, since>>

FailureHeldBack(j) ==
    /\ Upstream = "pipeline"
    /\ NoteFailure(j)
    /\ UNCHANGED <<now, count, lastLevel, timestamps, log, since>>

(* A success: Scheduler.tick never passes one on, RunPipeline.tick does if  *)
(* its notifier takes the job for failing and reports recoveries.           *)
(* EscalatingAlerter.send resets the tracker and sends nothing.             *)
Success(j) ==
    /\ outage[j] > 0 \/ j \in failing
    /\ outage' = [outage EXCEPT ![j] = 0]
    /\ failing' = failing \ {j}
    /\ IF j \in failing /\ NotifyOnRecovery
         THEN Tracker!RecordSuccess(j) /\ slipped' = slipped \ {j}
         ELSE UNCHANGED <<count, lastLevel, slipped>>
    /\ UNCHANGED <<now, timestamps, log, since>>

(* Notifier.reset(): the exit code is forgotten, the tracker is not told.   *)
ResetNotifier(j) ==
    /\ j \in failing
    /\ failing' = failing \ {j}
    /\ slipped' = slipped \cup {j}
    /\ UNCHANGED <<now, count, lastLevel, timestamps, outage, log, since>>

(* The run is over but the runner or history.record() raises: neither the   *)
(* notifier nor the tracker hears of it.                                    *)
Unheard(j, ok) ==
    /\ Upstream = "pipeline"
    /\ IF ok THEN outage[j] > 0 ELSE outage[j] < MaxOutage
    /\ outage' = [outage EXCEPT ![j] = IF ok THEN 0 ELSE @ + 1]
    /\ slipped' = IF ok THEN slipped \cup (failing \cap {j}) ELSE slipped
    /\ UNCHANGED <<now, count, lastLevel, timestamps, failing, log, since>>

(* Another component sends through the shared limiter.                      *)
SendPlain(j) ==
    /\ Send(<<Plain, j>>)
    /\ UNCHANGED <<now, count, lastLevel, feedVars, since>>

(* RateLimitedAlerter.reset(job_name): the window of the plain name; those  *)
(* of the names with a level are not reached.  On an empty window it does   *)
(* nothing.                                                                 *)
ResetLimit(j) ==
    /\ timestamps[<<Plain, j>>] # <<>>
    /\ Limiter!Reset(<<Plain, j>>)
    /\ since' = [since EXCEPT ![<<Plain, j>>] = Len(log)]
    /\ UNCHANGED <<now, count, lastLevel, feedVars, log>>

(* Somebody asks remaining(job_name): it evicts, and nobody must notice.    *)
Remaining(j) ==
    /\ Limiter!Decline(<<Plain, j>>)
    /\ UNCHANGED <<now, count, lastLevel, feedVars, log, since>>

AdvanceClock ==
    /\ now < MaxTime
    /\ now' = now + 1
    /\ UNCHANGED <<count, lastLevel, timestamps, feedVars, log, since>>

Next ==
    \/ \E j \in Job : FailureShown(j) \/ FailureHeldBack(j) \/ Success(j)
    \/ \E j \in Job : ResetNotifier(j) \/ (\E ok \in BOOLEAN : Unheard(j, ok))
    \/ \E j \in Job : SendPlain(j) \/ ResetLimit(j) \/ Remaining(j)
    \/ AdvanceClock

Spec == Init /\ [][Next]_vars

-----------------------------------------------------------------------------
(* Properties *)

TypeOK ==
    /\ now \in Nat
    /\ count \in [Job -> Nat]
    /\ lastLevel \in [Job -> Level \cup {DefaultLevel, None}]
    /\ timestamps \in [Name -> Seq(Nat)]
    /\ \A n \in Name : Len(timestamps[n]) <= MaxAlerts
    /\ failing \subseteq Job
    /\ outage \in [Job -> Nat]
    /\ slipped \subseteq Job
    /\ log \in Seq([name : Name, at : Nat, fate : {"delivered", "lost", "suppressed"}])
    /\ since \in [Name -> Nat]

(* The deque of timestamps, evicted call by call, and the resets decide as  *)
(* a limiter that looks at the whole log would (ratelimit.py:49-61).        *)
Abstract == INSTANCE SlidingWindow WITH now <- now, log <- log, since <- since
ImplementsSlidingWindow == Abstract!Spec

(* In no stretch of Window units are more than MaxAlerts alerts of one name *)
(* let through, wherever the stretch begins, unless it was reset            *)
(* (ratelimit.py:28).                                                       *)
WindowBudget ==
    \A n \in Name : \A i \in Abstract!Through(n) : i > since[n] =>
        Cardinality({k \in Abstract!Through(n) :
            k >= i /\ log[k].at - log[i].at <= Window}) <= MaxAlerts

(* job_escalation.py:9 - a job's alerts escalate "once this many            *)
(* consecutive failures reached": no alert carries a level the failures     *)
(* since the last success have not reached, unless the notifier was reset   *)
(* in the middle of an outage or missed the end of one, or does not report  *)
(* recoveries: then the tracker goes on counting (notifier.py:47-54,        *)
(* escalating_alerter.py:23-29).                                            *)
LevelIsEarned ==
    NotifyOnRecovery =>
        \A j \in Job \ slipped : lastLevel[j] \in Level /\ outage[j] > 0 =>
            After[lastLevel[j]] <= outage[j]
=============================================================================
