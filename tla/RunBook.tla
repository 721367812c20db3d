-------------------------------- MODULE RunBook --------------------------------
(* What is kept in memory of the runs of one job, by several threads:       *)
(* CooldownTracker, the conditions of ConditionalExecutor with their        *)
(* ConditionReporter, JobStatusRegistry, and MetricsCollector, which the    *)
(* metrics endpoint reads in a thread of its own and which alone has a lock. *)
(* The thread that asks and tells them in turn is not part of the source.   *)
EXTENDS Integers, Sequences, FiniteSets

CONSTANTS
    Worker,                 \* the threads that run the job
    Cooldown,               \* seconds_for(job)
    Conditions,             \* how many conditions the job has
    Absent,
    MaxBegun, MaxResets     \* bounds

(* The entries of the registry and the reporter are objects; one that was   *)
(* replaced or removed may still be in the hands of a thread.               *)
JobStatus == [object : Nat, state : {"idle", "running", "succeeded", "failed"}, failures : Nat]
ConditionSkipSummary == [object : Nat, count : Nat]

BookAssumption ==
    /\ Cooldown \in Int /\ Conditions \in Nat
    /\ Absent \notin Worker \cup Int \cup JobStatus \cup ConditionSkipSummary
    /\ MaxBegun \in Nat /\ MaxResets \in Nat

VARIABLES
    now,
    pc,             \* where each worker is
    left,           \* the conditions it has yet to check
    ended,          \* how its run ended: "not", "ok" or "failed"
    status,         \* the JobStatus in the registry, or Absent
    summary,        \* the ConditionSkipSummary of the reporter, or Absent
    made,           \* the objects made so far
    held,           \* the one each worker is counting in
    read,           \* the count it has read there
    lastCompleted,  \* CooldownTracker._last_completed, or Absent
    metrics,        \* JobMetrics: [runs, failures]
    lock,           \* the worker with MetricsCollector._lock, or Absent
    served,         \* what the endpoint read last
    begun, resets,
    tally,          \* history: how the runs in the metrics ended, since the beginning
    toldOf,         \* history: how those the registry was told of ended, since its reset
    skips,          \* history: the skips the reporter was told of
    overAt,         \* history: when the last run was over, or Absent
    missed          \* history: the counts that may have missed something

bookVars == <<pc, left, ended, status, summary, made, held, read, lastCompleted, metrics, lock,
              served, begun, resets, tally, toldOf, skips, overAt, missed>>
worker == <<left, ended, begun>>
registry == <<status, toldOf>>
reporter == <<summary, skips>>
hands == <<held, read>>
cooldown == <<lastCompleted, overAt>>
collector == <<metrics, lock, served, tally>>

NoMetrics == [runs |-> 0, failures |-> 0]

Init ==
    /\ pc = [w \in Worker |-> "idle"]
    /\ left = [w \in Worker |-> 0] /\ ended = [w \in Worker |-> "not"]
    /\ status = Absent /\ summary = Absent /\ lastCompleted = Absent
    /\ made = 0 /\ held = [w \in Worker |-> 0] /\ read = [w \in Worker |-> 0]
    /\ metrics = NoMetrics /\ lock = Absent /\ served = NoMetrics
    /\ begun = 0 /\ resets = 0
    /\ tally = <<>> /\ toldOf = <<>> /\ skips = 0 /\ overAt = Absent /\ missed = {}

Goto(w, place) == pc' = [pc EXCEPT ![w] = place]

-----------------------------------------------------------------------------
(* Cooldown and conditions *)

(* is_cooling_down()                                                        *)
IsCoolingDown ==
    lastCompleted # Absent /\ Cooldown > 0 /\ now - lastCompleted < Cooldown

(* The job may run; a call of ConditionalExecutor.run() begins.             *)
Begin(w) ==
    /\ pc[w] = "idle" /\ ~IsCoolingDown /\ begun < MaxBegun
    /\ begun' = begun + 1
    /\ left' = [left EXCEPT ![w] = Conditions]
    /\ ended' = [ended EXCEPT ![w] = "not"]
    /\ Goto(w, "conditions")
    /\ UNCHANGED <<registry, reporter, made, hands, cooldown, collector, resets, missed>>

(* check_conditions() goes on to the first that fails, or times out.        *)
CheckCondition(w) ==
    /\ pc[w] = "conditions"
    /\ \/ left[w] = 0 /\ Goto(w, "get status") /\ UNCHANGED left
       \/ left[w] > 0 /\ left' = [left EXCEPT ![w] = @ - 1] /\ UNCHANGED pc
       \/ left[w] > 0 /\ Goto(w, "get summary") /\ UNCHANGED left
    /\ UNCHANGED <<registry, reporter, made, hands, cooldown, collector, ended, begun, resets, missed>>

(* ConditionReporter.record(): a summary is made if there is none yet.      *)
GetSummary(w) ==
    /\ pc[w] = "get summary"
    /\ Goto(w, IF summary = Absent THEN "make summary" ELSE "read skips")
    /\ UNCHANGED <<worker, registry, reporter, made, hands, cooldown, collector, resets, missed>>

(* The new summary counts nothing, and replaces what may be there.          *)
MakeSummary(w) ==
    /\ pc[w] = "make summary"
    /\ made' = made + 1
    /\ summary' = [object |-> made + 1, count |-> 0]
    /\ missed' = missed \cup (IF summary = Absent \/ summary.count = 0 THEN {} ELSE {"skips"})
    /\ Goto(w, "read skips")
    /\ UNCHANGED <<worker, registry, skips, hands, cooldown, collector, resets>>

(* ConditionSkipSummary.record() of the summary that is found: skip_count   *)
(* is read, and written without a lock.                                     *)
ReadSkips(w) ==
    /\ pc[w] = "read skips"
    /\ held' = [held EXCEPT ![w] = summary.object]
    /\ read' = [read EXCEPT ![w] = summary.count]
    /\ Goto(w, "write skips")
    /\ UNCHANGED <<worker, registry, reporter, made, cooldown, collector, resets, missed>>

WriteSkips(w) ==
    /\ pc[w] = "write skips"
    /\ summary' = IF summary.object = held[w] THEN [summary EXCEPT !.count = read[w] + 1] ELSE summary
    /\ skips' = skips + 1
    /\ missed' = missed \cup (IF summary.object = held[w] /\ summary.count = read[w] THEN {}
                              ELSE {"skips"})
    /\ held' = [held EXCEPT ![w] = 0] /\ read' = [read EXCEPT ![w] = 0]
    /\ Goto(w, "idle")
    /\ UNCHANGED <<worker, registry, made, cooldown, collector, resets>>

-----------------------------------------------------------------------------
(* The registry, before the run and after it *)

(* get(), which makes an entry where there is none.                         *)
GetStatus(w) ==
    /\ pc[w] = "get status"
    /\ Goto(w, IF status = Absent THEN "make status" ELSE "mark")
    /\ UNCHANGED <<worker, registry, reporter, made, hands, cooldown, collector, resets, missed>>

MakeStatus(w) ==
    /\ pc[w] = "make status"
    /\ made' = made + 1
    /\ status' = [object |-> made + 1, state |-> "idle", failures |-> 0]
    /\ missed' = missed \cup (IF status = Absent \/ status.failures = 0 THEN {} ELSE {"status"})
    /\ Goto(w, "mark")
    /\ UNCHANGED <<worker, toldOf, reporter, hands, cooldown, collector, resets>>

(* The entry is looked up and marked: mark_running().                       *)
MarkRunning(w) ==
    /\ pc[w] = "mark" /\ ended[w] = "not" /\ status # Absent
    /\ status' = [status EXCEPT !.state = "running"]
    /\ Goto(w, "run")
    /\ UNCHANGED <<worker, toldOf, reporter, made, hands, cooldown, collector, resets, missed>>

(* mark_finished(): the state, then consecutive_failures, which for a       *)
(* failure is read first, all without a lock.  What is written to an object *)
(* no longer in the registry is lost to it.                                 *)
MarkFinished(w) ==
    /\ pc[w] = "mark" /\ ended[w] # "not" /\ status # Absent
    /\ status' = [status EXCEPT !.state = IF ended[w] = "ok" THEN "succeeded" ELSE "failed"]
    /\ held' = [held EXCEPT ![w] = status.object]
    /\ Goto(w, IF ended[w] = "ok" THEN "write failures" ELSE "read failures")
    /\ UNCHANGED <<worker, toldOf, reporter, made, read, cooldown, collector, resets, missed>>

InRegistry(object) == status # Absent /\ status.object = object

ReadFailures(w) ==
    /\ pc[w] = "read failures"
    /\ read' = [read EXCEPT ![w] = IF InRegistry(held[w]) THEN status.failures ELSE 0]
    /\ Goto(w, "write failures")
    /\ UNCHANGED <<worker, registry, reporter, made, held, cooldown, collector, resets, missed>>

WriteFailures(w) ==
    /\ pc[w] = "write failures"
    /\ toldOf' = Append(toldOf, ended[w])
    /\ \/ /\ ~InRegistry(held[w])
          /\ missed' = missed \cup {"status"}
          /\ UNCHANGED status
       \/ /\ InRegistry(held[w]) /\ ended[w] = "ok"
          /\ status' = [status EXCEPT !.failures = 0]
          /\ missed' = missed \ {"status"}
       \/ /\ InRegistry(held[w]) /\ ended[w] # "ok"
          /\ status' = [status EXCEPT !.failures = read[w] + 1]
          /\ missed' = missed \cup (IF status.failures = read[w] THEN {} ELSE {"status"})
    /\ held' = [held EXCEPT ![w] = 0] /\ read' = [read EXCEPT ![w] = 0]
    /\ Goto(w, "get metrics")
    /\ UNCHANGED <<worker, reporter, made, cooldown, collector, resets>>

(* get() looks again in the registry for what it has found or made there:   *)
(* a KeyError when it was reset in between.                                 *)
MarkRaises(w) ==
    /\ pc[w] = "mark" /\ status = Absent
    /\ overAt' = IF ended[w] = "not" THEN overAt ELSE Absent
    /\ Goto(w, "idle")
    /\ UNCHANGED <<worker, registry, reporter, made, hands, lastCompleted, collector, resets, missed>>

(* The executor within runs the job.                                        *)
Run(w) ==
    /\ pc[w] = "run"
    /\ \E e \in {"ok", "failed"} : ended' = [ended EXCEPT ![w] = e]
    /\ overAt' = now
    /\ Goto(w, "get status")
    /\ UNCHANGED <<left, begun, registry, reporter, lastCompleted, collector, made, hands, resets, missed>>

-----------------------------------------------------------------------------
(* The metrics, and the completion *)

(* MetricsCollector.record(), had it taken no lock.                         *)
CountRunUnlocked(w) ==
    /\ pc[w] = "get metrics"
    /\ metrics' = [metrics EXCEPT !.runs = @ + 1]
    /\ tally' = Append(tally, ended[w])
    /\ Goto(w, "metrics")
    /\ UNCHANGED <<lock, served, worker, registry, reporter, cooldown, made, hands, resets, missed>>

(* MetricsCollector.record(), under the lock: the run, then the failure.    *)
CountRun(w) ==
    /\ pc[w] = "get metrics" /\ lock = Absent
    /\ lock' = w
    /\ metrics' = [metrics EXCEPT !.runs = @ + 1]
    /\ tally' = Append(tally, ended[w])
    /\ Goto(w, "metrics")
    /\ UNCHANGED <<served, worker, registry, reporter, cooldown, made, hands, resets, missed>>

CountFailure(w) ==
    /\ pc[w] = "metrics"
    /\ metrics' = [metrics EXCEPT !.failures = @ + (IF ended[w] = "ok" THEN 0 ELSE 1)]
    /\ lock' = Absent
    /\ Goto(w, "complete")
    /\ UNCHANGED <<served, tally, worker, registry, reporter, cooldown, made, hands, resets, missed>>

(* record_completion(), had it kept the first completion.                   *)
RecordCompletionOnce(w) ==
    /\ pc[w] = "complete"
    /\ lastCompleted' = IF lastCompleted = Absent THEN now ELSE lastCompleted
    /\ Goto(w, "idle")
    /\ UNCHANGED <<overAt, worker, registry, reporter, collector, made, hands, resets, missed>>

(* record_completion()                                                      *)
RecordCompletion(w) ==
    /\ pc[w] = "complete"
    /\ lastCompleted' = now
    /\ Goto(w, "idle")
    /\ UNCHANGED <<overAt, worker, registry, reporter, collector, made, hands, resets, missed>>

(* The endpoint answers with a copy of the metrics, made under the lock.    *)
Serve ==
    /\ lock = Absent
    /\ served' = metrics
    /\ UNCHANGED <<pc, metrics, lock, tally, worker, registry, reporter, cooldown, made, hands, resets, missed>>

(* reset() of the registry, the metrics or the tracker, by another thread.  *)
Reset ==
    /\ resets < MaxResets
    /\ resets' = resets + 1
    /\ \/ /\ status' = Absent /\ toldOf' = <<>> /\ missed' = missed \ {"status"}
          /\ UNCHANGED <<collector, cooldown>>
       \/ /\ lock = Absent /\ metrics' = NoMetrics
          /\ UNCHANGED <<lock, served, tally, registry, cooldown, missed>>
       \/ /\ lastCompleted' = Absent /\ overAt' = Absent
          /\ UNCHANGED <<registry, collector, missed>>
    /\ UNCHANGED <<pc, worker, made, hands, reporter>>

Work(w) ==
    \/ Begin(w) \/ CheckCondition(w) \/ GetSummary(w) \/ MakeSummary(w) \/ ReadSkips(w) \/ WriteSkips(w)
    \/ GetStatus(w) \/ MakeStatus(w) \/ MarkRunning(w) \/ MarkFinished(w) \/ ReadFailures(w)
    \/ WriteFailures(w) \/ MarkRaises(w)
    \/ Run(w) \/ CountRun(w) \/ CountFailure(w) \/ RecordCompletion(w)

Next == (\E w \in Worker : Work(w)) \/ Serve \/ Reset

AdvanceClock == now' = now + 1 /\ UNCHANGED bookVars

(* The books with a clock of their own.                                     *)
Spec == now = 0 /\ Init /\ [][(Next /\ UNCHANGED now) \/ AdvanceClock]_<<now, bookVars>>

-----------------------------------------------------------------------------
(* Properties *)

(* The tally of the runs from the m-th to the n-th.                         *)
Tally(m, n) ==
    [runs     |-> Cardinality(m .. n),
     failures |-> Cardinality({i \in m .. n : tally[i] = "failed"})]

(* The failures told of since the last success are n.                       *)
Streak(n) ==
    /\ n <= Len(toldOf)
    /\ \A i \in 1 .. Len(toldOf) : i > Len(toldOf) - n => toldOf[i] = "failed"
    /\ n < Len(toldOf) => toldOf[Len(toldOf) - n] = "ok"

Failures == IF status = Absent THEN 0 ELSE status.failures
Skips == IF summary = Absent THEN 0 ELSE summary.count

(* The books agree with the runs: what the endpoint serves is the tally of  *)
(* successive runs, none of them half counted (metrics.py:36, 44).  The     *)
(* registry never knows of more failures than it was told of; it knows how  *)
(* many there were since the last success, but when one was counted in an   *)
(* entry no longer there, or by two threads at once, and then only until a  *)
(* success is marked (job_status.py:42-44, 55-58).  The reporter never      *)
(* knows of more skips than there were, and knows them all but when it      *)
(* missed one in that way (condition_reporter.py:18, 42-47).                *)
BooksAgree ==
    /\ \E m \in 1 .. Len(tally) + 1, n \in 0 .. Len(tally) : served = Tally(m, n)
    /\ Failures <= Cardinality({i \in 1 .. Len(toldOf) : toldOf[i] = "failed"})
    /\ "status" \notin missed => Streak(Failures)
    /\ Skips <= skips
    /\ "skips" \notin missed => Skips = skips

(* A run that begins while no other is under way begins a cooldown after    *)
(* the last one was over, unless telling of that one raised or the tracker  *)
(* was reset (job_cooldown.py:40-49).                                       *)
CooldownKept ==
    [][begun' > begun /\ overAt # Absent /\ (\A w \in Worker : pc[w] = "idle")
           => now - overAt >= Cooldown]_bookVars
=============================================================================
