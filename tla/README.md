# Verification of cronwatch

TLA+ models of the cronwatch daemon (`src/cronwatch`), TLC configurations that
check them on small instances, and TLAPS proofs about them for all instances.

Run from this directory: `tlc -config JobLock.cfg MCJobLock.tla` checks a
model (PROJECT.json lists module and configuration of every run),
`tlapm JobLock_proofs.tla` checks a module of proofs.

## 1. Inventory

cronwatch is a set of small Python classes meant to be wired into one daemon.
A scheduler polls the cron schedules, a runner takes a per-job lock file and
runs the command, the result goes to a history file, a circuit breaker and a
notifier, and through a chain of alerters to e-mail. Around that stand
executors that wrap one another (quota, concurrency, retry, timeout, pause,
tracing, audit), monitors that look at the history and send alerts of their
own, and stores of JSON files that an operator changes while the daemon runs.

| Component (files) | State | Operations | Talks to | What makes it correct |
|---|---|---|---|---|
| Job lock (`job_lock`, `job_runner`) | the lock file, `_held` | acquire, release | other processes, the OS | one holder; a stale lock is cleared, a live one never; no lock is left behind |
| Circuit breaker (`circuit_breaker`) | failures and `open_since` per job | is_open, record_failure, record_success, reset | run pipeline | agrees with the history; an open circuit stops runs; one retry per window |
| Notifier (`notifier`) | last alert, last exit code, streak per job | should_notify, reset | run pipeline | outages and recoveries become known, alerts are only delayed |
| Run pipeline (`run_pipeline`) | the loop of `tick()` | tick | all of the above, history, alerter | the order of its calls keeps the components consistent whatever fails |
| Scheduler (`scheduler`) | `_last_run`, the loop | run_forever, tick, reset_job | executor, alerter, clock | an occurrence runs once; not two are missed in a row |
| Rate limiter (`ratelimit`, `rate_limited_alerter`) | a deque of times per name | send, is_allowed, record, remaining, reset | inner alerter | at most `max_alerts` in any window; nothing held back needlessly |
| Escalation (`job_escalation`, `escalating_alerter`) | count and level per job | send | inner alerter | the level reflects the consecutive failures |
| Executor, e-mail (`executor`, `alerting`) | none | run_job, send | OS, SMTP | environment of the others |
| History (`history`), retention and archive (`retention`, `job_archiver`) | JSON-lines files | record, replace_entries, archive_job, prune | monitors, reporters | no entry lost or duplicated over crashes and concurrent records |
| Queue and dispatcher (`job_queue`, `job_dispatcher`) | heap of next runs | seed, tick | runner | every job is queued exactly once between ticks; none is dropped |
| Concurrency (`job_concurrency`, `concurrent_executor`) | a semaphore per job | acquire, release | threads | never more than the limit; slots return |
| Quota (`job_quota`, `quota_executor`) | run times per job | check, record | inner executor | at most max_runs per window |
| Retry, timeout (`job_retry`, `retrying_executor`, `job_timeout`, `timed_executor`) | attempt, delay, timer | run | executor, timer thread or signal | number of attempts; no late exception |
| Throttle, backoff, cooldown (`throttle`, `job_backoff`, `job_cooldown`, `job_ratelimit_policy`) | last alert, count | allow, reset | alerter | quiet periods grow and end |
| Pause, mute, suppression (`job_pause`, `pause_executor`, `job_mute`, `job_suppression`) | JSON files, a cached copy | pause, resume, mute, suppress, purge | operator and daemon at once | no update lost; expiry takes effect |
| Monitors (`watchdog`, `heartbeat_monitor`, `job_sla`, `sla_alerter`, `job_deadline`, `deadline_alerter`) | who has been alerted, when | check, tick, reset | history, alerter | every violation reported once and again when it recurs |
| Dependencies (`job_dependencies`) | the graph | topological_order, ready_to_run | - | order exists iff there is no cycle, and is one |
| Tracing, audit (`job_tracing`, `tracing_executor`, `audit`, `audit_middleware`) | bounded trace store, audit file | record, run | executor | bound kept; start and finish events pair up |
| Windows, conditions (`job_window`, `job_conditions`, `conditional_executor`, `condition_reporter`) | skip counts | within_window, check_conditions, run, record | executor, OS | arithmetic over midnight; counts agree with the skips |
| Snapshots, checksums, change log, profiles (`job_snapshot`, `job_checksum`, `checksum_watcher`, `job_changelog`, `job_profiling`) | JSON files, cached copies | record, clear, check | several processes | a file that can be read; no update lost |
| Status, metrics (`job_status`, `metrics`, `metrics_endpoint`) | entries per job, a lock | get, mark, record, all, reset | worker threads, the HTTP thread | counts agree with the runs; no half-counted run is served |
| Routing, groups (`job_routing`, `routing_alerter`, `group_alert_policy`, `job_grouping`, `group_reporter`) | rules, alerted groups | send, evaluate_group_alerts, reset | alerters, history | every rule's channel is told, as often as ruled |
| Attributes and selection (`job_tags`, `job_labels`, `job_metadata`, `job_ownership`, `job_filter`, `job_selector`, `job_priority`) | none | selections, groups, orders | configuration | selections written apart agree |
| Hooks, reports, digest, environment, secrets, output, configuration | none that steers the daemon | - | - | formatting, lookups and I/O |

What is hard here: processes interleave between any two system calls on the
lock file; time passes between a decision and its effect; the daemon restarts
and keeps its files but not its memory; a call in the middle of a loop raises;
alerts are lost after they were counted; and counters and windows have
boundaries. PROJECT.json lists these hazards line by line, with the property
that covers each.

### Where the parts do not fit together

These calls fail as written. The models take each class at the interface its
own code and its tests show, and the failing call as an exception
(`RunRaises`, `SendFails`) where it lies in a modelled loop.

- `run_pipeline.py:53` calls `Scheduler.is_due(job)`; `Scheduler` has no such
  method, the module function takes a schedule.
- `run_pipeline.py:88` calls `CircuitBreaker.record(name, success)`; the class
  has `record_success` and `record_failure`. The model reads it as the choice
  between the two.
- `job_runner.py:52` reads `lock._lock_path` (the attribute is `_lock_file`),
  `job_runner.py:60` `raw.duration` (`duration_seconds`), and
  `job_runner.py:64`, `timed_executor.py:32`, `concurrent_executor.py:26`
  construct `ExecutionResult` with `success` and `duration`, which it does not
  take. `history.py:30` and `alerting.py:41` read `result.duration` too.
- `executor.py:42` reads `job.timeout_seconds`, `config.py` calls it `timeout`.
- `alerting.py:10` imports `cronwatch.alerting_types`, which does not exist.
- `__main__.py:38` builds `Scheduler(cfg.jobs)` without an alerter and treats
  the results of `tick()` as jobs.
- `job_dispatcher.py:53` calls `next_run(job, after=now)`, which takes a
  schedule and `now`; `Dispatcher` has the re-queueing and, for the exception,
  `Abandon`.
- `watchdog.py:54` calls `HistoryStore.get`, which is `entries_for`;
  `retention.py` calls `get`, `_data` and `_flush`, `digest.py` calls `all()` and
  `alerter.send(subject, body)`, none of which the classes have. The monitors are
  modelled against the stores and alerters their tests give them.
- `concurrent_executor.py:26` and `timed_executor.py:32` raise `TypeError` where
  they mean to return a result: `Acquire` without a slot and `Unwind` raise.
  `QuotaResult` and `RetryResult` have no `success`, so those two executors can
  only be outermost, as `Execution` has them. `audit_middleware.py:22` reads
  `result.duration`: no finish event is ever written.
- `JobConfig` has no `interval_seconds`, deadline, window, cooldown or SLA
  fields; the modules read them with `getattr` and a default.
- Nothing in `src/` calls cooldown, conditions, status, metrics, throttle,
  dependencies or windows together. `RunBook` has a thread that asks and tells
  them in the order their docstrings suggest, and says so.

## 2. Modules

| Module | Models |
|---|---|
| `JobLock`, `MCJobLock` | the lock file of one job and the processes in `JobRunner.run` |
| `JobLock_proofs` | typing, mutual exclusion, naming of the holder, no abandoned lock |
| `CircuitBreaker`, `Notifier` | the per-job state and operations of the two classes |
| `RunPipeline`, `MCRunPipeline` | `RunPipeline.tick()`, composed of the two above, with history, clock, restarts, resets |
| `RunPipeline_proofs` | typing, breaker against history, no run while open, recoveries and long outages reported |
| `Scheduler`, `MCScheduler` | `Scheduler.run_forever`, `tick`, `_should_run`, `is_due`, `reset_job` |
| `Scheduler_proofs` | typing, once per occurrence, spacing of starts, no two occurrences missed |
| `SlidingWindow` | abstract specification: a limiter that looks at the log of everything offered |
| `RateLimiter`, `Escalation` | the deque-based limiter; the escalation tracker and policy |
| `AlertChain`, `MCAlertChain` | `EscalatingAlerter` over `RateLimitedAlerter`, composed of the two above; implements `SlidingWindow` |
| `AlertChain_proofs` | typing, the refinement of `SlidingWindow`, the budget of a window, earned levels |
| `Dispatcher`, `ConcurrencyGuard`, `Quota`, `TraceStore` | heap and tick of the dispatcher; the semaphores; the quota windows; the bounded trace store |
| `Execution`, `MCExecution` | the threads that run jobs through the executors, composed of the four above |
| `Execution_proofs` | typing, slots and limit, the queue, the quota, the trace store |
| `Subsequences`, `Subsequences_proofs` | the loops that keep, skip or stop at the elements of a set, first occurrences, and `sorted()`, which several modules work on lists with; what they return |
| `AtomicStore` | abstract specification: a table that changes in one step per call |
| `StateFile` | pause, mute, suppression, snapshot, checksum, change log and profile stores as files of several processes; implements `AtomicStore` while no mishap occurs |
| `Archive` | the history file of a job and `JobArchiver` |
| `Files`, `MCFiles` | the two above, one at a time, for TLC |
| `Files_proofs` | typing, no unreadable file without a torn write or an overlap, the refinement of `AtomicStore`; archiving loses and doubles nothing |
| `Monitors` | watchdog, heartbeat, SLA, deadline and group alerts, checksum watcher |
| `Throttle`, `Dependencies`, `Windows`, `RunBook`, `Catalog` | alert throttle and backoff; dependency graph; execution windows; cooldown, conditions, status and metrics; selection and routing |
| `Monitoring`, `MCMonitoring` | the monitors and the five above, one at a time, for TLC |
| `Monitoring_proofs` | the monitors, the throttle, the graph, the windows, the books and the routes, each proved as a part of `Monitoring` |

Some modules also define, next to a definition, a variant of it that a plausible
bug would give (`RefuseAndUnlink`, `EvictInclusive`...). They are used by no
action; substituting one for the definition shows that a property depends on it.

### JobLock

`file` is what the path of the lock leads to: nothing, an empty file, or a pid.
`pc[p]` is the place of process p: `idle`, `check` (has read a pid), `unlink`,
`open` and `write` (inside `write_text`, which truncates or creates and then
writes), `running` (holds the lock), `dead`. `seen[p]` is `existing_pid`.
`Read` to `Write` are `acquire()` call by call, `Release` is `release()`,
`Refuse` is `LockAcquisitionError`, `WriteFails` a full disk. `orphans` holds the
processes writing into a file that was unlinked under them. `Crash` and
`ReusePid` are the operating system. `PidRunning` is `_pid_running`, with
`PermissionError` (a process one may not signal) read as "not running".
A process is identified with its pid; a pid is written whole, and pids have
the same number of digits, so that an overwritten file holds the later pid.

The history variable `contended` records that two `acquire()` calls overlapped
since the lock was last unused. The lock makes no promise about such
behaviours (that is a finding), and `MutualExclusion` states what is promised
otherwise.

### RunPipeline

One `tick()` goes `idle` -> `next` (at job `job`) -> `run` -> `recorded` -> `ask`
-> `send` -> `next`... -> `idle`. `RecordHistory`, `RecordBreaker` and `AskNotifier`
are what follows the return of the runner, and the send is a step of its own: the
history file survives a daemon that dies between any two of them, breaker and notifier
do not. `PassOver` takes a job that is not due,
whose circuit is open or whose lock is held. The clock advances in any state.
`Restart` kills the daemon in any state. `hist[j]` is the history file with the
time each run ended; `epoch`, `told`, `unsent`, `forgot`, `cut` are history variables:
where the breaker last forgot a job, what the last alert that arrived said,
whose last alert did not arrive, whom the notifier forgot, and of whose run on file it
has not heard because the daemon died in between, until it is next asked about that job.
Breaker and notifier use one clock (`_utcnow` and `time.monotonic`): the model assumes that the wall clock
does not jump.

### Scheduler

The unit is 10 seconds. A clock reading of n stands for n units and a fraction,
the same throughout: no tick is exactly on an occurrence, so `<= 30 s` is
`< 3` units. Occurrences of job j are the multiples of `Period[j]`, and `Prev`
is croniter's `get_prev`. `StartRun` .. `FinishRun` is `run_job`, during which
the loop stands still and time passes; `lastRun` gets `tickNow`, the time the
tick began. After a run `run_forever` sleeps `poll_interval`.

### AlertChain

`Upstream` says what feeds the chain: `RunPipeline.tick` (holds back some
failures, passes on a success if its notifier takes the job for failing and reports
recoveries) or `Scheduler.tick` (passes on every failure and no success). `failing` is
that belief of the notifier; `ResetNotifier` takes it away in the middle of an outage, and
`Unheard` is a run of which neither notifier nor tracker hears, because the runner or
`history.record` raised. `outage` counts the failures since the last success in
truth, `count` what the tracker believes; `slipped` (history) are the jobs of which the
tracker missed, or will miss, the end of an outage in one of these ways. A name offered to the limiter is a
pair of a level, or no level, and a job: `_annotate` puts the level in front of
the name before the limiter sees it. `log` is the history of everything offered
and its fate; `since` where each name was last reset. The constructor of
`RateLimiter` refuses a window or a maximum of zero (`ConstantsAssumption`).

### Execution

`pc[t]` is where a thread is on its way through the executors, outermost first:
`check` (quota), `look`, `create`, `get` (the guard's semaphore, looked up, made,
acquired), `held` (before the `try`), `run`, `timer` (the run is over, the timer
not yet cancelled), `trace`, `store`, `evict`, `pop`, `drop` (the steps of
`TraceStore.record`, which takes no lock), `release` (the `finally` clause), `back` (the
outermost executor has the result). The daemon's thread is in the dispatcher's
loop besides: `next`, `requeue`. `outer` says which of the two outermost
executors is in use. Actions of a thread are in the order of the code; `Alarm` is
SIGALRM in the main thread, `TimerFires` and `Land` the two halves of an
asynchronous exception, which may land anywhere after the timer fired. The
heap is a sequence sorted by time, with the ties of `heapq` broken by
`QueuedJob`'s comparison; `Evict` and `Store` are the two halves of
`evict_before`, between which another thread may record. `order` and `traces` are the
list and the dictionary of the trace store, and a late exception may leave them out of
step (`Leave`). `leaked`, `raced` (how often the semaphore of a job was created over
another), `overlap`, `dropped`, `won`, `recorded`, `met` and `torn` are history variables.

### StateFile and Archive

`kind` picks one of seven stores. A process is `idle`, has a table to `save`, has
opened (truncated) a file and is to `write` it, or is to `replace` the file
(snapshots only). `copy[p]` is the table it has in memory: a store that caches
(pause, snapshot, checksum, profile) keeps it between calls, the others load at
each call. `Unreadable` files lock out the strict stores (`CanStart`) and
empty the forgiving ones (`FileOrNothing`). `mishaps` records what has happened:
two saves that overlapped, a save of an outdated copy, a write that was cut off.
`AtomicTable` is the abstract specification as long as there were none, which is
what the code supports; what the mishaps do is for `ReadableUnlessTorn` and the
hazards to say.

`Archive` numbers the entries of one job; a file is a sequence of numbers,
`Torn` lines (the beginning of a line without its end, `\n` included) and `Broken` ones
(text that cannot be read, with its end of line). `StartArchiving` reads, `Move` and `Keep` treat one entry each,
`StartReplacing` truncates and `FinishReplacing` writes. `Record` may come at any
point, as may `Fault`: a death, or a full disk, in the middle. The
entry written behind a torn line becomes part of it (`Behind`), and is lost although
`record()` returns as always; the one after that is on a line of its own. `recorded`
has every entry for which `record()` returned. `cut` records
which step was cut off, or that a record and a replacement clashed.

### Monitors

`kind` picks a monitor; `todo` holds what the round in progress has yet to look at,
`marked` its memory of alerts, `told` (history) what got through. `StartRound`
reads the clock (the deadline and group monitors are given the time), a turn looks
at one job or group, and an alert is `Tell` or `TellFails`, which ends the round
as the exception would. `TellFailsMarked` is the order of the deadline and command
monitors, which remember before they send. Runs, heartbeats, edits of the
configuration, resets and restarts come between any two turns. `lost` are alerts
that raised, `suspects` what a round found.

### Throttle, Dependencies, Windows, RunBook, Catalog

`Throttle` is one job's `AlertThrottle`; its interval is also `job_backoff`'s
exponential delay. The multiplier is a fraction, so that growth by a half, or a decay, can
be told; floats are not rounded, but a power above `Largest` raises `OverflowError`,
before `min()` caps it, and the failure goes without an alert. `Dependencies` keeps the recursion of `visit` as a stack of
nodes with the dependencies each has left, sets in any order as in Python, then
lets ready jobs complete. `Windows` advances a clock around the day. `RunBook` has
threads in `get`/`mark` of the registry, in the reporter and in the metrics' lock. The
entries of registry and reporter are objects with an identity: a thread looks one up, then
reads its count and writes it back in a step each (`ReadFailures`, `WriteFailures`,
`ReadSkips`, `WriteSkips`), be the object (`held`) still there or not; `missed` says
which of the two counts may have lost something. `Catalog` has the selections as operators over
a sequence of jobs, dictionaries as functions with `None` for a missing key
(`Get`), and `RoutingAlerter.send` as one step per alerter, any of which may raise.
What the loops build with `groups[key].append(job)` is `Grouped`, of the list of the
pairs of key and job: one group per key, where the key comes first, with the jobs of
its pairs in their order. `sorted(..., reverse=True)` is `SortedBy`: at each place the
element that has so many before it. A glob pattern is the set of names that fit,
`str.lower` a function on names and `str` one on the values of labels. Assumed
(`CatalogAssumption`) is that the job objects of a list are distinct (the parser makes
one per entry), that tags are a list, that a priority is an integer, and that `lower()`
makes no name empty.

## 3. Runs

| Run | Instance | Shows |
|---|---|---|
| `job_lock` | 3 processes of one user, 2 deaths | `MutualExclusion`, `HolderIsNamed`, `NoAbandonedLock`, and `StaleLockCleared` under fairness |
| `job_lock_overlap` (violation) | 2 processes | two attempts that overlap both get the lock (`job_lock.py:1`) |
| `job_lock_two_users` (violation) | 2 processes that may not signal each other | a live holder's lock is cleared (`job_lock.py:19`, `:81`) |
| `pipeline` | 2 jobs, threshold 2, window 2, min interval 3, clock 1..4, histories of 4 and 1 runs, 1 restart (between any two steps of a tick) or reset | `BreakerReflectsHistory`, `NoRunWhileOpen`, `RecoveryIsReported`, `LongOutageIsReported` (7.0 million states) |
| `breaker_retry` (violation) | same | more than a single retry (`circuit_breaker.py:34`, `:61`) |
| `first_failure` (violation) | same | a first failure early after boot is not reported (`tests/test_notifier.py:26`) |
| `scheduler` | every-minute and every-other-minute job, polls of 20 or 30 s, runs of up to 20 s, 400 s, 1 crash or reset | `OncePerOccurrence`, `StartsAreSpaced`, `NoTwoMissedInARow` |
| `alert_chain` | 1 job, 2 levels, window 1, 2 alerts, clock 0..2, 4 alerts offered, 2 failures in a row, recoveries reported | `WindowBudget`, `LevelIsEarned`, implements `SlidingWindow` (1.0 million states) |
| `escalation_scheduler` (violation) | same, fed by `Scheduler` | levels without consecutive failures (`job_escalation.py:11`) |
| `execution` | daemon and 1 worker, 2 jobs (limits 1 and 0, of which the code makes 1; a quota of 1 and none), 2 calls, 2 attempts, 1 trace, clock 0..3 | `QueuedOnce`, `LimitKept`, `SlotsReturn`, `QuotaBudget`, `TracesAreNewest`, and `CallsEnd` under fairness (0.7 million states) |
| `files` | 2 processes, 2 jobs, 7 stores, 3 calls, 1 fault, clock 0..2; an archive of 3 entries, 2 faults | `ReadableUnlessTorn`, implements `AtomicStore`, `NoEntryLost`, `NoEntryTwice` (1.1 million states) |
| `monitoring` | one part at a time: 6 monitors of 2 jobs in 1 group, 3 runs, 3 edits, 1 restart, clock 0..3; throttle over a clock of 12, base 1, multiplier 5/2, maximum 4, largest float 10; all 4096 graphs of 3 jobs and an unknown name; all pairs of windows in a day of 6; the books of 2 threads, 3 runs, 1 reset, cooldown 1, clock 0..2; 43 lists of 4 jobs, 343 lists of rules | `AlertsAreSpaced`, `NobodyForgotten`, `QuietPeriodsGrow`, `DependenciesHold`, `WindowIsArc`, `BooksAgree`, `CooldownKept`, `RoutedAsRuled`, `SelectionsAgree` (2.2 million states; the two threads of the books are interchangeable, `MCSymmetry`) |

Bounds. Three processes are the least in which a stale lock's remover, a new
holder and a third attempt meet; two deaths allow a crash of a holder and of the
process clearing after it. Two runs past the threshold of 2 reach a failed retry
and a recovery after it; the second job shows that one job's steps leave the
other alone, and that an exception ends the loop before it. A clock of three
steps lets a window of 2 open, elapse and be crossed exactly, and a `MinInterval` of 3
elapse; four runs are an outage that long, cut off at its last run, and the run after it. 400 seconds are six occurrences of the every-minute job. Four alerts
against a budget of 2 let the window of 1 slide once over its edge; the second failure
in a row reaches the second level, before and after an outage the tracker did not see
end. `StartTimes` {1}
puts the daemon's start one unit after boot, which is what makes
`last_notified_at = 0.0` visible.

In `execution` two threads are the least for races on a semaphore and on a
quota; two calls besides the runs of the daemon's loop let a job be run, run again and
refused; a quota window of 1 is crossed exactly at clock 1 and left at 2; the trace store
overflows at the second trace, and two threads that record at once both find it too
full. In `files` three calls are a first save, one by the other process in the
middle of it, and one on the stale result; three entries let one be archived, one
kept and one be recorded meanwhile; two faults let a torn archiving be followed by
a torn retry. In `monitoring` the readings 0 to 3 of the clock are two days of two
units, and cross the watchdog's gap of 2 and a heartbeat's ttl of 1; three
runs make an SLA fail, recover and fail; twelve units let the throttle's interval
grow 1, 2.5, 4 (the maximum, below the power of 6.25) and then overflow at 15.625; three jobs make every shape of cycle up
to length three, a diamond needs the unknown name as its fourth corner; two rules
and two channels let one alert be sent twice to the same channel; two threads both read a count before
either writes it, or make an entry at once; a cooldown of 1 is
run into, waited for and begun again within a clock of 2. Jobs for `Catalog` have a
tag twice, equal priorities, keys without value, a label `None` beside a label `"None"`
and a team in two spellings.

The parts of `files` and `monitoring` share a run, not a state: `part`
picks one, and the others stay as they began. Their components do not interact in the code.

`CHECK_DEADLOCK FALSE` stands in `Scheduler.cfg`, the `AlertChain` configurations,
`Execution.cfg`, `Files.cfg` and `Monitoring.cfg`: their clocks, logs and calls are
bounded and the model ends there. The daemon does not.

Fairness is used in two places. `FairSpec` of `JobLock` assumes that every live
process keeps taking its own steps (a daemon polls for ever, and its jobs end),
and nothing about faults. `FairSpec` of `Execution` assumes the same of every
thread inside `run()` (weak fairness of `Step`: nothing there blocks, `try_acquire`
does not wait, a job ends or is ended by its timeout), and nothing about the
dispatcher, the timers or the callers. All other specifications state safety only.

The limits of what holds are part of the result. `NoTwoMissedInARow` fails when
a run takes 60 seconds (`MaxDuration` 6): cronwatch has no catch-up. A
single occurrence is missed already with runs of 20 seconds.
`MutualExclusion` says nothing about overlapping attempts; `RecoveryIsReported`
excuses alerts that were lost after the notifier counted them, which the code
does not try again. Of the others:

- `LongOutageIsReported` excuses such lost alerts too, and a job whose last run went to
  the history file before the daemon died and not to its notifier (`cut`), until the
  notifier hears of the next run: with a `MinInterval` of 3, a failure at 1 that is held
  back and one at 4 cut off like that are a long outage on file of which nobody was told.
- `LevelIsEarned` leaves out the jobs in `slipped`, and notifiers that do not report
  recoveries: `Notifier.reset`, a `history.record` that raises at the success, and
  `notify_on_recovery=False` each keep a success from the tracker, which then counts
  the next outage on from the last.

- `QueuedOnce` leaves out jobs of a tick that an exception ended
  (`job_dispatcher.py:44-54`): those are in no queue any more.
- `LimitKept` and `SlotsReturn` bound what a race costs: each time a semaphore is
  created over another one (`raced`), one more limit's worth of threads may be inside.
  `SlotsReturn` counts the slots that an exception landing in a `finally` clause took
  with it (`leaked`).
- `TracesAreNewest` has two halves. Whatever the interleaving, the list is a run of the
  traces listed last. That list and dictionary agree and are full is promised only while
  no two calls of `record()` ever met (`met`), and none was left by an exception (`torn`):
  two threads that both find one trace too many both evict one, so fewer than `max_entries`
  remain, or a trace is stored after it was evicted and stays for ever. With
  `max_entries=0` a `pop(0)` may find the list empty (`IndexError`).
- `QuotaBudget` leaves out jobs of which two calls overlapped; both then pass the
  check.
- `AtomicTable` ends with the first mishap. The running daemon's `PauseStore`
  never reads its file again, so a pause written by another process is unseen and
  is overwritten by the next save. That is `stale`.
- `NoEntryLost` excuses a run recorded between `entries_for` and `replace_entries`,
  and a replacement cut off; `NoEntryTwice` an archiving cut off. It speaks of entries
  recorded right behind another (`Safe`): one behind a line that was cut off is lost,
  although its `record()` returned normally.
- `NobodyForgotten` excuses deadline and command alerts that raised: those are
  remembered first and never tried again. A group is told once until reset.
- `BooksAgree` excuses the count of failures, or of skips, when two threads made the
  entry at once, counted in it at once (`+=` without a lock), or counted in one that a
  reset had removed (`missed`). It may then be too small, never too large; that of
  failures is right again after the next success, that of skips never.
- `RoutedAsRuled` includes that a channel without an alerter swallows the alert.
- `QuietPeriodsGrow` says nothing of the first failure: `last_alert_at` starts at 0.0, so
  within the base interval of boot it is refused, as by the notifier (run `first_failure`
  and its finding are about the same start there). `tests/test_throttle.py:53`
  (`test_first_failure_always_allowed`), and `:69` and `:80` ("first alert at t=0"), expect it
  to be allowed: the first passes only where the test machine has been up for longer
  than the interval, the other two ignore what the first call returns.
  It also states that once the power overflows every failure goes without an alert (the caller
  gets the `OverflowError`, `throttle.py:33`) until a success or a reset;
  `job_backoff.py:39` raises likewise.

## 4. Proofs

Every safety property and every refinement that a passing run checks is a theorem for
all values of the constants. Each follows from an inductive invariant.

`JobLock_proofs`: for every set of processes, any number of deaths and any
`CanSignal`. `Typing` is inductive. `MutualExclusion` is not: that at most
one process holds the lock depends on what a process that has not yet written
its pid once read. `Exclusive` adds that while attempts do not overlap at most one
process is inside `acquire()`, that the file it has open is still the lock file,
and that beside a holder it has read the holder's pid and can only be refused.
`ExclusiveStep` has one case per action; `MutualExclusionHolds` and
`HolderIsNamedHolds` follow. `NoAbandonedLock` is inductive with typing alone, and
needs nothing about overlaps.

`RunPipeline_proofs`: for every number of jobs, threshold, window and length of
history. `Typing` rests on one lemma per component (`BreakerTyping`,
`NotifierTyping`). `BreakerHolds` proves `BreakerReflectsHistory`, which is
inductive together with typing: `CountedFrom` is the invariant for one job as a
relation between a history, where it was forgotten, and the breaker's two
fields, and the lemmas `CountNothing`, `CountSuccess`, `CountFailure` say what a
reset, a success and a failure do to it. `NoRunWhileOpenHolds` proves the action
property from it: only one place in a history can begin the failures at its end
(`OneCount`), so the failure that opened the circuit is the one `is_open` looks
at (`ClosedIsQuiet`). `NotifierAgrees` relates what the reader of the alerts believes
to the notifier's exit code, also while an alert is on its way; `RecoveryIsReported`
follows. `OutagesAreYoung` says of the failures at the end of a history, from whichever
of them on, that the reader knows or that they began after the last alert and less than
`MinInterval` ago, for the runs the notifier has heard of; `LongOutageIsReported` follows.
`Heard` and `Unheard` carry both invariants through the steps between the history file and
the breaker, and the notifier.

`Scheduler_proofs`: for every number of jobs, all periods of a minute or more,
all poll intervals, durations and faults. `OncePerOccurrence` and
`StartsAreSpaced` speak of past starts, of which the code keeps `_last_run`
only; `SchedulerInv` says how the two relate. `Reference(j)` is what the guard
will compare the next tick with (the time of the tick while j runs, before it is
stored). Every occurrence run is at or before it, and the last start exceeds it
by at most `Delay(j)`, the time the jobs before j can take (`HeldUp`: how far
the loop lags its own reading of the clock). A second run of an occurrence would
need a tick a minute after the reference and yet within the tolerance, shorter
than a minute, of an occurrence not after the reference.
`NoTwoMissedHolds` has the hypothesis `LoopKeepsUp`: schedules by the minute, a poll
interval within the tolerance, and a poll and the runs of all jobs within two minutes
(of all but one within one). The run's constants satisfy it (`MCScheduler` assumes it, so
TLC evaluates it), and without it the property is false. `OccurrenceInv` has two pairs
of facts: when the loop sleeps, all pairs of occurrences that are over when it wakes
have been run once (`PairsRun`); and in a tick, the jobs the loop is past have run
in the last minute if they were due, or else have not held the loop up (`Past`).

`AlertChain_proofs`: for any names, levels, limits and windows. `LimiterInv` leads
from each deque to the log: there is a map (`Fits`) from the slots of the deque to the
alerts that took them, in their order, and whatever it leaves out of the log since the
last reset is too old to count. So `send` finds room exactly when `SlidingWindow` does,
and `SlidingWindowRefinement` proves that the initial states are initial states and each
step is a step or a stutter of the abstract limiter. `WindowBudgetHolds` counts the
alerts of a `Stretch` from any alert on: the one too many would have found all others
recent. `LevelIsEarnedHolds` is proved for the pipeline's results and for policies
with `DefaultIsEarned` (the default level is none of the policy's, or some level is
reached at the first failure): otherwise `level_for` gives a first failure a level
that it has not earned. That the count is at most the length of the outage, and that a
job with a count is one the notifier takes for failing (`CountIsEarned`), holds of jobs that
have not slipped and needs `Upstream` to be the pipeline; with the scheduler, which
passes no successes on, the run `escalation_scheduler` shows that it fails.

`Execution_proofs`: for every set of threads and of jobs, all limits (also those
below one), and every schedule of calls, timeouts and late exceptions. `SlotsReturn`
is not inductive: that a slot given back is one more of those that exist needs that
the semaphore existed when the thread got there. `SlotInv` adds that a thread from
`get` to `release` has a job with a semaphore, and that a semaphore not made yet has
neither lost a slot nor been raced for. As far as slots go, every action is one of
five kinds (`Neutral`, `Makes`, `Takes`, `Gives`, `Leaks`); one lemma says that each
kind keeps `SlotInv`, with `OneMoreInside` and `OneLessInside` for the cardinalities,
and one lemma per action says of which kind it is; `Makes` adds one limit's worth of
slots and one to `raced`. `LimitKept` follows by arithmetic.
`CallInv` is typing and the queue together: `Places` (where a thread can be, and that
it has a job exactly while it runs one), `Data` (what it carries) and `QueueInv` (the
heap is sorted and later than the tick; a job waits in the heap or in the drained tick,
once, and in neither only after an exception).
`QueuedOnceHolds` and `TypeOKHolds` follow. `TraceInv` has three parts: the
list is a run of the newest (`InOrder`, whatever happens); while no call was left by an
exception, every thread in `record()` accounts for at most one trace above the limit and for
what is listed and not yet stored (`Untorn`); while besides no two met, what the one thread inside
has yet to do is all that separates list and dictionary from each other and from the
limit (`Unmet`). `QuotaInv` is per job without an overlap: there is a map
from the stored times to the successful runs that covers every run that still
counts (`Covers`), and a thread past its check knows them to be fewer than the quota
(`Checked`, `Counted`); `QuotaBudgetHolds` counts over a `Stretch`, as for the limiter.

`Files_proofs`: for any processes, jobs, values and faults. `StoreInv` adds to
typing that without an overlap at most one process is in a save, and what the file
and its `.tmp` can be at each place of it: the snapshot file only ever receives a
whole table, the others are unreadable between truncation and write alone.
`ReadableUnlessTorn` follows. `MemoryInv` adds, until the first mishap, that the copy
about to be saved is the current table with the change of that call, which is a
change `AtomicStore` allows; `FilesAtomic` proves the refinement from it, step by step:
the table changes where the write is complete, and every other step stutters. `ArchiveInv`
is about a history being archived: the entries yet to be looked at are in their order and
before whatever is recorded meanwhile (`OrderInv`); unless an archiving was cut off, what is archived is neither yet to be
looked at nor to be written back, and is in the history only until that is replaced
(`MovedInv`); and unless a replacement or an archived line was cut off or clashed with a record, every
entry recorded right behind another is still to be looked at, to be written back, or archived (`KeptInv`). `NoEntryTwiceHolds` and
`NoEntryLostHolds` follow from the last two.

`Monitoring_proofs`: each part by itself, for all its constants; a step of `Monitoring`
is a step of the part, a tick of its clock, or nothing to it.

- Windows: `InWindowIsArc` is about the operator alone, by cases on whether
  the window passes midnight (`WayOnTheClock` is the arithmetic); `WindowIsArcHolds`
  lifts it to lists of windows.
- RunBook, for any number of threads, cooldown and conditions. `CooldownInv` relates the
  tracker to the history: when no thread is between the end of a run and telling of it, what
  the tracker holds is no earlier than the last run's end, and nothing was told
  before it happened. `BooksInv` adds `HandsInv` (a new object is in nobody's hands),
  `RegistryInv` and `ReporterInv` (a thread about to count has read no more than there was,
  and the counts are exact unless something was `missed`) and `MetricsInv`: outside the lock the counters are those of the
  runs, inside it a thread is `Halfway`.
- Throttle, for any base, multiplier (a fraction), maximum and largest float. `ThrottleInv` says that what the throttle
  remembers are the number and the last of this spell's alerts; `AllowedIsLate` and
  `RefusedIsEarly` compare a call with the period that is due. The period is a capped
  power; that the function `Power` exists is proved by induction (`PowersExist`).
- Monitors, for any jobs, groups, thresholds and numbers of runs. `MonitorInv` has, for
  every job or group: that the monitor's memory agrees with what got through
  (`Remembered`); and, unless an alert ended the round, that a violation is `Accounted` for:
  the round has yet to come to it, or it is `Settled`, that is, somebody knows of it or it was
  marked and its alert raised. `TurnSettles` has one lemma per monitor. `AlertsAreSpaced` and `NobodyForgotten` follow. Job names are assumed
  distinct (`MonitorsAssumption`), as they are keys of every store.
- Dependencies, for any graph, cyclic or not, and any order in which Python iterates a
  set. `GraphInv` describes the stack of calls of `visit` (`Stacked`): each call has
  dealt with all its node depends on but for what is left and for the call above it. So a
  node that is left has all its dependencies in the order (`Ordered`), and a node found
  on the stack closes a cycle (`StackIsCyclic`).
- Catalog, for any jobs, rules and channels. `RouteInv`: what a channel got and what is
  queued for it is its due; `SendIsDue` says that the queue of a new send is right, by
  counting the elements that a filter picks (`AsManyPicked`), and `RulePicks` that
  `RoutingRule.matches` and the selections of `job_tags` and `job_labels` agree.
- Catalog, for any lists of jobs with any attributes. `SelectionsAgree` is about
  operators on a list that no step changes (`ListInv`), so its proof is one lemma per
  selection. `GroupedProperties` says what grouping returns: keys are distinct, a group
  has the jobs of the entries with its key in their order, every entry's key has a
  group. `FlattenSeqProperties` says that flattening visits the groups row by row
  (`Joins`) and keeps first places; `GroupsHoldOnce` that each job is then there once.
  That the groups by priority, flattened, are the sorted list needs that both list the
  same jobs in the order `Sooner`, of which there is one such list (`SameOrder`); that
  a least priority takes the front of it, that the jobs kept are an initial part of the
  places (`LeastTakesFront`).

`Subsequences` defines filtering of a sequence by a recursive function; its proofs have
what it returns for every sequence (`OnlyProperties`: an increasing map from the result
into the sequence), by first-order induction over a set of naturals (`Least`,
`Induction`), which does not need the library's schemes over operators.
`FirstsProperties` follows from it. `SortedByProperties` counts: the rank of a place,
how many places go before it, is below the length and different for each, so the ranks
are all the numbers there are (`RankSorts`, by the library's pigeonhole facts), and
`SortedBy` is a permutation in the order of `Ahead`.

The proofs use the assumptions named `...Assumption` of the modules, the hypotheses
`LoopKeepsUp` and `Upstream = "pipeline"`, `DefaultIsEarned` of the two theorems above, and
nothing else. TLC evaluates the assumptions in the passing runs.

Only model-checked: `StaleLockCleared` and `CallsEnd`, as liveness under fairness is out
of the prover's reach.

## 5. Plan

Done in this order: the lock, the pipeline, the scheduler and the alert chain; then
the dispatcher with the executors, the files, the monitors and what is kept and
chosen in memory; then the proofs of section 4. What is left, in the order of its worth:

1. `RunPipeline` with the dispatcher in place of the scheduler's loop, once the
   source wires one of them to the executors.
2. `RetentionPolicy`, once its store has the calls it makes: it is `Archive` without
   an archive.
3. Audit events over `Execution`, once a finish event can be written.

## 6. Not modelled

Subprocesses, SMTP, HTTP, file formats, formatting, reports and configuration
parsing are I/O or pure text. `retention` and `digest` call methods that do not exist
(section 1), and so does what `audit_middleware` does after a run; they have no
behaviour beyond an exception. Hooks start subprocesses one after the other and
keep nothing. `job_annotations` repeats the lookups of `job_metadata`; `job_env`,
`job_output`, `job_secrets` and `job_secret_injector` build strings and dictionaries
of strings; `job_cost` multiplies; `job_ratelimit_policy` builds a `RateLimiter`,
which is modelled. Of the modelled components the models leave out: the overrun
check of `JobRunner._execute`; time zones and the cron syntax; the jitter of backoff
delays; readers that change nothing and that no property is about
(`next_allowed`, `consecutive_failures`, `recent`...); and threads inside the lock,
the pipeline and the alert chain (none of those classes is meant to be shared
between threads; those of `Execution` and `RunBook` are).
