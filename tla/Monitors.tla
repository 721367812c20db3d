------------------------------ MODULE Monitors ------------------------------
(* The monitors that look at jobs now and then and send alerts, each with a *)
(* memory of what it has sent: Watchdog, HeartbeatMonitor, SLAAlerter,      *)
(* DeadlineAlerter, evaluate_group_alerts with its GroupAlertPolicy, and    *)
(* ChecksumWatcher; one of them at a time (kind).  A round is one call of   *)
(* check() or tick(): jobs run, and the clock moves, while it sends.        *)
EXTENDS Subsequences, FiniteSets, SequencesExt

CONSTANTS
    Monitor,        \* the kinds of monitor looked at
    Jobs,           \* the jobs, in the order of the configuration
    Groups,         \* the groups, in the order of the report
    GroupOf,        \* the group of each job
    Outcome,        \* what a run comes to: [ok |-> BOOLEAN, took |-> Nat]
    Command,        \* what the command of a job can be
    Never,
    Interval, Grace, WatchGap,       \* Watchdog: schedule, grace, 3600 s
    Ttl,                             \* HeartbeatMonitor, per job
    SlaWindow, MinOk, OutOf, MaxAverage,   \* SLAPolicy: rate MinOk / OutOf
    Day, Deadline,                   \* length of a day; time of day, per job
    MinRuns, FailNum, FailDen,       \* GroupAlertPolicy: rate FailNum / FailDen
    MaxRunsSeen, MaxEdits, MaxRestarts     \* bounds

Job == ToSet(Jobs)
Key == Job \cup ToSet(Groups)

(* The configuration names every job once.                                  *)
ASSUME MonitorsAssumption ==
    /\ Jobs \in Seq(Job) /\ IsInjective(Jobs) /\ Groups \in Seq(ToSet(Groups))
    /\ GroupOf \in [Job -> ToSet(Groups)]
    /\ Outcome \subseteq [ok : BOOLEAN, took : Nat] /\ \E o \in Outcome : o.ok
    /\ Command # {}
    /\ Never \notin Int \cup Command \cup [at : Nat, torn : BOOLEAN]
                     \cup [at : Nat, what : Nat \cup Command]
    /\ Interval \in [Job -> Int] /\ Grace \in Nat /\ WatchGap \in Nat \ {0}
    /\ Ttl \in [Job -> Nat]
    /\ SlaWindow \in Nat /\ MinOk \in 0 .. OutOf /\ OutOf \in Nat \ {0} /\ MaxAverage \in Nat
    /\ Day \in Nat \ {0} /\ Deadline \in [Job -> (0 .. Day - 1) \cup {Never}]
    /\ MinRuns \in Nat /\ FailNum \in Nat /\ FailDen \in Nat \ {0}
    /\ MaxRunsSeen \in Nat /\ MaxEdits \in Nat /\ MaxRestarts \in Nat

VARIABLES
    now,
    kind,
    runs,        \* the history: [job, at, ok, took], in the order of recording
    beat,        \* the heartbeat files: [at, torn], or Never
    dispatched,  \* DeadlineChecker._dispatched
    command,     \* the command configured for each job
    marked,      \* _alerted, per key; for ChecksumWatcher the digest stored
    todo,        \* the keys the round has yet to look at
    roundNow,    \* its now
    told,        \* history: the last alert of each key that arrived: [at, what]
    suspects,    \* history: the keys this round found in violation
    recovered,   \* history: keys SLAAlerter found healthy since they were told of
    lost,        \* history: keys with an alert that was marked and did not arrive
    cutShort,    \* history: an alert raised in the last round
    edits, restarts

monitorVars == <<kind, runs, beat, dispatched, command, marked, todo, roundNow,
                 told, suspects, recovered, lost, cutShort, edits, restarts>>
world == <<runs, beat, dispatched, command, edits, restarts>>

Init ==
    /\ kind \in Monitor
    /\ runs = <<>>
    /\ beat = [j \in Job |-> Never]
    /\ dispatched = [j \in Job |-> Never]
    /\ command \in [Job -> IF kind = "command" THEN Command ELSE {CHOOSE c \in Command : TRUE}]
    /\ marked = [k \in Key |-> Never]
    /\ todo = <<>> /\ roundNow = 0
    /\ told = [k \in Key |-> Never]
    /\ suspects = {} /\ recovered = {} /\ lost = {} /\ cutShort = FALSE
    /\ edits = 0 /\ restarts = 0

-----------------------------------------------------------------------------
(* What is wrong with a job *)

RunsOf(j) == SelectSeq(runs, LAMBDA e : e.job = j)
LastRun(j) == IF RunsOf(j) = <<>> THEN Never ELSE Last(RunsOf(j)).at

(* check_missed(): a job that has never run is missed since 1970; a job     *)
(* without an interval is not looked at.                                    *)
Missed(j) ==
    /\ Interval[j] > 0
    /\ LastRun(j) # Never => now > LastRun(j) + Interval[j] + Grace

IsAlive(j) == now - beat[j].at <= Ttl[j]

(* evaluate_sla(): success rate and average duration of the recent runs.    *)
Recent(j) == SelectSeq(RunsOf(j), LAMBDA e : e.at >= now - SlaWindow)
Total(s) == FoldLeft(LAMBDA sum, e : sum + e.took, 0, s)
Healthy(j) ==
    LET recent == Recent(j)
        successes == SelectSeq(recent, LAMBDA e : e.ok)
    IN \/ recent = <<>>
       \/ /\ Len(successes) * OutOf >= MinOk * Len(recent)
          /\ MaxAverage = 0 \/ Total(recent) <= MaxAverage * Len(recent)

(* DeadlineChecker.check(): any dispatch up to the deadline of today counts. *)
DeadlineMissed(j) ==
    /\ Deadline[j] # Never
    /\ LET deadline == (now \div Day) * Day + Deadline[j]
       IN now >= deadline /\ (dispatched[j] = Never \/ dispatched[j] > deadline)

(* build_group_report() and the part of should_alert() that looks at it.    *)
RunsOfGroup(g) == SelectSeq(runs, LAMBDA e : GroupOf[e.job] = g)
FailsTooMuch(g) ==
    LET total == Len(RunsOfGroup(g))
        failures == Len(SelectSeq(RunsOfGroup(g), LAMBDA e : ~e.ok))
    IN total >= MinRuns /\ (total > 0 => failures * FailDen >= FailNum * total)
                        /\ (total = 0 => FailNum = 0)

-----------------------------------------------------------------------------
(* A round *)

(* What the round goes through: the violations found at its beginning, or   *)
(* all jobs, each of which is looked at in its turn.                        *)
Listed ==
    CASE kind = "watchdog"  -> Only(Jobs, {j \in Job : Missed(j)})
      [] kind = "heartbeat" -> Only(Jobs, {j \in Job : beat[j] # Never /\ ~IsAlive(j)})
      [] kind = "deadline"  -> Only(Jobs, {j \in Job : DeadlineMissed(j)})
      [] kind = "group"     -> Only(Groups, {g \in ToSet(Groups) : FailsTooMuch(g)})
      [] OTHER              -> Jobs

(* HeartbeatStore.all() raises at a file it cannot read.                    *)
StartRound ==
    /\ todo = <<>>
    /\ kind = "heartbeat" => \A j \in Job : beat[j] # Never => ~beat[j].torn
    /\ roundNow' = now
    /\ todo' = Listed
    /\ suspects' = IF kind \in {"sla", "command"} THEN {} ELSE ToSet(Listed)
    /\ cutShort' = FALSE
    /\ UNCHANGED <<kind, world, marked, told, recovered, lost>>

(* Nothing to say about k.                                                  *)
Pass(k) ==
    /\ todo' = Tail(todo)
    /\ UNCHANGED <<kind, world, marked, roundNow, told, lost, cutShort>>

(* The alert arrives, and the monitor remembers it.                         *)
Tell(k, mark) ==
    /\ todo' = Tail(todo)
    /\ marked' = [marked EXCEPT ![k] = mark]
    /\ told' = [told EXCEPT ![k] = [at |-> roundNow, what |-> mark]]
    /\ lost' = lost \ {k}
    /\ recovered' = recovered \ {k}
    /\ UNCHANGED <<kind, world, roundNow, cutShort>>

(* send() raises out of the round: before the alert is remembered, or after. *)
TellFails ==
    /\ todo' = <<>> /\ cutShort' = TRUE
    /\ UNCHANGED <<kind, world, marked, roundNow, told, recovered, lost>>

TellFailsMarked(k, mark) ==
    /\ todo' = <<>> /\ cutShort' = TRUE
    /\ marked' = [marked EXCEPT ![k] = mark]
    /\ lost' = lost \cup {k}
    /\ UNCHANGED <<kind, world, roundNow, told, recovered>>

(* The watchdog, had it remembered the alert before it sent it.             *)
WatchdogTurnMarkingFirst(k) ==
    /\ kind = "watchdog"
    /\ IF marked[k] = Never \/ roundNow - marked[k] >= WatchGap
       THEN Tell(k, roundNow) \/ TellFailsMarked(k, roundNow)
       ELSE Pass(k) /\ UNCHANGED recovered
    /\ UNCHANGED suspects

(* Watchdog.check(), for one missed job.                                    *)
WatchdogTurn(k) ==
    /\ kind = "watchdog"
    /\ IF marked[k] = Never \/ roundNow - marked[k] >= WatchGap
       THEN Tell(k, roundNow) \/ TellFails
       ELSE Pass(k) /\ UNCHANGED recovered
    /\ UNCHANGED suspects

(* HeartbeatMonitor.tick(), for one job that is not alive.                  *)
HeartbeatTurn(k) ==
    /\ kind = "heartbeat"
    /\ IF marked[k] = Never \/ roundNow - marked[k] > Ttl[k]
       THEN Tell(k, roundNow) \/ TellFails
       ELSE Pass(k) /\ UNCHANGED recovered
    /\ UNCHANGED suspects

(* SLAAlerter.check(), had it not asked whether it was told already.        *)
SlaTurnForgetful(k) ==
    /\ kind = "sla"
    /\ IF Healthy(k)
       THEN /\ todo' = Tail(todo)
            /\ marked' = [marked EXCEPT ![k] = Never]
            /\ recovered' = recovered \cup {k}
            /\ UNCHANGED <<kind, world, roundNow, told, suspects, lost, cutShort>>
       ELSE /\ suspects' = suspects \cup {k}
            /\ (Tell(k, 0) \/ TellFails)

(* A healthy job may be told of again the next time it is not.              *)
SlaTurn(k) ==
    /\ kind = "sla"
    /\ IF Healthy(k)
       THEN /\ todo' = Tail(todo)
            /\ marked' = [marked EXCEPT ![k] = Never]
            /\ recovered' = recovered \cup {k}
            /\ UNCHANGED <<kind, world, roundNow, told, suspects, lost, cutShort>>
       ELSE /\ suspects' = suspects \cup {k}
            /\ IF marked[k] = Never THEN Tell(k, 0) \/ TellFails
                                    ELSE Pass(k) /\ UNCHANGED recovered

(* DeadlineAlerter.tick(), for one violation: once per job and day.         *)
DeadlineTurn(k) ==
    /\ kind = "deadline"
    /\ IF marked[k] # roundNow \div Day
       THEN Tell(k, roundNow \div Day) \/ TellFailsMarked(k, roundNow \div Day)
       ELSE Pass(k) /\ UNCHANGED recovered
    /\ UNCHANGED suspects

(* evaluate_group_alerts(), for one group: once until a reset.              *)
GroupTurn(k) ==
    /\ kind = "group"
    /\ IF marked[k] = Never
       THEN Tell(k, 0) \/ TellFails
       ELSE Pass(k) /\ UNCHANGED recovered
    /\ UNCHANGED suspects

(* The first digest of a job is only stored.                                *)
CommandTurn(k) ==
    /\ kind = "command"
    /\ CASE marked[k] = command[k] -> Pass(k) /\ UNCHANGED <<recovered, suspects>>
         [] marked[k] = Never ->
                /\ todo' = Tail(todo)
                /\ marked' = [marked EXCEPT ![k] = command[k]]
                /\ UNCHANGED <<kind, world, roundNow, told, suspects, recovered, lost, cutShort>>
         [] OTHER ->
                /\ suspects' = suspects \cup {k}
                /\ (Tell(k, command[k]) \/ TellFailsMarked(k, command[k]))

Turn ==
    /\ todo # <<>>
    /\ LET k == Head(todo) IN
       \/ WatchdogTurn(k) \/ HeartbeatTurn(k) \/ SlaTurn(k)
       \/ DeadlineTurn(k) \/ GroupTurn(k) \/ CommandTurn(k)

-----------------------------------------------------------------------------
(* What goes on around the monitors *)

Noticed == <<kind, marked, todo, roundNow, told, suspects, recovered, lost, cutShort>>

(* A run is recorded, and mark_dispatched() is told of it, for the monitors  *)
(* that look at runs; how it ended, for those that look at that.            *)
RecordRun(j) ==
    /\ Len(runs) < MaxRunsSeen /\ kind \notin {"heartbeat", "command"}
    /\ \E o \in IF kind \in {"sla", "group"} THEN Outcome ELSE {CHOOSE o \in Outcome : o.ok} :
           runs' = Append(runs, [job |-> j, at |-> now, ok |-> o.ok, took |-> o.took])
    /\ dispatched' = [dispatched EXCEPT ![j] = IF kind = "deadline" THEN now ELSE @]
    /\ UNCHANGED <<Noticed, beat, command, edits, restarts>>

(* HeartbeatStore.record() truncates the file and writes it; remove().      *)
StartBeat(j) ==
    /\ kind = "heartbeat" /\ edits < MaxEdits
    /\ beat' = [beat EXCEPT ![j] = [at |-> now, torn |-> TRUE]]
    /\ edits' = edits + 1
    /\ UNCHANGED <<Noticed, runs, dispatched, command, restarts>>

(* The write has reached the file.                                          *)
EndBeat(j) ==
    /\ beat[j] # Never /\ beat[j].torn
    /\ beat' = [beat EXCEPT ![j].torn = FALSE]
    /\ UNCHANGED <<Noticed, runs, dispatched, command, edits, restarts>>

(* remove(), had it left a file without a time.                             *)
RemoveBeatEmptying(j) ==
    /\ beat[j] # Never
    /\ beat' = [beat EXCEPT ![j] = [at |-> Never, torn |-> FALSE]]
    /\ UNCHANGED <<Noticed, runs, dispatched, command, edits, restarts>>

(* remove()                                                                 *)
RemoveBeat(j) ==
    /\ beat[j] # Never
    /\ beat' = [beat EXCEPT ![j] = Never]
    /\ UNCHANGED <<Noticed, runs, dispatched, command, edits, restarts>>

(* Somebody edits the configuration.                                        *)
Edit(j) ==
    /\ kind = "command" /\ edits < MaxEdits
    /\ \E c \in Command \ {command[j]} : command' = [command EXCEPT ![j] = c]
    /\ edits' = edits + 1
    /\ UNCHANGED <<Noticed, runs, beat, dispatched, restarts>>

Forget(keys) ==
    /\ marked' = [k \in Key |-> IF k \in keys THEN Never ELSE marked[k]]
    /\ told' = [k \in Key |-> IF k \in keys THEN Never ELSE told[k]]
    /\ lost' = lost \ keys
    /\ recovered' = recovered \ keys
    /\ suspects' = suspects \ keys

(* HeartbeatMonitor.reset(), DeadlineAlerter.reset_daily() and              *)
(* GroupAlertPolicy.reset(), between rounds.                                *)
ResetMonitor ==
    /\ todo = <<>> /\ restarts < MaxRestarts
    /\ \/ kind = "heartbeat" /\ \E j \in Job : Forget({j})
       \/ kind = "deadline" /\ Forget(Key)
       \/ kind = "group" /\ (Forget(Key) \/ \E g \in ToSet(Groups) : Forget({g}))
    /\ restarts' = restarts + 1
    /\ UNCHANGED <<kind, todo, roundNow, cutShort, runs, beat, dispatched, command, edits>>

(* The daemon starts again: only ChecksumWatcher keeps its memory in a      *)
(* file, and dispatches are forgotten.                                      *)
Restart ==
    /\ restarts < MaxRestarts
    /\ restarts' = restarts + 1
    /\ todo' = <<>> /\ cutShort' = TRUE
    /\ Forget(IF kind = "command" THEN {} ELSE Key)
    /\ dispatched' = [j \in Job |-> Never]
    /\ UNCHANGED <<kind, roundNow, runs, beat, command, edits>>

Next ==
    \/ StartRound \/ Turn
    \/ \E j \in Job : RecordRun(j) \/ StartBeat(j) \/ EndBeat(j) \/ RemoveBeat(j) \/ Edit(j)
    \/ ResetMonitor \/ Restart

-----------------------------------------------------------------------------
(* Properties *)

Alert == [at : Nat, what : Nat \cup Command]

TypeOK ==
    /\ kind \in Monitor
    /\ now \in Nat /\ runs \in Seq([job : Job, at : Nat, ok : BOOLEAN, took : Nat])
    /\ beat \in [Job -> [at : Nat, torn : BOOLEAN] \cup {Never}]
    /\ dispatched \in [Job -> Nat \cup {Never}]
    /\ command \in [Job -> Command]
    /\ marked \in [Key -> Nat \cup Command \cup {Never}]
    /\ todo \in Seq(Key) /\ roundNow \in Nat
    /\ told \in [Key -> Alert \cup {Never}]
    /\ suspects \subseteq Key /\ recovered \subseteq Key /\ lost \subseteq Key
    /\ cutShort \in BOOLEAN /\ edits \in Nat /\ restarts \in Nat

(* Whether a second alert of key k may follow the first.                    *)
MayFollow(k, first, second) ==
    CASE kind = "watchdog"  -> second.at - first.at >= WatchGap
      [] kind = "heartbeat" -> second.at - first.at > Ttl[k]
      [] kind = "sla"       -> k \in recovered
      [] kind = "deadline"  -> second.at \div Day # first.at \div Day
      [] kind = "group"     -> FALSE
      [] kind = "command"   -> second.what # first.what \/ k \in lost

(* Two alerts about the same thing are as far apart as the monitor says:    *)
(* an hour, a time to live, a day, a recovery, a reset, another command     *)
(* (watchdog.py:108, heartbeat_monitor.py:61, sla_alerter.py:18-19,         *)
(* deadline_alerter.py:20, group_alert_policy.py:16), whatever raises,      *)
(* recovers or is recorded in between.                                      *)
AlertsAreSpaced ==
    [][\A k \in Key : told'[k] # told[k] /\ Never \notin {told[k], told'[k]} =>
           MayFollow(k, told[k], told'[k])]_monitorVars

(* Whether what somebody was told of k last still covers a violation.       *)
Covers(k) ==
    /\ told[k] # Never
    /\ CASE kind = "watchdog"  -> roundNow - told[k].at < WatchGap
         [] kind = "heartbeat" -> roundNow - told[k].at <= Ttl[k]
         [] kind = "sla"       -> k \notin recovered
         [] kind = "deadline"  -> told[k].at \div Day = roundNow \div Day
         [] kind = "command"   -> told[k].what = marked[k]
         [] OTHER              -> TRUE

(* When a round has ended and no alert in it raised, somebody knows of      *)
(* every violation it found, also of those whose alert raised in an earlier *)
(* round; but for the monitors that remember an alert before they send it,  *)
(* which never try again (deadline_alerter.py:40-42, checksum_watcher.py:54-63). *)
NobodyForgotten ==
    todo = <<>> /\ ~cutShort => \A k \in suspects :
        Covers(k) \/ (kind \in {"deadline", "command"} /\ k \in lost)
=============================================================================
