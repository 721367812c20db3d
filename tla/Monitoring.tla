------------------------------ MODULE Monitoring ------------------------------
(* The parts of cronwatch that decide from what they remember, each by      *)
(* itself: one of the monitors (Monitors), the throttle, the dependency     *)
(* graph, the execution windows, the books kept of the runs of a job, or    *)
(* the selections and routes among the jobs.  They share nothing but the    *)
(* clock.                                                                   *)
EXTENDS Monitors

CONSTANTS
    Base, MaxInterval, ResetOnSuccess,
    Numerator, Denominator, Largest,                    \* Throttle
    Configured, Unknown,                                \* Dependencies
    DayLength,                                          \* Windows
    Worker, Cooldown, Conditions, Absent, MaxBegun, MaxResets,     \* RunBook
    Attributes, JobLists, RoutedLists, RuleLists, ChannelSets,
    Default, Nothing, Blank, Lower, Text,               \* Catalog
    Horizon     \* bound of the clock, for each part that looks at it

VARIABLES
    part,   \* which part this behaviour is about
    lastAlertAt, consecutive, allowedAt, refusedAt,
    deps, roots, stack, visited, order, search, completed,
    windows, at,
    pc, left, ended, status, summary, made, held, read, lastCompleted, metrics,
    lock, served, begun, resets, tally, toldOf, skips, overAt, missed,
    jobs, rules, channels, about, queue, sending, got

Storm == INSTANCE Throttle
Graph == INSTANCE Dependencies
Hours == INSTANCE Windows
Book == INSTANCE RunBook
Choice == INSTANCE Catalog

ASSUME BooksAssumption ==
    /\ Book!BookAssumption /\ Hours!WindowsAssumption
    /\ Storm!ThrottleAssumption /\ Choice!CatalogAssumption

throttleVars == <<lastAlertAt, consecutive, allowedAt, refusedAt>>
graphVars == <<deps, roots, stack, visited, order, search, completed>>
windowVars == <<windows, at>>
bookVars == <<pc, left, ended, status, summary, made, held, read, lastCompleted, metrics,
              lock, served, begun, resets, tally, toldOf, skips, overAt, missed>>
catalogVars == <<jobs, rules, channels, about, queue, sending, got>>

AdvanceClock ==
    /\ part \in DOMAIN Horizon /\ now < Horizon[part]
    /\ now' = now + 1
    /\ UNCHANGED <<monitorVars, throttleVars, graphVars, windowVars, bookVars, catalogVars>>

(* The parts a behaviour is not about stay in one initial state.            *)
MonitoringInit ==
    /\ part \in {"monitors", "throttle", "graph", "windows", "book", "catalog"}
    /\ part # "monitors" => kind = "group"
    /\ part # "graph" => deps = [j \in Configured |-> {}]
    /\ part # "windows" => windows = <<>>
    /\ part # "catalog" => jobs = <<>> /\ rules = <<>> /\ channels = {}
    /\ now = 0
    /\ Init /\ Storm!Init /\ Graph!Init /\ Hours!Init /\ Book!Init /\ Choice!Init

MonitoringNext ==
    /\ UNCHANGED part
    /\ \/ /\ part = "monitors" /\ Next
          /\ UNCHANGED <<now, throttleVars, graphVars, windowVars, bookVars, catalogVars>>
       \/ /\ part = "throttle" /\ Storm!Next
          /\ UNCHANGED <<now, monitorVars, graphVars, windowVars, bookVars, catalogVars>>
       \/ /\ part = "graph" /\ Graph!Next
          /\ UNCHANGED <<now, monitorVars, throttleVars, windowVars, bookVars, catalogVars>>
       \/ /\ part = "windows" /\ Hours!Pass
          /\ UNCHANGED <<now, monitorVars, throttleVars, graphVars, bookVars, catalogVars>>
       \/ /\ part = "book" /\ Book!Next
          /\ UNCHANGED <<now, monitorVars, throttleVars, graphVars, windowVars, catalogVars>>
       \/ /\ part = "catalog" /\ Choice!Next
          /\ UNCHANGED <<now, monitorVars, throttleVars, graphVars, windowVars, bookVars>>
       \/ AdvanceClock

MonitoringSpec ==
    MonitoringInit /\ [][MonitoringNext]_<<part, now, monitorVars, throttleVars,
                                           graphVars, windowVars, bookVars, catalogVars>>

-----------------------------------------------------------------------------
(* Of a part whose invariant is slow to evaluate, that invariant is asked   *)
(* only while the behaviour is about it: elsewhere it stays in Init.        *)

(* The alerts of one bad spell keep ever further apart (throttle.py:30-71). *)
QuietPeriodsGrow == Storm!QuietPeriodsGrow

(* The order of the graph is an order, and its error is one; running what   *)
(* is ready gets all done that can be (job_dependencies.py:36-70).          *)
DependenciesHold == part = "graph" => Graph!OrderIsRight /\ Graph!ReadyMakesProgress

(* A window is an arc of the clock (job_window.py:48-68).                   *)
WindowIsArc == Hours!WindowIsArc

(* The books agree with the runs (metrics.py, job_status.py, condition_reporter.py). *)
BooksAgree == Book!BooksAgree

(* A cooldown passes between two runs (job_cooldown.py:40-49).              *)
CooldownKept == Book!CooldownKept

(* An alert goes where the rules say (job_routing.py, routing_alerter.py).  *)
RoutedAsRuled == part = "catalog" => Choice!RoutedAsRuled

(* Selections, groups and orders of jobs agree (job_tags.py, job_labels.py, *)
(* job_metadata.py, job_filter.py, job_priority.py, job_grouping.py).       *)
SelectionsAgree == part = "catalog" => Choice!SelectionsAgree
=============================================================================
