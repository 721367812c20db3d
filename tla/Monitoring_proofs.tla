--------------------------- MODULE Monitoring_proofs ---------------------------
(* Proofs about the parts of Monitoring, for all their constants.  What is  *)
(* proved of a part by itself holds of it in Monitoring: each step of       *)
(* Monitoring is a step of the part, a tick of its clock, or nothing to it. *)
(*  - Windows: a window is an arc of the clock;                             *)
(*  - RunBook: a cooldown passes between two runs (CooldownInv), and the    *)
(*    books agree with the runs (BooksInv);                                 *)
(*  - Throttle: the quiet periods grow (ThrottleInv);                       *)
(*  - Monitors: alerts are spaced, and nobody is forgotten (MonitorInv);    *)
(*  - Dependencies: the order and the progress of the graph (GraphInv);     *)
(*  - Catalog: an alert goes where the rules say (RouteInv), and the        *)
(*    selections of jobs agree (ListInv).                                   *)
EXTENDS Monitoring, Subsequences_proofs, FiniteSetTheorems

-----------------------------------------------------------------------------
(* Windows *)

(* The way on the clock from one time to another.                           *)
LEMMA WayOnTheClock ==
  ASSUME Hours!WindowsAssumption, NEW s \in Hours!Time, NEW t \in Hours!Time
  PROVE  (t - s) % DayLength = IF s <= t THEN t - s ELSE t - s + DayLength
<1> USE DEF Hours!WindowsAssumption, Hours!Time
<1>1. CASE s <= t
  <2>1. t - s \in 0 .. DayLength - 1
    BY <1>1
  <2>2. (t - s) % DayLength = t - s
    BY <2>1, SMTT(30)
  <2> QED
    BY <1>1, <2>2
<1>2. CASE ~(s <= t)
  <2>1. t - s \in 1 - DayLength .. -1
    BY <1>2
  <2>2. (t - s) % DayLength = t - s + DayLength
    BY <2>1, SMTT(30)
  <2> QED
    BY <1>2, <2>2
<1> QED
  BY <1>1, <1>2

(* What within_window() compares for one window is whether the time is on   *)
(* the arc from its start to its end (job_window.py:61-67).                 *)
THEOREM InWindowIsArc ==
  ASSUME Hours!WindowsAssumption, NEW s \in Hours!Time, NEW e \in Hours!Time, NEW t \in Hours!Time
  PROVE  Hours!InWindow(s, e, t) <=> (t - s) % DayLength <= (e - s) % DayLength
<1>1. s \in Int /\ e \in Int /\ t \in Int /\ DayLength \in Int
  BY DEF Hours!WindowsAssumption, Hours!Time
<1>2. /\ 0 <= s /\ s < DayLength /\ 0 <= e /\ e < DayLength /\ 0 <= t /\ t < DayLength
  BY <1>1 DEF Hours!Time
<1> QED
  BY <1>1, <1>2, WayOnTheClock DEF Hours!InWindow

WindowsTyping == windows \in Seq(Hours!Time \X Hours!Time) /\ at \in Hours!Time

(* And so for the policy of a job, at every time (job_window.py:48-68).     *)
THEOREM PolicyIsArc ==
  ASSUME Hours!WindowsAssumption
  PROVE  Hours!Spec => []Hours!WindowIsArc
<1>1. Hours!Init => WindowsTyping
  <2> SUFFICES ASSUME Hours!Init PROVE WindowsTyping
    OBVIOUS
  <2>1. windows \in Seq(Hours!Time \X Hours!Time)
    <3>1. CASE windows = <<>>
      BY <3>1
    <3>2. ASSUME NEW w \in Hours!Time \X Hours!Time, windows = <<w>> PROVE windows \in Seq(Hours!Time \X Hours!Time)
      BY <3>2
    <3>3. ASSUME NEW v \in Hours!Time \X Hours!Time, NEW w \in Hours!Time \X Hours!Time, windows = <<v, w>>
          PROVE  windows \in Seq(Hours!Time \X Hours!Time)
      BY <3>3
    <3> QED
      BY <3>1, <3>2, <3>3 DEF Hours!Init
  <2>2. at \in Hours!Time
    BY DEF Hours!Init, Hours!WindowsAssumption, Hours!Time
  <2> QED
    BY <2>1, <2>2 DEF WindowsTyping
<1>2. WindowsTyping /\ [Hours!Pass]_Hours!windowVars => WindowsTyping'
  <2> SUFFICES ASSUME WindowsTyping, [Hours!Pass]_Hours!windowVars PROVE WindowsTyping'
    OBVIOUS
  <2>1. CASE Hours!Pass
    <3>1. at + 1 \in Nat
      BY DEF WindowsTyping, Hours!Time
    <3>2. (at + 1) % DayLength \in 0 .. DayLength - 1
      BY <3>1, SMTT(30) DEF Hours!WindowsAssumption
    <3> QED
      BY <2>1, <3>2 DEF Hours!Pass, WindowsTyping, Hours!Time
  <2>2. CASE UNCHANGED Hours!windowVars
    BY <2>2 DEF Hours!windowVars, WindowsTyping
  <2> QED
    BY <2>1, <2>2
<1>3. WindowsTyping => Hours!WindowIsArc
  <2> SUFFICES ASSUME WindowsTyping PROVE Hours!WindowIsArc
    OBVIOUS
  <2>1. ASSUME NEW n \in DOMAIN windows
        PROVE  Hours!InWindow(windows[n][1], windows[n][2], at) <=>
                   (at - windows[n][1]) % DayLength <= (windows[n][2] - windows[n][1]) % DayLength
    <3>1. windows[n] \in Hours!Time \X Hours!Time
      BY DEF WindowsTyping
    <3>2. windows[n][1] \in Hours!Time /\ windows[n][2] \in Hours!Time /\ at \in Hours!Time
      BY <3>1 DEF WindowsTyping
    <3> QED
      BY <3>2, InWindowIsArc
  <2> QED
    BY <2>1 DEF Hours!WindowIsArc, Hours!WithinWindow
<1> QED
  BY <1>1, <1>2, <1>3, PTL DEF Hours!Spec

(* The composition moves the windows as they move by themselves.            *)
LEMMA WindowsSpecHolds == MonitoringSpec => Hours!Spec
<1>1. MonitoringInit => Hours!Init
  BY DEF MonitoringInit
<1>2. [MonitoringNext]_<<part, now, monitorVars, throttleVars, graphVars, windowVars,
                         bookVars, catalogVars>>
        => [Hours!Pass]_Hours!windowVars
  BY DEF MonitoringNext, AdvanceClock, windowVars, Hours!windowVars
<1> QED
  BY <1>1, <1>2, PTL DEF MonitoringSpec, Hours!Spec

(* A job may run within its windows, over midnight or not, for a day of any *)
(* length (job_window.py:48-68).                                            *)
THEOREM WindowIsArcHolds == MonitoringSpec => []WindowIsArc
<1>1. Hours!WindowsAssumption
  BY BooksAssumption
<1> QED
  BY <1>1, PolicyIsArc, WindowsSpecHolds, PTL DEF WindowIsArc

-----------------------------------------------------------------------------
(* RunBook: the cooldown *)

Place == {"idle", "conditions", "get summary", "make summary", "read skips", "write skips",
          "get status", "make status", "mark", "read failures", "write failures", "run",
          "get metrics", "metrics", "complete"}

(* The part of the state the cooldown depends on.                           *)
CooldownTyping ==
    /\ now \in Int
    /\ pc \in [Worker -> Place]
    /\ ended \in [Worker -> {"not", "ok", "failed"}]
    /\ lastCompleted \in Int \cup {Absent}
    /\ overAt \in Int \cup {Absent}
    /\ begun \in Nat

(* A worker whose run is over and that has not told the tracker so.         *)
Owes(w) ==
    \/ /\ pc[w] \in {"get status", "make status", "mark", "read failures", "write failures"}
       /\ ended[w] # "not"
    \/ pc[w] \in {"get metrics", "metrics", "complete"}

(* The inductive invariant.  That the tracker has seen a completion since   *)
(* the last run was over is not so while somebody owes it one: with several *)
(* threads it is the last of them that makes it true.                       *)
CooldownInv ==
    /\ CooldownTyping
    /\ overAt # Absent => overAt <= now
    /\ lastCompleted # Absent => lastCompleted <= now
    /\ overAt # Absent /\ (\A w \in Worker : ~Owes(w)) =>
           lastCompleted # Absent /\ overAt <= lastCompleted

BookNext == (Book!Next /\ UNCHANGED now) \/ Book!AdvanceClock

-----------------------------------------------------------------------------
(* The invariant of the cooldown holds before the first run.                *)
LEMMA CooldownInit == now = 0 /\ Book!Init => CooldownInv
BY DEF Book!Init, CooldownInv, CooldownTyping, Place

(* Steps that leave the tracker alone and nobody with less to tell it.      *)
LEMMA TrackerAlone ==
  ASSUME CooldownInv, CooldownTyping', UNCHANGED <<now, lastCompleted, overAt>>,
         \A w \in Worker : Owes(w) => Owes(w)'
  PROVE  CooldownInv'
BY DEF CooldownInv

(* One step of a worker.                                                    *)
LEMMA CooldownWork ==
  ASSUME Book!BookAssumption, CooldownInv, NEW w \in Worker, Book!Work(w), UNCHANGED now
  PROVE  CooldownInv'
<1> USE DEF Book!Goto, Book!worker, Book!registry, Book!reporter, Book!cooldown, Book!collector
<1>1. CooldownTyping
  BY DEF CooldownInv
<1>2. now \in Int /\ now' = now
  BY <1>1 DEF CooldownTyping
<1>3. CASE \/ Book!Begin(w) \/ Book!CheckCondition(w) \/ Book!GetSummary(w) \/ Book!MakeSummary(w)
           \/ Book!ReadSkips(w) \/ Book!WriteSkips(w)
           \/ Book!GetStatus(w) \/ Book!MakeStatus(w) \/ Book!MarkRunning(w) \/ Book!MarkFinished(w)
           \/ Book!ReadFailures(w) \/ Book!WriteFailures(w)
           \/ Book!CountRun(w) \/ Book!CountFailure(w)
  <2> USE DEF Book!Begin, Book!CheckCondition, Book!GetSummary, Book!MakeSummary, Book!ReadSkips,
              Book!WriteSkips, Book!GetStatus, Book!MakeStatus, Book!MarkRunning, Book!MarkFinished,
              Book!ReadFailures, Book!WriteFailures, Book!CountRun, Book!CountFailure
  <2>1. UNCHANGED <<lastCompleted, overAt>>
    BY <1>3
  <2>2. \/ UNCHANGED <<ended, begun>>
        \/ begun' = begun + 1 /\ ended' = [ended EXCEPT ![w] = "not"]
    BY <1>3
  <2>3. PICK place \in Place : pc' = [pc EXCEPT ![w] = place]
    <3>1. CASE \/ Book!Begin(w) \/ Book!MakeSummary(w) \/ Book!ReadSkips(w) \/ Book!WriteSkips(w)
               \/ Book!MakeStatus(w) \/ Book!MarkRunning(w)
      BY <3>1 DEF Place
    <3>2. CASE \/ Book!ReadFailures(w) \/ Book!WriteFailures(w)
               \/ Book!CountRun(w) \/ Book!CountFailure(w)
      BY <3>2 DEF Place
    <3>3. CASE Book!GetSummary(w) \/ Book!GetStatus(w) \/ Book!MarkFinished(w)
      BY <3>3 DEF Place
    <3>4. CASE Book!CheckCondition(w)
      <4>1. pc[w] \in Place /\ pc = [pc EXCEPT ![w] = pc[w]]
        BY <1>1 DEF CooldownTyping
      <4> QED
        BY <3>4, <4>1 DEF Place
    <3> QED
      BY <1>3, <3>1, <3>2, <3>3, <3>4
  <2>4. CooldownTyping'
    BY <1>1, <1>2, <2>1, <2>2, <2>3 DEF CooldownTyping
  <2>5. ASSUME NEW v \in Worker PROVE Owes(v) => Owes(v)'
    BY <1>1, <1>3 DEF Owes, CooldownTyping
  <2> QED
    BY <2>1, <2>4, <2>5, TrackerAlone
<1>4. CASE Book!MarkRaises(w)
  <2>1. CooldownTyping' /\ lastCompleted' = lastCompleted
    BY <1>1, <1>4 DEF Book!MarkRaises, CooldownTyping, Place
  <2>2. CASE ended[w] = "not"
    <3>1. overAt' = overAt
      BY <1>4, <2>2 DEF Book!MarkRaises
    <3>2. ASSUME NEW v \in Worker PROVE Owes(v) => Owes(v)'
      BY <1>1, <1>4, <2>2 DEF Book!MarkRaises, Owes, CooldownTyping
    <3> QED
      BY <2>1, <3>1, <3>2, TrackerAlone
  <2>3. CASE ended[w] # "not"
    <3>1. overAt' = Absent
      BY <1>4, <2>3 DEF Book!MarkRaises
    <3> QED
      BY <2>1, <3>1 DEF CooldownInv
  <2> QED
    BY <2>2, <2>3
<1>5. CASE Book!Run(w)
  <2>1. lastCompleted' = lastCompleted /\ overAt' = now
    BY <1>5 DEF Book!Run
  <2>2. CooldownTyping'
    BY <1>1, <1>5 DEF Book!Run, CooldownTyping, Place
  <2>3. Owes(w)'
    BY <1>1, <1>5 DEF Book!Run, Owes, CooldownTyping
  <2>4. overAt' <= now'
    BY <1>2, <2>1
  <2> QED
    BY <1>2, <2>1, <2>2, <2>3, <2>4 DEF CooldownInv
<1>6. CASE Book!RecordCompletion(w)
  <2>1. lastCompleted' = now /\ overAt' = overAt
    BY <1>6 DEF Book!RecordCompletion
  <2>2. CooldownTyping'
    BY <1>1, <1>2, <1>6 DEF Book!RecordCompletion, CooldownTyping, Place
  <2>3. lastCompleted' # Absent /\ lastCompleted' <= now'
    BY <1>2, <2>1 DEF Book!BookAssumption
  <2>4. overAt' # Absent => overAt' <= now' /\ overAt' <= lastCompleted'
    BY <1>2, <2>1 DEF CooldownInv
  <2> QED
    BY <2>2, <2>3, <2>4 DEF CooldownInv
<1> QED
  BY <1>3, <1>4, <1>5, <1>6 DEF Book!Work

(* Every step of the books keeps it, whatever thread makes it.              *)
LEMMA CooldownStep ==
  ASSUME Book!BookAssumption, CooldownInv, [BookNext]_<<now, Book!bookVars>>
  PROVE  CooldownInv'
<1>1. CooldownTyping
  BY DEF CooldownInv
<1>2. CASE (\E w \in Worker : Book!Work(w)) /\ UNCHANGED now
  BY <1>2, CooldownWork
<1>3. CASE (Book!Serve \/ UNCHANGED Book!bookVars) /\ UNCHANGED now
  <2>1. CooldownTyping' /\ UNCHANGED <<lastCompleted, overAt, pc, ended>>
    BY <1>1, <1>3 DEF Book!Serve, Book!bookVars, Book!worker, Book!cooldown, CooldownTyping
  <2>2. \A w \in Worker : Owes(w) => Owes(w)'
    BY <2>1 DEF Owes
  <2> QED
    BY <1>3, <2>1, <2>2, TrackerAlone
<1>4. CASE Book!Reset /\ UNCHANGED now
  <2>1. UNCHANGED <<pc, ended, begun>>
    BY <1>4 DEF Book!Reset, Book!worker
  <2>2. \/ UNCHANGED <<lastCompleted, overAt>>
        \/ lastCompleted' = Absent /\ overAt' = Absent
    BY <1>4 DEF Book!Reset, Book!cooldown
  <2>3. CooldownTyping'
    BY <1>1, <1>4, <2>1, <2>2 DEF CooldownTyping
  <2>4. \A w \in Worker : Owes(w) => Owes(w)'
    BY <2>1 DEF Owes
  <2> QED
    BY <1>4, <2>2, <2>3, <2>4, TrackerAlone DEF CooldownInv
<1>5. CASE Book!AdvanceClock
  <2>1. now' = now + 1 /\ UNCHANGED <<pc, ended, begun, lastCompleted, overAt>>
    BY <1>5 DEF Book!AdvanceClock, Book!bookVars
  <2>2. \A w \in Worker : Owes(w)' <=> Owes(w)
    BY <2>1 DEF Owes
  <2> QED
    BY <1>1, <2>1, <2>2 DEF CooldownInv, CooldownTyping
<1> QED
  BY <1>2, <1>3, <1>4, <1>5 DEF BookNext, Book!Next

(* A step that begins a run while all are idle finds the cooldown over.     *)
LEMMA BeginIsLate ==
  ASSUME Book!BookAssumption, CooldownInv, BookNext, begun' > begun, overAt # Absent, \A w \in Worker : pc[w] = "idle"
  PROVE  now - overAt >= Cooldown
<1>1. CooldownTyping
  BY DEF CooldownInv
<1>2. begun' # begun
  BY <1>1 DEF CooldownTyping
<1>3. \E w \in Worker : Book!Begin(w)
  <2>1. \A w \in Worker : Book!Work(w) => Book!Begin(w)
    BY DEF Book!Work, Book!CheckCondition, Book!GetSummary, Book!MakeSummary, Book!ReadSkips,
           Book!WriteSkips, Book!GetStatus, Book!MakeStatus, Book!MarkRunning, Book!MarkFinished,
           Book!ReadFailures, Book!WriteFailures, Book!MarkRaises, Book!Run, Book!CountRun, Book!CountFailure, Book!RecordCompletion
  <2> QED
    BY <1>2, <2>1 DEF BookNext, Book!Next, Book!Serve, Book!Reset, Book!AdvanceClock, Book!bookVars, Book!worker
<1>4. ~Book!IsCoolingDown
  BY <1>3 DEF Book!Begin
<1>5. \A w \in Worker : ~Owes(w)
  BY DEF Owes
<1>6. lastCompleted # Absent /\ overAt <= lastCompleted /\ overAt <= now
  BY <1>5 DEF CooldownInv
<1>7. now \in Int /\ lastCompleted \in Int /\ overAt \in Int
  BY <1>1, <1>6 DEF CooldownTyping
<1>8. Cooldown > 0 => now - lastCompleted >= Cooldown
  BY <1>4, <1>6, <1>7 DEF Book!IsCoolingDown, Book!BookAssumption
<1> QED
  BY <1>6, <1>7, <1>8 DEF Book!BookAssumption

(* The cooldown is kept: between the last run and one that begins with no   *)
(* other under way, unless telling of the former raised or the tracker was  *)
(* reset (job_cooldown.py:40-49).                                           *)
THEOREM BookKeepsCooldown ==
  ASSUME Book!BookAssumption
  PROVE  Book!Spec => Book!CooldownKept
<1>1. CooldownInv /\ [BookNext]_<<now, Book!bookVars>> => CooldownInv'
  BY CooldownStep
<1>2. CooldownInv /\ [BookNext]_<<now, Book!bookVars>> =>
        [begun' > begun /\ overAt # Absent /\ (\A w \in Worker : pc[w] = "idle")
             => now - overAt >= Cooldown]_Book!bookVars
  <2> SUFFICES ASSUME CooldownInv, [BookNext]_<<now, Book!bookVars>>, begun' > begun, overAt # Absent,
                      \A w \in Worker : pc[w] = "idle"
               PROVE  now - overAt >= Cooldown
    OBVIOUS
  <2>1. begun' # begun
    BY DEF CooldownInv, CooldownTyping
  <2>2. BookNext
    BY <2>1 DEF Book!bookVars
  <2> QED
    BY <2>2, BeginIsLate
<1> QED
  BY <1>1, <1>2, CooldownInit, PTL DEF Book!Spec, BookNext, Book!CooldownKept

(* The composition moves the books as they move by themselves.              *)
LEMMA BookSpecHolds == MonitoringSpec => Book!Spec
<1>1. MonitoringInit => now = 0 /\ Book!Init
  BY DEF MonitoringInit
<1>2. [MonitoringNext]_<<part, now, monitorVars, throttleVars, graphVars, windowVars,
                         bookVars, catalogVars>>
        => [BookNext]_<<now, Book!bookVars>>
  BY DEF MonitoringNext, AdvanceClock, BookNext, Book!AdvanceClock, bookVars, Book!bookVars
<1> QED
  BY <1>1, <1>2, PTL DEF MonitoringSpec, Book!Spec, BookNext

(* The cooldown is kept among the parts of Monitoring, for any number of    *)
(* threads and any cooldown (job_cooldown.py:40-49).                        *)
THEOREM CooldownKeptHolds == MonitoringSpec => CooldownKept
<1>1. Book!BookAssumption
  BY BooksAssumption
<1> QED
  BY <1>1, BookKeepsCooldown, BookSpecHolds, PTL DEF CooldownKept

-----------------------------------------------------------------------------
(* Throttle *)

Raised(b, g, n) == IF n = 0 THEN 1 ELSE b * g[n - 1]

(* The powers of a number up to any one of them.                            *)
LEMMA PowersExist ==
  ASSUME NEW b, NEW m \in Nat
  PROVE  \E g : g = [n \in 0..m |-> Raised(b, g, n)]
<1> DEFINE T == {k \in Nat : \E g : g = [n \in 0..k |-> Raised(b, g, n)]}
<1>1. 0 \in T
  <2> DEFINE g == [n \in 0..0 |-> 1]
  <2>1. g = [n \in 0..0 |-> Raised(b, g, n)]
    BY DEF Raised
  <2> QED
    BY <2>1
<1>2. ASSUME NEW k \in T PROVE k + 1 \in T
  <2>1. PICK g : g = [n \in 0..k |-> Raised(b, g, n)]
    OBVIOUS
  <2> DEFINE h == [n \in 0..(k + 1) |-> IF n = k + 1 THEN Raised(b, g, n) ELSE g[n]]
  <2>2. ASSUME NEW n \in 0..(k + 1) PROVE h[n] = Raised(b, h, n)
    <3>1. CASE n = k + 1
      <4>1. h[n] = Raised(b, g, n) /\ n # 0 /\ n - 1 = k /\ h[n - 1] = g[n - 1]
        BY <3>1
      <4> QED
        BY <4>1 DEF Raised
    <3>2. CASE n \in 0..k /\ n # k + 1
      <4>1. h[n] = g[n]
        BY <3>2
      <4>2. g[n] = Raised(b, g, n)
        BY <2>1, <3>2
      <4>3. n # 0 => h[n - 1] = g[n - 1]
        BY <3>2
      <4> HIDE DEF h
      <4> QED
        BY <4>1, <4>2, <4>3 DEF Raised
    <3> QED
      BY <3>1, <3>2
  <2>3. h = [n \in 0..(k + 1) |-> Raised(b, h, n)]
    BY <2>2
  <2> HIDE DEF h
  <2> QED
    BY <2>3
<1> HIDE DEF T
<1>3. T = Nat
  BY <1>1, <1>2, Induction DEF T
<1> QED
  BY <1>3 DEF T

(* They are whole numbers.                                                  *)
LEMMA PowerProperties ==
  ASSUME NEW b \in Nat, NEW m \in Nat
  PROVE  Storm!Power(b, m) \in Nat
<1>1. Storm!Power(b, m) \in Nat
  <2>1. \E g : g = [n \in 0..m |-> Raised(b, g, n)]
    BY PowersExist
  <2>2. \E g : g = [n \in 0..m |-> Raised(b, g, n)] /\ Storm!Power(b, m) = g[m]
    BY <2>1, Zenon DEF Storm!Power, Raised
  <2>3. PICK g : g = [n \in 0..m |-> Raised(b, g, n)] /\ Storm!Power(b, m) = g[m]
    BY <2>2
  <2>4. g[0] = 1
    BY <2>3 DEF Raised
  <2>5. ASSUME NEW n \in 0..m, n # 0 PROVE g[n] = b * g[n - 1]
    BY <2>3, <2>5 DEF Raised
  <2> DEFINE T == {n \in Nat : n <= m => g[n] \in Nat}
  <2>6. 0 \in T
    BY <2>4
  <2>7. ASSUME NEW n \in T PROVE n + 1 \in T
    <3>1. CASE n + 1 <= m
      <4>1. g[n] \in Nat /\ n + 1 \in 0..m /\ n + 1 # 0 /\ (n + 1) - 1 = n
        BY <3>1
      <4>2. g[n + 1] = b * g[n]
        BY <2>5, <4>1
      <4>3. \A x, y \in Nat : x * y \in Nat
        OBVIOUS
      <4>4. g[n + 1] \in Nat
        BY <4>1, <4>2, <4>3
      <4> QED
        BY <4>4
    <3> QED
      BY <3>1
  <2>8. T = Nat
    <3> HIDE DEF T
    <3>1. T \in SUBSET Nat
      BY DEF T
    <3> QED
      BY <2>6, <2>7, <3>1, Induction
  <2>9. g[m] \in Nat
    <3>1. m \in T
      BY <2>8
    <3> QED
      BY <3>1
  <2> QED
    BY <2>3, <2>9
<1> QED
  BY <1>1

(* What the throttle remembers: of the alerts of this spell, how many and   *)
(* the last.                                                                *)
ThrottleInv ==
    /\ now \in Nat /\ lastAlertAt \in Nat /\ consecutive \in Nat
    /\ allowedAt \in Seq(Nat) /\ refusedAt \in Int
    /\ consecutive = Len(allowedAt)
    /\ lastAlertAt = IF allowedAt = <<>> THEN 0 ELSE allowedAt[Len(allowedAt)]
    /\ refusedAt <= now /\ lastAlertAt <= now
    /\ Storm!QuietPeriodsGrow

(* A wait is over or not, whole numbers being compared.                     *)
LEMMA OverProperties ==
  ASSUME Storm!ThrottleAssumption, NEW n \in Nat, NEW x \in Int
  PROVE  ~Storm!Over(x, n) =>
             /\ x < MaxInterval
             /\ x * Storm!Power(Denominator, n) < Base * Storm!Power(Numerator, n)
<1> DEFINE p == x * Storm!Power(Denominator, n)
           q == Base * Storm!Power(Numerator, n)
<1>1. p \in Int /\ q \in Int /\ MaxInterval \in Int
  <2>1. Storm!Power(Denominator, n) \in Int /\ Storm!Power(Numerator, n) \in Int
    BY PowerProperties DEF Storm!ThrottleAssumption
  <2>2. \A y, z \in Int : y * z \in Int
    OBVIOUS
  <2> QED
    BY <2>1, <2>2 DEF Storm!ThrottleAssumption
<1>2. Storm!Over(x, n) <=> x >= MaxInterval \/ p >= q
  BY DEF Storm!Over
<1> HIDE DEF p, q
<1>3. ~Storm!Over(x, n) => x < MaxInterval /\ p < q
  BY <1>1, <1>2
<1> QED
  BY <1>3 DEF p, q

(* An alert is allowed when its period is over (AlertThrottle.allow).       *)
LEMMA AllowedIsLate ==
  ASSUME ThrottleInv, Storm!Allow, now' = now
  PROVE  ThrottleInv'
<1> DEFINE m == Len(allowedAt)
           Late(gap, n) == \/ gap >= MaxInterval
                           \/ gap * Storm!Power(Denominator, n) >= Base * Storm!Power(Numerator, n)
<1>0. m \in Nat /\ m = consecutive /\ now \in Nat
  BY DEF ThrottleInv
<1>1. /\ allowedAt' \in Seq(Nat) /\ Len(allowedAt') = m + 1 /\ allowedAt'[m + 1] = now
      /\ \A k \in 1..m : allowedAt'[k] = allowedAt[k]
      /\ allowedAt' # <<>>
      /\ lastAlertAt' = now /\ consecutive' = consecutive + 1 /\ refusedAt' = refusedAt
  BY DEF ThrottleInv, Storm!Allow
<1>2. Late(now - lastAlertAt, Storm!Exponent(consecutive))
  BY DEF Storm!Allow, Storm!Over
<1>3. \A n \in 1 .. Len(allowedAt) - 1 : Late(allowedAt[n + 1] - allowedAt[n], n - 1)
  BY DEF ThrottleInv, Storm!QuietPeriodsGrow
<1>4. m > 0 => Storm!Exponent(consecutive) = m - 1 /\ lastAlertAt = allowedAt[m]
  BY <1>0 DEF Storm!Exponent, ThrottleInv
<1> HIDE DEF m, Late
<1>5. ASSUME NEW n \in 1 .. Len(allowedAt') - 1
      PROVE  Late(allowedAt'[n + 1] - allowedAt'[n], n - 1)
  <2>1. CASE n = m
    <3>1. m > 0 /\ m \in 1..m
      BY <1>0, <1>1, <2>1
    <3> QED
      BY <1>1, <1>2, <1>4, <2>1, <3>1
  <2>2. CASE n # m
    <3>1. n \in 1 .. m - 1 /\ n \in 1..m /\ n + 1 \in 1..m
      BY <1>0, <1>1, <2>2
    <3>2. n \in 1 .. Len(allowedAt) - 1
      BY <3>1 DEF m
    <3> QED
      BY <1>1, <1>3, <3>1, <3>2
  <2> QED
    BY <2>1, <2>2
<1>6. ~(refusedAt' > allowedAt'[Len(allowedAt')])
  BY <1>0, <1>1 DEF ThrottleInv
<1>7. Storm!QuietPeriodsGrow'
  BY <1>5, <1>6 DEF Storm!QuietPeriodsGrow, Storm!Power, Late
<1> QED
  BY <1>0, <1>1, <1>7 DEF ThrottleInv

(* And refused when it is not, or the power overflows.                      *)
LEMMA RefusedIsEarly ==
  ASSUME Storm!ThrottleAssumption, ThrottleInv, Storm!Refuse, now' = now
  PROVE  ThrottleInv'
<1> DEFINE m == Len(allowedAt)
<1>0. /\ m \in Nat /\ m = consecutive /\ now \in Nat /\ lastAlertAt \in Nat
      /\ refusedAt' = now /\ UNCHANGED <<lastAlertAt, consecutive, allowedAt>>
  BY DEF ThrottleInv, Storm!Refuse
<1>1. ASSUME m > 0
      PROVE  \/ Storm!Power(Numerator, m - 1) > Largest * Storm!Power(Denominator, m - 1)
             \/ /\ now - allowedAt[m] < MaxInterval
                /\ (now - allowedAt[m]) * Storm!Power(Denominator, m - 1)
                      < Base * Storm!Power(Numerator, m - 1)
  <2>1. lastAlertAt = allowedAt[m] /\ m - 1 \in Nat /\ Storm!Exponent(consecutive) = m - 1
    BY <1>0, <1>1 DEF ThrottleInv, m, Storm!Exponent
  <2>2. Storm!Overflows(m - 1) \/ ~Storm!Over(now - lastAlertAt, m - 1)
    BY <2>1 DEF Storm!Refuse
  <2>3. now - lastAlertAt \in Int
    BY <1>0
  <2>4. CASE Storm!Overflows(m - 1)
    BY <2>4 DEF Storm!Overflows
  <2>5. CASE ~Storm!Over(now - lastAlertAt, m - 1)
    BY <2>1, <2>3, <2>5, OverProperties
  <2> QED
    BY <2>2, <2>4, <2>5
<1>2. Storm!QuietPeriodsGrow'
  BY <1>0, <1>1 DEF Storm!QuietPeriodsGrow, Storm!Power, ThrottleInv
<1> QED
  BY <1>0, <1>2 DEF ThrottleInv

(* A job not heard of has no alerts.                                        *)
LEMMA ForgottenIsQuiet ==
  ASSUME ThrottleInv, Storm!Forgotten, now' = now
  PROVE  ThrottleInv'
<1>1. refusedAt' <= now' /\ lastAlertAt' <= now'
  BY DEF Storm!Forgotten, ThrottleInv
<1> QED
  BY <1>1 DEF Storm!Forgotten, ThrottleInv, Storm!QuietPeriodsGrow

ThrottleNext == (Storm!Next /\ UNCHANGED now) \/ (now' = now + 1 /\ UNCHANGED throttleVars)

(* Every step keeps what the throttle remembers.                            *)
LEMMA ThrottleStep ==
  ASSUME Storm!ThrottleAssumption, ThrottleInv, [ThrottleNext]_<<now, throttleVars>>
  PROVE  ThrottleInv'
<1>1. CASE (Storm!Allow \/ Storm!Refuse) /\ UNCHANGED now
  BY <1>1, AllowedIsLate, RefusedIsEarly
<1>2. CASE Storm!Forgotten /\ UNCHANGED now
  BY <1>2, ForgottenIsQuiet
<1>3. CASE (now' = now + 1 \/ UNCHANGED now) /\ UNCHANGED throttleVars
  <2>1. now' \in Nat /\ now <= now'
    BY <1>3 DEF ThrottleInv
  <2>2. UNCHANGED <<lastAlertAt, consecutive, allowedAt, refusedAt>>
    BY <1>3 DEF throttleVars
  <2>3. refusedAt' <= now' /\ lastAlertAt' <= now'
    BY <2>1, <2>2 DEF ThrottleInv
  <2>4. Storm!QuietPeriodsGrow'
    BY <2>2 DEF ThrottleInv, Storm!QuietPeriodsGrow, Storm!Power
  <2> QED
    BY <2>1, <2>2, <2>3, <2>4 DEF ThrottleInv
<1> QED
  BY <1>1, <1>2, <1>3 DEF ThrottleNext, Storm!Next, Storm!Success, Storm!Reset, Storm!throttleVars, throttleVars

(* The alerts of one bad spell keep apart by the growing period, or by the  *)
(* maximum, and none after the first is held back once that is over, unless *)
(* the power overflows (throttle.py:30-35, 62-71): for any base, maximum,   *)
(* fraction as multiplier and largest float, and however failures,          *)
(* successes and resets follow one another.                                 *)
THEOREM QuietPeriodsGrowHolds == MonitoringSpec => []QuietPeriodsGrow
<1>1. MonitoringInit => ThrottleInv
  BY BooksAssumption DEF MonitoringInit, Storm!Init, ThrottleInv, Storm!QuietPeriodsGrow, Storm!ThrottleAssumption
<1>2. ThrottleInv /\ [MonitoringNext]_<<part, now, monitorVars, throttleVars, graphVars, windowVars,
                                        bookVars, catalogVars>>
        => ThrottleInv'
  <2> SUFFICES ASSUME ThrottleInv, [MonitoringNext]_<<part, now, monitorVars, throttleVars, graphVars,
                                                      windowVars, bookVars, catalogVars>>
               PROVE  ThrottleInv'
    OBVIOUS
  <2>1. [ThrottleNext]_<<now, throttleVars>>
    BY DEF MonitoringNext, AdvanceClock, ThrottleNext
  <2> QED
    BY <2>1, BooksAssumption, ThrottleStep
<1>3. ThrottleInv => QuietPeriodsGrow
  BY DEF ThrottleInv, QuietPeriodsGrow
<1> QED
  BY <1>1, <1>2, <1>3, PTL DEF MonitoringSpec

-----------------------------------------------------------------------------
(* RunBook: the books.  What the registry, the reporter and the metrics     *)
(* know, and a worker on its way to tell them.                              *)
Finishing == {"get metrics", "metrics"}

(* The objects: the registry, the reporter and the workers know only some   *)
(* that were made, so a new one is none of them.                            *)
HandsInv ==
    /\ status \in Book!JobStatus \cup {Absent}
    /\ summary \in Book!ConditionSkipSummary \cup {Absent}
    /\ made \in Nat /\ held \in [Worker -> Nat] /\ read \in [Worker -> Nat]
    /\ status # Absent => status.object <= made
    /\ summary # Absent => summary.object <= made
    /\ \A w \in Worker : held[w] <= made

FailuresTold == Cardinality({i \in 1 .. Len(toldOf) : toldOf[i] = "failed"})

(* A worker about to count a failure has read no more than there were.      *)
RegistryInv ==
    /\ toldOf \in Seq({"ok", "failed"})
    /\ \A w \in Worker : pc[w] \in {"read failures", "write failures"} => ended[w] # "not"
    /\ \A w \in Worker : pc[w] = "write failures" /\ ended[w] # "ok" /\ Book!InRegistry(held[w])
           => read[w] <= FailuresTold
    /\ Book!Failures <= FailuresTold
    /\ "status" \notin missed => Book!Streak(Book!Failures)

(* Nor one about to count a skip; and a summary, once made, is there.       *)
ReporterInv ==
    /\ skips \in Nat
    /\ \A w \in Worker : pc[w] \in {"read skips", "write skips"} => summary # Absent
    /\ \A w \in Worker : pc[w] = "write skips" => read[w] <= skips
    /\ Book!Skips <= skips
    /\ "skips" \notin missed => Book!Skips = skips

(* The metrics count the runs from one on: all of them, or, in the lock of  *)
(* a worker, all but the failure of the last.                               *)
Counts(m, n, r, f) ==
    /\ r = Cardinality(m .. n)
    /\ f = Cardinality({i \in m .. n : tally[i] = "failed"})

Halfway(m, n) ==
    /\ m <= n
    /\ metrics.runs = Cardinality(m .. n)
    /\ metrics.failures = Cardinality({i \in m .. (n - 1) : tally[i] = "failed"})
    /\ tally[n] = ended[lock]

MetricsInv ==
    /\ tally \in Seq({"ok", "failed"})
    /\ metrics \in [runs : Nat, failures : Nat] /\ served \in [runs : Nat, failures : Nat]
    /\ lock \in Worker \cup {Absent}
    /\ \A w \in Worker : pc[w] = "metrics" <=> lock = w
    /\ \A w \in Worker : pc[w] \in Finishing => ended[w] # "not"
    /\ \E m \in 1 .. Len(tally) + 1 :
           IF lock = Absent THEN Counts(m, Len(tally), metrics.runs, metrics.failures)
           ELSE Halfway(m, Len(tally))
    /\ \E m \in 1 .. Len(tally) + 1, n \in 0 .. Len(tally) :
           Counts(m, n, served.runs, served.failures)

BooksInv == CooldownTyping /\ HandsInv /\ RegistryInv /\ ReporterInv /\ MetricsInv

(* The same numbers are counted in the books.                               *)
LEMMA BookCounts == \A S : Book!Cardinality(S) = Cardinality(S)
  BY DEF Book!Cardinality, Cardinality

(* The steps of a worker that make no object and count in none.             *)
OtherWork(w) ==
    \/ Book!Begin(w) \/ Book!CheckCondition(w) \/ Book!GetSummary(w) \/ Book!GetStatus(w)
    \/ Book!MarkRaises(w) \/ Book!Run(w) \/ Book!CountRun(w) \/ Book!CountFailure(w)
    \/ Book!RecordCompletion(w)

(* They leave the registry, the reporter and the hands alone.               *)
LEMMA OtherWorkLeaves ==
  ASSUME CooldownTyping, NEW w \in Worker, OtherWork(w)
  PROVE  /\ UNCHANGED <<status, toldOf, summary, skips, made, held, read, missed>>
         /\ \A v \in Worker : pc'[v] \in {"read failures", "write failures", "write skips"}
                => pc[v] = pc'[v] /\ ended'[v] = ended[v]
         /\ \A v \in Worker : pc'[v] = "read skips" => pc[v] = "read skips" \/ summary # Absent
<1> USE DEF Book!registry, Book!reporter, Book!hands, Book!worker, Book!Goto
<1> USE DEF OtherWork, Book!Begin, Book!CheckCondition, Book!GetSummary, Book!GetStatus, Book!MarkRaises,
            Book!Run, Book!CountRun, Book!CountFailure, Book!RecordCompletion
<1>1. UNCHANGED <<status, toldOf, summary, skips, made, held, read, missed>>
  OBVIOUS
<1>2. ASSUME NEW v \in Worker, pc'[v] \in {"read failures", "write failures", "write skips"}
      PROVE  pc[v] = pc'[v] /\ ended'[v] = ended[v]
  BY <1>2 DEF CooldownTyping
<1>3. ASSUME NEW v \in Worker, pc'[v] = "read skips" PROVE pc[v] = "read skips" \/ summary # Absent
  BY <1>3 DEF CooldownTyping
<1> QED
  BY <1>1, <1>2, <1>3

(* A worker makes new objects only, and counts in those it has looked up.   *)
LEMMA HandsWork ==
  ASSUME Book!BookAssumption, HandsInv, ReporterInv, CooldownTyping, NEW w \in Worker, Book!Work(w)
  PROVE  HandsInv'
<1> USE DEF Book!registry, Book!reporter, Book!hands, Book!JobStatus, Book!ConditionSkipSummary
<1>1. CASE OtherWork(w)
  BY <1>1, OtherWorkLeaves DEF HandsInv
<1>2. CASE Book!MakeSummary(w)
  <2>1. /\ made' = made + 1 /\ summary' = [object |-> made + 1, count |-> 0]
        /\ UNCHANGED <<status, held, read>>
    BY <1>2 DEF Book!MakeSummary
  <2> QED
    BY <2>1 DEF HandsInv
<1>3. CASE Book!MakeStatus(w)
  <2>1. /\ made' = made + 1 /\ status' = [object |-> made + 1, state |-> "idle", failures |-> 0]
        /\ UNCHANGED <<summary, held, read>>
    BY <1>3 DEF Book!MakeStatus
  <2> QED
    BY <2>1 DEF HandsInv
<1>4. CASE Book!ReadSkips(w)
  <2>1. /\ held' = [held EXCEPT ![w] = summary.object] /\ read' = [read EXCEPT ![w] = summary.count]
        /\ UNCHANGED <<status, summary, made>> /\ summary # Absent
    BY <1>4 DEF Book!ReadSkips, ReporterInv
  <2>2. summary.object \in Nat /\ summary.object <= made /\ summary.count \in Nat
    BY <2>1 DEF HandsInv
  <2> QED
    BY <2>1, <2>2 DEF HandsInv
<1>5. CASE Book!WriteSkips(w)
  <2>1. /\ summary' \in {summary, [summary EXCEPT !.count = read[w] + 1]}
        /\ held' = [held EXCEPT ![w] = 0] /\ read' = [read EXCEPT ![w] = 0]
        /\ UNCHANGED <<status, made>> /\ summary # Absent
    BY <1>5 DEF Book!WriteSkips, ReporterInv
  <2>2. /\ summary' \in Book!ConditionSkipSummary /\ summary'.object = summary.object
        /\ 0 <= made
    BY <2>1 DEF HandsInv
  <2> QED
    BY <2>1, <2>2 DEF HandsInv
<1>6. CASE Book!MarkRunning(w)
  <2>1. /\ status' = [status EXCEPT !.state = "running"] /\ status # Absent
        /\ UNCHANGED <<summary, made, held, read>>
    BY <1>6 DEF Book!MarkRunning
  <2>2. status' \in Book!JobStatus /\ status'.object = status.object
    BY <2>1 DEF HandsInv
  <2> QED
    BY <2>1, <2>2 DEF HandsInv
<1>7. CASE Book!MarkFinished(w)
  <2>1. /\ status # Absent /\ held' = [held EXCEPT ![w] = status.object]
        /\ \/ status' = [status EXCEPT !.state = "succeeded"]
           \/ status' = [status EXCEPT !.state = "failed"]
        /\ UNCHANGED <<summary, made, read>>
    BY <1>7 DEF Book!MarkFinished
  <2>2. /\ status' \in Book!JobStatus /\ status'.object = status.object
        /\ status.object \in Nat /\ status.object <= made
    BY <2>1 DEF HandsInv
  <2> QED
    BY <2>1, <2>2 DEF HandsInv
<1>8. CASE Book!ReadFailures(w)
  <2>1. /\ UNCHANGED <<status, summary, made, held>>
        /\ read' = [read EXCEPT ![w] = IF Book!InRegistry(held[w]) THEN status.failures ELSE 0]
    BY <1>8 DEF Book!ReadFailures
  <2>2. (IF Book!InRegistry(held[w]) THEN status.failures ELSE 0) \in Nat
    BY DEF HandsInv, Book!InRegistry
  <2> QED
    BY <2>1, <2>2 DEF HandsInv
<1>9. CASE Book!WriteFailures(w)
  <2>1. /\ held' = [held EXCEPT ![w] = 0] /\ read' = [read EXCEPT ![w] = 0]
        /\ UNCHANGED <<summary, made>>
        /\ \/ status' = status
           \/ status # Absent /\ status' = [status EXCEPT !.failures = 0]
           \/ status # Absent /\ status' = [status EXCEPT !.failures = read[w] + 1]
    BY <1>9 DEF Book!WriteFailures, Book!InRegistry
  <2>2. 0 <= made /\ read[w] + 1 \in Nat
    BY DEF HandsInv
  <2>3. /\ status' \in Book!JobStatus \cup {Absent}
        /\ status' # Absent => status # Absent /\ status'.object = status.object
    BY <2>1, <2>2 DEF HandsInv
  <2> QED
    BY <2>1, <2>2, <2>3 DEF HandsInv
<1> QED
  BY <1>1, <1>2, <1>3, <1>4, <1>5, <1>6, <1>7, <1>8, <1>9 DEF Book!Work, OtherWork

(* One more run the registry was told of.                                   *)
LEMMA ToldOfOneMore ==
  ASSUME toldOf \in Seq({"ok", "failed"}), NEW e \in {"ok", "failed"}, toldOf' = Append(toldOf, e)
  PROVE  /\ toldOf' \in Seq({"ok", "failed"})
         /\ FailuresTold \in Nat
         /\ FailuresTold' = FailuresTold + (IF e = "failed" THEN 1 ELSE 0)
         /\ e = "ok" => Book!Streak(0)'
         /\ \A n \in Nat : e = "failed" /\ Book!Streak(n) => Book!Streak(n + 1)'
<1> DEFINE k == Len(toldOf)
           F == {i \in 1 .. k : toldOf[i] = "failed"}
           G == {i \in 1 .. (k + 1) : toldOf'[i] = "failed"}
<1>1. /\ k \in Nat /\ toldOf' \in Seq({"ok", "failed"}) /\ Len(toldOf') = k + 1
      /\ toldOf'[k + 1] = e
      /\ \A i \in 1 .. k : toldOf'[i] = toldOf[i]
  OBVIOUS
<1>2. FailuresTold = Cardinality(F) /\ FailuresTold' = Cardinality(G)
  BY <1>1 DEF FailuresTold
<1>3. IsFiniteSet(F) /\ Cardinality(F) \in Nat /\ k + 1 \notin F
  <2>1. IsFiniteSet(1 .. k) /\ k + 1 \notin 1 .. k
    BY <1>1, FS_Interval
  <2>2. IsFiniteSet(F)
    BY <2>1, FS_Subset
  <2> QED
    BY <2>1, <2>2, FS_CardinalityType
<1>4. G = IF e = "failed" THEN F \cup {k + 1} ELSE F
  <2>1. \A i : i \in 1 .. (k + 1) <=> (i \in 1 .. k \/ i = k + 1)
    BY <1>1
  <2>2. k + 1 \notin 1 .. k
    BY <1>1
  <2> QED
    BY <1>1, <2>1, <2>2
<1> HIDE DEF F, G
<1>5. Cardinality(G) = Cardinality(F) + (IF e = "failed" THEN 1 ELSE 0)
  <2>1. CASE e = "failed"
    BY <1>3, <1>4, <2>1, FS_AddElement
  <2>2. CASE e # "failed"
    BY <1>3, <1>4, <2>2
  <2> QED
    BY <2>1, <2>2
<1> HIDE DEF k
<1>6. ASSUME e = "ok" PROVE Book!Streak(0)'
  <2>1. ~(\E i \in 1 .. (k + 1) : i > (k + 1) - 0) /\ 0 <= k + 1 /\ (k + 1) - 0 = k + 1
    BY <1>1
  <2> QED
    BY <1>1, <1>6, <2>1 DEF Book!Streak
<1>7. ASSUME NEW n \in Nat, e = "failed", Book!Streak(n) PROVE Book!Streak(n + 1)'
  <2>1. /\ n <= k
        /\ \A i \in 1 .. k : i > k - n => toldOf[i] = "failed"
        /\ n < k => toldOf[k - n] = "ok"
    BY <1>7 DEF Book!Streak, k
  <2>2. ASSUME NEW i \in 1 .. (k + 1), i > (k + 1) - (n + 1) PROVE toldOf'[i] = "failed"
    <3>1. CASE i = k + 1
      BY <1>1, <1>7, <3>1
    <3>2. CASE i # k + 1
      <4>1. i \in 1..k /\ i > k - n
        BY <1>1, <2>2, <3>2
      <4> QED
        BY <1>1, <2>1, <4>1
    <3> QED
      BY <3>1, <3>2
  <2>3. ASSUME n + 1 < k + 1 PROVE toldOf'[(k + 1) - (n + 1)] = "ok"
    <3>1. n < k /\ (k + 1) - (n + 1) = k - n /\ k - n \in 1..k
      BY <1>1, <2>3
    <3> QED
      BY <1>1, <2>1, <3>1
  <2>4. n + 1 <= k + 1
    BY <1>1, <2>1
  <2> QED
    BY <1>1, <2>2, <2>3, <2>4 DEF Book!Streak
<1> QED
  BY <1>1, <1>2, <1>3, <1>5, <1>6, <1>7

(* Steps that leave the count of the registry alone.                        *)
LEMMA RegistryAlone ==
  ASSUME RegistryInv, toldOf' = toldOf, Book!Failures' = Book!Failures,
         "status" \notin missed' => "status" \notin missed,
         \A v \in Worker : pc'[v] \in {"read failures", "write failures"} => ended'[v] # "not",
         \A v \in Worker : pc'[v] = "write failures" /\ ended'[v] # "ok" /\ Book!InRegistry(held[v])'
             => read'[v] <= FailuresTold
  PROVE  RegistryInv'
<1>1. FailuresTold' = FailuresTold
  BY DEF FailuresTold
<1>2. Book!Streak(Book!Failures)' <=> Book!Streak(Book!Failures)
  BY DEF Book!Streak
<1> QED
  BY <1>1, <1>2 DEF RegistryInv

(* The count of the entry looked up is written (mark_finished,              *)
(* job_status.py:42-44).                                                    *)
LEMMA WriteFailuresKeeps ==
  ASSUME Book!BookAssumption, HandsInv, RegistryInv, CooldownTyping, NEW w \in Worker,
         Book!WriteFailures(w)
  PROVE  RegistryInv'
<1> DEFINE e == ended[w]
           f == Book!Failures
<1>1. /\ pc[w] = "write failures" /\ e \in {"ok", "failed"} /\ toldOf' = Append(toldOf, e)
      /\ pc' = [pc EXCEPT ![w] = "get metrics"] /\ ended' = ended
      /\ held' = [held EXCEPT ![w] = 0] /\ read' = [read EXCEPT ![w] = 0]
      /\ toldOf \in Seq({"ok", "failed"})
  BY DEF Book!WriteFailures, RegistryInv, CooldownTyping, Book!Goto, Book!worker
<1>2. /\ toldOf' \in Seq({"ok", "failed"}) /\ FailuresTold \in Nat /\ FailuresTold' \in Nat
      /\ FailuresTold' = FailuresTold + (IF e = "failed" THEN 1 ELSE 0)
      /\ e = "ok" => Book!Streak(0)'
      /\ \A n \in Nat : e = "failed" /\ Book!Streak(n) => Book!Streak(n + 1)'
  <2> HIDE DEF e
  <2>1. /\ toldOf' \in Seq({"ok", "failed"}) /\ FailuresTold \in Nat
        /\ FailuresTold' = FailuresTold + (IF e = "failed" THEN 1 ELSE 0)
        /\ e = "ok" => Book!Streak(0)'
        /\ \A n \in Nat : e = "failed" /\ Book!Streak(n) => Book!Streak(n + 1)'
    BY <1>1, ToldOfOneMore
  <2> QED
    BY <2>1
<1> HIDE DEF e
<1>3. f \in Nat /\ f <= FailuresTold /\ read[w] \in Nat
  BY DEF HandsInv, RegistryInv, Book!Failures, Book!JobStatus
<1>4. /\ Book!Failures' \in Nat /\ Book!Failures' <= FailuresTold'
      /\ "status" \notin missed' => Book!Streak(Book!Failures)'
  <2>1. CASE ~Book!InRegistry(held[w])
    <3>1. status' = status /\ "status" \in missed'
      BY <2>1 DEF Book!WriteFailures
    <3>2. Book!Failures' = f
      BY <3>1 DEF Book!Failures
    <3> HIDE DEF f
    <3> QED
      BY <1>2, <1>3, <3>1, <3>2
  <2>2. CASE Book!InRegistry(held[w]) /\ e = "ok"
    <3>1. status' = [status EXCEPT !.failures = 0] /\ status \in Book!JobStatus
      BY <2>2 DEF Book!WriteFailures, Book!InRegistry, HandsInv, e
    <3>2. status' # Absent /\ status'.failures = 0
      BY <3>1 DEF Book!BookAssumption, Book!JobStatus
    <3>3. Book!Failures' = 0
      BY <3>2 DEF Book!Failures
    <3>4. Book!Streak(Book!Failures)'
      BY <1>2, <2>2, <3>3 DEF Book!Streak
    <3> QED
      BY <1>2, <3>3, <3>4
  <2>3. CASE Book!InRegistry(held[w]) /\ e # "ok"
    <3>1. /\ status' = [status EXCEPT !.failures = read[w] + 1] /\ status \in Book!JobStatus
          /\ "status" \notin missed' => "status" \notin missed /\ status.failures = read[w]
          /\ status # Absent
      BY <2>3 DEF Book!WriteFailures, Book!InRegistry, HandsInv, e
    <3>2. /\ status' # Absent /\ status'.failures = read[w] + 1
      BY <1>3, <3>1 DEF Book!BookAssumption, Book!JobStatus
    <3>3. Book!Failures' = read[w] + 1 /\ f = status.failures
      BY <3>1, <3>2 DEF Book!Failures
    <3>4. read[w] <= FailuresTold
      BY <1>1, <2>3 DEF RegistryInv, e
    <3>5. e = "failed" /\ FailuresTold' = FailuresTold + 1
      BY <1>1, <1>2, <2>3
    <3>6. "status" \notin missed' => Book!Streak(Book!Failures)'
      <4> SUFFICES ASSUME "status" \notin missed' PROVE Book!Streak(Book!Failures)'
        OBVIOUS
      <4>1. Book!Streak(f) /\ read[w] = f
        BY <3>1, <3>3 DEF RegistryInv
      <4>2. PICK n \in Nat : n = f
        BY <1>3
      <4>3. Book!Streak(n)
        BY <4>1, <4>2
      <4>4. Book!Streak(n + 1)'
        BY <1>2, <3>5, <4>3
      <4>5. Book!Failures' = n + 1
        BY <3>3, <4>1, <4>2
      <4> QED
        BY <4>4, <4>5 DEF Book!Streak
    <3> QED
      BY <1>2, <1>3, <3>3, <3>4, <3>5, <3>6
  <2> QED
    BY <2>1, <2>2, <2>3
<1>5. \A v \in Worker : pc'[v] \in {"read failures", "write failures"} => ended'[v] # "not"
  BY <1>1 DEF RegistryInv, CooldownTyping
<1>6. ASSUME NEW v \in Worker, pc'[v] = "write failures", ended'[v] # "ok", Book!InRegistry(held[v])'
      PROVE  read'[v] <= FailuresTold'
  <2>1. v # w /\ pc[v] = "write failures" /\ ended[v] # "ok" /\ held'[v] = held[v] /\ read'[v] = read[v]
    BY <1>1, <1>6 DEF CooldownTyping, HandsInv
  <2>2. Book!InRegistry(held[v])
    <3>1. status # Absent /\ status' # Absent /\ status'.object = status.object
      <4>1. \/ status' = status
            \/ status # Absent /\ status' = [status EXCEPT !.failures = 0]
            \/ status # Absent /\ status' = [status EXCEPT !.failures = read[w] + 1]
        BY DEF Book!WriteFailures, Book!InRegistry
      <4>2. status' # Absent
        BY <1>6 DEF Book!InRegistry
      <4> QED
        BY <4>1, <4>2 DEF HandsInv, Book!JobStatus
    <3> QED
      BY <1>6, <2>1, <3>1 DEF Book!InRegistry
  <2>3. read[v] <= FailuresTold /\ read[v] \in Nat
    BY <2>1, <2>2 DEF RegistryInv, HandsInv
  <2>4. FailuresTold <= FailuresTold' /\ FailuresTold \in Nat /\ FailuresTold' \in Nat
    <3>1. CASE e = "failed"
      BY <1>2, <3>1
    <3>2. CASE e # "failed"
      BY <1>2, <3>2
    <3> QED
      BY <3>1, <3>2
  <2>5. \A a, b, c \in Nat : a <= b /\ b <= c => a <= c
    OBVIOUS
  <2>6. read[v] <= FailuresTold'
    BY <2>3, <2>4, <2>5
  <2> QED
    BY <2>1, <2>6
<1> QED
  BY <1>2, <1>4, <1>5, <1>6 DEF RegistryInv

(* Every step of a worker keeps the registry.                               *)
LEMMA RegistryWork ==
  ASSUME Book!BookAssumption, HandsInv, RegistryInv, CooldownTyping, NEW w \in Worker, Book!Work(w)
  PROVE  RegistryInv'
<1> USE DEF Book!registry, Book!hands, Book!worker, Book!Goto
<1>1. CASE OtherWork(w)
  <2>1. /\ UNCHANGED <<status, toldOf, held, read, missed>>
        /\ \A v \in Worker : pc'[v] \in {"read failures", "write failures"}
               => pc[v] = pc'[v] /\ ended'[v] = ended[v]
    BY <1>1, OtherWorkLeaves
  <2>2. Book!Failures' = Book!Failures /\ \A v \in Worker : Book!InRegistry(held[v])' <=> Book!InRegistry(held[v])
    BY <2>1 DEF Book!Failures, Book!InRegistry
  <2>3. \A v \in Worker : pc'[v] \in {"read failures", "write failures"} => ended'[v] # "not"
    BY <2>1 DEF RegistryInv
  <2>4. \A v \in Worker : pc'[v] = "write failures" /\ ended'[v] # "ok" /\ Book!InRegistry(held[v])'
            => read'[v] <= FailuresTold
    BY <2>1, <2>2 DEF RegistryInv
  <2> QED
    BY <2>1, <2>2, <2>3, <2>4, RegistryAlone
<1>2. CASE Book!MakeSummary(w) \/ Book!ReadSkips(w) \/ Book!WriteSkips(w)
  <2>1. /\ UNCHANGED <<status, toldOf, ended>> /\ ("status" \in missed => "status" \in missed')
        /\ \A v \in Worker : pc'[v] \in {"read failures", "write failures"}
               => v # w /\ pc[v] = pc'[v]
        /\ \A v \in Worker : v # w => held'[v] = held[v] /\ read'[v] = read[v]
    BY <1>2 DEF Book!MakeSummary, Book!ReadSkips, Book!WriteSkips, CooldownTyping, HandsInv
  <2>2. Book!Failures' = Book!Failures
    BY <2>1 DEF Book!Failures
  <2>3. \A v \in Worker : pc'[v] \in {"read failures", "write failures"} => ended'[v] # "not"
    BY <2>1 DEF RegistryInv
  <2>4. ASSUME NEW v \in Worker, pc'[v] = "write failures", ended'[v] # "ok", Book!InRegistry(held[v])'
        PROVE  read'[v] <= FailuresTold
    <3>1. Book!InRegistry(held[v]) /\ pc[v] = "write failures" /\ ended[v] # "ok" /\ read'[v] = read[v]
      BY <2>1, <2>4 DEF Book!InRegistry
    <3> QED
      BY <3>1 DEF RegistryInv
  <2> QED
    BY <2>1, <2>2, <2>3, <2>4, RegistryAlone
<1>3. CASE Book!MakeStatus(w)
  <2>1. /\ status' = [object |-> made + 1, state |-> "idle", failures |-> 0] /\ toldOf' = toldOf
        /\ UNCHANGED <<held, read, ended>>
        /\ "status" \notin missed' => "status" \notin missed /\ (status = Absent \/ status.failures = 0)
        /\ pc' = [pc EXCEPT ![w] = "mark"]
    BY <1>3 DEF Book!MakeStatus
  <2>2. status' # Absent
    <3>1. status' \in Book!JobStatus
      BY <2>1 DEF Book!JobStatus, HandsInv
    <3> QED
      BY <3>1 DEF Book!BookAssumption
  <2>3. Book!Failures' = 0
    BY <2>1, <2>2 DEF Book!Failures
  <2>4. \A v \in Worker : ~Book!InRegistry(held[v])'
    <3>1. \A v \in Worker : held'[v] <= made /\ held'[v] \in Nat /\ made \in Nat
      BY <2>1 DEF HandsInv
    <3> QED
      BY <2>1, <3>1 DEF Book!InRegistry
  <2>5. "status" \notin missed' => Book!Streak(Book!Failures)'
    <3>1. "status" \notin missed' => Book!Failures = 0 /\ Book!Streak(Book!Failures)
      BY <2>1 DEF Book!Failures, RegistryInv
    <3> QED
      BY <2>1, <2>3, <3>1 DEF Book!Streak
  <2>6. FailuresTold' = FailuresTold /\ 0 <= FailuresTold
    <3>1. Book!Failures \in Nat /\ Book!Failures <= FailuresTold
      BY DEF RegistryInv, HandsInv, Book!Failures, Book!JobStatus
    <3>2. toldOf \in Seq({"ok", "failed"}) /\ IsFiniteSet({i \in 1 .. Len(toldOf) : toldOf[i] = "failed"})
      <4>1. toldOf \in Seq({"ok", "failed"}) /\ Len(toldOf) \in Nat
        <5>1. toldOf \in Seq({"ok", "failed"})
          BY DEF RegistryInv
        <5> QED
          BY <5>1
      <4>2. IsFiniteSet(1 .. Len(toldOf))
        BY <4>1, FS_Interval
      <4> QED
        BY <4>1, <4>2, FS_Subset
    <3>3. FailuresTold \in Nat
      BY <3>2, FS_CardinalityType DEF FailuresTold
    <3> QED
      BY <2>1, <3>3 DEF FailuresTold
  <2>7. \A v \in Worker : pc'[v] \in {"read failures", "write failures"} => ended'[v] # "not"
    BY <2>1 DEF RegistryInv, CooldownTyping
  <2> QED
    BY <2>1, <2>3, <2>4, <2>5, <2>6, <2>7 DEF RegistryInv
<1>4. CASE Book!MarkRunning(w) \/ Book!MarkFinished(w)
  <2>1. /\ toldOf' = toldOf /\ missed' = missed /\ read' = read /\ ended' = ended /\ status # Absent
        /\ \E s \in {"running", "succeeded", "failed"} : status' = [status EXCEPT !.state = s]
        /\ pc[w] = "mark"
        /\ \A v \in Worker : v # w => held'[v] = held[v] /\ pc'[v] = pc[v]
        /\ pc'[w] = "write failures" => ended[w] = "ok"
        /\ pc'[w] = "read failures" => ended[w] # "not"
    BY <1>4 DEF Book!MarkRunning, Book!MarkFinished, CooldownTyping, HandsInv
  <2>2. /\ status' \in Book!JobStatus /\ status'.failures = status.failures
        /\ status'.object = status.object
    BY <2>1 DEF HandsInv, Book!JobStatus
  <2>3. status' # Absent
    BY <2>2 DEF Book!BookAssumption
  <2>4. Book!Failures' = Book!Failures
    BY <2>1, <2>2, <2>3 DEF Book!Failures
  <2>5. \A v \in Worker : pc'[v] \in {"read failures", "write failures"} => ended'[v] # "not"
    BY <2>1 DEF RegistryInv
  <2>6. ASSUME NEW v \in Worker, pc'[v] = "write failures", ended'[v] # "ok", Book!InRegistry(held[v])'
        PROVE  read'[v] <= FailuresTold
    <3>1. v # w
      BY <2>1, <2>6
    <3>2. Book!InRegistry(held[v]) /\ pc[v] = "write failures" /\ ended[v] # "ok" /\ read'[v] = read[v]
      BY <2>1, <2>2, <2>6, <3>1 DEF Book!InRegistry
    <3> QED
      BY <3>2 DEF RegistryInv
  <2> QED
    BY <2>1, <2>4, <2>5, <2>6, RegistryAlone
<1>5. CASE Book!ReadFailures(w)
  <2>1. /\ UNCHANGED <<status, toldOf, missed, held, ended>> /\ pc[w] = "read failures"
        /\ pc' = [pc EXCEPT ![w] = "write failures"]
        /\ read' = [read EXCEPT ![w] = IF Book!InRegistry(held[w]) THEN status.failures ELSE 0]
    BY <1>5 DEF Book!ReadFailures
  <2>2. Book!Failures' = Book!Failures /\ \A v \in Worker : Book!InRegistry(held[v])' <=> Book!InRegistry(held[v])
    BY <2>1 DEF Book!Failures, Book!InRegistry
  <2>3. \A v \in Worker : pc'[v] \in {"read failures", "write failures"} => ended'[v] # "not"
    BY <2>1 DEF RegistryInv, CooldownTyping
  <2>4. ASSUME NEW v \in Worker, pc'[v] = "write failures", ended'[v] # "ok", Book!InRegistry(held[v])'
        PROVE  read'[v] <= FailuresTold
    <3>1. Book!InRegistry(held[v])
      BY <2>2, <2>4
    <3>2. CASE v = w
      <4>1. read'[v] = Book!Failures
        BY <2>1, <3>1, <3>2 DEF Book!Failures, Book!InRegistry, HandsInv
      <4> QED
        BY <4>1 DEF RegistryInv
    <3>3. CASE v # w
      BY <2>1, <2>4, <3>1, <3>3 DEF RegistryInv, CooldownTyping, HandsInv
    <3> QED
      BY <3>2, <3>3
  <2> QED
    BY <2>1, <2>2, <2>3, <2>4, RegistryAlone
<1>6. CASE Book!WriteFailures(w)
  BY <1>6, WriteFailuresKeeps
<1> QED
  BY <1>1, <1>2, <1>3, <1>4, <1>5, <1>6 DEF Book!Work, OtherWork

(* Steps that leave the count of the reporter alone.                        *)
LEMMA ReporterAlone ==
  ASSUME ReporterInv, UNCHANGED <<summary, skips>>,
         "skips" \notin missed' => "skips" \notin missed,
         \A v \in Worker : pc'[v] \in {"read skips", "write skips"} => summary # Absent,
         \A v \in Worker : pc'[v] = "write skips" => read'[v] <= skips
  PROVE  ReporterInv'
BY DEF ReporterInv, Book!Skips

(* And every step of a worker keeps the reporter.                           *)
LEMMA ReporterWork ==
  ASSUME Book!BookAssumption, HandsInv, ReporterInv, CooldownTyping, NEW w \in Worker, Book!Work(w)
  PROVE  ReporterInv'
<1> USE DEF Book!reporter, Book!hands, Book!worker, Book!Goto
<1>1. CASE OtherWork(w)
  <2>1. /\ UNCHANGED <<summary, skips, read, missed>>
        /\ \A v \in Worker : pc'[v] = "write skips" => pc[v] = "write skips"
        /\ \A v \in Worker : pc'[v] = "read skips" => pc[v] = "read skips" \/ summary # Absent
    BY <1>1, OtherWorkLeaves
  <2> QED
    BY <2>1, ReporterAlone DEF ReporterInv
<1>2. CASE \/ Book!MakeStatus(w) \/ Book!MarkRunning(w) \/ Book!MarkFinished(w)
           \/ Book!ReadFailures(w) \/ Book!WriteFailures(w)
  <2>1. /\ UNCHANGED <<summary, skips>> /\ ("skips" \in missed => "skips" \in missed')
        /\ \A v \in Worker : pc'[v] \in {"read skips", "write skips"} => v # w /\ pc[v] = pc'[v]
        /\ \A v \in Worker : v # w => read'[v] = read[v]
    BY <1>2 DEF Book!MakeStatus, Book!MarkRunning, Book!MarkFinished, Book!ReadFailures,
                Book!WriteFailures, CooldownTyping, HandsInv
  <2> QED
    BY <2>1, ReporterAlone DEF ReporterInv
<1>3. CASE Book!MakeSummary(w)
  <2>1. /\ summary' = [object |-> made + 1, count |-> 0] /\ skips' = skips /\ read' = read
        /\ "skips" \notin missed' => "skips" \notin missed /\ (summary = Absent \/ summary.count = 0)
        /\ pc' = [pc EXCEPT ![w] = "read skips"]
    BY <1>3 DEF Book!MakeSummary
  <2>2. summary' # Absent
    <3>1. made + 1 \in Nat
      BY DEF HandsInv
    <3>2. summary' \in Book!ConditionSkipSummary
      BY <2>1, <3>1 DEF Book!ConditionSkipSummary
    <3> QED
      BY <3>2 DEF Book!BookAssumption
  <2>3. Book!Skips' = 0 /\ skips \in Nat
    BY <2>1, <2>2 DEF Book!Skips, ReporterInv
  <2>4. "skips" \notin missed' => skips = 0
    BY <2>1 DEF ReporterInv, Book!Skips
  <2>5. \A v \in Worker : pc'[v] = "write skips" => read'[v] <= skips'
    BY <2>1 DEF ReporterInv, CooldownTyping
  <2>6. /\ Book!Skips' <= skips' /\ skips' \in Nat
        /\ "skips" \notin missed' => Book!Skips' = skips'
    <3>1. skips' = skips /\ skips \in Nat /\ Book!Skips' = 0
      BY <2>1, <2>3
    <3>2. 0 <= skips
      BY <3>1
    <3> QED
      BY <2>4, <3>1, <3>2
  <2> QED
    BY <2>2, <2>5, <2>6 DEF ReporterInv
<1>4. CASE Book!ReadSkips(w)
  <2>1. /\ UNCHANGED <<summary, skips, missed>> /\ pc[w] = "read skips" /\ summary # Absent
        /\ read' = [read EXCEPT ![w] = summary.count] /\ pc' = [pc EXCEPT ![w] = "write skips"]
    BY <1>4 DEF Book!ReadSkips, ReporterInv
  <2>2. summary.count <= skips
    BY <2>1 DEF ReporterInv, Book!Skips
  <2>3. \A v \in Worker : pc'[v] = "write skips" => read'[v] <= skips
    BY <2>1, <2>2 DEF ReporterInv, CooldownTyping, HandsInv
  <2> QED
    BY <2>1, <2>3, ReporterAlone
<1>5. CASE Book!WriteSkips(w)
  <2>1. /\ pc[w] = "write skips" /\ skips' = skips + 1 /\ skips \in Nat
        /\ read' = [read EXCEPT ![w] = 0] /\ pc' = [pc EXCEPT ![w] = "idle"]
        /\ summary \in Book!ConditionSkipSummary /\ summary # Absent
        /\ read[w] \in Nat /\ read[w] <= skips
    BY <1>5 DEF Book!WriteSkips, ReporterInv, HandsInv
  <2>2. summary.count \in Nat /\ summary.count <= skips
    BY <2>1 DEF ReporterInv, Book!Skips, Book!ConditionSkipSummary
  <2>3. skips \in Nat /\ read[w] \in Nat /\ read[w] <= skips /\ skips' = skips + 1
    BY <2>1
  <2>4. \A n, k \in Nat : n <= k => n + 1 <= k + 1 /\ n <= k + 1 /\ n + 1 \in Nat /\ k + 1 \in Nat
    OBVIOUS
  <2>5. read[w] + 1 <= skips + 1 /\ read[w] + 1 \in Nat /\ skips' \in Nat
    BY <2>3, <2>4
  <2>6. /\ summary' # Absent /\ Book!Skips' <= skips'
        /\ "skips" \notin missed' => Book!Skips' = skips'
    <3>1. CASE summary.object = held[w]
      <4>1. /\ summary' = [summary EXCEPT !.count = read[w] + 1]
            /\ "skips" \notin missed' => "skips" \notin missed /\ summary.count = read[w]
        BY <1>5, <3>1 DEF Book!WriteSkips
      <4>2. summary' \in Book!ConditionSkipSummary /\ summary'.count = read[w] + 1
        <5>1. /\ read[w] + 1 \in Nat /\ summary \in Book!ConditionSkipSummary
              /\ summary' = [summary EXCEPT !.count = read[w] + 1]
          BY <2>1, <2>5, <4>1
        <5> QED
          BY <5>1 DEF Book!ConditionSkipSummary
      <4>3. summary' # Absent
        BY <4>2 DEF Book!BookAssumption
      <4>4. Book!Skips' = read[w] + 1
        BY <4>2, <4>3 DEF Book!Skips
      <4>5. "skips" \notin missed' => read[w] = skips
        BY <2>1, <4>1 DEF ReporterInv, Book!Skips
      <4>6. read[w] + 1 <= skips + 1
        BY <2>5
      <4>7. Book!Skips' <= skips'
        BY <2>1, <4>4, <4>6
      <4> QED
        BY <2>1, <4>3, <4>4, <4>5, <4>7
    <3>2. CASE summary.object # held[w]
      <4>1. summary' = summary /\ "skips" \in missed'
        BY <1>5, <3>2 DEF Book!WriteSkips
      <4>2. Book!Skips' = summary.count
        BY <2>1, <4>1 DEF Book!Skips
      <4>3. summary.count <= skips + 1
        BY <2>2, <2>3, <2>4
      <4> QED
        BY <2>1, <4>1, <4>2, <4>3
    <3> QED
      BY <3>1, <3>2
  <2>7. ASSUME NEW v \in Worker, pc'[v] = "write skips" PROVE read'[v] <= skips'
    <3>1. v # w /\ pc[v] = "write skips" /\ read'[v] = read[v] /\ read[v] \in Nat
      BY <2>1, <2>7 DEF CooldownTyping, HandsInv
    <3>2. read[v] <= skips
      BY <3>1 DEF ReporterInv
    <3>3. read[v] <= skips + 1
      <4>1. read[v] \in Nat /\ skips \in Nat /\ read[v] <= skips
        BY <2>1, <3>1, <3>2
      <4> QED
        BY <4>1, <2>4
    <3> QED
      BY <2>1, <3>1, <3>3
  <2>8. skips' \in Nat
    BY <2>5
  <2>9. \A v \in Worker : pc'[v] # "read skips" \/ summary' # Absent
    BY <2>6
  <2> QED
    BY <2>6, <2>7, <2>8, <2>9 DEF ReporterInv
<1> QED
  BY <1>1, <1>2, <1>3, <1>4, <1>5 DEF Book!Work, OtherWork

(* Counting goes on with one more run, and does not depend on later ones.   *)
LEMMA OneMore ==
  ASSUME NEW m \in Nat, NEW n \in Nat, m <= n
  PROVE  /\ Cardinality(m .. n) = Cardinality(m .. (n - 1)) + 1
         /\ Cardinality({i \in m .. n : tally[i] = "failed"}) =
                Cardinality({i \in m .. (n - 1) : tally[i] = "failed"}) + (IF tally[n] = "failed" THEN 1 ELSE 0)
<1>1. IsFiniteSet(m .. (n - 1)) /\ n \notin m .. (n - 1) /\ m .. n = (m .. (n - 1)) \cup {n}
  BY FS_Interval
<1> DEFINE F == {i \in m .. (n - 1) : tally[i] = "failed"}
           G == {i \in m .. n : tally[i] = "failed"}
<1>2. IsFiniteSet(F) /\ n \notin F
  BY <1>1, FS_Subset
<1>3. G = IF tally[n] = "failed" THEN F \cup {n} ELSE F
  BY <1>1
<1>4. Cardinality(F) \in Nat
  BY <1>2, FS_CardinalityType
<1>5. Cardinality(G) = Cardinality(F) + (IF tally[n] = "failed" THEN 1 ELSE 0)
  <2>1. CASE tally[n] = "failed"
    <3> HIDE DEF F, G
    <3> QED
      BY <1>2, <1>3, <2>1, FS_AddElement
  <2>2. CASE tally[n] # "failed"
    <3> HIDE DEF F, G
    <3> QED
      BY <1>3, <1>4, <2>2
  <2> QED
    BY <2>1, <2>2
<1> QED
  BY <1>1, <1>5, FS_AddElement

(* What was served stays a tally when a run is added.                       *)
LEMMA ServedStays ==
  ASSUME MetricsInv, NEW e \in {"ok", "failed"}, tally' = Append(tally, e), served' = served
  PROVE  \E m \in 1 .. Len(tally') + 1, n \in 0 .. Len(tally') :
             Counts(m, n, served.runs, served.failures)'
<1>1. PICK m \in 1 .. Len(tally) + 1, n \in 0 .. Len(tally) : Counts(m, n, served.runs, served.failures)
  BY DEF MetricsInv
<1>2. /\ Len(tally) \in Nat /\ Len(tally') = Len(tally) + 1
      /\ \A i \in 1 .. Len(tally) : tally'[i] = tally[i]
  BY DEF MetricsInv
<1>3. {i \in m .. n : tally'[i] = "failed"} = {i \in m .. n : tally[i] = "failed"}
  <2>1. \A i \in m .. n : i \in 1 .. Len(tally)
    BY <1>2
  <2> QED
    BY <1>2, <2>1
<1>4. Counts(m, n, served.runs, served.failures)'
  BY <1>1, <1>3 DEF Counts
<1>5. m \in 1 .. Len(tally') + 1 /\ n \in 0 .. Len(tally')
  BY <1>2
<1> QED
  BY <1>4, <1>5

(* And when nothing is.                                                     *)
LEMMA ServedAgain ==
  ASSUME MetricsInv, UNCHANGED <<tally, served>>
  PROVE  \E m \in 1 .. Len(tally') + 1, n \in 0 .. Len(tally') :
             Counts(m, n, served.runs, served.failures)'
<1>1. PICK m \in 1 .. Len(tally) + 1, n \in 0 .. Len(tally) : Counts(m, n, served.runs, served.failures)
  BY DEF MetricsInv
<1>2. Counts(m, n, served.runs, served.failures)'
  BY <1>1 DEF Counts
<1> QED
  BY <1>2

(* The run is counted, under the lock (MetricsCollector.record, metrics.py).*)
LEMMA RunCounted ==
  ASSUME Book!BookAssumption, MetricsInv, CooldownTyping, NEW w \in Worker, Book!CountRun(w)
  PROVE  MetricsInv'
<1>1. /\ pc[w] = "get metrics" /\ lock = Absent /\ lock' = w /\ pc' = [pc EXCEPT ![w] = "metrics"]
      /\ metrics' = [metrics EXCEPT !.runs = @ + 1] /\ tally' = Append(tally, ended[w])
      /\ served' = served /\ ended' = ended
  BY DEF Book!CountRun, Book!Goto, Book!worker
<1>2. ended[w] \in {"ok", "failed"} /\ w # Absent
  BY <1>1 DEF MetricsInv, CooldownTyping, Finishing, Book!BookAssumption
<1>3. /\ Len(tally) \in Nat /\ tally' \in Seq({"ok", "failed"}) /\ Len(tally') = Len(tally) + 1
      /\ tally'[Len(tally) + 1] = ended[w]
      /\ \A i \in 1 .. Len(tally) : tally'[i] = tally[i]
  <2>1. tally \in Seq({"ok", "failed"}) /\ tally' = Append(tally, ended[w])
    BY <1>1 DEF MetricsInv
  <2> QED
    BY <1>2, <2>1
<1>4. /\ metrics \in [runs : Nat, failures : Nat]
      /\ metrics' \in [runs : Nat, failures : Nat]
      /\ metrics'.runs = metrics.runs + 1 /\ metrics'.failures = metrics.failures
  <2>1. metrics \in [runs : Nat, failures : Nat] /\ metrics' = [metrics EXCEPT !.runs = @ + 1]
    BY <1>1 DEF MetricsInv
  <2> QED
    BY <2>1
<1>5. PICK m \in 1 .. Len(tally) + 1 : Counts(m, Len(tally), metrics.runs, metrics.failures)
  BY <1>1 DEF MetricsInv
<1> DEFINE n == Len(tally) + 1
<1>6. m \in Nat /\ n \in Nat /\ m <= n /\ n - 1 = Len(tally) /\ m \in 1 .. Len(tally') + 1
  BY <1>3
<1>7. Cardinality(m .. n) = Cardinality(m .. Len(tally)) + 1
  <2> HIDE DEF n
  <2> QED
    BY <1>6, OneMore
<1>8. {i \in m .. (n - 1) : tally'[i] = "failed"} = {i \in m .. Len(tally) : tally[i] = "failed"}
  <2>1. \A i \in m .. Len(tally) : i \in 1 .. Len(tally)
    BY <1>3
  <2> HIDE DEF n
  <2> QED
    BY <1>3, <1>6, <2>1
<1>9. Halfway(m, Len(tally))'
  BY <1>1, <1>3, <1>4, <1>5, <1>6, <1>7, <1>8 DEF Halfway, Counts
<1>10. \A v \in Worker : pc'[v] = "metrics" <=> lock' = v
  <2>1. \A v \in Worker : v # Absent /\ (pc[v] = "metrics" <=> lock = v)
    BY DEF MetricsInv, Book!BookAssumption
  <2> QED
    BY <1>1, <2>1 DEF CooldownTyping
<1>11. \A v \in Worker : pc'[v] \in Finishing => ended'[v] # "not"
  BY <1>1, <1>2 DEF MetricsInv, CooldownTyping, Finishing
<1> QED
  BY <1>1, <1>2, <1>3, <1>4, <1>6, <1>9, <1>10, <1>11, ServedStays DEF MetricsInv

(* And its failure, which ends the call.                                    *)
LEMMA FailureCounted ==
  ASSUME Book!BookAssumption, MetricsInv, CooldownTyping, NEW w \in Worker, Book!CountFailure(w)
  PROVE  MetricsInv'
<1>1. /\ pc[w] = "metrics" /\ lock' = Absent /\ pc' = [pc EXCEPT ![w] = "complete"]
      /\ metrics' = [metrics EXCEPT !.failures = @ + (IF ended[w] = "ok" THEN 0 ELSE 1)]
      /\ UNCHANGED <<served, tally, ended>>
  BY DEF Book!CountFailure, Book!Goto, Book!worker
<1>2. lock = w /\ ended[w] \in {"ok", "failed"} /\ w # Absent
  BY <1>1 DEF MetricsInv, CooldownTyping, Finishing, Book!BookAssumption
<1>3. /\ metrics \in [runs : Nat, failures : Nat]
      /\ metrics' \in [runs : Nat, failures : Nat]
      /\ metrics'.runs = metrics.runs
      /\ metrics'.failures = metrics.failures + (IF ended[w] = "failed" THEN 1 ELSE 0)
  <2>1. metrics \in [runs : Nat, failures : Nat]
    BY DEF MetricsInv
  <2>2. CASE ended[w] = "ok"
    BY <1>1, <2>1, <2>2
  <2>3. CASE ended[w] = "failed"
    BY <1>1, <2>1, <2>3
  <2> QED
    BY <1>2, <2>2, <2>3, <2>1
<1>4. PICK m \in 1 .. Len(tally) + 1 : Halfway(m, Len(tally))
  BY <1>2 DEF MetricsInv
<1>5. Len(tally) \in Nat /\ m \in Nat /\ m <= Len(tally)
  BY <1>4 DEF MetricsInv, Halfway
<1>6. Counts(m, Len(tally), metrics'.runs, metrics'.failures)
  <2> DEFINE n == Len(tally)
  <2>1. /\ metrics.runs = Cardinality(m .. n) /\ tally[n] = ended[w]
        /\ metrics.failures = Cardinality({i \in m .. (n - 1) : tally[i] = "failed"})
    BY <1>2, <1>4 DEF Halfway
  <2>2. Cardinality({i \in m .. n : tally[i] = "failed"}) =
            Cardinality({i \in m .. (n - 1) : tally[i] = "failed"}) + (IF tally[n] = "failed" THEN 1 ELSE 0)
    <3> HIDE DEF n
    <3>1. n \in Nat /\ m \in Nat /\ m <= n
      BY <1>5 DEF n
    <3> QED
      BY <3>1, OneMore, Zenon
  <2>3. Counts(m, n, metrics'.runs, metrics'.failures)
    <3> HIDE DEF n
    <3> QED
      BY <1>3, <2>1, <2>2 DEF Counts
  <2> QED
    BY <2>3
<1>7. Counts(m, Len(tally), metrics.runs, metrics.failures)'
  BY <1>1, <1>6 DEF Counts
<1>8. \A v \in Worker : pc'[v] = "metrics" <=> lock' = v
  BY <1>1, <1>2 DEF MetricsInv, CooldownTyping, Book!BookAssumption
<1>9. \A v \in Worker : pc'[v] \in Finishing => ended'[v] # "not"
  BY <1>1 DEF MetricsInv, CooldownTyping, Finishing
<1>10. \E k \in 1 .. Len(tally') + 1, n \in 0 .. Len(tally') : Counts(k, n, served.runs, served.failures)'
  BY <1>1, ServedAgain
<1> QED
  BY <1>1, <1>3, <1>7, <1>8, <1>9, <1>10 DEF MetricsInv

(* Steps that leave the metrics alone.                                      *)
LEMMA MetricsAlone ==
  ASSUME MetricsInv, UNCHANGED <<metrics, lock, served, tally>>,
         \A w \in Worker : pc'[w] = "metrics" <=> pc[w] = "metrics",
         \A w \in Worker : pc'[w] \in Finishing => ended'[w] # "not",
         lock \in Worker => ended'[lock] = ended[lock]
  PROVE  MetricsInv'
<1>1. PICK m \in 1 .. Len(tally) + 1 :
          IF lock = Absent THEN Counts(m, Len(tally), metrics.runs, metrics.failures)
          ELSE Halfway(m, Len(tally))
  BY DEF MetricsInv
<1>2. CASE lock = Absent
  <2>1. Counts(m, Len(tally), metrics.runs, metrics.failures)'
    BY <1>1, <1>2 DEF Counts
  <2> QED
    BY <1>2, <2>1, ServedAgain DEF MetricsInv
<1>3. CASE lock \in Worker /\ lock # Absent
  <2>1. Halfway(m, Len(tally))'
    BY <1>1, <1>3 DEF Halfway
  <2> QED
    BY <1>3, <2>1, ServedAgain DEF MetricsInv
<1> QED
  BY <1>2, <1>3 DEF MetricsInv

(* Every step of a worker keeps the metrics.                                *)
LEMMA MetricsWork ==
  ASSUME Book!BookAssumption, MetricsInv, RegistryInv, CooldownTyping, NEW w \in Worker, Book!Work(w)
  PROVE  MetricsInv'
<1> USE DEF Book!collector, Book!worker, Book!Goto
<1>1. CASE Book!CountRun(w)
  BY <1>1, RunCounted
<1>2. CASE Book!CountFailure(w)
  BY <1>2, FailureCounted
<1>3. CASE \/ Book!Begin(w) \/ Book!CheckCondition(w) \/ Book!GetSummary(w) \/ Book!MakeSummary(w)
           \/ Book!ReadSkips(w) \/ Book!WriteSkips(w)
           \/ Book!GetStatus(w) \/ Book!MakeStatus(w) \/ Book!MarkRunning(w) \/ Book!MarkFinished(w)
           \/ Book!ReadFailures(w) \/ Book!WriteFailures(w) \/ Book!MarkRaises(w)
           \/ Book!Run(w) \/ Book!RecordCompletion(w)
  <2> USE DEF Book!Begin, Book!CheckCondition, Book!GetSummary, Book!MakeSummary, Book!ReadSkips,
              Book!WriteSkips, Book!GetStatus, Book!MakeStatus, Book!MarkRunning, Book!MarkFinished,
              Book!ReadFailures, Book!WriteFailures, Book!MarkRaises, Book!Run, Book!RecordCompletion
  <2>1. UNCHANGED <<metrics, lock, served, tally>> /\ pc[w] \notin Finishing
    BY <1>3 DEF Finishing
  <2>2. \A v \in Worker : v # w => pc'[v] = pc[v] /\ ended'[v] = ended[v]
    BY <1>3 DEF CooldownTyping
  <2>3. pc'[w] # "metrics" /\ (pc'[w] \in Finishing => ended'[w] # "not")
    <3>1. CASE Book!WriteFailures(w)
      BY <3>1 DEF CooldownTyping, RegistryInv, Finishing
    <3>2. CASE ~Book!WriteFailures(w)
      BY <1>3, <3>2 DEF CooldownTyping, Finishing
    <3> QED
      BY <3>1, <3>2
  <2>4. lock # w
    BY <2>1 DEF MetricsInv, Finishing
  <2>5. \A v \in Worker : pc'[v] = "metrics" <=> pc[v] = "metrics"
    BY <2>1, <2>2, <2>3 DEF Finishing
  <2>6. \A v \in Worker : pc'[v] \in Finishing => ended'[v] # "not"
    BY <2>2, <2>3 DEF MetricsInv
  <2> QED
    BY <2>1, <2>2, <2>4, <2>5, <2>6, MetricsAlone
<1> QED
  BY <1>1, <1>2, <1>3 DEF Book!Work

(* Steps that touch neither the registry nor the reporter.                  *)
LEMMA BooksUntouched ==
  ASSUME HandsInv, RegistryInv, ReporterInv,
         UNCHANGED <<pc, ended, status, toldOf, summary, skips, made, held, read, missed>>
  PROVE  HandsInv' /\ RegistryInv' /\ ReporterInv'
<1>1. HandsInv'
  BY DEF HandsInv
<1>2. /\ Book!Failures' = Book!Failures /\ Book!Skips' = Book!Skips
      /\ \A v \in Worker : Book!InRegistry(held[v])' <=> Book!InRegistry(held[v])
  BY DEF Book!Failures, Book!Skips, Book!InRegistry
<1>3. RegistryInv'
  <2>1. \A v \in Worker : pc'[v] \in {"read failures", "write failures"} => ended'[v] # "not"
    BY DEF RegistryInv
  <2>2. \A v \in Worker : pc'[v] = "write failures" /\ ended'[v] # "ok" /\ Book!InRegistry(held[v])'
            => read'[v] <= FailuresTold
    BY <1>2 DEF RegistryInv
  <2> QED
    BY <1>2, <2>1, <2>2, RegistryAlone
<1>4. ReporterInv'
  BY <1>2 DEF ReporterInv
<1> QED
  BY <1>1, <1>3, <1>4

(* Of no runs told of, none failed.                                         *)
LEMMA EmptyLog ==
    <<>> \in Seq({"ok", "failed"}) /\ Len(<<>>) = 0 /\ 1 .. 0 = {} /\ 0 <= 0
  OBVIOUS

(* Where nothing was told of, no run of failures lies at the end.            *)
LEMMA EmptyStreak ==
  ASSUME Len(toldOf) = 0
  PROVE  Book!Streak(0)
<1>1. ~(\E i \in 1 .. 0 : TRUE) /\ 0 <= 0 /\ ~(0 < 0)
  OBVIOUS
<1> QED
  BY <1>1 DEF Book!Streak

(* A registry that was told of no run has no failure to know of.            *)
LEMMA RegistryEmpty ==
  ASSUME status = Absent, toldOf = <<>>,
         \A w \in Worker : pc[w] \in {"read failures", "write failures"} => ended[w] # "not"
  PROVE  RegistryInv
<1>1. Book!Failures = 0 /\ (\A w \in Worker : ~Book!InRegistry(held[w]))
  BY DEF Book!Failures, Book!InRegistry
<1>2. toldOf \in Seq({"ok", "failed"}) /\ Len(toldOf) = 0 /\ 1 .. 0 = {}
  BY EmptyLog
<1>3. FailuresTold = 0
  BY <1>2, FS_EmptySet DEF FailuresTold
<1>4. Book!Streak(0)
  BY <1>2, EmptyStreak
<1>5. Book!Streak(Book!Failures)
  BY <1>1, <1>4 DEF Book!Streak
<1>6. Book!Failures <= FailuresTold
  BY <1>1, <1>3, EmptyLog, Zenon
<1> QED
  BY <1>1, <1>2, <1>5, <1>6 DEF RegistryInv

(* As after its reset (JobStatusRegistry.reset, job_status.py).             *)
LEMMA RegistryEmptied ==
  ASSUME RegistryInv, status' = Absent, toldOf' = <<>>, UNCHANGED <<pc, ended, held>>
  PROVE  RegistryInv'
<1>1. Book!Failures' = 0 /\ (\A w \in Worker : ~Book!InRegistry(held[w])')
  BY DEF Book!Failures, Book!InRegistry
<1>2. toldOf' \in Seq({"ok", "failed"}) /\ Len(toldOf') = 0 /\ 1 .. 0 = {}
  BY EmptyLog
<1>3. FailuresTold' = 0
  BY <1>2, FS_EmptySet DEF FailuresTold
<1>4. Book!Streak(Book!Failures)'
  BY <1>1, <1>2 DEF Book!Streak
<1>5. Book!Failures' <= FailuresTold'
  BY <1>1, <1>3
<1>6. \A v \in Worker : pc'[v] \in {"read failures", "write failures"} => ended'[v] # "not"
  BY DEF RegistryInv
<1> QED
  BY <1>1, <1>2, <1>4, <1>5, <1>6 DEF RegistryInv

(* Every step of the books keeps all of it, whatever thread makes it.       *)
LEMMA BooksStep ==
  ASSUME Book!BookAssumption, BooksInv, CooldownTyping', [BookNext]_<<now, Book!bookVars>>
  PROVE  BooksInv'
<1>0. HandsInv /\ RegistryInv /\ ReporterInv /\ MetricsInv /\ CooldownTyping
  BY DEF BooksInv
<1>1. CASE \E w \in Worker : Book!Work(w)
  BY <1>0, <1>1, HandsWork, RegistryWork, ReporterWork, MetricsWork DEF BooksInv
<1>2. CASE Book!Serve
  <2>1. /\ lock = Absent /\ served' = metrics /\ UNCHANGED <<pc, metrics, lock, tally, ended>>
        /\ UNCHANGED <<status, toldOf, summary, skips, made, held, read, missed>>
    BY <1>2 DEF Book!Serve, Book!worker, Book!registry, Book!reporter, Book!hands
  <2>2. HandsInv' /\ RegistryInv' /\ ReporterInv'
    BY <1>0, <2>1, BooksUntouched
  <2>3. PICK m \in 1 .. Len(tally) + 1 : Counts(m, Len(tally), metrics.runs, metrics.failures)
    BY <1>0, <2>1 DEF MetricsInv
  <2>4. Len(tally) \in 0 .. Len(tally)
    BY <1>0 DEF MetricsInv
  <2>5. Counts(m, Len(tally), metrics.runs, metrics.failures)' /\ Counts(m, Len(tally), served.runs, served.failures)'
    BY <2>1, <2>3 DEF Counts
  <2>6. MetricsInv'
    BY <1>0, <2>1, <2>4, <2>5 DEF MetricsInv
  <2> QED
    BY <2>2, <2>6 DEF BooksInv
<1>3. CASE Book!Reset
  <2>1. UNCHANGED <<pc, ended, summary, skips, made, held, read, lock, served, tally>>
    BY <1>3 DEF Book!Reset, Book!worker, Book!reporter, Book!hands, Book!collector
  <2>2. HandsInv' /\ RegistryInv' /\ ReporterInv'
    <3>1. CASE UNCHANGED <<status, toldOf, missed>>
      BY <1>0, <2>1, <3>1, BooksUntouched
    <3>2. CASE status' = Absent /\ toldOf' = <<>> /\ missed' = missed \ {"status"}
      <4>1. HandsInv'
        BY <1>0, <2>1, <3>2 DEF HandsInv
      <4>2. ReporterInv'
        BY <1>0, <2>1, <3>2 DEF ReporterInv, Book!Skips
      <4>3. RegistryInv'
        BY <1>0, <2>1, <3>2, RegistryEmptied
      <4> QED
        BY <4>1, <4>2, <4>3
    <3> QED
      BY <1>3, <3>1, <3>2 DEF Book!Reset, Book!registry
  <2>4. MetricsInv'
    <3>1. CASE metrics' = metrics
      BY <1>0, <2>1, <3>1, MetricsAlone DEF MetricsInv
    <3>2. CASE lock = Absent /\ metrics' = Book!NoMetrics
      <4>1. metrics'.runs = 0 /\ metrics'.failures = 0 /\ metrics' \in [runs : Nat, failures : Nat]
        BY <3>2 DEF Book!NoMetrics
      <4>2. Len(tally) \in Nat /\ Len(tally) + 1 \in 1 .. Len(tally) + 1 /\ (Len(tally) + 1) .. Len(tally) = {}
        BY <1>0 DEF MetricsInv
      <4>3. Counts(Len(tally) + 1, Len(tally), 0, 0)
        BY <4>2, FS_EmptySet DEF Counts
      <4>4. Counts(Len(tally) + 1, Len(tally), metrics.runs, metrics.failures)'
        BY <2>1, <4>1, <4>3 DEF Counts
      <4>5. \E m \in 1 .. Len(tally') + 1, n \in 0 .. Len(tally') : Counts(m, n, served.runs, served.failures)'
        BY <1>0, <2>1, ServedAgain
      <4> QED
        BY <1>0, <2>1, <3>2, <4>1, <4>2, <4>4, <4>5 DEF MetricsInv
    <3> QED
      BY <1>3, <3>1, <3>2 DEF Book!Reset, Book!collector
  <2> QED
    BY <2>2, <2>4 DEF BooksInv
<1>4. CASE UNCHANGED Book!bookVars
  <2>1. /\ UNCHANGED <<pc, ended, metrics, lock, served, tally>>
        /\ UNCHANGED <<status, toldOf, summary, skips, made, held, read, missed>>
    BY <1>4 DEF Book!bookVars
  <2>2. MetricsInv'
    BY <1>0, <2>1, MetricsAlone DEF MetricsInv
  <2>3. HandsInv' /\ RegistryInv' /\ ReporterInv'
    BY <1>0, <2>1, BooksUntouched
  <2> QED
    BY <2>2, <2>3 DEF BooksInv
<1> QED
  BY <1>1, <1>2, <1>3, <1>4 DEF BookNext, Book!Next, Book!AdvanceClock

(* It holds of books nothing was written in yet.                            *)
LEMMA BooksInit ==
  ASSUME Book!BookAssumption, now = 0, Book!Init
  PROVE  BooksInv
<1> USE DEF Book!Init
<1>1. CooldownTyping
  BY CooldownInit DEF CooldownInv
<1>2. HandsInv /\ RegistryInv
  <2>1. HandsInv
    BY DEF HandsInv
  <2> QED
    BY <2>1, RegistryEmpty
<1>3. ReporterInv
  BY DEF ReporterInv, Book!Skips
<1>4. tally = <<>> /\ Len(tally) = 0 /\ 1 .. 0 = {}
  OBVIOUS
<1>5. Counts(1, 0, 0, 0)
  BY <1>4, FS_EmptySet DEF Counts
<1>6. metrics.runs = 0 /\ metrics.failures = 0 /\ served = metrics
  BY DEF Book!NoMetrics
<1>7. \A w \in Worker : w # Absent
  BY DEF Book!BookAssumption
<1>8. MetricsInv
  BY <1>4, <1>5, <1>6, <1>7 DEF MetricsInv, Finishing, Book!NoMetrics
<1> QED
  BY <1>1, <1>2, <1>3, <1>8 DEF BooksInv

(* The books agree with the runs, for any number of threads however they    *)
(* interleave: the metrics endpoint serves a tally of successive runs, none *)
(* of them half counted (metrics.py:36, 44); the registry and the reporter  *)
(* never count more than they were told, and are right but for what was     *)
(* written by two threads at once or to an entry no longer there            *)
(* (job_status.py:42-44, 55-58; condition_reporter.py:18, 42-47).           *)
THEOREM BooksAgreeHolds == MonitoringSpec => []BooksAgree
<1>1. Book!BookAssumption
  BY BooksAssumption
<1>2. now = 0 /\ Book!Init => CooldownInv /\ BooksInv
  BY <1>1, CooldownInit, BooksInit
<1>3. CooldownInv /\ BooksInv /\ [BookNext]_<<now, Book!bookVars>> => CooldownInv' /\ BooksInv'
  <2> SUFFICES ASSUME CooldownInv, BooksInv, [BookNext]_<<now, Book!bookVars>>
               PROVE  CooldownInv' /\ BooksInv'
    OBVIOUS
  <2>1. CooldownInv'
    BY <1>1, CooldownStep
  <2> QED
    BY <1>1, <2>1, BooksStep DEF CooldownInv
<1>4. BooksInv => BooksAgree
  <2> SUFFICES ASSUME BooksInv PROVE BooksAgree
    OBVIOUS
  <2>1. PICK m \in 1 .. Len(tally) + 1, n \in 0 .. Len(tally) : Counts(m, n, served.runs, served.failures)
    BY DEF BooksInv, MetricsInv
  <2>2. served = [runs |-> served.runs, failures |-> served.failures]
    BY DEF BooksInv, MetricsInv
  <2>3. served = Book!Tally(m, n)
    BY <2>1, <2>2, BookCounts DEF Counts, Book!Tally
  <2>4. FailuresTold = Book!Cardinality({i \in 1 .. Len(toldOf) : toldOf[i] = "failed"})
    BY BookCounts DEF FailuresTold
  <2> QED
    BY <2>1, <2>3, <2>4 DEF BooksInv, RegistryInv, ReporterInv, BooksAgree, Book!BooksAgree
<1> QED
  BY <1>2, <1>3, <1>4, BookSpecHolds, PTL DEF Book!Spec, BookNext

-----------------------------------------------------------------------------
(* Monitors: what a monitor remembers, and who knows of what it finds.      *)

(* What a monitor has marked of a key tells what it was told of last.       *)
Remembered(k) ==
    CASE kind \in {"watchdog", "heartbeat"} ->
             /\ marked[k] \in Nat \cup {Never}
             /\ told[k] = IF marked[k] = Never THEN Never
                          ELSE [at |-> marked[k], what |-> marked[k]]
      [] kind = "sla" ->
             IF marked[k] = Never THEN told[k] = Never \/ k \in recovered
             ELSE told[k] # Never /\ k \notin recovered
      [] kind = "deadline" ->
             /\ marked[k] \in Nat \cup {Never}
             /\ told[k] # Never => marked[k] # Never /\ told[k].at \div Day <= marked[k]
             /\ marked[k] # Never =>
                    /\ marked[k] <= roundNow \div Day
                    /\ k \in lost \/ (told[k] # Never /\ told[k].at \div Day = marked[k])
      [] kind = "group" -> told[k] = Never <=> marked[k] = Never
      [] kind = "command" ->
             told[k] # Never => marked[k] # Never /\ (told[k].what = marked[k] \/ k \in lost)
      [] OTHER -> TRUE

(* Somebody knows of a violation, or never will.                            *)
Settled(k) == Covers(k) \/ (kind \in {"deadline", "command"} /\ k \in lost)

(* The round has yet to come to it, or is past it.  The monitors that find  *)
(* violations on their way find none at a job they will look at again.      *)
Accounted(k) ==
    IF kind \in {"sla", "command"} THEN k \notin ToSet(todo) /\ Settled(k)
    ELSE k \in ToSet(todo) \/ Settled(k)

MonitorInv ==
    /\ TypeOK
    /\ roundNow <= now
    /\ kind # "group" => todo \in Seq(Job) /\ IsInjective(todo)
    /\ \A k \in Key : Remembered(k)
    /\ ~cutShort => \A k \in suspects : Accounted(k)

Violation == {"watchdog", "heartbeat", "deadline", "group"}

(* Whole days do not go back.                                               *)
LEMMA DaysPass ==
  ASSUME NEW a \in Nat, NEW b \in Nat, a <= b
  PROVE  a \div Day \in Nat /\ a \div Day <= b \div Day
<1>1. Day \in Nat \ {0}
  BY MonitorsAssumption DEF MonitorsAssumption
<1> QED
  BY <1>1

(* A filter of a list without repetitions has none.                         *)
LEMMA OnlyInjective ==
  ASSUME NEW E, NEW s \in Seq(E), IsInjective(s), NEW S
  PROVE  Only(s, S) \in Seq(E) /\ IsInjective(Only(s, S))
<1> DEFINE u == Only(s, S)
<1>1. u \in Seq(E) /\ \E f : Picks(f, u, s, S)
  BY OnlyProperties
<1> HIDE DEF u
<1>2. PICK f : Picks(f, u, s, S)
  BY <1>1
<1>3. Len(u) \in Nat /\ DOMAIN u = 1 .. Len(u) /\ DOMAIN s = 1 .. Len(s)
  BY <1>1
<1>4. ASSUME NEW m \in 1 .. Len(u), NEW n \in 1 .. Len(u), u[m] = u[n] PROVE m = n
  <2>1. f[m] \in 1 .. Len(s) /\ f[n] \in 1 .. Len(s) /\ s[f[m]] = s[f[n]]
    BY <1>2, <1>4 DEF Picks
  <2>2. f[m] = f[n]
    BY <1>3, <2>1 DEF IsInjective
  <2>3. ~(m < n) /\ ~(n < m)
    BY <1>2, <2>1, <2>2 DEF Picks
  <2> QED
    BY <1>3, <2>3
<1>5. IsInjective(u)
  BY <1>3, <1>4 DEF IsInjective
<1> QED
  BY <1>1, <1>5 DEF u

(* What remains of a round when its first key was looked at.                *)
LEMMA TailProperties ==
  ASSUME NEW E, NEW s \in Seq(E), s # <<>>
  PROVE  /\ Tail(s) \in Seq(E) /\ Head(s) \in E
         /\ \A k : k \in ToSet(s) => k = Head(s) \/ k \in ToSet(Tail(s))
         /\ ToSet(Tail(s)) \subseteq ToSet(s)
         /\ IsInjective(s) => IsInjective(Tail(s)) /\ Head(s) \notin ToSet(Tail(s))
<1>1. /\ Tail(s) \in Seq(E) /\ Head(s) = s[1] /\ Head(s) \in E
      /\ Len(s) \in Nat /\ Len(s) >= 1 /\ Len(Tail(s)) = Len(s) - 1
      /\ \A m \in 1 .. (Len(s) - 1) : Tail(s)[m] = s[m + 1]
      /\ DOMAIN s = 1 .. Len(s) /\ DOMAIN Tail(s) = 1 .. (Len(s) - 1)
  OBVIOUS
<1> DEFINE t == Tail(s)
           n == Len(s)
           h == Head(s)
<1>2. /\ n \in Nat /\ n >= 1 /\ h = s[1] /\ DOMAIN s = 1 .. n /\ DOMAIN t = 1 .. (n - 1)
      /\ \A m \in 1 .. (n - 1) : t[m] = s[m + 1]
  BY <1>1
<1> HIDE DEF t, n, h
<1>3. ASSUME NEW k \in ToSet(s), k # h PROVE k \in ToSet(t)
  <2>1. PICK m \in 1 .. n : s[m] = k
    BY <1>2 DEF ToSet
  <2>2. m # 1 /\ m - 1 \in 1 .. (n - 1) /\ (m - 1) + 1 = m
    BY <1>2, <1>3, <2>1
  <2>3. t[m - 1] = k
    BY <1>2, <2>1, <2>2
  <2> QED
    BY <1>2, <2>2, <2>3 DEF ToSet
<1>4. ToSet(t) \subseteq ToSet(s)
  <2>1. \A m \in 1 .. (n - 1) : m + 1 \in 1 .. n
    BY <1>2
  <2> QED
    BY <1>2, <2>1 DEF ToSet
<1>5. ASSUME IsInjective(s) PROVE IsInjective(t) /\ h \notin ToSet(t)
  <2>1. ASSUME NEW a \in 1 .. (n - 1), NEW b \in 1 .. (n - 1), t[a] = t[b] PROVE a = b
    <3>1. a + 1 \in 1 .. n /\ b + 1 \in 1 .. n /\ s[a + 1] = s[b + 1]
      BY <1>2, <2>1
    <3>2. a + 1 = b + 1
      BY <1>2, <1>5, <3>1 DEF IsInjective
    <3> QED
      BY <3>2
  <2>2. ASSUME NEW a \in 1 .. (n - 1), t[a] = h PROVE FALSE
    <3>1. a + 1 \in 1 .. n /\ 1 \in 1 .. n /\ s[a + 1] = s[1]
      BY <1>2, <2>2
    <3>2. a + 1 = 1
      BY <1>2, <1>5, <3>1 DEF IsInjective
    <3> QED
      BY <3>2
  <2> QED
    BY <1>2, <2>1, <2>2 DEF IsInjective, ToSet
<1> QED
  BY <1>1, <1>3, <1>4, <1>5 DEF t, h

(* What a round goes through is some of the jobs, each of them once, or     *)
(* some of the groups.                                                      *)
LEMMA ListedProperties ==
  /\ Listed \in Seq(Key)
  /\ kind # "group" => Listed \in Seq(Job) /\ IsInjective(Listed)
<1>1. Jobs \in Seq(Job) /\ IsInjective(Jobs) /\ Groups \in Seq(ToSet(Groups))
  BY MonitorsAssumption DEF MonitorsAssumption
<1>2. Seq(Job) \subseteq Seq(Key) /\ Seq(ToSet(Groups)) \subseteq Seq(Key)
  BY DEF Key
<1>3. \A S : Only(Jobs, S) \in Seq(Job) /\ IsInjective(Only(Jobs, S))
  BY <1>1, OnlyInjective
<1>4. \A S : Only(Groups, S) \in Seq(ToSet(Groups))
  BY <1>1, OnlyProperties
<1>5. CASE kind = "group"
  BY <1>2, <1>4, <1>5 DEF Listed
<1>6. CASE kind # "group"
  <2>1. Listed \in Seq(Job) /\ IsInjective(Listed)
    BY <1>1, <1>3, <1>6 DEF Listed
  <2> QED
    BY <1>2, <1>6, <2>1
<1> QED
  BY <1>5, <1>6

(* A round begins.                                                          *)
LEMMA StartRoundKeeps ==
  ASSUME MonitorInv, StartRound, now' = now
  PROVE  MonitorInv'
<1>1. /\ roundNow' = now /\ todo' = Listed /\ todo = <<>>
      /\ suspects' = IF kind \in {"sla", "command"} THEN {} ELSE ToSet(Listed)
      /\ cutShort' = FALSE
      /\ UNCHANGED <<kind, runs, beat, dispatched, command, edits, restarts, marked, told, recovered, lost>>
  BY DEF StartRound, world
<1>2. todo' \in Seq(Key) /\ (kind' # "group" => todo' \in Seq(Job) /\ IsInjective(todo'))
  BY <1>1, ListedProperties
<1>3. \A k \in ToSet(todo') : k \in Key
  BY <1>2 DEF ToSet
<1>4. TypeOK'
  BY <1>1, <1>2, <1>3 DEF MonitorInv, TypeOK
<1>5. ASSUME NEW k \in Key PROVE Remembered(k)'
  <2>1. Remembered(k) /\ roundNow \in Nat /\ now \in Nat /\ roundNow <= now
    BY DEF MonitorInv, TypeOK
  <2>2. roundNow \div Day \in Nat /\ now \div Day \in Nat /\ roundNow \div Day <= now \div Day
    BY <2>1, DaysPass
  <2>3. CASE kind # "deadline"
    BY <1>1, <2>1, <2>3 DEF Remembered
  <2>4. CASE kind = "deadline"
    <3>1. marked[k] # Never => marked[k] \in Nat /\ marked[k] <= roundNow' \div Day
      BY <1>1, <2>1, <2>2, <2>4 DEF Remembered
    <3> QED
      BY <1>1, <2>1, <2>4, <3>1 DEF Remembered
  <2> QED
    BY <2>3, <2>4
<1>6. \A k \in suspects' : Accounted(k)'
  BY <1>1 DEF Accounted
<1>7. roundNow' <= now'
  BY <1>1 DEF MonitorInv, TypeOK
<1> QED
  BY <1>2, <1>4, <1>5, <1>6, <1>7 DEF MonitorInv

(* A turn, seen from the keys it is not about.                              *)
Aside(k) ==
    /\ kind' = kind /\ roundNow' = roundNow
    /\ \A v \in Key : v # k =>
           /\ marked'[v] = marked[v] /\ told'[v] = told[v]
           /\ v \in lost' <=> v \in lost
           /\ v \in recovered' <=> v \in recovered
           /\ v \in suspects' => v \in suspects

(* And from the one it is.                                                  *)
LEMMA TurnKeeps ==
  ASSUME MonitorInv, todo # <<>>, NEW k, k = Head(todo), Aside(k), TypeOK', now' = now,
         Remembered(k)',
         \/ todo' = <<>> /\ cutShort' = TRUE
         \/ todo' = Tail(todo) /\ cutShort' = cutShort /\ (~cutShort' /\ k \in suspects' => Settled(k)')
  PROVE  MonitorInv'
<1>1. /\ TypeOK /\ todo \in Seq(Key) /\ kind' = kind
      /\ kind # "group" => todo \in Seq(Job) /\ IsInjective(todo)
  BY DEF MonitorInv, TypeOK, Aside
<1>2. todo' \in Seq(Key)
  BY DEF TypeOK
<1>3. kind' # "group" => todo' \in Seq(Job) /\ IsInjective(todo')
  <2>1. CASE todo' = <<>>
    BY <2>1 DEF IsInjective
  <2>2. CASE todo' = Tail(todo)
    BY <1>1, <2>2, TailProperties
  <2> QED
    BY <2>1, <2>2
<1>4. ASSUME NEW v \in Key PROVE Remembered(v)'
  <2>1. CASE v = k
    BY <2>1
  <2>2. CASE v # k
    <3>1. Remembered(v)
      BY DEF MonitorInv
    <3> QED
      BY <2>2, <3>1 DEF Remembered, Aside
  <2> QED
    BY <2>1, <2>2
<1>5. ASSUME ~cutShort', NEW v \in suspects' PROVE Accounted(v)'
  <2>1. /\ todo' = Tail(todo) /\ ~cutShort /\ v \in Key
        /\ k \in suspects' => Settled(k)'
    BY <1>5 DEF TypeOK
  <2>2. CASE v = k
    <3>1. CASE kind \in {"sla", "command"}
      <4>1. k \notin ToSet(todo')
        BY <1>1, <2>1, <3>1, TailProperties
      <4> QED
        BY <1>1, <1>5, <2>1, <2>2, <4>1 DEF Accounted
    <3>2. CASE kind \notin {"sla", "command"}
      BY <1>1, <1>5, <2>1, <2>2, <3>2 DEF Accounted
    <3> QED
      BY <3>1, <3>2
  <2>3. CASE v # k
    <3>1. v \in suspects /\ Accounted(v)
      BY <1>5, <2>1, <2>3 DEF MonitorInv, Aside
    <3>2. Settled(v) => Settled(v)'
      BY <2>1, <2>3 DEF Settled, Covers, Aside
    <3>3. /\ v \in ToSet(todo) => v \in ToSet(todo')
          /\ v \notin ToSet(todo) => v \notin ToSet(todo')
      BY <1>1, <2>1, <2>3, TailProperties
    <3> QED
      BY <1>1, <3>1, <3>2, <3>3 DEF Accounted
  <2> QED
    BY <2>2, <2>3
<1>6. roundNow' <= now'
  BY DEF MonitorInv, Aside
<1> QED
  BY <1>3, <1>4, <1>5, <1>6 DEF MonitorInv

(* The four ways a turn can end.                                            *)
LEMMA TurnKey ==
  ASSUME MonitorInv, todo # <<>>
  PROVE  Head(todo) \in Key /\ (kind # "group" => Head(todo) \in Job)
BY TailProperties DEF MonitorInv, TypeOK

Stays(k) == todo' = Tail(todo) /\ cutShort' = cutShort /\ Aside(k)
Breaks(k) == todo' = <<>> /\ cutShort' = TRUE /\ Aside(k)

(* The alert arrives,                                                       *)
LEMMA TellShape ==
  ASSUME MonitorInv, todo # <<>>, NEW k, k = Head(todo), NEW mark \in Nat \cup Command, Tell(k, mark),
         now' = now, suspects' = suspects \/ suspects' = suspects \cup {k}
  PROVE  /\ Stays(k) /\ TypeOK'
         /\ marked'[k] = mark /\ told'[k] = [at |-> roundNow, what |-> mark]
         /\ k \notin lost' /\ k \notin recovered'
<1> USE DEF Tell, world
<1>1. TypeOK /\ k \in Key
  BY TurnKey DEF MonitorInv
<1>2. marked' \in [Key -> Nat \cup Command \cup {Never}] /\ marked'[k] = mark
  BY <1>1 DEF TypeOK
<1>3. [at |-> roundNow, what |-> mark] \in Alert
  BY <1>1 DEF TypeOK, Alert
<1>4. told' \in [Key -> Alert \cup {Never}] /\ told'[k] = [at |-> roundNow, what |-> mark]
  BY <1>1, <1>3 DEF TypeOK
<1>5. todo' \in Seq(Key)
  BY <1>1, TailProperties DEF TypeOK
<1>6. suspects' \subseteq Key
  BY <1>1 DEF TypeOK
<1>7. TypeOK'
  BY <1>1, <1>2, <1>4, <1>5, <1>6 DEF TypeOK
<1>8. Stays(k)
  BY <1>1 DEF Stays, Aside, TypeOK
<1> QED
  BY <1>2, <1>4, <1>7, <1>8

(* it raises before it is remembered,                                       *)
LEMMA FailShape ==
  ASSUME MonitorInv, todo # <<>>, NEW k, k = Head(todo), TellFails,
         now' = now, suspects' = suspects \/ suspects' = suspects \cup {k}
  PROVE  Breaks(k) /\ TypeOK' /\ UNCHANGED <<marked, told, lost, recovered>>
<1> USE DEF TellFails, world
<1>1. TypeOK /\ k \in Key
  BY TurnKey DEF MonitorInv
<1>2. suspects' \subseteq Key /\ todo' \in Seq(Key)
  BY <1>1 DEF TypeOK
<1>3. TypeOK'
  BY <1>1, <1>2 DEF TypeOK
<1> QED
  BY <1>3 DEF Breaks, Aside

(* or after,                                                                *)
LEMMA FailMarkedShape ==
  ASSUME MonitorInv, todo # <<>>, NEW k, k = Head(todo), NEW mark \in Nat \cup Command, TellFailsMarked(k, mark),
         now' = now, suspects' = suspects \/ suspects' = suspects \cup {k}
  PROVE  /\ Breaks(k) /\ TypeOK' /\ UNCHANGED <<told, recovered>>
         /\ marked'[k] = mark /\ k \in lost'
<1> USE DEF TellFailsMarked, world
<1>1. TypeOK /\ k \in Key
  BY TurnKey DEF MonitorInv
<1>2. suspects' \subseteq Key /\ todo' \in Seq(Key) /\ lost' \subseteq Key
  BY <1>1 DEF TypeOK
<1>3. marked' \in [Key -> Nat \cup Command \cup {Never}] /\ marked'[k] = mark
  BY <1>1 DEF TypeOK
<1>4. TypeOK'
  BY <1>1, <1>2, <1>3 DEF TypeOK
<1>5. Breaks(k)
  BY <1>1 DEF Breaks, Aside, TypeOK
<1> QED
  BY <1>3, <1>4, <1>5

(* or there is nothing to say.                                              *)
LEMMA PassShape ==
  ASSUME MonitorInv, todo # <<>>, NEW k, k = Head(todo), Pass(k), UNCHANGED recovered,
         now' = now, suspects' = suspects \/ suspects' = suspects \cup {k}
  PROVE  Stays(k) /\ TypeOK' /\ UNCHANGED <<marked, told, lost, recovered>>
<1> USE DEF Pass, world
<1>1. TypeOK /\ k \in Key
  BY TurnKey DEF MonitorInv
<1>2. suspects' \subseteq Key
  BY <1>1 DEF TypeOK
<1>3. todo' \in Seq(Key)
  BY <1>1, TailProperties DEF TypeOK
<1>4. TypeOK'
  BY <1>1, <1>2, <1>3 DEF TypeOK
<1> QED
  BY <1>4 DEF Stays, Aside

(* What the turns make of it: a turn that goes on settles its key, one that *)
(* is broken off still remembers it.                                        *)
Settles(k) ==
    /\ TypeOK' /\ Remembered(k)'
    /\ Breaks(k) \/ (Stays(k) /\ (~cutShort' /\ k \in suspects' => Settled(k)'))

(* And an alert that follows another may follow it.                         *)
Spaced == \A v \in Key : told'[v] # told[v] /\ Never \notin {told[v], told'[v]} =>
                              MayFollow(v, told[v], told'[v])

(* No other key is told of, so that is a matter of the one.                 *)
LEMMA SpacedWhen ==
  ASSUME NEW k, Aside(k), k \in Key => told'[k] = told[k] \/ told[k] = Never \/ MayFollow(k, told[k], told'[k])
  PROVE  Spaced
BY DEF Spaced, Aside

(* An alert is not Never, nor is a time or a command.                       *)
LEMMA NeverIsNone ==
  ASSUME NEW a \in Nat \cup Command \cup Alert
  PROVE  a # Never
BY MonitorsAssumption DEF MonitorsAssumption, Alert

(* The watchdog and the heartbeat monitor remember when they sent an alert  *)
(* (watchdog.py:108, heartbeat_monitor.py:61).                              *)
LEMMA TimedTurn ==
  ASSUME MonitorInv, todo # <<>>, NEW k, k = Head(todo), now' = now,
         WatchdogTurn(k) \/ HeartbeatTurn(k)
  PROVE  Settles(k) /\ Spaced
<1>1. /\ kind \in {"watchdog", "heartbeat"} /\ suspects' = suspects
      /\ TypeOK /\ k \in Key /\ k \in Job /\ roundNow \in Nat
  BY TurnKey DEF MonitorInv, TypeOK, WatchdogTurn, HeartbeatTurn
<1>2. WatchGap \in Nat \ {0} /\ Ttl[k] \in Nat
  BY <1>1, MonitorsAssumption DEF MonitorsAssumption
<1>3. /\ marked[k] \in Nat \cup {Never}
      /\ told[k] = IF marked[k] = Never THEN Never ELSE [at |-> marked[k], what |-> marked[k]]
  BY <1>1 DEF MonitorInv, Remembered
<1>4. CASE Tell(k, roundNow) /\ (marked[k] = Never \/ IF kind = "watchdog" THEN roundNow - marked[k] >= WatchGap
                                                      ELSE roundNow - marked[k] > Ttl[k])
  <2>1. /\ Stays(k) /\ TypeOK' /\ k \notin lost' /\ k \notin recovered'
        /\ marked'[k] = roundNow /\ told'[k] = [at |-> roundNow, what |-> roundNow]
    BY <1>1, <1>4, TellShape
  <2>2. kind' = kind /\ roundNow' = roundNow
    BY <2>1 DEF Stays, Aside
  <2>3. roundNow # Never /\ told'[k] # Never /\ told'[k].at = roundNow
    <3>1. told'[k] \in Alert
      BY <1>1, <2>1 DEF Alert
    <3> QED
      BY <1>1, <2>1, <3>1, NeverIsNone
  <2>4. Remembered(k)'
    BY <1>1, <2>1, <2>2, <2>3 DEF Remembered
  <2>5. Settled(k)'
    BY <1>1, <1>2, <2>2, <2>3 DEF Settled, Covers
  <2>6. told[k] = Never \/ MayFollow(k, told[k], told'[k])
    <3>1. CASE marked[k] = Never
      BY <1>3, <3>1
    <3>2. CASE marked[k] # Never
      <4>1. told[k].at = marked[k]
        BY <1>3, <3>2
      <4>2. CASE kind = "watchdog"
        BY <1>4, <2>3, <3>2, <4>1, <4>2 DEF MayFollow
      <4>3. CASE kind = "heartbeat"
        BY <1>4, <2>3, <3>2, <4>1, <4>3 DEF MayFollow
      <4> QED
        BY <1>1, <4>2, <4>3
    <3> QED
      BY <3>1, <3>2
  <2>7. Spaced
    BY <2>1, <2>6, SpacedWhen DEF Stays
  <2> QED
    BY <2>1, <2>4, <2>5, <2>7 DEF Settles
<1>5. CASE TellFails
  <2>1. Breaks(k) /\ TypeOK' /\ UNCHANGED <<marked, told, lost, recovered>>
    BY <1>1, <1>5, FailShape
  <2>2. Remembered(k)'
    BY <1>1, <1>3, <2>1 DEF Remembered, Breaks, Aside
  <2> QED
    BY <2>1, <2>2, SpacedWhen DEF Settles, Breaks
<1>6. CASE Pass(k) /\ UNCHANGED recovered /\ marked[k] # Never
           /\ IF kind = "watchdog" THEN ~(roundNow - marked[k] >= WatchGap) ELSE ~(roundNow - marked[k] > Ttl[k])
  <2>1. Stays(k) /\ TypeOK' /\ UNCHANGED <<marked, told, lost, recovered>>
    BY <1>1, <1>6, PassShape
  <2>2. kind' = kind /\ roundNow' = roundNow
    BY <2>1 DEF Stays, Aside
  <2>3. Remembered(k)'
    BY <1>1, <1>3, <2>1, <2>2 DEF Remembered
  <2>4. told[k] \in Alert /\ told[k].at = marked[k] /\ marked[k] \in Nat
    BY <1>1, <1>3, <1>6 DEF Alert
  <2>5. told'[k] # Never
    BY <2>1, <2>4, NeverIsNone
  <2>6. Settled(k)'
    BY <1>1, <1>2, <1>6, <2>1, <2>2, <2>4, <2>5 DEF Settled, Covers
  <2> QED
    BY <2>1, <2>3, <2>6, SpacedWhen DEF Settles, Stays
<1> QED
  BY <1>1, <1>4, <1>5, <1>6 DEF WatchdogTurn, HeartbeatTurn

(* A job the SLA alerter finds healthy may be told of again                 *)
(* (sla_alerter.py:18-19).                                                  *)
LEMMA SlaTurnSettles ==
  ASSUME MonitorInv, todo # <<>>, NEW k, k = Head(todo), now' = now, SlaTurn(k)
  PROVE  Settles(k) /\ Spaced
<1>1. kind = "sla" /\ TypeOK /\ k \in Key /\ k \in Job /\ roundNow \in Nat /\ todo \in Seq(Key)
  BY TurnKey DEF MonitorInv, TypeOK, SlaTurn
<1>2. IF marked[k] = Never THEN told[k] = Never \/ k \in recovered ELSE told[k] # Never /\ k \notin recovered
  BY <1>1 DEF MonitorInv, Remembered
<1>3. CASE Healthy(k)
  <2>1. /\ todo' = Tail(todo) /\ marked' = [marked EXCEPT ![k] = Never]
        /\ recovered' = recovered \cup {k}
        /\ UNCHANGED <<kind, runs, beat, dispatched, command, edits, restarts, roundNow, told,
                       suspects, lost, cutShort>>
    BY <1>3 DEF SlaTurn, world
  <2>2. marked' \in [Key -> Nat \cup Command \cup {Never}] /\ marked'[k] = Never
    BY <1>1, <2>1 DEF TypeOK
  <2>3. todo' \in Seq(Key) /\ recovered' \subseteq Key
    BY <1>1, <2>1, TailProperties DEF TypeOK
  <2>4. TypeOK'
    BY <1>1, <2>1, <2>2, <2>3 DEF TypeOK
  <2>5. Stays(k)
    BY <1>1, <2>1 DEF Stays, Aside, TypeOK
  <2>6. Remembered(k)'
    BY <1>1, <2>1, <2>2 DEF Remembered
  <2>7. ASSUME ~cutShort', k \in suspects' PROVE FALSE
    <3>1. Accounted(k)
      BY <2>1, <2>7 DEF MonitorInv
    <3>2. k \in ToSet(todo)
      <4>1. todo[1] = k /\ 1 \in DOMAIN todo
        BY <1>1
      <4> QED
        BY <4>1 DEF ToSet
    <3> QED
      BY <1>1, <3>1, <3>2 DEF Accounted
  <2> QED
    BY <2>1, <2>4, <2>5, <2>6, <2>7, SpacedWhen DEF Settles, Stays
<1>4. CASE ~Healthy(k) /\ marked[k] = Never /\ Tell(k, 0)
  <2>0. suspects' = suspects \cup {k}
    BY <1>4 DEF SlaTurn
  <2>1. /\ Stays(k) /\ TypeOK' /\ k \notin recovered'
        /\ marked'[k] = 0 /\ told'[k] = [at |-> roundNow, what |-> 0]
    BY <1>1, <1>4, <2>0, TellShape
  <2>2. told'[k] # Never /\ marked'[k] # Never
    <3>1. told'[k] \in Alert /\ marked'[k] \in Nat
      BY <1>1, <2>1 DEF Alert
    <3> QED
      BY <3>1, NeverIsNone
  <2>3. Remembered(k)' /\ Settled(k)'
    BY <1>1, <2>1, <2>2 DEF Remembered, Settled, Covers, Stays, Aside
  <2>4. told[k] = Never \/ MayFollow(k, told[k], told'[k])
    BY <1>1, <1>2, <1>4 DEF MayFollow
  <2> QED
    BY <2>1, <2>3, <2>4, SpacedWhen DEF Settles, Stays
<1>5. CASE ~Healthy(k) /\ TellFails
  <2>0. suspects' = suspects \cup {k}
    BY <1>5 DEF SlaTurn
  <2>1. Breaks(k) /\ TypeOK' /\ UNCHANGED <<marked, told, lost, recovered>>
    BY <1>1, <1>5, <2>0, FailShape
  <2>2. Remembered(k)'
    BY <1>1, <1>2, <2>1 DEF Remembered, Breaks, Aside
  <2> QED
    BY <2>1, <2>2, SpacedWhen DEF Settles, Breaks
<1>6. CASE ~Healthy(k) /\ marked[k] # Never /\ Pass(k) /\ UNCHANGED recovered
  <2>0. suspects' = suspects \cup {k}
    BY <1>6 DEF SlaTurn
  <2>1. Stays(k) /\ TypeOK' /\ UNCHANGED <<marked, told, lost, recovered>>
    BY <1>1, <1>6, <2>0, PassShape
  <2>2. Remembered(k)' /\ Settled(k)'
    BY <1>1, <1>2, <1>6, <2>1 DEF Remembered, Settled, Covers, Stays, Aside
  <2> QED
    BY <2>1, <2>2, SpacedWhen DEF Settles, Stays
<1> QED
  BY <1>3, <1>4, <1>5, <1>6 DEF SlaTurn

(* The deadline alerter remembers the day, before it sends                  *)
(* (deadline_alerter.py:20, 40-42).                                         *)
LEMMA DeadlineTurnSettles ==
  ASSUME MonitorInv, todo # <<>>, NEW k, k = Head(todo), now' = now, DeadlineTurn(k)
  PROVE  Settles(k) /\ Spaced
<1> DEFINE today == roundNow \div Day
<1>1. /\ kind = "deadline" /\ suspects' = suspects
      /\ TypeOK /\ k \in Key /\ roundNow \in Nat
  BY TurnKey DEF MonitorInv, TypeOK, DeadlineTurn
<1>2. today \in Nat
  BY <1>1, DaysPass
<1>3. /\ marked[k] \in Nat \cup {Never}
      /\ told[k] # Never => marked[k] # Never /\ told[k].at \div Day <= marked[k]
      /\ marked[k] # Never =>
             /\ marked[k] <= today
             /\ k \in lost \/ (told[k] # Never /\ told[k].at \div Day = marked[k])
  BY <1>1 DEF MonitorInv, Remembered
<1>4. told[k] # Never => told[k].at \in Nat /\ told[k].at \div Day \in Nat
  <2>1. told[k] # Never => told[k].at \in Nat
    BY <1>1 DEF TypeOK, Alert
  <2> QED
    BY <2>1, DaysPass
<1>5. CASE marked[k] # today /\ Tell(k, today)
  <2>1. /\ Stays(k) /\ TypeOK'
        /\ marked'[k] = today /\ told'[k] = [at |-> roundNow, what |-> today]
    <3> HIDE DEF today
    <3> QED
      BY <1>1, <1>2, <1>5, TellShape
  <2>2. told'[k] # Never /\ told'[k].at = roundNow /\ today # Never
    <3>1. told'[k] \in Alert
      BY <1>1, <1>2, <2>1 DEF Alert
    <3> HIDE DEF today
    <3> QED
      BY <1>2, <2>1, <3>1, NeverIsNone
  <2>3. kind' = kind /\ roundNow' = roundNow /\ today' = today
    BY <2>1 DEF Stays, Aside
  <2>4. Remembered(k)'
    BY <1>1, <1>2, <2>1, <2>2, <2>3 DEF Remembered
  <2>5. Settled(k)'
    BY <1>1, <2>2, <2>3 DEF Settled, Covers
  <2>6. told[k] = Never \/ MayFollow(k, told[k], told'[k])
    <3>1. ASSUME told[k] # Never, told[k].at \div Day = today PROVE FALSE
      <4> HIDE DEF today
      <4>1. marked[k] \in Nat /\ today <= marked[k] /\ marked[k] <= today
        BY <1>3, <3>1
      <4> QED
        BY <1>2, <1>5, <4>1
    <3>2. told'[k].at \div Day = today
      BY <2>2
    <3> QED
      BY <1>1, <3>1, <3>2 DEF MayFollow
  <2> QED
    BY <2>1, <2>4, <2>5, <2>6, SpacedWhen DEF Settles, Stays
<1>6. CASE marked[k] # today /\ TellFailsMarked(k, today)
  <2>1. /\ Breaks(k) /\ TypeOK' /\ UNCHANGED <<told, recovered>>
        /\ marked'[k] = today /\ k \in lost'
    <3> HIDE DEF today
    <3> QED
      BY <1>1, <1>2, <1>6, FailMarkedShape
  <2>2. kind' = kind /\ today' = today
    BY <2>1 DEF Breaks, Aside
  <2>3. today # Never
    BY <1>2, NeverIsNone
  <2>4. told[k] # Never => told[k].at \div Day <= today
    <3> HIDE DEF today
    <3> QED
      BY <1>2, <1>3, <1>4
  <2>5. Remembered(k)'
    BY <1>1, <1>2, <2>1, <2>2, <2>3, <2>4 DEF Remembered
  <2> QED
    BY <2>1, <2>5, SpacedWhen DEF Settles, Breaks
<1>7. CASE marked[k] = today /\ Pass(k) /\ UNCHANGED recovered
  <2>1. Stays(k) /\ TypeOK' /\ UNCHANGED <<marked, told, lost, recovered>>
    BY <1>1, <1>7, PassShape
  <2>2. kind' = kind /\ roundNow' = roundNow
    BY <2>1 DEF Stays, Aside
  <2>3. Remembered(k)'
    BY <1>1, <1>3, <2>1, <2>2 DEF Remembered
  <2>4. today # Never
    BY <1>2, NeverIsNone
  <2>5. Settled(k)'
    BY <1>1, <1>3, <1>7, <2>1, <2>2, <2>4 DEF Settled, Covers
  <2> QED
    BY <2>1, <2>3, <2>5, SpacedWhen DEF Settles, Stays
<1> QED
  BY <1>5, <1>6, <1>7 DEF DeadlineTurn

(* A group is told of once until a reset (group_alert_policy.py:16).        *)
LEMMA GroupTurnSettles ==
  ASSUME MonitorInv, todo # <<>>, NEW k, k = Head(todo), now' = now, GroupTurn(k)
  PROVE  Settles(k) /\ Spaced
<1>1. /\ kind = "group" /\ suspects' = suspects
      /\ TypeOK /\ k \in Key /\ roundNow \in Nat
  BY TurnKey DEF MonitorInv, TypeOK, GroupTurn
<1>2. told[k] = Never <=> marked[k] = Never
  BY <1>1 DEF MonitorInv, Remembered
<1>3. CASE marked[k] = Never /\ Tell(k, 0)
  <2>1. /\ Stays(k) /\ TypeOK'
        /\ marked'[k] = 0 /\ told'[k] = [at |-> roundNow, what |-> 0]
    BY <1>1, <1>3, TellShape
  <2>2. told'[k] # Never /\ marked'[k] # Never
    <3>1. told'[k] \in Alert /\ marked'[k] \in Nat
      BY <1>1, <2>1 DEF Alert
    <3> QED
      BY <3>1, NeverIsNone
  <2>3. Remembered(k)' /\ Settled(k)'
    BY <1>1, <2>2, <2>1 DEF Remembered, Settled, Covers, Stays, Aside
  <2> QED
    BY <1>2, <1>3, <2>1, <2>3, SpacedWhen DEF Settles, Stays
<1>4. CASE TellFails
  <2>1. Breaks(k) /\ TypeOK' /\ UNCHANGED <<marked, told, lost, recovered>>
    BY <1>1, <1>4, FailShape
  <2>2. Remembered(k)'
    BY <1>1, <1>2, <2>1 DEF Remembered, Breaks, Aside
  <2> QED
    BY <2>1, <2>2, SpacedWhen DEF Settles, Breaks
<1>5. CASE marked[k] # Never /\ Pass(k) /\ UNCHANGED recovered
  <2>1. Stays(k) /\ TypeOK' /\ UNCHANGED <<marked, told, lost, recovered>>
    BY <1>1, <1>5, PassShape
  <2>2. Remembered(k)' /\ Settled(k)'
    BY <1>1, <1>2, <1>5, <2>1 DEF Remembered, Settled, Covers, Stays, Aside
  <2> QED
    BY <2>1, <2>2, SpacedWhen DEF Settles, Stays
<1> QED
  BY <1>3, <1>4, <1>5 DEF GroupTurn

(* A command that changed is told of, and stored before that                *)
(* (checksum_watcher.py:54-63).                                             *)
LEMMA CommandTurnSettles ==
  ASSUME MonitorInv, todo # <<>>, NEW k, k = Head(todo), now' = now, CommandTurn(k)
  PROVE  Settles(k) /\ Spaced
<1>1. /\ kind = "command" /\ TypeOK /\ k \in Key /\ k \in Job /\ roundNow \in Nat /\ todo \in Seq(Key)
      /\ command[k] \in Command
  BY TurnKey DEF MonitorInv, TypeOK, CommandTurn
<1>2. told[k] # Never => marked[k] # Never /\ (told[k].what = marked[k] \/ k \in lost)
  BY <1>1 DEF MonitorInv, Remembered
<1>3. ASSUME ~cutShort, k \in suspects PROVE FALSE
  <2>1. Accounted(k)
    BY <1>3 DEF MonitorInv
  <2>2. k \in ToSet(todo)
    <3>1. todo[1] = k /\ 1 \in DOMAIN todo
      BY <1>1
    <3> QED
      BY <3>1 DEF ToSet
  <2> QED
    BY <1>1, <2>1, <2>2 DEF Accounted
<1>4. CASE marked[k] = command[k] /\ Pass(k) /\ UNCHANGED <<recovered, suspects>>
  <2>1. Stays(k) /\ TypeOK' /\ UNCHANGED <<marked, told, lost, recovered>>
    BY <1>1, <1>4, PassShape
  <2>2. Remembered(k)'
    BY <1>1, <1>2, <2>1 DEF Remembered, Stays, Aside
  <2>3. ~(~cutShort' /\ k \in suspects')
    BY <1>3, <1>4, <2>1 DEF Stays
  <2>4. Spaced
    BY <2>1, SpacedWhen DEF Stays
  <2> QED
    BY <2>1, <2>2, <2>3, <2>4 DEF Settles
<1>5. CASE /\ marked[k] = Never
           /\ todo' = Tail(todo)
           /\ marked' = [marked EXCEPT ![k] = command[k]]
           /\ UNCHANGED <<kind, world, roundNow, told, suspects, recovered, lost, cutShort>>
  <2>1. marked' \in [Key -> Nat \cup Command \cup {Never}] /\ marked'[k] = command[k] /\ todo' \in Seq(Key)
    BY <1>1, <1>5, TailProperties DEF TypeOK
  <2>2. TypeOK'
    BY <1>1, <1>5, <2>1 DEF TypeOK, world
  <2>3. Stays(k)
    BY <1>1, <1>5 DEF Stays, Aside, TypeOK
  <2>4. Remembered(k)'
    BY <1>1, <1>2, <1>5 DEF Remembered
  <2>5. ~(~cutShort' /\ k \in suspects')
    BY <1>3, <1>5
  <2>6. Spaced
    BY <1>5, <2>3, SpacedWhen DEF Stays
  <2> QED
    BY <2>2, <2>3, <2>4, <2>5, <2>6 DEF Settles
<1>6. CASE marked[k] # command[k] /\ marked[k] # Never /\ suspects' = suspects \cup {k} /\ Tell(k, command[k])
  <2>1. /\ Stays(k) /\ TypeOK' /\ k \notin lost'
        /\ marked'[k] = command[k] /\ told'[k] = [at |-> roundNow, what |-> command[k]]
    BY <1>1, <1>6, TellShape
  <2>2. told'[k] # Never /\ marked'[k] # Never /\ told'[k].what = marked'[k]
    <3>1. told'[k] \in Alert /\ marked'[k] \in Command
      BY <1>1, <2>1 DEF Alert
    <3>2. told'[k].what = marked'[k]
      BY <2>1
    <3> QED
      BY <3>1, <3>2, NeverIsNone
  <2>3. Remembered(k)' /\ Settled(k)'
    BY <1>1, <2>1, <2>2 DEF Remembered, Settled, Covers, Stays, Aside
  <2>4. told[k] = Never \/ MayFollow(k, told[k], told'[k])
    BY <1>1, <1>2, <1>6, <2>1, <2>2 DEF MayFollow
  <2> QED
    BY <2>1, <2>3, <2>4, SpacedWhen DEF Settles, Stays
<1>7. CASE marked[k] # command[k] /\ marked[k] # Never /\ suspects' = suspects \cup {k} /\ TellFailsMarked(k, command[k])
  <2>1. /\ Breaks(k) /\ TypeOK' /\ UNCHANGED <<told, recovered>>
        /\ marked'[k] = command[k] /\ k \in lost'
    BY <1>1, <1>7, FailMarkedShape
  <2>2. marked'[k] # Never
    BY <1>1, <2>1, NeverIsNone
  <2>3. Remembered(k)'
    BY <1>1, <2>1, <2>2 DEF Remembered, Breaks, Aside
  <2> QED
    BY <2>1, <2>3, SpacedWhen DEF Settles, Breaks
<1> QED
  BY <1>4, <1>5, <1>6, <1>7 DEF CommandTurn

(* So every turn keeps the invariant, and its alert is one that may follow. *)
LEMMA TurnSettles ==
  ASSUME MonitorInv, Turn, now' = now
  PROVE  MonitorInv' /\ Spaced
<1>1. PICK k : k = Head(todo)
  OBVIOUS
<1>2. /\ todo # <<>>
      /\ \/ WatchdogTurn(k) \/ HeartbeatTurn(k) \/ SlaTurn(k)
         \/ DeadlineTurn(k) \/ GroupTurn(k) \/ CommandTurn(k)
  BY <1>1 DEF Turn
<1>3. Settles(k) /\ Spaced
  BY <1>1, <1>2, TimedTurn, SlaTurnSettles, DeadlineTurnSettles, GroupTurnSettles, CommandTurnSettles
<1>4. /\ Aside(k) /\ TypeOK' /\ Remembered(k)'
      /\ \/ todo' = <<>> /\ cutShort' = TRUE
         \/ todo' = Tail(todo) /\ cutShort' = cutShort /\ (~cutShort' /\ k \in suspects' => Settled(k)')
  BY <1>3 DEF Settles, Stays, Breaks
<1> QED
  BY <1>1, <1>2, <1>3, <1>4, TurnKeeps

(* What goes on around the monitors leaves what they remember alone.        *)
LEMMA WorldKeeps ==
  ASSUME MonitorInv, UNCHANGED Noticed, TypeOK', now <= now', now' \in Nat
  PROVE  MonitorInv' /\ Spaced
<1>1. UNCHANGED <<kind, marked, todo, roundNow, told, suspects, recovered, lost, cutShort>>
  BY DEF Noticed
<1>2. \A k : Remembered(k) => Remembered(k)'
  BY <1>1 DEF Remembered
<1>3. \A k : Accounted(k) => Accounted(k)'
  BY <1>1 DEF Accounted, Settled, Covers
<1>4. roundNow' <= now'
  BY <1>1 DEF MonitorInv, TypeOK
<1>5. Spaced
  BY <1>1 DEF Spaced
<1> QED
  BY <1>1, <1>2, <1>3, <1>4, <1>5 DEF MonitorInv

(* A run is recorded.                                                       *)
LEMMA RecordTypes ==
  ASSUME TypeOK, NEW j \in Job, RecordRun(j), now' = now
  PROVE  TypeOK'
<1> DEFINE some == IF kind \in {"sla", "group"} THEN Outcome ELSE {CHOOSE o \in Outcome : o.ok}
<1>1. some \subseteq Outcome /\ Outcome \subseteq [ok : BOOLEAN, took : Nat]
  BY MonitorsAssumption DEF MonitorsAssumption
<1>2. PICK o \in some : runs' = Append(runs, [job |-> j, at |-> now, ok |-> o.ok, took |-> o.took])
  BY DEF RecordRun
<1>3. o \in [ok : BOOLEAN, took : Nat]
  BY <1>1, <1>2
<1>4. [job |-> j, at |-> now, ok |-> o.ok, took |-> o.took] \in [job : Job, at : Nat, ok : BOOLEAN, took : Nat]
  BY <1>3 DEF TypeOK
<1>5. runs' \in Seq([job : Job, at : Nat, ok : BOOLEAN, took : Nat])
  <2>1. runs \in Seq([job : Job, at : Nat, ok : BOOLEAN, took : Nat])
    BY DEF TypeOK
  <2> QED
    BY <1>2, <1>4, <2>1
<1>6. dispatched' \in [Job -> Nat \cup {Never}]
  <2>1. \A f \in [Job -> Nat \cup {Never}], n \in Nat : [f EXCEPT ![j] = n] \in [Job -> Nat \cup {Never}]
    OBVIOUS
  <2>2. CASE kind = "deadline"
    BY <2>1, <2>2 DEF RecordRun, TypeOK
  <2>3. CASE kind # "deadline"
    BY <2>3 DEF RecordRun, TypeOK
  <2> QED
    BY <2>2, <2>3
<1> QED
  BY <1>5, <1>6 DEF RecordRun, Noticed, TypeOK

(* A heartbeat, or an edit of the configuration.                            *)
LEMMA EventTypes ==
  ASSUME TypeOK, NEW j \in Job, StartBeat(j) \/ EndBeat(j) \/ RemoveBeat(j) \/ Edit(j), now' = now
  PROVE  TypeOK'
<1>1. /\ UNCHANGED <<kind, marked, todo, roundNow, told, suspects, recovered, lost, cutShort, runs, dispatched, restarts>>
      /\ edits' = edits \/ edits' = edits + 1
  BY DEF StartBeat, EndBeat, RemoveBeat, Edit, Noticed
<1>2. beat' \in [Job -> [at : Nat, torn : BOOLEAN] \cup {Never}]
  <2>1. \A f \in [Job -> [at : Nat, torn : BOOLEAN] \cup {Never}], b \in [at : Nat, torn : BOOLEAN] \cup {Never} :
            [f EXCEPT ![j] = b] \in [Job -> [at : Nat, torn : BOOLEAN] \cup {Never}]
    OBVIOUS
  <2>2. CASE StartBeat(j)
    <3>1. [at |-> now, torn |-> TRUE] \in [at : Nat, torn : BOOLEAN]
      BY DEF TypeOK
    <3> QED
      BY <2>1, <2>2, <3>1 DEF StartBeat, TypeOK
  <2>3. CASE EndBeat(j)
    <3>1. beat[j] \in [at : Nat, torn : BOOLEAN] /\ beat' = [beat EXCEPT ![j] = [beat[j] EXCEPT !.torn = FALSE]]
      BY <2>3 DEF EndBeat, TypeOK
    <3>2. [beat[j] EXCEPT !.torn = FALSE] \in [at : Nat, torn : BOOLEAN]
      BY <3>1
    <3> QED
      BY <2>1, <3>1, <3>2 DEF TypeOK
  <2>4. CASE RemoveBeat(j)
    BY <2>1, <2>4 DEF RemoveBeat, TypeOK
  <2>5. CASE Edit(j)
    BY <2>5 DEF Edit, TypeOK
  <2> QED
    BY <2>2, <2>3, <2>4, <2>5
<1>3. command' \in [Job -> Command]
  BY DEF StartBeat, EndBeat, RemoveBeat, Edit, TypeOK
<1> QED
  BY <1>1, <1>2, <1>3 DEF TypeOK

(* What is forgotten of a key was never told, and nothing is found wrong    *)
(* with it.                                                                 *)
LEMMA ForgetKeeps ==
  ASSUME MonitorInv, NEW keys \in SUBSET Key, Forget(keys), now' = now,
         UNCHANGED <<kind, roundNow, runs, beat, command, edits>>,
         dispatched' \in [Job -> Nat \cup {Never}], restarts' \in Nat,
         \/ UNCHANGED <<todo, cutShort>>
         \/ todo' = <<>> /\ cutShort' = TRUE
  PROVE  MonitorInv' /\ Spaced
<1>1. TypeOK
  BY DEF MonitorInv
<1>2. /\ \A k \in Key : marked'[k] = IF k \in keys THEN Never ELSE marked[k]
      /\ \A k \in Key : told'[k] = IF k \in keys THEN Never ELSE told[k]
      /\ lost' = lost \ keys /\ recovered' = recovered \ keys /\ suspects' = suspects \ keys
  BY DEF Forget
<1>3. marked' \in [Key -> Nat \cup Command \cup {Never}] /\ told' \in [Key -> Alert \cup {Never}]
  BY <1>1 DEF Forget, TypeOK
<1>4. todo' \in Seq(Key) /\ cutShort' \in BOOLEAN /\ (kind # "group" => todo' \in Seq(Job) /\ IsInjective(todo'))
  <2>1. CASE UNCHANGED <<todo, cutShort>>
    BY <2>1 DEF MonitorInv, TypeOK
  <2>2. CASE todo' = <<>> /\ cutShort' = TRUE
    BY <2>2 DEF IsInjective
  <2> QED
    BY <2>1, <2>2
<1>5. TypeOK'
  BY <1>1, <1>2, <1>3, <1>4 DEF TypeOK
<1>6. ASSUME NEW k \in Key PROVE Remembered(k)'
  <2>1. CASE k \in keys
    <3>1. marked'[k] = Never /\ told'[k] = Never
      BY <1>2, <2>1
    <3> QED
      BY <3>1 DEF Remembered
  <2>2. CASE k \notin keys
    <3>1. /\ marked'[k] = marked[k] /\ told'[k] = told[k]
          /\ k \in lost' <=> k \in lost
          /\ k \in recovered' <=> k \in recovered
      BY <1>2, <2>2
    <3>2. Remembered(k)
      BY DEF MonitorInv
    <3> QED
      BY <3>1, <3>2 DEF Remembered
  <2> QED
    BY <2>1, <2>2
<1>7. ASSUME ~cutShort', NEW k \in suspects' PROVE Accounted(k)'
  <2>1. /\ ~cutShort /\ todo' = todo /\ k \in suspects /\ k \notin keys /\ k \in Key
        /\ kind' = kind /\ roundNow' = roundNow
    BY <1>1, <1>2, <1>7 DEF TypeOK
  <2>2. /\ marked'[k] = marked[k] /\ told'[k] = told[k]
        /\ k \in lost' <=> k \in lost
        /\ k \in recovered' <=> k \in recovered
    BY <1>2, <2>1
  <2>3. Accounted(k)
    BY <2>1 DEF MonitorInv
  <2> QED
    BY <2>1, <2>2, <2>3 DEF Accounted, Settled, Covers
<1>8. Spaced
  BY <1>2 DEF Spaced
<1>9. roundNow' <= now'
  BY DEF MonitorInv
<1> QED
  BY <1>4, <1>5, <1>6, <1>7, <1>8, <1>9 DEF MonitorInv

MonitorsNext == (Next /\ UNCHANGED now) \/ (now' = now + 1 /\ UNCHANGED monitorVars)

(* Every step of the monitors, and of their clock.                          *)
LEMMA MonitorsStep ==
  ASSUME MonitorInv, [MonitorsNext]_<<now, monitorVars>>
  PROVE  MonitorInv' /\ Spaced
<1>1. TypeOK /\ now \in Nat /\ restarts \in Nat
  BY DEF MonitorInv, TypeOK
<1>2. CASE StartRound /\ UNCHANGED now
  <2>1. Spaced
    BY <1>2 DEF StartRound, Spaced
  <2> QED
    BY <1>2, <2>1, StartRoundKeeps
<1>3. CASE Turn /\ UNCHANGED now
  BY <1>3, TurnSettles
<1>4. ASSUME NEW j \in Job, RecordRun(j), UNCHANGED now PROVE MonitorInv' /\ Spaced
  <2>1. UNCHANGED Noticed
    BY <1>4 DEF RecordRun
  <2>2. TypeOK'
    BY <1>1, <1>4, RecordTypes
  <2> QED
    BY <1>1, <1>4, <2>1, <2>2, WorldKeeps
<1>5. ASSUME NEW j \in Job, StartBeat(j) \/ EndBeat(j) \/ RemoveBeat(j) \/ Edit(j), UNCHANGED now PROVE MonitorInv' /\ Spaced
  <2>1. UNCHANGED Noticed
    BY <1>5 DEF StartBeat, EndBeat, RemoveBeat, Edit
  <2>2. TypeOK'
    BY <1>1, <1>5, EventTypes
  <2> QED
    BY <1>1, <1>5, <2>1, <2>2, WorldKeeps
<1>6. CASE ResetMonitor /\ UNCHANGED now
  <2>1. /\ UNCHANGED <<kind, todo, roundNow, cutShort, runs, beat, dispatched, command, edits>>
        /\ restarts' = restarts + 1
    BY <1>6 DEF ResetMonitor
  <2>2. PICK keys \in SUBSET Key : Forget(keys)
    BY <1>6 DEF ResetMonitor, Key
  <2>3. dispatched' \in [Job -> Nat \cup {Never}] /\ restarts' \in Nat
    BY <1>1, <2>1 DEF TypeOK
  <2> QED
    BY <1>6, <2>1, <2>2, <2>3, ForgetKeeps
<1>7. CASE Restart /\ UNCHANGED now
  <2>1. /\ UNCHANGED <<kind, roundNow, runs, beat, command, edits>>
        /\ restarts' = restarts + 1 /\ todo' = <<>> /\ cutShort' = TRUE
        /\ dispatched' = [j \in Job |-> Never]
    BY <1>7 DEF Restart
  <2>2. PICK keys \in SUBSET Key : Forget(keys)
    BY <1>7 DEF Restart
  <2>3. dispatched' \in [Job -> Nat \cup {Never}] /\ restarts' \in Nat
    BY <1>1, <2>1
  <2> QED
    BY <1>7, <2>1, <2>2, <2>3, ForgetKeeps
<1>8. CASE (now' = now + 1 \/ now' = now) /\ UNCHANGED monitorVars
  <2>1. UNCHANGED Noticed /\ TypeOK' /\ now <= now' /\ now' \in Nat
    BY <1>1, <1>8 DEF monitorVars, Noticed, TypeOK
  <2> QED
    BY <2>1, WorldKeeps
<1> QED
  BY <1>2, <1>3, <1>4, <1>5, <1>6, <1>7, <1>8 DEF MonitorsNext, Next

(* Nothing is marked at first, nor found.                                   *)
LEMMA MonitorsInit ==
  ASSUME Init, now = 0
  PROVE  MonitorInv
<1>1. todo = <<>> /\ IsInjective(todo)
  BY DEF Init, IsInjective
<1>2. ASSUME NEW k \in Key PROVE Remembered(k)
  BY <1>2 DEF Init, Remembered
<1>3. command \in [Job -> Command]
  <2>1. (CHOOSE c \in Command : TRUE) \in Command
    BY MonitorsAssumption DEF MonitorsAssumption
  <2> DEFINE some == IF kind = "command" THEN Command ELSE {CHOOSE c \in Command : TRUE}
  <2>2. some \subseteq Command
    BY <2>1
  <2>3. command \in [Job -> some]
    BY DEF Init
  <2> HIDE DEF some
  <2> QED
    BY <2>2, <2>3
<1>4. TypeOK
  <2>1. /\ kind \in Monitor /\ runs = <<>> /\ todo = <<>> /\ now = 0 /\ roundNow = 0
        /\ suspects = {} /\ recovered = {} /\ lost = {} /\ cutShort = FALSE
        /\ edits = 0 /\ restarts = 0
    BY DEF Init
  <2>2. /\ beat \in [Job -> [at : Nat, torn : BOOLEAN] \cup {Never}]
        /\ dispatched \in [Job -> Nat \cup {Never}]
    BY DEF Init
  <2>3. /\ marked \in [Key -> Nat \cup Command \cup {Never}]
        /\ told \in [Key -> Alert \cup {Never}]
    BY DEF Init
  <2>4. runs \in Seq([job : Job, at : Nat, ok : BOOLEAN, took : Nat]) /\ todo \in Seq(Key)
    BY <2>1
  <2>5. kind \in Monitor /\ now \in Nat /\ roundNow \in Nat /\ edits \in Nat /\ restarts \in Nat
    BY <2>1
  <2>6. suspects \subseteq Key /\ recovered \subseteq Key /\ lost \subseteq Key /\ cutShort \in BOOLEAN
    BY <2>1
  <2> QED
    BY <1>3, <2>2, <2>3, <2>4, <2>5, <2>6, Zenon DEF TypeOK
<1> QED
  BY <1>1, <1>2, <1>4 DEF Init, MonitorInv

(* The composition moves the monitors as they move by themselves.           *)
LEMMA MonitorInvHolds == MonitoringSpec => []MonitorInv /\ [][Spaced]_monitorVars
<1>1. MonitoringInit => MonitorInv
  BY MonitorsInit DEF MonitoringInit
<1>2. MonitorInv /\ [MonitoringNext]_<<part, now, monitorVars, throttleVars, graphVars, windowVars,
                                       bookVars, catalogVars>>
        => MonitorInv' /\ [Spaced]_monitorVars
  <2> SUFFICES ASSUME MonitorInv, [MonitoringNext]_<<part, now, monitorVars, throttleVars, graphVars,
                                                     windowVars, bookVars, catalogVars>>
               PROVE  MonitorInv' /\ [Spaced]_monitorVars
    OBVIOUS
  <2>1. [MonitorsNext]_<<now, monitorVars>>
    BY DEF MonitoringNext, AdvanceClock, MonitorsNext
  <2> QED
    BY <2>1, MonitorsStep
<1> QED
  BY <1>1, <1>2, PTL DEF MonitoringSpec

(* Every variable of the monitors has its type.                             *)
THEOREM MonitorTypesHold == MonitoringSpec => []TypeOK
<1>1. MonitorInv => TypeOK
  BY DEF MonitorInv
<1> QED
  BY <1>1, MonitorInvHolds, PTL

(* When a round has ended and no alert in it raised, somebody knows of      *)
(* every violation it found, except where an alert was marked before it     *)
(* raised (deadline_alerter.py:40-42, checksum_watcher.py:54-63): for any   *)
(* jobs, groups, intervals and deadlines, and whatever runs, raises, resets *)
(* or restarts in between.                                                  *)
THEOREM NobodyForgottenHolds == MonitoringSpec => []NobodyForgotten
<1>1. MonitorInv => NobodyForgotten
  <2> SUFFICES ASSUME MonitorInv, todo = <<>>, ~cutShort, NEW k \in suspects
               PROVE  Settled(k)
    BY DEF NobodyForgotten, Settled
  <2>1. ToSet(todo) = {}
    BY DEF ToSet
  <2> QED
    BY <2>1 DEF MonitorInv, Accounted
<1> QED
  BY <1>1, MonitorInvHolds, PTL

(* Two alerts about the same thing are as far apart as the monitor says     *)
(* (watchdog.py:108, heartbeat_monitor.py:61, sla_alerter.py:18-19,         *)
(* deadline_alerter.py:20, group_alert_policy.py:16), likewise.             *)
THEOREM AlertsAreSpacedHolds == MonitoringSpec => AlertsAreSpaced
<1>1. Spaced => \A k \in Key : told'[k] # told[k] /\ Never \notin {told[k], told'[k]} =>
                                MayFollow(k, told[k], told'[k])
  BY DEF Spaced
<1> QED
  BY <1>1, MonitorInvHolds, PTL DEF AlertsAreSpaced
-----------------------------------------------------------------------------
(* Dependencies *)

(* What a node depends on in the graph G, and the nodes there are in it.    *)
DepsIn(G, n) == IF n \in Configured THEN G[n] ELSE {}
NodesIn(G) == Configured \cup UNION {G[n] : n \in Configured}
Frame == [node : Graph!Name, left : SUBSET Graph!Name]

(* A stack of calls of visit(), when the nodes of V have been visited: each *)
(* call has dealt with what its node depends on, but for what is left and   *)
(* for the call above it.                                                   *)
Stacked(s, V, G) ==
    /\ s \in Seq(Frame)
    /\ \A i \in 1..Len(s) :
           /\ s[i].node \in NodesIn(G) /\ s[i].node \notin V
           /\ s[i].left \subseteq DepsIn(G, s[i].node)
           /\ \A d \in DepsIn(G, s[i].node) :
                  \/ d \in s[i].left \/ d \in V
                  \/ i < Len(s) /\ d = s[i + 1].node
           /\ i < Len(s) => s[i + 1].node \in DepsIn(G, s[i].node)
    /\ \A i \in 1..Len(s) : \A k \in 1..Len(s) : s[i].node = s[k].node => i = k

(* An order lists each node of V once, after all it depends on.             *)
Ordered(o, V, G) ==
    /\ o \in Seq(Graph!Name)
    /\ \A i \in 1..Len(o) : o[i] \in V
    /\ \A n \in V : \E i \in 1..Len(o) : o[i] = n
    /\ \A i \in 1..Len(o) : \A k \in 1..Len(o) : o[i] = o[k] => i = k
    /\ \A i \in 1..Len(o) : \A d \in DepsIn(G, o[i]) : \E k \in 1..(i - 1) : o[k] = d

(* The search of a graph.                                                   *)
GraphInv ==
    /\ deps \in [Configured -> SUBSET Graph!Name]
    /\ roots \subseteq Configured /\ completed \subseteq Configured
    /\ visited \subseteq NodesIn(deps)
    /\ Ordered(order, visited, deps)
    /\ search = "searching" =>
           /\ Stacked(stack, visited, deps)
           /\ \A n \in Configured : n \in roots \/ n \in visited \/ n \in Graph!InStack
    /\ search = "done" => Configured \subseteq visited
    /\ search = "cycle" => \E S \in SUBSET Configured : Graph!Cyclic(S)
    /\ search \in {"searching", "done", "cycle"}

(* The stack when the call on top has taken one more dependency.            *)
Taken(s, d) == [s EXCEPT ![Len(s)].left = s[Len(s)].left \ {d}]

(* A call that has found one dependency visited leaves it behind.           *)
LEMMA LeaveBehind ==
  ASSUME NEW s, NEW V, NEW G, Stacked(s, V, G), s # <<>>, NEW d
  PROVE  /\ Taken(s, d) \in Seq(Frame) /\ Len(Taken(s, d)) = Len(s)
         /\ \A i \in 1..Len(s) : Taken(s, d)[i].node = s[i].node
         /\ \A i \in 1..Len(s) : i < Len(s) => Taken(s, d)[i].left = s[i].left
         /\ Taken(s, d)[Len(s)].left = s[Len(s)].left \ {d}
         /\ d \in V => Stacked(Taken(s, d), V, G)
<1> DEFINE b == Taken(s, d)
<1>1. s \in Seq(Frame) /\ Len(s) \in Nat /\ Len(s) \in 1..Len(s)
  BY DEF Stacked
<1>2. PICK f : f = [s[Len(s)] EXCEPT !.left = s[Len(s)].left \ {d}]
  OBVIOUS
<1>3. /\ s[Len(s)] \in Frame
      /\ f \in Frame /\ f.node = s[Len(s)].node /\ f.left = s[Len(s)].left \ {d}
  <2>1. s[Len(s)] \in Frame
    BY <1>1
  <2> QED
    BY <1>2, <2>1 DEF Frame
<1>4. b = [s EXCEPT ![Len(s)] = f]
  BY <1>2 DEF Taken
<1> HIDE DEF b
<1>5. b \in Seq(Frame) /\ Len(b) = Len(s)
      /\ \A i \in 1..Len(s) : b[i] = IF i = Len(s) THEN f ELSE s[i]
  <2>1. PICK n \in 1..Len(s) : n = Len(s)
    BY <1>1
  <2>2. /\ [s EXCEPT ![n] = f] \in Seq(Frame)
        /\ Len([s EXCEPT ![n] = f]) = Len(s)
        /\ \A j \in 1..Len(s) : [s EXCEPT ![n] = f][j] = IF j = n THEN f ELSE s[j]
    BY <1>1, <1>3, ExceptSeq
  <2> QED
    BY <1>4, <2>1, <2>2
<1>6. /\ \A i \in 1..Len(s) : b[i].node = s[i].node
      /\ \A i \in 1..Len(s) : i < Len(s) => b[i].left = s[i].left
      /\ b[Len(s)].left = s[Len(s)].left \ {d}
  BY <1>1, <1>3, <1>5
<1>7. ASSUME d \in V PROVE Stacked(b, V, G)
  <2> SUFFICES
         /\ \A i \in 1..Len(s) :
           /\ b[i].node \in NodesIn(G) /\ b[i].node \notin V
           /\ b[i].left \subseteq DepsIn(G, b[i].node)
           /\ \A e \in DepsIn(G, b[i].node) :
                  \/ e \in b[i].left \/ e \in V
                  \/ i < Len(s) /\ e = b[i + 1].node
           /\ i < Len(s) => b[i + 1].node \in DepsIn(G, b[i].node)
         /\ \A i \in 1..Len(s) : \A k \in 1..Len(s) : b[i].node = b[k].node => i = k
    BY <1>5 DEF Stacked
  <2>1. ASSUME NEW i \in 1..Len(s)
        PROVE /\ b[i].node \in NodesIn(G) /\ b[i].node \notin V
              /\ b[i].left \subseteq DepsIn(G, b[i].node)
    BY <1>6, <2>1 DEF Stacked
  <2>2. ASSUME NEW i \in 1..Len(s), NEW e \in DepsIn(G, b[i].node)
        PROVE \/ e \in b[i].left \/ e \in V
              \/ i < Len(s) /\ e = b[i + 1].node
    <3>1. \/ e \in s[i].left \/ e \in V
          \/ i < Len(s) /\ e = s[i + 1].node
      BY <1>6, <2>2 DEF Stacked
    <3>2. e \in s[i].left => e \in b[i].left \/ e = d
      BY <1>1, <1>6
    <3>3. i < Len(s) => s[i + 1].node = b[i + 1].node
      BY <1>1, <1>6
    <3> QED
      BY <1>7, <3>1, <3>2, <3>3
  <2>3. ASSUME NEW i \in 1..Len(s), i < Len(s)
        PROVE b[i + 1].node \in DepsIn(G, b[i].node)
    BY <1>1, <1>6, <2>3 DEF Stacked
  <2>4. \A i \in 1..Len(s) : \A k \in 1..Len(s) : b[i].node = b[k].node => i = k
    BY <1>6 DEF Stacked
  <2> QED
    BY <2>1, <2>2, <2>3, <2>4
<1> QED
  BY <1>5, <1>6, <1>7 DEF b

(* A call of visit() for a node that is neither visited nor on the stack.   *)
LEMMA PushCall ==
  ASSUME NEW s, NEW V, NEW G, Stacked(s, V, G), s # <<>>,
         G \in [Configured -> SUBSET Graph!Name],
         NEW d \in s[Len(s)].left, d \notin V, \A i \in 1..Len(s) : s[i].node # d,
         NEW f \in Frame, f.node = d, f.left = DepsIn(G, d)
  PROVE  Stacked(Append(Taken(s, d), f), V, G)
<1> DEFINE b == Taken(s, d)
<1>1. /\ b \in Seq(Frame) /\ Len(b) = Len(s)
      /\ \A i \in 1..Len(s) : b[i].node = s[i].node
      /\ \A i \in 1..Len(s) : i < Len(s) => b[i].left = s[i].left
      /\ b[Len(s)].left = s[Len(s)].left \ {d}
  BY LeaveBehind
<1> HIDE DEF b
<1>2. s \in Seq(Frame) /\ Len(s) \in Nat /\ Len(s) \in 1..Len(s) /\ Len(s) > 0
  BY DEF Stacked
<1>3. s[Len(s)].node \in Configured /\ d \in G[s[Len(s)].node]
      /\ d \in DepsIn(G, s[Len(s)].node)
  <2>1. d \in DepsIn(G, s[Len(s)].node)
    BY <1>2 DEF Stacked
  <2> QED
    BY <2>1 DEF DepsIn
<1>4. d \in NodesIn(G) /\ d \in Graph!Name /\ DepsIn(G, d) \subseteq Graph!Name
  BY <1>3 DEF NodesIn, DepsIn
<1> DEFINE u == Append(b, f)
<1>6. /\ u \in Seq(Frame) /\ Len(u) = Len(s) + 1 /\ u[Len(s) + 1] = f
      /\ \A i \in 1..Len(s) : u[i] = b[i]
  <2>1. /\ u \in Seq(Frame) /\ Len(u) = Len(b) + 1 /\ u[Len(b) + 1] = f
        /\ \A i \in 1..Len(b) : u[i] = b[i]
    BY <1>1, AppendProperties
  <2> QED
    BY <1>1, <2>1
<1>7. \A i \in 1..Len(u) : i \in 1..Len(s) \/ i = Len(s) + 1
  BY <1>2, <1>6
<1> HIDE DEF u
<1>8. ASSUME NEW i \in 1..Len(s)
      PROVE  /\ u[i].node \in NodesIn(G) /\ u[i].node \notin V
             /\ u[i].left \subseteq DepsIn(G, u[i].node)
             /\ u[i + 1].node \in DepsIn(G, u[i].node)
             /\ \A e \in DepsIn(G, u[i].node) : e \in u[i].left \/ e \in V \/ e = u[i + 1].node
  <2>1. u[i].node = s[i].node /\ u[i].left = b[i].left
    BY <1>1, <1>6
  <2>2. CASE i = Len(s)
    <3>1. u[i + 1].node = d
      BY <1>6, <2>2
    <3>2. \A e \in DepsIn(G, s[i].node) : e \in s[i].left \/ e \in V
      BY <1>2, <2>2 DEF Stacked
    <3> QED
      BY <1>1, <1>3, <2>1, <2>2, <3>1, <3>2 DEF Stacked
  <2>3. CASE i < Len(s)
    <3>1. i + 1 \in 1..Len(s)
      BY <1>2, <2>3
    <3>2. u[i + 1].node = s[i + 1].node
      BY <1>1, <1>6, <3>1
    <3> QED
      BY <1>1, <2>1, <2>3, <3>2 DEF Stacked
  <2> QED
    BY <1>2, <2>2, <2>3
<1>9. /\ u[Len(s) + 1].node = d /\ u[Len(s) + 1].left = DepsIn(G, d)
  BY <1>6
<1>10. \A i \in 1..Len(u) : \A k \in 1..Len(u) : u[i].node = u[k].node => i = k
  <2>1. \A i \in 1..Len(s) : u[i].node = s[i].node
    BY <1>1, <1>6
  <2>2. \A i \in 1..Len(s) : \A k \in 1..Len(s) : s[i].node = s[k].node => i = k
    BY DEF Stacked
  <2> QED
    BY <1>7, <1>9, <2>1, <2>2
<1>11. ASSUME NEW i \in 1..Len(u)
       PROVE  /\ u[i].node \in NodesIn(G) /\ u[i].node \notin V
              /\ u[i].left \subseteq DepsIn(G, u[i].node)
              /\ \A e \in DepsIn(G, u[i].node) :
                    e \in u[i].left \/ e \in V \/ (i < Len(u) /\ e = u[i + 1].node)
              /\ i < Len(u) => u[i + 1].node \in DepsIn(G, u[i].node)
  <2>1. CASE i \in 1..Len(s)
    <3>1. i < Len(u)
      BY <1>2, <1>6, <2>1
    <3> QED
      BY <1>8, <2>1, <3>1
  <2>2. CASE i = Len(s) + 1
    <3>1. ~ (i < Len(u)) /\ u[i].node = d /\ u[i].left = DepsIn(G, d)
      BY <1>2, <1>6, <1>9, <2>2
    <3> QED
      BY <1>4, <3>1
  <2> QED
    BY <1>7, <2>1, <2>2
<1>12. Stacked(u, V, G)
  BY <1>6, <1>10, <1>11 DEF Stacked
<1> QED
  BY <1>12 DEF u, b

(* The first call of visit(), for one of the roots.                         *)
LEMMA FirstCall ==
  ASSUME NEW V, NEW G, G \in [Configured -> SUBSET Graph!Name],
         NEW n \in Configured, n \notin V,
         NEW f \in Frame, f.node = n, f.left = DepsIn(G, n)
  PROVE  Stacked(Append(<<>>, f), V, G) /\ Append(<<>>, f)[1].node = n
         /\ Len(Append(<<>>, f)) = 1
<1>2. <<>> \in Seq(Frame) /\ Len(<<>>) = 0
  BY EmptySeq
<1> DEFINE u == Append(<<>>, f)
<1>3. u \in Seq(Frame) /\ Len(u) = 1 /\ u[1] = f
  BY <1>2, AppendProperties
<1> HIDE DEF u
<1>4. n \in NodesIn(G)
  BY DEF NodesIn
<1>5. Stacked(u, V, G)
  BY <1>3, <1>4 DEF Stacked
<1> QED
  BY <1>3, <1>5 DEF u

(* A call that has nothing left returns: its node is visited.               *)
LEMMA PopCall ==
  ASSUME NEW s, NEW V, NEW G, Stacked(s, V, G), s # <<>>, s[Len(s)].left = {},
         NEW W, W = V \cup {s[Len(s)].node}
  PROVE  Stacked(SubSeq(s, 1, Len(s) - 1), W, G)
<1>1. s \in Seq(Frame) /\ Len(s) \in Nat /\ Len(s) \in 1..Len(s) /\ Len(s) > 0
  BY DEF Stacked
<1> DEFINE u == SubSeq(s, 1, Len(s) - 1)
<1>2. u \in Seq(Frame) /\ Len(u) = Len(s) - 1 /\ \A i \in 1..(Len(s) - 1) : u[i] = s[i]
  <2>1. Len(s) - 1 \in 1..Len(s) \/ Len(s) - 1 = 0
    BY <1>1
  <2>2. /\ u \in Seq(Frame)
        /\ Len(u) = IF 1 <= Len(s) - 1 THEN (Len(s) - 1) - 1 + 1 ELSE 0
        /\ \A i \in 1..((Len(s) - 1) - 1 + 1) : u[i] = s[1 + i - 1]
    <3>1. \A i \in 1..(Len(s) - 1) : s[i] \in Frame
      BY <1>1
    <3>2. 1 \in Int /\ Len(s) - 1 \in Int
      BY <1>1
    <3> QED
      BY <3>1, <3>2, SubSeqProperties
  <2> QED
    BY <1>1, <2>1, <2>2
<1> HIDE DEF u
<1>3. \A i \in 1..Len(u) : i \in 1..Len(s) /\ i < Len(s) /\ i + 1 \in 1..Len(s) /\ u[i] = s[i]
  BY <1>1, <1>2
<1>4. ASSUME NEW i \in 1..Len(u)
      PROVE  /\ u[i].node \in NodesIn(G) /\ u[i].node \notin W
             /\ u[i].left \subseteq DepsIn(G, u[i].node)
             /\ \A e \in DepsIn(G, u[i].node) :
                   e \in u[i].left \/ e \in W \/ (i < Len(u) /\ e = u[i + 1].node)
             /\ i < Len(u) => u[i + 1].node \in DepsIn(G, u[i].node)
  <2>1. u[i].node # s[Len(s)].node
    BY <1>1, <1>3 DEF Stacked
  <2>2. i + 1 = Len(s) \/ (i < Len(u) /\ u[i + 1] = s[i + 1])
    <3>1. i + 1 = Len(s) \/ i < Len(u)
      BY <1>1, <1>2
    <3>2. i < Len(u) => i + 1 \in 1..(Len(s) - 1)
      BY <1>1, <1>2
    <3> QED
      BY <1>2, <3>1, <3>2
  <2>3. \A e \in DepsIn(G, u[i].node) : e \in u[i].left \/ e \in V \/ e = s[i + 1].node
    BY <1>3 DEF Stacked
  <2>4. i < Len(u) => u[i + 1] = s[i + 1]
    BY <1>1, <1>2
  <2>5. /\ u[i].node \in NodesIn(G) /\ u[i].node \notin V
        /\ u[i].left \subseteq DepsIn(G, u[i].node)
        /\ s[i + 1].node \in DepsIn(G, u[i].node)
    BY <1>3 DEF Stacked
  <2> QED
    BY <2>1, <2>2, <2>3, <2>4, <2>5
<1>5. \A i \in 1..Len(u) : \A k \in 1..Len(u) : u[i].node = u[k].node => i = k
  BY <1>3 DEF Stacked
<1>6. Stacked(u, W, G)
  BY <1>2, <1>4, <1>5 DEF Stacked
<1> QED
  BY <1>6 DEF u

(* And it comes after all it depends on.                                    *)
LEMMA LastInOrder ==
  ASSUME NEW s, NEW V, NEW G, Stacked(s, V, G), s # <<>>, s[Len(s)].left = {},
         NEW o, Ordered(o, V, G),
         NEW n, n = s[Len(s)].node, NEW W, W = V \cup {n}
  PROVE  Ordered(Append(o, n), W, G)
<1>1. s \in Seq(Frame) /\ Len(s) \in 1..Len(s) /\ ~ (Len(s) < Len(s))
  BY DEF Stacked
<1>2. n \notin V /\ DepsIn(G, n) \subseteq V
  BY <1>1 DEF Stacked
<1>3. n \in Graph!Name
  <2>1. s[Len(s)] \in Frame
    BY <1>1
  <2> QED
    BY <2>1 DEF Frame
<1>4. o \in Seq(Graph!Name) /\ Len(o) \in Nat
  BY DEF Ordered
<1> DEFINE u == Append(o, n)
<1>5. /\ u \in Seq(Graph!Name) /\ Len(u) = Len(o) + 1 /\ u[Len(o) + 1] = n
      /\ \A i \in 1..Len(o) : u[i] = o[i]
  BY <1>3, <1>4, AppendProperties
<1> HIDE DEF u
<1>6. \A i \in 1..Len(u) : i \in 1..Len(o) \/ i = Len(o) + 1
  BY <1>4, <1>5
<1>7. 1..Len(o) \subseteq 1..Len(u) /\ Len(o) + 1 \in 1..Len(u)
  BY <1>4, <1>5
<1>8. \A i \in 1..Len(u) : u[i] \in W
  BY <1>5, <1>6 DEF Ordered
<1>9. \A m \in W : \E i \in 1..Len(u) : u[i] = m
  <2>1. ASSUME NEW m \in V PROVE \E i \in 1..Len(u) : u[i] = m
    <3>1. PICK i \in 1..Len(o) : o[i] = m
      BY DEF Ordered
    <3> QED
      BY <1>5, <1>7, <3>1
  <2> QED
    BY <1>5, <1>7, <2>1
<1>10. \A i \in 1..Len(u) : \A k \in 1..Len(u) : u[i] = u[k] => i = k
  <2>1. \A i \in 1..Len(o) : u[i] # n
    BY <1>2, <1>5 DEF Ordered
  <2>2. \A i \in 1..Len(o) : \A k \in 1..Len(o) : u[i] = u[k] => i = k
    BY <1>5 DEF Ordered
  <2> QED
    BY <1>5, <1>6, <2>1, <2>2
<1>11. ASSUME NEW i \in 1..Len(u), NEW d \in DepsIn(G, u[i])
       PROVE  \E k \in 1..(i - 1) : u[k] = d
  <2>1. CASE i \in 1..Len(o)
    <3>1. PICK k \in 1..(i - 1) : o[k] = d
      BY <1>5, <2>1 DEF Ordered
    <3>2. k \in 1..Len(o)
      BY <1>4, <2>1
    <3> QED
      BY <1>5, <3>1, <3>2
  <2>2. CASE i = Len(o) + 1
    <3>1. d \in V
      BY <1>2, <1>5, <2>2
    <3>2. PICK k \in 1..Len(o) : o[k] = d
      BY <3>1 DEF Ordered
    <3>3. k \in 1..(i - 1)
      BY <1>4, <2>2
    <3> QED
      BY <1>5, <3>2, <3>3
  <2> QED
    BY <1>6, <2>1, <2>2
<1>12. Ordered(u, W, G)
  BY <1>5, <1>8, <1>9, <1>10, <1>11 DEF Ordered
<1> QED
  BY <1>12 DEF u

(* A dependency that is on the stack closes a cycle of configured jobs.     *)
LEMMA StackIsCyclic ==
  ASSUME NEW s, NEW V, NEW G, Stacked(s, V, G), s # <<>>, NEW m \in 1..Len(s),
         s[m].node \in s[Len(s)].left
  PROVE  \E S \in SUBSET Configured : S # {} /\ \A n \in S : G[n] \cap S # {}
<1> DEFINE S == {s[i].node : i \in m..Len(s)}
<1>1. s \in Seq(Frame) /\ Len(s) \in Nat /\ Len(s) \in 1..Len(s) /\ m \in m..Len(s)
  BY DEF Stacked
<1>2. ASSUME NEW i \in m..Len(s)
      PROVE  \E e \in S : e \in DepsIn(G, s[i].node)
  <2>1. i \in 1..Len(s)
    BY <1>1
  <2>2. CASE i = Len(s)
    <3>1. s[m].node \in DepsIn(G, s[i].node)
      BY <2>1, <2>2 DEF Stacked
    <3>2. s[m].node \in S
      BY <1>1
    <3> QED
      BY <3>1, <3>2
  <2>3. CASE i < Len(s)
    <3>1. s[i + 1].node \in DepsIn(G, s[i].node)
      BY <2>1, <2>3 DEF Stacked
    <3>2. i + 1 \in m..Len(s)
      BY <1>1, <2>3
    <3>3. s[i + 1].node \in S
      BY <3>2
    <3> QED
      BY <3>1, <3>3
  <2> QED
    BY <1>1, <2>2, <2>3
<1>3. ASSUME NEW n \in S PROVE n \in Configured /\ G[n] \cap S # {}
  <2>1. PICK i \in m..Len(s) : n = s[i].node
    OBVIOUS
  <2>2. PICK e \in S : e \in DepsIn(G, n)
    BY <1>2, <2>1
  <2> HIDE DEF S
  <2> QED
    BY <2>2 DEF DepsIn
<1>4. s[m].node \in S
  BY <1>1
<1> HIDE DEF S
<1> QED
  BY <1>3, <1>4

(* The search begins with every job a root.                                 *)
LEMMA GraphInit == Graph!Init => GraphInv
<1> SUFFICES ASSUME Graph!Init PROVE GraphInv
  OBVIOUS
<1>1. /\ deps \in [Configured -> SUBSET Graph!Name] /\ roots = Configured
      /\ stack = <<>> /\ visited = {} /\ order = <<>>
      /\ search = "searching" /\ completed = {}
  BY DEF Graph!Init
<1>2. Len(<<>>) = 0 /\ <<>> \in Seq(Frame) /\ <<>> \in Seq(Graph!Name)
  BY EmptySeq
<1>3. Stacked(stack, visited, deps)
  BY <1>1, <1>2 DEF Stacked
<1>4. Ordered(order, visited, deps)
  BY <1>1, <1>2 DEF Ordered
<1> QED
  BY <1>1, <1>3, <1>4 DEF GraphInv

(* The frames of the stack have their nodes in it.                          *)
LEMMA InStackFacts ==
  ASSUME Stacked(stack, visited, deps)
  PROVE  \A n : n \in Graph!InStack <=> \E i \in 1..Len(stack) : stack[i].node = n
<1>1. stack \in Seq(Frame)
  BY DEF Stacked
<1>2. DOMAIN stack = 1..Len(stack)
  BY <1>1
<1> QED
  BY <1>2 DEF Graph!InStack

(* A root is visited, or its visit begins.                                  *)
LEMMA VisitRootKeeps ==
  ASSUME GraphInv, Graph!VisitRoot
  PROVE  GraphInv'
<1>1. PICK n \in roots : roots' = roots \ {n} /\ Graph!Visit(n, <<>>)
  BY DEF Graph!VisitRoot
<1>2. search = "searching" /\ stack = <<>> /\ deps' = deps /\ completed' = completed
  BY DEF Graph!VisitRoot
<1>3. n \in Configured /\ Graph!InStack = {}
  <2>1. DOMAIN stack = {}
    BY <1>2
  <2> QED
    BY <2>1 DEF GraphInv, Graph!InStack
<1>4. CASE n \in visited
  <2>1. stack' = <<>> /\ visited' = visited /\ order' = order /\ search' = search
    BY <1>1, <1>3, <1>4 DEF Graph!Visit
  <2>2. Graph!InStack' = Graph!InStack
    BY <1>2, <2>1 DEF Graph!InStack
  <2> QED
    BY <1>1, <1>2, <1>4, <2>1, <2>2 DEF GraphInv, Ordered, Stacked
<1>5. CASE n \notin visited
  <2> DEFINE f == [node |-> n, left |-> Graph!DependenciesOf(n)]
  <2>1. stack' = Append(<<>>, f) /\ visited' = visited /\ order' = order /\ search' = search
    BY <1>1, <1>3, <1>5 DEF Graph!Visit
  <2>2. f \in Frame /\ f.node = n /\ f.left = DepsIn(deps, n)
    BY <1>3 DEF Frame, DepsIn, Graph!DependenciesOf, GraphInv, Graph!Name
  <2> HIDE DEF f
  <2>3. /\ Stacked(Append(<<>>, f), visited, deps) /\ Append(<<>>, f)[1].node = n
        /\ Len(Append(<<>>, f)) = 1
    BY <1>3, <1>5, <2>2, FirstCall DEF GraphInv
  <2>4. Stacked(stack, visited, deps)'
    BY <1>2, <2>1, <2>3
  <2>5. n \in Graph!InStack'
    BY <2>1, <2>3, <2>4, InStackFacts DEF Graph!InStack
  <2>6. \A m \in Configured : m \in roots' \/ m \in visited' \/ m \in Graph!InStack'
    BY <1>1, <1>2, <1>3, <2>1, <2>5 DEF GraphInv
  <2>7. /\ visited' = visited /\ order' = order /\ search' = search
        /\ deps' = deps /\ completed' = completed /\ roots' \subseteq Configured
    BY <1>1, <1>2, <2>1 DEF GraphInv
  <2>8. Ordered(order, visited, deps)' /\ (visited \subseteq NodesIn(deps))'
    BY <2>7 DEF GraphInv, Ordered, NodesIn
  <2> QED
    BY <1>2, <2>4, <2>6, <2>7, <2>8 DEF GraphInv
<1> QED
  BY <1>4, <1>5

(* A dependency closes a cycle, has been visited, or its visit begins.      *)
LEMMA VisitDependencyKeeps ==
  ASSUME GraphInv, Graph!VisitDependency
  PROVE  GraphInv'
<1>1. /\ search = "searching" /\ stack # <<>>
      /\ roots' = roots /\ deps' = deps /\ completed' = completed
  BY DEF Graph!VisitDependency
<1>2. Stacked(stack, visited, deps) /\ deps \in [Configured -> SUBSET Graph!Name]
  BY <1>1 DEF GraphInv
<1>3. PICK d \in stack[Len(stack)].left : Graph!Visit(d, Taken(stack, d))
  BY DEF Graph!VisitDependency, Graph!Last, Taken
<1>4. /\ Len(Taken(stack, d)) = Len(stack)
      /\ \A i \in 1..Len(stack) : Taken(stack, d)[i].node = stack[i].node
      /\ d \in visited => Stacked(Taken(stack, d), visited, deps)
  BY <1>1, <1>2, LeaveBehind
<1>5. CASE d \in Graph!InStack
  <2>1. /\ search' = "cycle" /\ stack' = stack /\ visited' = visited /\ order' = order
    BY <1>3, <1>5 DEF Graph!Visit
  <2>2. PICK m \in 1..Len(stack) : stack[m].node = d
    BY <1>2, <1>5, InStackFacts
  <2>3. \E S \in SUBSET Configured : S # {} /\ \A n \in S : deps[n] \cap S # {}
    BY <1>1, <1>2, <1>3, <2>2, StackIsCyclic
  <2>4. \E S \in SUBSET Configured : Graph!Cyclic(S)'
    BY <1>1, <2>3 DEF Graph!Cyclic
  <2> QED
    BY <1>1, <2>1, <2>4 DEF GraphInv, Ordered
<1>6. CASE d \notin Graph!InStack /\ d \in visited
  <2>1. stack' = Taken(stack, d) /\ visited' = visited /\ order' = order /\ search' = search
    BY <1>3, <1>6 DEF Graph!Visit
  <2>2. Stacked(stack, visited, deps)'
    BY <1>1, <1>4, <1>6, <2>1
  <2>3. Graph!InStack \subseteq Graph!InStack'
    <3>1. ASSUME NEW n \in Graph!InStack PROVE n \in Graph!InStack'
      <4>1. PICK i \in 1..Len(stack) : stack[i].node = n
        BY <1>2, <3>1, InStackFacts
      <4>2. i \in DOMAIN stack' /\ stack'[i].node = n
        BY <1>4, <2>1, <2>2, <4>1 DEF Stacked
      <4> QED
        BY <4>2 DEF Graph!InStack
    <3> QED
      BY <3>1
  <2> QED
    BY <1>1, <2>1, <2>2, <2>3 DEF GraphInv, Ordered
<1>7. CASE d \notin Graph!InStack /\ d \notin visited
  <2> DEFINE f == [node |-> d, left |-> Graph!DependenciesOf(d)]
  <2>1. /\ stack' = Append(Taken(stack, d), f)
        /\ visited' = visited /\ order' = order /\ search' = search
    BY <1>3, <1>7 DEF Graph!Visit
  <2>2. d \in Graph!Name
    <3>1. stack \in Seq(Frame) /\ Len(stack) \in 1..Len(stack)
      BY <1>1, <1>2 DEF Stacked
    <3>2. stack[Len(stack)] \in Frame
      BY <3>1
    <3> QED
      BY <3>2 DEF Frame
  <2>3. f \in Frame /\ f.node = d /\ f.left = DepsIn(deps, d)
    BY <1>2, <2>2 DEF Frame, DepsIn, Graph!DependenciesOf
  <2> HIDE DEF f
  <2>4. \A i \in 1..Len(stack) : stack[i].node # d
    BY <1>2, <1>7, InStackFacts
  <2>5. Stacked(Append(Taken(stack, d), f), visited, deps)
    BY <1>1, <1>2, <1>7, <2>3, <2>4, PushCall
  <2>6. Stacked(stack, visited, deps)'
    BY <1>1, <2>1, <2>5
  <2>7. /\ Taken(stack, d) \in Seq(Frame)
        /\ \A i \in 1..Len(stack) : i \in DOMAIN stack' /\ stack'[i].node = stack[i].node
    <3>1. Taken(stack, d) \in Seq(Frame)
      BY <1>1, <1>2, LeaveBehind
    <3>2. /\ Len(stack') = Len(stack) + 1 /\ stack' \in Seq(Frame)
          /\ \A i \in 1..Len(stack) : stack'[i] = Taken(stack, d)[i]
      BY <1>4, <2>1, <2>3, <3>1, AppendProperties
    <3>3. Len(stack) \in Nat
      BY <1>2 DEF Stacked
    <3> QED
      BY <1>4, <3>1, <3>2, <3>3
  <2>8. Graph!InStack \subseteq Graph!InStack'
    <3>1. ASSUME NEW n \in Graph!InStack PROVE n \in Graph!InStack'
      <4>1. PICK i \in 1..Len(stack) : stack[i].node = n
        BY <1>2, <3>1, InStackFacts
      <4>2. i \in DOMAIN stack' /\ stack'[i].node = n
        BY <2>7, <4>1
      <4> QED
        BY <4>2 DEF Graph!InStack
    <3> QED
      BY <3>1
  <2>9. /\ visited' = visited /\ order' = order /\ search' = search
    BY <2>1
  <2>10. Ordered(order, visited, deps)' /\ (visited \subseteq NodesIn(deps))'
    BY <1>1, <2>9 DEF GraphInv
  <2>11. \A n \in Configured : n \in roots' \/ n \in visited' \/ n \in Graph!InStack'
    BY <1>1, <2>8, <2>9 DEF GraphInv
  <2> QED
    BY <1>1, <2>6, <2>9, <2>10, <2>11 DEF GraphInv
<1> QED
  BY <1>5, <1>6, <1>7

(* A visit ends.                                                            *)
LEMMA LeaveKeeps ==
  ASSUME GraphInv, Graph!Leave
  PROVE  GraphInv'
<1>1. /\ search = "searching" /\ stack # <<>> /\ stack[Len(stack)].left = {}
      /\ roots' = roots /\ deps' = deps /\ completed' = completed /\ search' = search
  BY DEF Graph!Leave, Graph!Last
<1> DEFINE n == stack[Len(stack)].node
<1>2. /\ visited' = visited \cup {n} /\ order' = Append(order, n)
      /\ stack' = SubSeq(stack, 1, Len(stack) - 1)
  BY DEF Graph!Leave, Graph!Last, Graph!Front
<1>3. Stacked(stack, visited, deps) /\ Ordered(order, visited, deps)
  BY <1>1 DEF GraphInv
<1>4. stack \in Seq(Frame) /\ Len(stack) \in 1..Len(stack) /\ Len(stack) \in Nat
  BY <1>1, <1>3 DEF Stacked
<1>5. n \in NodesIn(deps)
  BY <1>3, <1>4 DEF Stacked
<1> HIDE DEF n
<1>6. Stacked(stack, visited, deps)'
  <2>1. Stacked(SubSeq(stack, 1, Len(stack) - 1), visited \cup {n}, deps)
    BY <1>1, <1>3, PopCall DEF n
  <2> QED
    BY <1>1, <1>2, <2>1
<1>7. Ordered(order, visited, deps)'
  <2>1. Ordered(Append(order, n), visited \cup {n}, deps)
    BY <1>1, <1>3, LastInOrder DEF n
  <2> QED
    BY <1>1, <1>2, <2>1
<1>8. ASSUME NEW m \in Configured PROVE m \in roots' \/ m \in visited' \/ m \in Graph!InStack'
  <2>1. CASE m \in Graph!InStack
    <3>1. PICK i \in 1..Len(stack) : stack[i].node = m
      BY <1>3, <2>1, InStackFacts
    <3>2. CASE i = Len(stack)
      BY <1>2, <3>1, <3>2 DEF n
    <3>3. CASE i < Len(stack)
      <4>1. PICK k \in Nat : k = Len(stack) - 1
        BY <1>4
      <4>2. k \in Int /\ \A e \in 1..k : stack[e] \in Frame
        BY <1>4, <4>1
      <4>3. /\ Len(SubSeq(stack, 1, k)) = IF 1 <= k THEN k - 1 + 1 ELSE 0
            /\ \A e \in 1..(k - 1 + 1) : SubSeq(stack, 1, k)[e] = stack[1 + e - 1]
            /\ SubSeq(stack, 1, k) \in Seq(Frame)
        BY <4>2, SubSeqProperties
      <4>4. i \in 1..(k - 1 + 1) /\ 1 <= k /\ 1 + i - 1 = i
        BY <1>4, <3>3, <4>1
      <4>5. i \in DOMAIN SubSeq(stack, 1, k) /\ SubSeq(stack, 1, k)[i] = stack[i]
        BY <4>3, <4>4
      <4> QED
        BY <1>2, <3>1, <4>1, <4>5 DEF Graph!InStack
    <3> QED
      BY <1>4, <3>2, <3>3
  <2> QED
    BY <1>1, <1>2, <2>1 DEF GraphInv
<1> QED
  BY <1>1, <1>2, <1>5, <1>6, <1>7, <1>8 DEF GraphInv

(* Every step of the graph keeps its invariant.                             *)
LEMMA GraphStep ==
  ASSUME GraphInv, Graph!Next \/ UNCHANGED graphVars
  PROVE  GraphInv'
<1>1. CASE Graph!EndSearch
  <2>1. Graph!InStack = {}
    BY <1>1 DEF Graph!EndSearch, Graph!InStack
  <2> QED
    BY <1>1, <2>1 DEF Graph!EndSearch, GraphInv, Ordered
<1>2. CASE Graph!Complete
  <2>1. completed' \subseteq Configured
    BY <1>2 DEF Graph!Complete, Graph!ReadyToRun, GraphInv
  <2> QED
    BY <1>2, <2>1 DEF Graph!Complete, GraphInv, Ordered, Graph!Cyclic
<1>3. CASE UNCHANGED graphVars
  <2>1. Graph!InStack' = Graph!InStack
    BY <1>3 DEF graphVars, Graph!InStack
  <2>2. \A S : Graph!Cyclic(S)' <=> Graph!Cyclic(S)
    BY <1>3 DEF graphVars, Graph!Cyclic
  <2> QED
    BY <1>3, <2>1, <2>2 DEF graphVars, GraphInv, Ordered, Stacked
<1> QED
  BY <1>1, <1>2, <1>3, VisitRootKeeps, VisitDependencyKeeps, LeaveKeeps DEF Graph!Next

(* The search is the same in Monitoring.                                    *)
LEMMA GraphInvHolds == MonitoringSpec => []GraphInv
<1>1. MonitoringInit => GraphInv
  BY GraphInit DEF MonitoringInit
<1>2. GraphInv /\ [MonitoringNext]_<<part, now, monitorVars, throttleVars, graphVars, windowVars,
                         bookVars, catalogVars>> => GraphInv'
  BY GraphStep DEF MonitoringNext, AdvanceClock
<1> QED
  BY <1>1, <1>2, PTL DEF MonitoringSpec

(* The order and the progress of the graph follow from its invariant.       *)
LEMMA OrderFollows == GraphInv => Graph!OrderIsRight
<1> SUFFICES ASSUME GraphInv PROVE Graph!OrderIsRight
  OBVIOUS
<1>1. order \in Seq(Graph!Name) /\ DOMAIN order = 1..Len(order)
  BY DEF GraphInv, Ordered
<1>2. ASSUME search = "done"
      PROVE  /\ Graph!ToSet(order) = Configured \cup UNION {deps[n] : n \in Configured}
             /\ Graph!IsInjective(order)
             /\ \A n \in Configured : \A d \in deps[n] : Graph!Position(d) < Graph!Position(n)
  <2>1. Configured \subseteq visited /\ visited \subseteq NodesIn(deps)
    BY <1>2 DEF GraphInv
  <2>2. ASSUME NEW n \in Configured, NEW d \in deps[n]
        PROVE  \E i \in 1..Len(order) : \E k \in 1..(i - 1) :
                   order[i] = n /\ order[k] = d /\ k \in 1..Len(order) /\ d \in visited
    <3>1. PICK i \in 1..Len(order) : order[i] = n
      BY <2>1 DEF GraphInv, Ordered
    <3>2. PICK k \in 1..(i - 1) : order[k] = d
      BY <3>1, <2>2 DEF GraphInv, Ordered, DepsIn
    <3>3. k \in 1..Len(order)
      BY <1>1, <3>1, <3>2
    <3> QED
      BY <3>1, <3>2, <3>3 DEF GraphInv, Ordered
  <2>3. visited = NodesIn(deps)
    BY <2>1, <2>2 DEF NodesIn
  <2>4. Graph!ToSet(order) = visited
    BY <1>1 DEF Graph!ToSet, GraphInv, Ordered
  <2>5. Graph!IsInjective(order)
    BY <1>1 DEF Graph!IsInjective, GraphInv, Ordered
  <2>6. \A i \in 1..Len(order) : Graph!Position(order[i]) = i
    <3>1. \A i \in DOMAIN order : \A k \in DOMAIN order : order[i] = order[k] => i = k
      BY <1>1 DEF GraphInv, Ordered
    <3>2. ASSUME NEW i \in DOMAIN order PROVE Graph!Position(order[i]) = i
      BY <3>1 DEF Graph!Position
    <3> QED
      BY <1>1, <3>2
  <2>7. ASSUME NEW n \in Configured, NEW d \in deps[n]
        PROVE  Graph!Position(d) < Graph!Position(n)
    <3>1. PICK i \in 1..Len(order) : \E k \in 1..(i - 1) :
                   order[i] = n /\ order[k] = d /\ k \in 1..Len(order)
      BY <2>2
    <3>2. PICK k \in 1..(i - 1) : order[i] = n /\ order[k] = d /\ k \in 1..Len(order)
      BY <3>1
    <3>3. Graph!Position(n) = i /\ Graph!Position(d) = k
      BY <2>6, <3>1, <3>2
    <3> QED
      BY <3>3
  <2> QED
    BY <2>3, <2>4, <2>5, <2>7 DEF NodesIn
<1> QED
  BY <1>2 DEF Graph!OrderIsRight, GraphInv

(* What is next in the order is ready, and what is held back is so by a     *)
(* cycle or an unknown name (job_dependencies.py:57-70).                    *)
LEMMA ProgressFollows == GraphInv => Graph!ReadyMakesProgress
<1> SUFFICES ASSUME GraphInv PROVE Graph!ReadyMakesProgress
  OBVIOUS
<1>1. order \in Seq(Graph!Name) /\ DOMAIN order = 1..Len(order)
  BY DEF GraphInv, Ordered
<1>2. ASSUME Graph!ToSet(order) = Configured, NEW i \in DOMAIN order,
             order[i] \notin completed, \A k \in 1..(i - 1) : order[k] \in completed
      PROVE  order[i] \in Graph!ReadyToRun
  <2>1. order[i] \in Configured
    BY <1>2 DEF Graph!ToSet
  <2>2. \A d \in deps[order[i]] : d \in completed
    BY <1>1, <1>2, <2>1 DEF GraphInv, Ordered, DepsIn
  <2> QED
    BY <1>2, <2>1, <2>2 DEF Graph!ReadyToRun
<1>3. ASSUME Graph!ReadyToRun = {}, NEW n \in Configured \ completed
      PROVE  \E S \in SUBSET (Configured \ completed) :
                 n \in S /\ \A k \in S : deps[k] \cap (S \cup Unknown) # {}
  <2> DEFINE S == Configured \ completed
  <2>1. ASSUME NEW k \in S PROVE deps[k] \cap (S \cup Unknown) # {}
    <3>1. PICK d \in deps[k] : d \notin completed
      BY <1>3 DEF Graph!ReadyToRun
    <3>2. d \in Graph!Name
      BY DEF GraphInv
    <3> QED
      BY <3>1, <3>2 DEF Graph!Name
  <2> QED
    BY <1>3, <2>1
<1> QED
  BY <1>2, <1>3 DEF Graph!ReadyMakesProgress

(* topological_order() returns every job and dependency once, dependencies  *)
(* first, and reports a cycle only when there is one; what is ready gets    *)
(* all done that can be (job_dependencies.py:36-70): for any jobs and       *)
(* graphs, cyclic or not, and in whatever order a set is gone through.      *)
THEOREM GraphHolds == MonitoringSpec => []DependenciesHold
<1>1. GraphInv => DependenciesHold
  BY OrderFollows, ProgressFollows DEF DependenciesHold
<1> QED
  BY <1>1, GraphInvHolds, PTL
-----------------------------------------------------------------------------
(* Catalog *)

(* Catalog's own names of the operators it shares with others.              *)
LEMMA CatalogOperators ==
  /\ \A s, S : Choice!Only(s, S) = Only(s, S)
  /\ \A S : Choice!Cardinality(S) = Cardinality(S)
  /\ \A s : Choice!ToSet(s) = {s[i] : i \in DOMAIN s}
<1>1. \A s, S : Choice!Only(s, S) = Only(s, S)
  BY Zenon DEF Choice!Only, Only
<1>2. \A S : Choice!Cardinality(S) = Cardinality(S)
  BY DEF Choice!Cardinality, Cardinality
<1>3. \A s : Choice!ToSet(s) = {s[i] : i \in DOMAIN s}
  BY DEF Choice!ToSet
<1> QED
  BY <1>1, <1>2, <1>3

(* Where a sequence has an element of T.                                    *)
Where(s, T) == {i \in 1..Len(s) : s[i] \in T}

(* As many of what is picked are in T as there are in the whole that are in *)
(* T and may be picked.                                                     *)
LEMMA AsManyPicked ==
  ASSUME NEW E, NEW s \in Seq(E), NEW t \in Seq(E), NEW S, NEW f, Picks(f, t, s, S), NEW T
  PROVE  Cardinality(Where(t, T)) = Cardinality(Where(s, S \cap T))
<1> DEFINE A == {k \in 1..Len(t) : t[k] \in T}
           B == {i \in 1..Len(s) : s[i] \in S /\ s[i] \in T}
           g == [k \in A |-> f[k]]
<1>1. Len(t) \in Nat /\ Len(s) \in Nat
  OBVIOUS
<1>2. \A k \in 1..Len(t) : f[k] \in 1..Len(s) /\ t[k] = s[f[k]] /\ s[f[k]] \in S
  BY DEF Picks
<1>3. g \in [A -> B]
  BY <1>2
<1>4. \A j, k \in A : g[j] = g[k] => j = k
  <2> SUFFICES ASSUME NEW j \in A, NEW k \in A, f[j] = f[k] PROVE j = k
    OBVIOUS
  <2>1. ~(j < k) /\ ~(k < j)
    BY <1>1, <1>2 DEF Picks
  <2> QED
    BY <2>1, <1>1
<1>5. \A i \in B : \E k \in A : g[k] = i
  <2> SUFFICES ASSUME NEW i \in B PROVE \E k \in A : g[k] = i
    OBVIOUS
  <2>1. PICK k \in 1..Len(t) : f[k] = i
    BY DEF Picks
  <2>2. k \in A
    BY <2>1, <1>2
  <2> QED
    BY <2>1, <2>2
<1>6. g \in Bijection(A, B)
  BY <1>3, <1>4, <1>5 DEF Bijection, Injection, Surjection, IsInjective
<1>7. IsFiniteSet(A)
  <2>1. IsFiniteSet(1..Len(t))
    BY <1>1, FS_Interval
  <2> QED
    BY <2>1, FS_Subset
<1>8. Cardinality(A) = Cardinality(B)
  <2>1. ExistsBijection(A, B)
    BY <1>6 DEF ExistsBijection
  <2> QED
    BY <2>1, <1>7, FS_Bijection
<1>9. A = Where(t, T) /\ B = Where(s, S \cap T)
  BY DEF Where
<1> QED
  BY <1>8, <1>9

(* How often c is in a sequence.                                            *)
Times(s, c) == Cardinality({i \in 1..Len(s) : s[i] = c})

(* What is at the head is there once more than in the tail.                 *)
LEMMA TimesTail ==
  ASSUME NEW E, NEW s \in Seq(E), s # <<>>, NEW c
  PROVE  /\ Times(s, c) \in Nat /\ Times(Tail(s), c) \in Nat
         /\ Times(s, c) = Times(Tail(s), c) + (IF Head(s) = c THEN 1 ELSE 0)
<1> DEFINE A == {i \in 1..Len(s) : s[i] = c}
           B == {i \in 1..Len(Tail(s)) : Tail(s)[i] = c}
           R == {i \in 2..Len(s) : s[i] = c}
           g == [i \in B |-> i + 1]
<1>1. /\ Len(s) \in Nat /\ Len(s) >= 1 /\ Tail(s) \in Seq(E) /\ Len(Tail(s)) = Len(s) - 1
      /\ \A i \in 1..(Len(s) - 1) : Tail(s)[i] = s[i + 1]
      /\ Head(s) = s[1]
  OBVIOUS
<1>2. IsFiniteSet(A) /\ IsFiniteSet(B) /\ IsFiniteSet(R)
  <2>1. IsFiniteSet(1..Len(s)) /\ IsFiniteSet(1..Len(Tail(s))) /\ IsFiniteSet(2..Len(s))
    BY <1>1, FS_Interval
  <2> QED
    BY <2>1, FS_Subset
<1>3. g \in Bijection(B, R)
  <2>1. g \in [B -> R]
    BY <1>1
  <2>2. \A i, j \in B : g[i] = g[j] => i = j
    BY <1>1
  <2>3. \A i \in R : \E j \in B : g[j] = i
    <3> SUFFICES ASSUME NEW i \in R PROVE \E j \in B : g[j] = i
      OBVIOUS
    <3>1. i - 1 \in B /\ (i - 1) + 1 = i
      BY <1>1
    <3> QED
      BY <3>1
  <2> QED
    BY <2>1, <2>2, <2>3 DEF Bijection, Injection, Surjection, IsInjective
<1>4. Cardinality(B) = Cardinality(R)
  <2>1. ExistsBijection(B, R)
    BY <1>3 DEF ExistsBijection
  <2> QED
    BY <2>1, <1>2, FS_Bijection
<1>5. Cardinality(A) = Cardinality(R) + (IF Head(s) = c THEN 1 ELSE 0)
  <2>1. CASE Head(s) = c
    <3>1. A = R \cup {1} /\ 1 \notin R
      BY <1>1, <2>1
    <3>2. Cardinality(R \cup {1}) = Cardinality(R) + 1
      BY <1>2, <3>1, FS_AddElement
    <3> QED
      BY <3>1, <3>2, <2>1
  <2>2. CASE Head(s) # c
    <3>1. A = R
      BY <1>1, <2>2
    <3>2. Cardinality(R) \in Nat
      BY <1>2, FS_CardinalityType
    <3> HIDE DEF A, R
    <3>3. Cardinality(A) = Cardinality(R) + 0
      BY <3>1, <3>2
    <3> QED
      BY <3>3, <2>2
  <2> QED
    BY <2>1, <2>2
<1>6. Cardinality(A) \in Nat /\ Cardinality(B) \in Nat
  BY <1>2, FS_CardinalityType
<1> QED
  BY <1>4, <1>5, <1>6 DEF Times

(* A rule matches the jobs it picks by the selections of tags and labels    *)
(* (job_routing.py:19-33, job_tags.py:14-16, job_labels.py:14-24).          *)
LEMMA RulePicks ==
  ASSUME jobs \in Seq(Choice!Named), NEW rule, NEW j
  PROVE  Choice!RuleMatches(rule, j) <=> j \in Choice!PickedBy(rule)
<1>1. Choice!Known(j) <=> j \in Choice!ToSet(jobs)
  BY DEF Choice!Known, Choice!Contains, Choice!ToSet
<1>2. ASSUME NEW S PROVE Choice!ToSet(Choice!Only(jobs, S)) = Choice!ToSet(jobs) \cap S
  <2>1. Only(jobs, S) \in Seq(Choice!Named) /\ \E f : Picks(f, Only(jobs, S), jobs, S)
    BY OnlyProperties
  <2>2. PICK f : Picks(f, Only(jobs, S), jobs, S)
    BY <2>1
  <2> DEFINE t == Only(jobs, S)
  <2>3. t \in Seq(Choice!Named) /\ Picks(f, t, jobs, S) /\ Choice!Only(jobs, S) = t
    BY <2>1, <2>2, CatalogOperators
  <2> HIDE DEF t
  <2>4. Choice!ToSet(t) = {t[i] : i \in 1..Len(t)} /\ Choice!ToSet(jobs) = {jobs[i] : i \in 1..Len(jobs)}
    BY <2>3, CatalogOperators
  <2>5. {t[i] : i \in 1..Len(t)} = {jobs[i] : i \in 1..Len(jobs)} \cap S
    <3>1. \A i \in 1..Len(t) : f[i] \in 1..Len(jobs) /\ t[i] = jobs[f[i]] /\ jobs[f[i]] \in S
      BY <2>3 DEF Picks
    <3>2. \A i \in 1..Len(jobs) : jobs[i] \in S => \E k \in 1..Len(t) : t[k] = jobs[i]
      BY <2>3 DEF Picks
    <3> QED
      BY <3>1, <3>2
  <2> QED
    BY <2>3, <2>4, <2>5
<1>3. CASE rule.job # Nothing
  BY <1>3 DEF Choice!RuleMatches, Choice!PickedBy
<1>4. CASE rule.job = Nothing /\ rule.tag # Nothing
  <2>1. Choice!RuleMatches(rule, j) <=> rule.tag \in Choice!RoutedTags(j)
    BY <1>4 DEF Choice!RuleMatches
  <2>2. Choice!PickedBy(rule) = Choice!ToSet(Choice!JobsWithTag(jobs, rule.tag))
    BY <1>4 DEF Choice!PickedBy
  <2> QED
    BY <2>1, <2>2, <1>1, <1>2 DEF Choice!RoutedTags, Choice!JobsWithTag
<1>5. CASE rule.job = Nothing /\ rule.tag = Nothing /\ rule.label = Nothing
  BY <1>5 DEF Choice!RuleMatches, Choice!PickedBy
<1>6. CASE rule.job = Nothing /\ rule.tag = Nothing /\ rule.label # Nothing
  <2> DEFINE k == rule.label
             v == rule.value
             labels == Choice!RoutedLabels(j)
  <2>1. Choice!RuleMatches(rule, j) <=> k \in DOMAIN labels /\ (v # Nothing => labels[k] = v)
    BY <1>6 DEF Choice!RuleMatches
  <2>2. Choice!PickedBy(rule) = Choice!ToSet(IF v = Nothing THEN Choice!JobsWithLabel(jobs, k)
                                             ELSE Choice!JobsWithLabelValue(jobs, k, v))
    BY <1>6 DEF Choice!PickedBy
  <2>3. CASE ~Choice!Known(j)
    <3>1. DOMAIN labels = {}
      BY <2>3 DEF Choice!RoutedLabels
    <3>2. j \notin Choice!PickedBy(rule)
      BY <2>2, <2>3, <1>1, <1>2 DEF Choice!JobsWithLabel, Choice!JobsWithLabelValue
    <3> QED
      BY <2>1, <3>1, <3>2
  <2>4. CASE Choice!Known(j)
    <3>1. labels = Choice!LabelsFor(j)
      BY <2>4 DEF Choice!RoutedLabels
    <3>2. CASE v = Nothing
      BY <1>1, <1>2, <2>1, <2>2, <2>4, <3>1, <3>2 DEF Choice!JobsWithLabel
    <3>3. CASE v # Nothing
      BY <1>1, <1>2, <2>1, <2>2, <2>4, <3>1, <3>3
        DEF Choice!JobsWithLabelValue, Choice!Get, Choice!GetOr
    <3> QED
      BY <3>2, <3>3
  <2> QED
    BY <2>3, <2>4
<1> QED
  BY <1>3, <1>4, <1>5, <1>6

(* How often channel c is due an alert about job j.                         *)
Naming(j, c) == {n \in DOMAIN rules : rules[n].channel = c /\ j \in Choice!PickedBy(rules[n])}
Due(j, c) ==
    IF \A n \in DOMAIN rules : j \notin Choice!PickedBy(rules[n])
    THEN (IF c = Default THEN 1 ELSE 0) ELSE Cardinality(Naming(j, c))

(* The alert of a routing: what a channel got and is yet to get is its due. *)
RouteInv ==
    /\ jobs \in Seq(Choice!Named)
    /\ rules \in Seq(Choice!ToSet(rules))
    /\ sending \in {"no", "yes", "sent", "raised"}
    /\ channels \subseteq UNION ChannelSets
    /\ got \in [UNION ChannelSets -> Nat]
    /\ sending # "no" =>
           /\ queue \in Seq(channels)
           /\ \A c \in channels : got[c] + Times(queue, c) = Due(about, c)
    /\ sending = "sent" => queue = <<>>

(* What a send has to do is what is due (job_routing.py:47-59).             *)
LEMMA SendIsDue ==
  ASSUME jobs \in Seq(Choice!Named), rules \in Seq(Choice!ToSet(rules)), NEW j
  PROVE  /\ Choice!AlertersFor(j) \in Seq(channels)
         /\ \A c \in channels : Times(Choice!AlertersFor(j), c) = Due(j, c)
<1> DEFINE R == Choice!ToSet(rules)
           S == {r \in R : Choice!RuleMatches(r, j)}
           m == Choice!Matched(j)
           to == Choice!ChannelsFor(j)
           q == Choice!AlertersFor(j)
           E == {to[i] : i \in DOMAIN to}
<1>1. m \in Seq(R) /\ \E f : Picks(f, m, rules, S)
  BY OnlyProperties, CatalogOperators DEF Choice!Matched
<1>2. PICK f : Picks(f, m, rules, S)
  BY <1>1
<1>3. R = {rules[i] : i \in DOMAIN rules} /\ DOMAIN rules = 1..Len(rules)
  BY CatalogOperators
<1>4. \A n \in 1..Len(rules) : rules[n] \in S <=> j \in Choice!PickedBy(rules[n])
  BY <1>3, RulePicks
<1>5. (m = <<>>) <=> \A n \in DOMAIN rules : j \notin Choice!PickedBy(rules[n])
  <2>1. \A k \in 1..Len(m) : f[k] \in 1..Len(rules) /\ rules[f[k]] \in S
    BY <1>2 DEF Picks
  <2>2. \A i \in 1..Len(rules) : rules[i] \in S => \E k \in 1..Len(m) : f[k] = i
    BY <1>2 DEF Picks
  <2>3. (m = <<>>) <=> 1..Len(m) = {}
    <3> HIDE DEF m
    <3>1. Len(m) \in Nat /\ (m = <<>> <=> Len(m) = 0)
      BY <1>1
    <3>2. \A n \in Nat : n = 0 <=> 1..n = {}
      <4> SUFFICES ASSUME NEW n \in Nat PROVE n = 0 <=> 1..n = {}
        OBVIOUS
      <4>1. n # 0 => 1 \in 1..n
        OBVIOUS
      <4> QED
        BY <4>1
    <3> QED
      BY <3>1, <3>2
  <2> HIDE DEF m, S
  <2> QED
    BY <1>3, <1>4, <2>1, <2>2, <2>3
<1>6. /\ to \in Seq(E)
      /\ \A c : Cardinality({i \in 1..Len(to) : to[i] = c}) = Due(j, c)
  <2>1. CASE m = <<>>
    <3>1. to = <<Default>>
      BY <2>1 DEF Choice!ChannelsFor
    <3>2. to \in Seq(E)
      BY <3>1
    <3>3. ASSUME NEW c
          PROVE  Cardinality({i \in 1..Len(to) : to[i] = c}) = IF c = Default THEN 1 ELSE 0
      <4>1. {i \in 1..Len(to) : to[i] = c} = IF c = Default THEN {1} ELSE {}
        BY <3>1
      <4> QED
        BY <4>1, FS_Singleton, FS_EmptySet
    <3>4. \A c : Due(j, c) = IF c = Default THEN 1 ELSE 0
      BY <1>5, <2>1 DEF Due
    <3> HIDE DEF to
    <3> QED
      BY <3>2, <3>3, <3>4
  <2>2. CASE m # <<>>
    <3>1. to = [n \in 1..Len(m) |-> m[n].channel]
      BY <2>2, <1>1 DEF Choice!ChannelsFor, Choice!ChannelsOf
    <3>2. to \in Seq(E) /\ Len(to) = Len(m) /\ \A i \in 1..Len(m) : to[i] = m[i].channel
      <4> HIDE DEF m
      <4>1. Len(m) \in Nat
        BY <1>1
      <4>2. DOMAIN to = 1..Len(m) /\ \A i \in 1..Len(m) : to[i] = m[i].channel
        BY <3>1
      <4>3. to \in [1..Len(m) -> E]
        BY <3>1
      <4> HIDE DEF to, E
      <4>4. to \in Seq(E)
        BY <4>1, <4>3
      <4> QED
        BY <4>1, <4>2, <4>4
    <3>3. ASSUME NEW c PROVE Cardinality({i \in 1..Len(to) : to[i] = c}) = Due(j, c)
      <4> DEFINE T == {r \in S : r.channel = c}
      <4>1. \A i \in 1..Len(m) : m[i] \in S
        BY <1>2 DEF Picks
      <4>2. {i \in 1..Len(to) : to[i] = c} = Where(m, T)
        BY <3>2, <4>1 DEF Where
      <4>3. Where(rules, S \cap T) = Naming(j, c)
        <5> HIDE DEF S, m
        <5> QED
          BY <1>3, <1>4 DEF Naming, Where
      <4>4. Cardinality(Where(m, T)) = Cardinality(Where(rules, S \cap T))
        <5>1. m \in Seq(R) /\ rules \in Seq(R)
          BY <1>1
        <5> HIDE DEF S, m, T, R
        <5> QED
          BY <5>1, <1>2, AsManyPicked
      <4>5. Due(j, c) = Cardinality(Naming(j, c))
        BY <1>5, <2>2 DEF Due
      <4> QED
        BY <4>2, <4>3, <4>4, <4>5
    <3> QED
      BY <3>2, <3>3
  <2> QED
    BY <2>1, <2>2
<1>7. q = Only(to, channels)
  BY CatalogOperators DEF Choice!AlertersFor
<1> HIDE DEF to, m, E, q
<1>8. q \in Seq(E) /\ \E h : Picks(h, q, to, channels)
  BY <1>6, <1>7, OnlyProperties
<1>9. PICK h : Picks(h, q, to, channels)
  BY <1>8
<1>10. q \in Seq(channels)
  <2>1. \A i \in 1..Len(q) : q[i] \in channels
    BY <1>9 DEF Picks
  <2> QED
    BY <2>1, <1>8
<1>11. ASSUME NEW c \in channels PROVE Times(q, c) = Due(j, c)
  <2>1. Where(q, {c}) = {i \in 1..Len(q) : q[i] = c}
    BY DEF Where
  <2>2. Where(to, channels \cap {c}) = {i \in 1..Len(to) : to[i] = c}
    BY DEF Where
  <2>3. to \in Seq(E) /\ q \in Seq(E)
    BY <1>6, <1>8
  <2>4. Cardinality(Where(q, {c})) = Cardinality(Where(to, channels \cap {c}))
    BY <2>3, <1>9, AsManyPicked
  <2> QED
    BY <2>1, <2>2, <2>4, <1>6 DEF Times
<1> QED
  BY <1>10, <1>11 DEF q

(* Before a send nothing is asked of the channels.                         *)
LEMMA RouteInit == Choice!Init => RouteInv
<1> SUFFICES ASSUME Choice!Init PROVE RouteInv
  OBVIOUS
<1>1. jobs \in Seq(Choice!Named)
  BY BooksAssumption DEF Choice!Init, Choice!CatalogAssumption
<1>2. rules \in Seq(Choice!ToSet(rules))
  <2>1. PICK cfgs \in RuleLists \cup {<<>>} :
            rules = [n \in DOMAIN cfgs |-> Choice!RuleFrom(cfgs[n])]
    BY DEF Choice!Init
  <2>2. cfgs \in Seq(Choice!ToSet(cfgs)) \/ cfgs = <<>>
    BY <2>1, BooksAssumption DEF Choice!CatalogAssumption
  <2>3. Len(cfgs) \in Nat /\ DOMAIN cfgs = 1..Len(cfgs)
    BY <2>2
  <2>4. DOMAIN rules = 1..Len(cfgs)
    BY <2>1, <2>3
  <2>5. Choice!ToSet(rules) = {rules[i] : i \in 1..Len(cfgs)}
    BY <2>4, CatalogOperators
  <2>6. rules \in [1..Len(cfgs) -> Choice!ToSet(rules)]
    BY <2>1, <2>3, <2>5
  <2> QED
    BY <2>3, <2>6
<1>3. /\ sending = "no" /\ channels \subseteq UNION ChannelSets
      /\ got \in [UNION ChannelSets -> Nat]
  BY DEF Choice!Init, Choice!NobodyGot
<1> QED
  BY <1>1, <1>2, <1>3 DEF RouteInv

(* What is due depends on the job, the rules and the jobs only.             *)
LEMMA DueStays ==
  ASSUME jobs' = jobs, rules' = rules, NEW j, about' = j
  PROVE  \A c : Due(about, c)' = Due(j, c)
BY DEF Due, Naming, Choice!PickedBy

(* Every step of a send keeps the account of each channel.                 *)
LEMMA RouteStep ==
  ASSUME RouteInv, [Choice!Next]_catalogVars
  PROVE  RouteInv'
<1>1. ASSUME UNCHANGED catalogVars PROVE RouteInv'
  <2>1. \A c : Due(about, c)' = Due(about, c)
    BY <1>1, DueStays DEF catalogVars
  <2> QED
    BY <1>1, <2>1 DEF RouteInv, catalogVars, Times
<1>2. ASSUME NEW j \in Choice!Named, Choice!StartSend(j) PROVE RouteInv'
  <2>1. /\ jobs' = jobs /\ rules' = rules /\ channels' = channels /\ about' = j
        /\ queue' = Choice!AlertersFor(j) /\ sending' = "yes" /\ got' = [c \in UNION ChannelSets |-> 0]
    BY <1>2 DEF Choice!StartSend, Choice!NobodyGot
  <2>2. \A c : Due(about, c)' = Due(j, c)
    BY <2>1, DueStays
  <2>3. queue' \in Seq(channels) /\ \A c \in channels : Times(queue', c) = Due(j, c)
    BY <2>1, SendIsDue DEF RouteInv
  <2>4. \A c \in channels : got'[c] = 0 /\ Times(queue', c) \in Nat
    <3>1. Len(queue') \in Nat
      BY <2>3
    <3> SUFFICES ASSUME NEW c \in channels PROVE got'[c] = 0 /\ Times(queue', c) \in Nat
      OBVIOUS
    <3>2. IsFiniteSet(1..Len(queue'))
      BY <3>1, FS_Interval
    <3>3. IsFiniteSet({i \in 1..Len(queue') : queue'[i] = c})
      BY <3>2, FS_Subset
    <3> QED
      BY <2>1, <3>3, FS_CardinalityType DEF Times, RouteInv
  <2>5. \A c \in channels : got'[c] + Times(queue', c) = Due(j, c)
    BY <2>3, <2>4
  <2>6. \A c \in channels' : got'[c] + Times(queue, c)' = Due(about, c)'
    BY <2>1, <2>2, <2>5 DEF Times
  <2> QED
    BY <2>1, <2>3, <2>6 DEF RouteInv
<1>3. ASSUME Choice!Deliver PROVE RouteInv'
  <2>1. /\ jobs' = jobs /\ rules' = rules /\ channels' = channels /\ about' = about
        /\ sending = "yes" /\ sending' = "yes" /\ queue # <<>> /\ queue' = Tail(queue)
        /\ got' = [got EXCEPT ![Head(queue)] = @ + 1]
    BY <1>3 DEF Choice!Deliver
  <2>2. \A c : Due(about, c)' = Due(about, c)
    BY <2>1, DueStays
  <2>3. /\ queue \in Seq(channels) /\ Head(queue) \in channels /\ queue' \in Seq(channels)
        /\ got \in [UNION ChannelSets -> Nat] /\ channels \subseteq UNION ChannelSets
    BY <2>1 DEF RouteInv
  <2>4. got' \in [UNION ChannelSets -> Nat]
    BY <2>1, <2>3
  <2>5. ASSUME NEW c \in channels
        PROVE  got'[c] + Times(queue', c) = Due(about, c)
    <3>1. /\ Times(queue, c) \in Nat /\ Times(queue', c) \in Nat
          /\ Times(queue, c) = Times(queue', c) + (IF Head(queue) = c THEN 1 ELSE 0)
      BY <2>1, <2>3, TimesTail
    <3>2. got[c] \in Nat /\ got'[c] = got[c] + (IF Head(queue) = c THEN 1 ELSE 0)
      BY <2>1, <2>3
    <3>3. got[c] + Times(queue, c) = Due(about, c)
      BY <2>1 DEF RouteInv
    <3> QED
      BY <3>1, <3>2, <3>3
  <2>6. \A c \in channels' : got'[c] + Times(queue, c)' = Due(about, c)'
    BY <2>1, <2>2, <2>5 DEF Times
  <2> QED
    BY <2>1, <2>3, <2>4, <2>6 DEF RouteInv
<1>4. ASSUME Choice!DeliverRaises \/ Choice!EndSend PROVE RouteInv'
  <2>1. /\ jobs' = jobs /\ rules' = rules /\ channels' = channels /\ about' = about
        /\ queue' = queue /\ got' = got /\ sending = "yes" /\ sending' \in {"sent", "raised"}
        /\ sending' = "sent" => queue = <<>>
    BY <1>4 DEF Choice!DeliverRaises, Choice!EndSend
  <2>2. \A c : Due(about, c)' = Due(about, c)
    BY <2>1, DueStays
  <2> QED
    BY <2>1, <2>2 DEF RouteInv, Times
<1> QED
  BY <1>1, <1>2, <1>3, <1>4 DEF Choice!Next

(* And so it is kept, whatever part the behaviour is about.                 *)
LEMMA RouteInvHolds == MonitoringSpec => []RouteInv
<1>1. MonitoringInit => RouteInv
  BY RouteInit DEF MonitoringInit
<1>2. RouteInv /\ [MonitoringNext]_<<part, now, monitorVars, throttleVars, graphVars, windowVars,
                         bookVars, catalogVars>> => RouteInv'
  BY RouteStep DEF MonitoringNext, AdvanceClock
<1> QED
  BY <1>1, <1>2, PTL DEF MonitoringSpec

(* An alert sent reached each channel as often as a rule for it picks the   *)
(* job, or the default channel when none does; one that raised reached none *)
(* more often (job_routing.py:19-59, routing_alerter.py:36-45): for any     *)
(* jobs, rules and channels, however many rules name one channel.           *)
THEOREM RoutedAsRuledHolds == MonitoringSpec => []RoutedAsRuled
<1>1. RouteInv => RoutedAsRuled
  <2> SUFFICES ASSUME RouteInv, sending # "no", NEW c \in channels
               PROVE  got[c] <= Due(about, c) /\ (sending = "sent" => got[c] = Due(about, c))
    BY CatalogOperators DEF RoutedAsRuled, Choice!RoutedAsRuled, Due, Naming
  <2>1. got[c] \in Nat /\ queue \in Seq(channels) /\ got[c] + Times(queue, c) = Due(about, c)
    BY DEF RouteInv
  <2>2. IsFiniteSet({i \in 1..Len(queue) : queue[i] = c})
    <3>1. IsFiniteSet(1..Len(queue))
      BY <2>1, FS_Interval
    <3> QED
      BY <3>1, FS_Subset
  <2>3. Times(queue, c) \in Nat
    BY <2>2, FS_CardinalityType DEF Times
  <2>4. queue = <<>> => Times(queue, c) = 0
    <3>1. queue = <<>> => {i \in 1..Len(queue) : queue[i] = c} = {}
      OBVIOUS
    <3> QED
      BY <3>1, FS_EmptySet DEF Times
  <2> QED
    BY <2>1, <2>3, <2>4 DEF RouteInv
<1> QED
  BY <1>1, RouteInvHolds, PTL

-----------------------------------------------------------------------------
(* Catalog: selections of jobs *)

(* Where a sequence of m sequences put one after the other has what they    *)
(* have: place p has what the row row[p] has at col[p], in the order of the *)
(* rows and of each row, and nothing is left out.                           *)
Joins(row, col, t, ss, m) ==
    /\ \A p \in 1..Len(t) : /\ row[p] \in 1..m /\ col[p] \in 1..Len(ss[row[p]])
                            /\ t[p] = ss[row[p]][col[p]]
    /\ \A p, q \in 1..Len(t) : p < q => \/ row[p] < row[q]
                                        \/ row[p] = row[q] /\ col[p] < col[q]
    /\ \A r \in 1..m : \A c \in 1..Len(ss[r]) : \E p \in 1..Len(t) : t[p] = ss[r][c]

(* One more sequence put after what is joined so far.                       *)
LEMMA JoinsConcat ==
  ASSUME NEW E, NEW n \in Nat, NEW ss \in Seq(Seq(E)), NEW m \in Nat, m + 1 \in 1..Len(ss),
         NEW t \in Seq(E), NEW row, NEW col, Joins(row, col, t, ss, m)
  PROVE  /\ t \o ss[m + 1] \in Seq(E)
         /\ \E r, c : Joins(r, c, t \o ss[m + 1], ss, m + 1)
<1> DEFINE x == ss[m + 1]
           u == t \o x
           k == Len(t)
           r == [p \in 1..(k + Len(x)) |-> IF p <= k THEN row[p] ELSE m + 1]
           c == [p \in 1..(k + Len(x)) |-> IF p <= k THEN col[p] ELSE p - k]
<1>1. x \in Seq(E) /\ k \in Nat /\ Len(x) \in Nat
  OBVIOUS
<1> HIDE DEF x
<1>2. /\ u \in Seq(E) /\ Len(u) = k + Len(x)
      /\ \A p \in 1..(k + Len(x)) : u[p] = IF p <= k THEN t[p] ELSE x[p - k]
  <2>1. /\ u \in Seq(E) /\ Len(u) = Len(t) + Len(x)
        /\ \A i \in 1..Len(t) + Len(x) : u[i] = IF i <= Len(t) THEN t[i] ELSE x[i - Len(t)]
    BY <1>1, ConcatProperties
  <2> QED
    BY <2>1
<1> DEFINE N == k + Len(x)
<1>3. /\ \A p \in 1..k : p \in 1..N /\ r[p] = row[p] /\ c[p] = col[p] /\ u[p] = t[p]
      /\ \A p \in 1..N : ~(p <= k) => p - k \in 1..Len(x)
      /\ \A p \in 1..N : p <= k => p \in 1..k
      /\ \A p \in 1..N : ~(p <= k) => r[p] = m + 1 /\ c[p] = p - k /\ u[p] = x[p - k]
  <2> HIDE DEF u, x
  <2>1. ASSUME NEW p \in 1..k PROVE p \in 1..N /\ r[p] = row[p] /\ c[p] = col[p] /\ u[p] = t[p]
    <3>1. p \in 1..N /\ p <= k
      BY <1>1
    <3> QED
      BY <1>2, <3>1
  <2>2. ASSUME NEW p \in 1..N, ~(p <= k)
        PROVE  p - k \in 1..Len(x) /\ r[p] = m + 1 /\ c[p] = p - k /\ u[p] = x[p - k]
    <3>1. p - k \in 1..Len(x)
      BY <1>1, <2>2
    <3> QED
      BY <1>2, <2>2, <3>1
  <2>3. ASSUME NEW p \in 1..N, p <= k PROVE p \in 1..k
    BY <1>1, <2>3
  <2> HIDE DEF k, N, r, c
  <2> QED
    BY <2>1, <2>2, <2>3
<1>4. \A p \in 1..k : row[p] \in 1..m /\ col[p] \in 1..Len(ss[row[p]]) /\ t[p] = ss[row[p]][col[p]]
  BY DEF Joins
<1> HIDE DEF u, r, c
<1>5. ASSUME NEW p \in 1..N
      PROVE  r[p] \in 1..(m + 1) /\ c[p] \in 1..Len(ss[r[p]]) /\ u[p] = ss[r[p]][c[p]]
  <2>1. CASE p \in 1..k
    <3>1. row[p] \in 1..m /\ 1..m \subseteq 1..(m + 1)
      BY <1>4, <2>1
    <3> QED
      BY <1>3, <1>4, <2>1, <3>1
  <2>2. CASE ~(p <= k)
    <3>1. m + 1 \in 1..(m + 1)
      OBVIOUS
    <3>2. r[p] = m + 1 /\ c[p] = p - k /\ u[p] = x[p - k] /\ p - k \in 1..Len(x)
      BY <1>3, <2>2
    <3>3. ss[r[p]] = x
      BY <3>2 DEF x
    <3> HIDE DEF k, N
    <3> QED
      BY <3>1, <3>2, <3>3
  <2> QED
    BY <1>3, <2>1, <2>2
<1>6. ASSUME NEW p \in 1..N, NEW q \in 1..N, p < q
      PROVE  r[p] < r[q] \/ (r[p] = r[q] /\ c[p] < c[q])
  <2>1. CASE q \in 1..k
    <3>1. p \in 1..k
      BY <1>1, <1>6, <2>1
    <3>2. row[p] < row[q] \/ (row[p] = row[q] /\ col[p] < col[q])
      BY <1>6, <2>1, <3>1 DEF Joins
    <3>3. r[p] = row[p] /\ c[p] = col[p] /\ r[q] = row[q] /\ c[q] = col[q]
      BY <1>3, <2>1, <3>1
    <3> QED
      BY <3>2, <3>3
  <2>2. CASE ~(q <= k) /\ p \in 1..k
    <3>1. r[p] = row[p] /\ row[p] \in 1..m /\ r[q] = m + 1
      BY <1>3, <1>4, <2>2
    <3> QED
      BY <3>1
  <2>3. CASE ~(q <= k) /\ ~(p <= k)
    <3>1. r[p] = r[q] /\ c[p] = p - k /\ c[q] = q - k
      BY <1>3, <2>3
    <3>2. p - k < q - k
      BY <1>1, <1>6
    <3> QED
      BY <3>1, <3>2
  <2> QED
    BY <1>3, <2>1, <2>2, <2>3
<1>7. ASSUME NEW i \in 1..(m + 1), NEW j \in 1..Len(ss[i]) PROVE \E p \in 1..N : u[p] = ss[i][j]
  <2>1. CASE i \in 1..m
    <3>1. PICK p \in 1..k : t[p] = ss[i][j]
      BY <2>1 DEF Joins
    <3> QED
      BY <1>3, <3>1
  <2>2. CASE i = m + 1
    <3>1. j \in 1..Len(x) /\ ss[i] = x
      BY <2>2 DEF x
    <3>2. k + j \in 1..N /\ ~(k + j <= k) /\ (k + j) - k = j
      BY <1>1, <3>1
    <3>3. u[k + j] = x[(k + j) - k]
      BY <1>3, <3>2
    <3> QED
      BY <3>1, <3>2, <3>3
  <2> QED
    BY <2>1, <2>2
<1>8. Joins(r, c, u, ss, m + 1)
  <2>1. Len(u) = N
    BY <1>2
  <2> HIDE DEF N
  <2> QED
    BY <2>1, <1>5, <1>6, <1>7 DEF Joins
<1>9. u \in Seq(E) /\ \E i, j : Joins(i, j, u, ss, m + 1)
  BY <1>2, <1>8
<1> QED
  BY <1>9 DEF u, x

(* One step of FlattenSeq: what the first n sequences are joined to, by g.  *)
Joined(ss, g, n) == IF n = 1 THEN ss[n] ELSE g[n - 1] \o ss[n]

(* The sequences of the first n sequences joined, for each n: what the      *)
(* CHOOSE of FlattenSeq takes.                                              *)
LEMMA JoinedExist ==
  ASSUME NEW ss, NEW m \in Nat
  PROVE  \E g : g = [n \in 1..m |-> Joined(ss, g, n)]
<1> DEFINE T == {k \in Nat : \E g : g = [n \in 1..k |-> Joined(ss, g, n)]}
<1>1. 0 \in T
  <2> DEFINE g == [n \in 1..0 |-> <<>>]
  <2>1. g = [n \in 1..0 |-> Joined(ss, g, n)]
    OBVIOUS
  <2> QED
    BY <2>1
<1>2. ASSUME NEW k \in T PROVE k + 1 \in T
  <2>1. PICK g : g = [n \in 1..k |-> Joined(ss, g, n)]
    OBVIOUS
  <2> DEFINE h == [n \in 1..(k + 1) |-> IF n = k + 1 THEN Joined(ss, g, n) ELSE g[n]]
  <2>2. ASSUME NEW n \in 1..(k + 1) PROVE h[n] = Joined(ss, h, n)
    <3>1. CASE n = k + 1
      <4>1. h[n] = Joined(ss, g, n) /\ (n # 1 => h[n - 1] = g[n - 1])
        BY <3>1
      <4> HIDE DEF h
      <4> QED
        BY <4>1 DEF Joined
    <3>2. CASE n \in 1..k /\ n # k + 1
      <4>1. h[n] = g[n]
        BY <3>2
      <4>2. g[n] = Joined(ss, g, n)
        BY <2>1, <3>2
      <4>3. n # 1 => h[n - 1] = g[n - 1]
        BY <3>2
      <4> HIDE DEF h
      <4> QED
        BY <4>1, <4>2, <4>3 DEF Joined
    <3> QED
      BY <3>1, <3>2
  <2>3. h = [n \in 1..(k + 1) |-> Joined(ss, h, n)]
    BY <2>2
  <2> HIDE DEF h
  <2> QED
    BY <2>3
<1> HIDE DEF T
<1>3. T = Nat
  BY <1>1, <1>2, Induction DEF T
<1> QED
  BY <1>3 DEF T

(* FlattenSeq puts the sequences one after the other.                       *)
LEMMA FlattenSeqProperties ==
  ASSUME NEW E, NEW ss \in Seq(Seq(E))
  PROVE  /\ FlattenSeq(ss) \in Seq(E)
         /\ \E row, col : Joins(row, col, FlattenSeq(ss), ss, Len(ss))
<1>1. Len(ss) \in Nat
  OBVIOUS
<1>2. CASE Len(ss) = 0
  <2>1. ss = <<>>
    BY <1>2
  <2>2. FlattenSeq(ss) = <<>>
    BY <1>2, <2>1 DEF FlattenSeq
  <2>3. FlattenSeq(ss) \in Seq(E) /\ Len(FlattenSeq(ss)) = 0
    BY <2>2
  <2> DEFINE f == [k \in 1..0 |-> 0]
             t == FlattenSeq(ss)
  <2> HIDE DEF t
  <2>4. Joins(f, f, t, ss, Len(ss))
    BY <1>2, <2>3 DEF Joins, t
  <2> QED
    BY <2>3, <2>4 DEF t
<1>3. CASE Len(ss) # 0
  <2>1. \E g : g = [n \in 1..Len(ss) |-> Joined(ss, g, n)]
    BY <1>1, JoinedExist
  <2>2. \E g : /\ g = [n \in 1..Len(ss) |-> Joined(ss, g, n)]
               /\ FlattenSeq(ss) = g[Len(ss)]
    BY <1>3, <2>1, Zenon DEF FlattenSeq, Joined
  <2>3. PICK g : /\ g = [n \in 1..Len(ss) |-> Joined(ss, g, n)]
                 /\ FlattenSeq(ss) = g[Len(ss)]
    BY <2>2
  <2>4. g[1] = ss[1] /\ ss[1] \in Seq(E)
    BY <1>1, <1>3, <2>3 DEF Joined
  <2>5. ASSUME NEW n \in Nat, n >= 1, n + 1 <= Len(ss) PROVE g[n + 1] = g[n] \o ss[n + 1]
    <3>1. n + 1 \in 1..Len(ss) /\ n + 1 # 1 /\ (n + 1) - 1 = n
      BY <2>5
    <3>2. g[n + 1] = Joined(ss, g, n + 1)
      BY <2>3, <3>1
    <3> QED
      BY <3>1, <3>2 DEF Joined
  <2> DEFINE P(n) == g[n] \in Seq(E) /\ \E row, col : Joins(row, col, g[n], ss, n)
             T == {n \in Nat : n >= 1 /\ n <= Len(ss) => P(n)}
  <2>6. P(1)
    <3> DEFINE row == [p \in 1..Len(ss[1]) |-> 1]
               col == [p \in 1..Len(ss[1]) |-> p]
    <3>1. \A p \in 1..Len(ss[1]) : row[p] = 1 /\ col[p] = p
      OBVIOUS
    <3>2. Joins(row, col, ss[1], ss, 1)
      <4> HIDE DEF row, col
      <4>1. 1..1 = {1}
        OBVIOUS
      <4> QED
        BY <3>1, <4>1 DEF Joins
    <3> HIDE DEF row, col
    <3> QED
      BY <2>4, <3>2
  <2>7. ASSUME NEW n \in T PROVE n + 1 \in T
    <3> SUFFICES ASSUME n + 1 >= 1, n + 1 <= Len(ss) PROVE P(n + 1)
      OBVIOUS
    <3>1. CASE n = 0
      BY <3>1, <2>6
    <3>2. CASE n # 0
      <4>1. n \in Nat /\ n >= 1 /\ n <= Len(ss) /\ n + 1 \in 1..Len(ss)
        BY <1>1, <3>2
      <4>2. P(n)
        BY <4>1
      <4>3. PICK row, col : Joins(row, col, g[n], ss, n)
        BY <4>2
      <4>4. /\ g[n] \o ss[n + 1] \in Seq(E)
            /\ \E r, c : Joins(r, c, g[n] \o ss[n + 1], ss, n + 1)
        BY <4>1, <4>2, <4>3, JoinsConcat
      <4>5. g[n + 1] = g[n] \o ss[n + 1]
        BY <2>5, <4>1
      <4> QED
        BY <4>4, <4>5
    <3> QED
      BY <3>1, <3>2
  <2>8. 0 \in T /\ T \in SUBSET Nat
    OBVIOUS
  <2>9. Len(ss) \in T
    <3> HIDE DEF T
    <3> QED
      BY <1>1, <2>7, <2>8, Induction
  <2>10. P(Len(ss))
    BY <1>1, <1>3, <2>9
  <2> QED
    BY <2>3, <2>10
<1> QED
  BY <1>2, <1>3

(* And has what each of them has.                                           *)
LEMMA FlattenSeqElements ==
  ASSUME NEW E, NEW ss \in Seq(Seq(E)), NEW x
  PROVE  x \in Elements(FlattenSeq(ss)) <=> \E r \in 1..Len(ss) : x \in Elements(ss[r])
<1> DEFINE t == FlattenSeq(ss)
<1>1. t \in Seq(E) /\ \E row, col : Joins(row, col, t, ss, Len(ss))
  BY FlattenSeqProperties
<1> HIDE DEF t
<1>2. PICK row, col : Joins(row, col, t, ss, Len(ss))
  BY <1>1
<1>3. x \in Elements(t) <=> \E p \in 1..Len(t) : t[p] = x
  BY <1>1, ElementOf
<1>4. \A r \in 1..Len(ss) : x \in Elements(ss[r]) <=> \E c \in 1..Len(ss[r]) : ss[r][c] = x
  <2> SUFFICES ASSUME NEW r \in 1..Len(ss)
               PROVE  x \in Elements(ss[r]) <=> \E c \in 1..Len(ss[r]) : ss[r][c] = x
    OBVIOUS
  <2>1. ss[r] \in Seq(E)
    OBVIOUS
  <2> QED
    BY <2>1, ElementOf
<1>5. ASSUME NEW p \in 1..Len(t), t[p] = x
      PROVE  \E r \in 1..Len(ss) : \E c \in 1..Len(ss[r]) : ss[r][c] = x
  BY <1>2, <1>5 DEF Joins
<1>6. ASSUME NEW r \in 1..Len(ss), NEW c \in 1..Len(ss[r]), ss[r][c] = x
      PROVE  \E p \in 1..Len(t) : t[p] = x
  <2>1. \E p \in 1..Len(t) : t[p] = ss[r][c]
    BY <1>2 DEF Joins
  <2> QED
    BY <1>6, <2>1
<1> QED
  BY <1>3, <1>4, <1>5, <1>6, Zenon DEF t

(* Catalog's own names of the operators its groups and orders are made of.  *)
LEMMA GroupOperators ==
  /\ \A s : Choice!ToSet(s) = Elements(s)
  /\ \A s : Choice!Firsts(s) = Firsts(s)
  /\ \A s, key : Choice!SortedBy(s, key) = SortedBy(s, key)
  /\ \A s : Choice!FlattenSeq(s) = FlattenSeq(s)
<1>1. \A s : Choice!ToSet(s) = Elements(s)
  BY DEF Choice!ToSet, Elements
<1>2. \A s : Choice!Firsts(s) = Firsts(s)
  BY CatalogOperators, Zenon DEF Choice!Firsts, Firsts
<1>3. \A s, key : Choice!SortedBy(s, key) = SortedBy(s, key)
  BY Zenon DEF Choice!SortedBy, SortedBy, Choice!Ahead, Ahead, Choice!Cardinality, Cardinality
<1>4. \A s : Choice!FlattenSeq(s) = FlattenSeq(s)
  BY Zenon DEF Choice!FlattenSeq, FlattenSeq
<1> QED
  BY <1>1, <1>2, <1>3, <1>4

(* What Grouped makes of entries: a group for each key there is, with the   *)
(* jobs of the entries with that key in their order.                        *)
Entry(K, J) == [key : K, job : J]
Group(K, J) == [key : K, jobs : Seq(J)]

HasEntry(entries, k, x) == \E i \in 1..Len(entries) : entries[i].key = k /\ entries[i].job = x

Picked(f, list, entries) ==
    /\ \A k \in 1..Len(list) : f[k] \in 1..Len(entries) /\ entries[f[k]].job = list[k]
    /\ \A j, k \in 1..Len(list) : j < k => f[j] < f[k]

GroupsOf(G, entries) ==
    /\ \A m, n \in 1..Len(G) : G[m].key = G[n].key => m = n
    /\ \A n \in 1..Len(G) : \A x : x \in Elements(G[n].jobs) <=> HasEntry(entries, G[n].key, x)
    /\ \A n \in 1..Len(G) : \E f : Picked(f, G[n].jobs, entries)
    /\ \A i \in 1..Len(entries) : \E n \in 1..Len(G) : G[n].key = entries[i].key

(* grouped(): Grouped makes such groups of every list of entries.           *)
LEMMA GroupedProperties ==
  ASSUME NEW K, NEW J, NEW entries \in Seq(Entry(K, J))
  PROVE  /\ Choice!Grouped(entries) \in Seq(Group(K, J))
         /\ GroupsOf(Choice!Grouped(entries), entries)
<1> DEFINE ks == [n \in DOMAIN entries |-> entries[n].key]
           keys == Firsts(ks)
           Of(k) == {e \in Elements(entries) : e.key = k}
           list(k) == Choice!JobsOf(Only(entries, Of(k)))
           G == [n \in DOMAIN keys |-> [key |-> keys[n], jobs |-> list(keys[n])]]
<1>1. Choice!Grouped(entries) = G
  BY CatalogOperators, GroupOperators, Zenon DEF Choice!Grouped
<1>2. /\ Len(entries) \in Nat /\ DOMAIN entries = 1..Len(entries)
      /\ \A i \in 1..Len(entries) : entries[i] \in Entry(K, J)
      /\ \A e \in Entry(K, J) : e.key \in K /\ e.job \in J
  <2>1. /\ Len(entries) \in Nat /\ DOMAIN entries = 1..Len(entries)
        /\ \A i \in 1..Len(entries) : entries[i] \in Entry(K, J)
    OBVIOUS
  <2>2. \A e \in Entry(K, J) : e.key \in K /\ e.job \in J
    BY DEF Entry
  <2> QED
    BY <2>1, <2>2
<1>3. ks \in Seq(K) /\ Len(ks) = Len(entries) /\ \A i \in 1..Len(entries) : ks[i] = entries[i].key
  BY <1>2
<1> HIDE DEF ks
<1>4. keys \in Seq(K) /\ (\E f : FirstPlaces(f, keys, ks)) /\ Elements(keys) = Elements(ks)
  BY <1>3, FirstsProperties
<1> HIDE DEF keys
<1>5. ASSUME NEW k
      PROVE  /\ list(k) \in Seq(J)
             /\ \A x : x \in Elements(list(k)) <=> HasEntry(entries, k, x)
             /\ \E f : Picked(f, list(k), entries)
  <2> DEFINE S == Of(k)
             t == Only(entries, S)
             l == Choice!JobsOf(t)
  <2>1. \A i \in 1..Len(entries) : entries[i] \in S <=> entries[i].key = k
    BY <1>2 DEF Elements
  <2> HIDE DEF S
  <2>2. t \in Seq(Entry(K, J)) /\ \E f : Picks(f, t, entries, S)
    BY OnlyProperties
  <2> HIDE DEF t
  <2>3. PICK f : Picks(f, t, entries, S)
    BY <2>2
  <2>4. Len(t) \in Nat /\ DOMAIN t = 1..Len(t) /\ \A i \in 1..Len(t) : t[i] \in Entry(K, J)
    BY <2>2
  <2>5. l \in Seq(J) /\ Len(l) = Len(t) /\ \A i \in 1..Len(t) : l[i] = t[i].job
    BY <1>2, <2>4 DEF Choice!JobsOf
  <2> HIDE DEF l
  <2>6. \A i \in 1..Len(t) : /\ f[i] \in 1..Len(entries) /\ t[i] = entries[f[i]]
                             /\ entries[f[i]].key = k
    BY <2>1, <2>3 DEF Picks
  <2>7. Picked(f, l, entries)
    BY <2>3, <2>5, <2>6 DEF Picked, Picks
  <2>8. ASSUME NEW x PROVE x \in Elements(l) <=> HasEntry(entries, k, x)
    <3>1. x \in Elements(l) <=> \E i \in 1..Len(t) : l[i] = x
      BY <2>5, ElementOf
    <3>2. ASSUME NEW i \in 1..Len(t), l[i] = x PROVE HasEntry(entries, k, x)
      <4>1. f[i] \in 1..Len(entries) /\ entries[f[i]].key = k /\ entries[f[i]].job = x
        BY <2>5, <2>6, <3>2
      <4> QED
        BY <4>1 DEF HasEntry
    <3>3. ASSUME HasEntry(entries, k, x) PROVE \E i \in 1..Len(t) : l[i] = x
      <4>1. PICK i \in 1..Len(entries) : entries[i].key = k /\ entries[i].job = x
        BY <3>3 DEF HasEntry
      <4>2. PICK j \in 1..Len(t) : f[j] = i
        BY <2>1, <2>3, <4>1 DEF Picks
      <4>3. l[j] = x
        BY <2>5, <2>6, <4>1, <4>2
      <4> QED
        BY <4>3
    <3> QED
      BY <3>1, <3>2, <3>3
  <2>9. l = list(k)
    BY DEF l, t, S
  <2> HIDE DEF list
  <2> QED
    BY <2>5, <2>7, <2>8, <2>9
<1> HIDE DEF list
<1>6. Len(keys) \in Nat /\ DOMAIN keys = 1..Len(keys) /\ \A n \in 1..Len(keys) : keys[n] \in K
  BY <1>4
<1>7. G \in Seq(Group(K, J)) /\ Len(G) = Len(keys)
      /\ \A n \in 1..Len(keys) : G[n].key = keys[n] /\ G[n].jobs = list(keys[n])
  <2>1. \A n \in 1..Len(keys) : [key |-> keys[n], jobs |-> list(keys[n])] \in Group(K, J)
    BY <1>5, <1>6 DEF Group
  <2> QED
    BY <1>6, <2>1
<1> HIDE DEF G
<1>8. \A m, n \in 1..Len(G) : G[m].key = G[n].key => m = n
  <2>1. PICK f : FirstPlaces(f, keys, ks)
    BY <1>4
  <2> QED
    BY <1>7, <2>1 DEF FirstPlaces
<1>9. \A i \in 1..Len(entries) : \E n \in 1..Len(G) : G[n].key = entries[i].key
  <2> SUFFICES ASSUME NEW i \in 1..Len(entries) PROVE \E n \in 1..Len(G) : G[n].key = entries[i].key
    OBVIOUS
  <2>1. entries[i].key \in Elements(ks)
    <3>1. ks[i] = entries[i].key /\ i \in 1..Len(ks)
      BY <1>3
    <3> QED
      BY <1>3, <3>1, ElementOf
  <2>2. \E n \in 1..Len(keys) : keys[n] = entries[i].key
    BY <1>4, <2>1, ElementOf
  <2> QED
    BY <1>7, <2>2
<1>10. GroupsOf(G, entries)
  BY <1>5, <1>7, <1>8, <1>9 DEF GroupsOf
<1> QED
  BY <1>1, <1>7, <1>10

(* The jobs of the groups with a key are those of the entries with it.      *)
LEMMA BucketHas ==
  ASSUME NEW K, NEW J, NEW entries \in Seq(Entry(K, J)), NEW k, NEW x
  PROVE  x \in Choice!Bucket(Choice!Grouped(entries), k) <=> HasEntry(entries, k, x)
<1> DEFINE G == Choice!Grouped(entries)
<1>1. G \in Seq(Group(K, J)) /\ GroupsOf(G, entries)
  BY GroupedProperties
<1> HIDE DEF G
<1>2. DOMAIN G = 1..Len(G)
  BY <1>1
<1>3. x \in Choice!Bucket(G, k) <=> \E n \in 1..Len(G) : G[n].key = k /\ x \in Elements(G[n].jobs)
  BY <1>2, GroupOperators DEF Choice!Bucket
<1>4. \A n \in 1..Len(G) : x \in Elements(G[n].jobs) <=> HasEntry(entries, G[n].key, x)
  BY <1>1, Zenon DEF GroupsOf
<1>5. HasEntry(entries, k, x) => \E n \in 1..Len(G) : G[n].key = k
  <2> SUFFICES ASSUME HasEntry(entries, k, x) PROVE \E n \in 1..Len(G) : G[n].key = k
    OBVIOUS
  <2>1. PICK i \in 1..Len(entries) : entries[i].key = k
    BY Zenon DEF HasEntry
  <2>2. \A e \in 1..Len(entries) : \E n \in 1..Len(G) : G[n].key = entries[e].key
    BY <1>1, Zenon DEF GroupsOf
  <2> QED
    BY <2>1, <2>2, Zenon
<1> QED
  BY <1>3, <1>4, <1>5, Zenon DEF G

(* flatten_groups() has every job of the groups, and has it once.           *)
LEMMA FlattenHas ==
  ASSUME NEW K, NEW J, NEW G \in Seq(Group(K, J))
  PROVE  \E flat, row, col, f :
            /\ flat \in Seq(J)
            /\ Joins(row, col, flat, [n \in DOMAIN G |-> G[n].jobs], Len(G))
            /\ Choice!FlattenGroups(G) \in Seq(J)
            /\ FirstPlaces(f, Choice!FlattenGroups(G), flat)
            /\ \A x : x \in Elements(Choice!FlattenGroups(G)) <=>
                         \E n \in 1..Len(G) : x \in Elements(G[n].jobs)
<1> DEFINE ss == [n \in DOMAIN G |-> G[n].jobs]
           flat == FlattenSeq(ss)
           t == Firsts(flat)
<1>1. DOMAIN G = 1..Len(G) /\ Len(G) \in Nat /\ \A n \in 1..Len(G) : G[n].jobs \in Seq(J)
  <2>1. DOMAIN G = 1..Len(G) /\ Len(G) \in Nat /\ \A n \in 1..Len(G) : G[n] \in Group(K, J)
    OBVIOUS
  <2> QED
    BY <2>1 DEF Group
<1>2. ss \in Seq(Seq(J)) /\ Len(ss) = Len(G) /\ \A n \in 1..Len(G) : ss[n] = G[n].jobs
  BY <1>1
<1>3. Choice!FlattenGroups(G) = t
  BY GroupOperators DEF Choice!FlattenGroups
<1> HIDE DEF ss
<1>4. flat \in Seq(J) /\ \E row, col : Joins(row, col, flat, ss, Len(ss))
  BY <1>2, FlattenSeqProperties
<1>5. \A x : x \in Elements(flat) <=> \E n \in 1..Len(ss) : x \in Elements(ss[n])
  BY <1>2, FlattenSeqElements
<1> HIDE DEF flat
<1>6. t \in Seq(J) /\ (\E f : FirstPlaces(f, t, flat)) /\ Elements(t) = Elements(flat)
  BY <1>4, FirstsProperties
<1> HIDE DEF t
<1>7. PICK row, col : Joins(row, col, flat, ss, Len(G))
  BY <1>2, <1>4
<1>8. PICK f : FirstPlaces(f, t, flat)
  BY <1>6
<1>9. \A x : x \in Elements(t) <=> \E n \in 1..Len(G) : x \in Elements(G[n].jobs)
  BY <1>2, <1>5, <1>6
<1> QED
  BY <1>3, <1>4, <1>6, <1>7, <1>8, <1>9 DEF ss

(* OnceEach by places: no job is at two of them, and the jobs are those of  *)
(* the other list.                                                          *)
LEMMA OnceEachIs ==
  ASSUME NEW s, NEW t
  PROVE  Choice!OnceEach(s, t) <=> /\ \A i, j \in DOMAIN s : s[i] = s[j] => i = j
                                   /\ Elements(s) = Elements(t)
BY GroupOperators DEF Choice!OnceEach, Choice!IsInjective

(* The groups of entries for some jobs hold each of these, once.            *)
LEMMA GroupsHoldOnce ==
  ASSUME NEW K, NEW J, NEW entries \in Seq(Entry(K, J)), NEW s \in Seq(J),
         \A x : x \in Elements(s) <=> \E i \in 1..Len(entries) : entries[i].job = x
  PROVE  Choice!OnceEach(Choice!FlattenGroups(Choice!Grouped(entries)), s)
<1> DEFINE G == Choice!Grouped(entries)
           t == Choice!FlattenGroups(G)
<1>1. G \in Seq(Group(K, J)) /\ GroupsOf(G, entries)
  BY GroupedProperties
<1> HIDE DEF G
<1>2. PICK flat, row, col, f :
            /\ flat \in Seq(J)
            /\ Joins(row, col, flat, [n \in DOMAIN G |-> G[n].jobs], Len(G))
            /\ t \in Seq(J)
            /\ FirstPlaces(f, t, flat)
            /\ \A x : x \in Elements(t) <=> \E n \in 1..Len(G) : x \in Elements(G[n].jobs)
  BY <1>1, FlattenHas
<1> HIDE DEF t
<1>3. \A i, j \in DOMAIN t : t[i] = t[j] => i = j
  <2>1. DOMAIN t = 1..Len(t)
    BY <1>2
  <2> QED
    BY <1>2, <2>1 DEF FirstPlaces
<1>4. ASSUME NEW x PROVE x \in Elements(t) <=> x \in Elements(s)
  <2>1. x \in Elements(t) <=> \E n \in 1..Len(G) : x \in Elements(G[n].jobs)
    BY <1>2
  <2>2. \A n \in 1..Len(G) : x \in Elements(G[n].jobs) <=> HasEntry(entries, G[n].key, x)
    BY <1>1, Zenon DEF GroupsOf
  <2>3. ASSUME NEW n \in 1..Len(G), HasEntry(entries, G[n].key, x) PROVE x \in Elements(s)
    BY <2>3 DEF HasEntry
  <2>4. ASSUME NEW i \in 1..Len(entries), entries[i].job = x
        PROVE  \E n \in 1..Len(G) : HasEntry(entries, G[n].key, x)
    BY <1>1, <2>4 DEF GroupsOf, HasEntry
  <2> QED
    BY <2>1, <2>2, <2>3, <2>4
<1>5. Elements(t) = Elements(s)
  BY <1>4
<1> QED
  BY <1>3, <1>5, OnceEachIs DEF t, G

(* Groups by a key of each job: the entries are the jobs with their keys.   *)
ByKey(entries, s, key) ==
    /\ Len(entries) = Len(s)
    /\ \A i \in 1..Len(s) : entries[i].key = key[s[i]] /\ entries[i].job = s[i]

(* Every grouping by a key of the job is a grouping of such entries         *)
(* (job_grouping.py:10-15).                                                 *)
LEMMA GroupByEntries ==
  ASSUME NEW J, NEW s \in Seq(J), NEW key, NEW K, \A i \in 1..Len(s) : key[s[i]] \in K
  PROVE  \E entries \in Seq(Entry(K, J)) :
            Choice!GroupBy(s, key) = Choice!Grouped(entries) /\ ByKey(entries, s, key)
<1> DEFINE entries == [n \in DOMAIN s |-> [key |-> key[s[n]], job |-> s[n]]]
<1>1. DOMAIN s = 1..Len(s) /\ Len(s) \in Nat /\ \A i \in 1..Len(s) : s[i] \in J
  OBVIOUS
<1>3. \A i \in 1..Len(s) : [key |-> key[s[i]], job |-> s[i]] \in Entry(K, J)
  BY <1>1 DEF Entry
<1>4. entries \in Seq(Entry(K, J)) /\ ByKey(entries, s, key)
  BY <1>1, <1>3 DEF ByKey
<1>5. Choice!GroupBy(s, key) = Choice!Grouped(entries)
  BY DEF Choice!GroupBy
<1> HIDE DEF entries
<1> QED
  BY <1>4, <1>5

(* group_by(): the group of a key has the jobs with that key, and together  *)
(* the groups have every job once.                                          *)
LEMMA GroupByHas ==
  ASSUME NEW J, NEW s \in Seq(J), NEW key
  PROVE  /\ \A k, x : x \in Choice!Bucket(Choice!GroupBy(s, key), k) <=>
                         x \in Elements(s) /\ key[x] = k
         /\ Choice!OnceEach(Choice!FlattenGroups(Choice!GroupBy(s, key)), s)
<1> DEFINE K == {key[s[i]] : i \in 1..Len(s)}
<1>0. \A i \in 1..Len(s) : key[s[i]] \in K
  OBVIOUS
<1> HIDE DEF K
<1>1. PICK entries \in Seq(Entry(K, J)) :
            Choice!GroupBy(s, key) = Choice!Grouped(entries) /\ ByKey(entries, s, key)
  BY <1>0, GroupByEntries
<1>2. \A x : x \in Elements(s) <=> \E i \in 1..Len(s) : s[i] = x
  BY ElementOf
<1>3. ASSUME NEW k, NEW x PROVE HasEntry(entries, k, x) <=> x \in Elements(s) /\ key[x] = k
  BY <1>1, <1>2 DEF HasEntry, ByKey
<1>4. ASSUME NEW k, NEW x
      PROVE  x \in Choice!Bucket(Choice!GroupBy(s, key), k) <=> x \in Elements(s) /\ key[x] = k
  BY <1>1, <1>3, BucketHas
<1>5. \A x : x \in Elements(s) <=> \E i \in 1..Len(entries) : entries[i].job = x
  BY <1>1, <1>2 DEF ByKey
<1>6. Choice!OnceEach(Choice!FlattenGroups(Choice!GroupBy(s, key)), s)
  BY <1>1, <1>5, GroupsHoldOnce
<1> QED
  BY <1>4, <1>6

(* A selection has the jobs that qualify.                                   *)
LEMMA SelectionHas ==
  ASSUME jobs \in Seq(Choice!Named)
  PROVE  \A S, x : x \in Choice!ToSet(Choice!Only(jobs, S)) <=> x \in Choice!ToSet(jobs) /\ x \in S
BY OnlyElements, CatalogOperators, GroupOperators

(* The jobs of the list are jobs.                                           *)
LEMMA JobsAreNamed ==
  ASSUME jobs \in Seq(Choice!Named)
  PROVE  \A x \in Choice!ToSet(jobs) : x \in Choice!Named
<1>1. \A x \in Elements(jobs) : x \in Choice!Named
  BY ElementOf
<1> QED
  BY <1>1, GroupOperators

(* The filters by tag select what the tags say.                             *)
LEMMA TagFilters ==
  ASSUME jobs \in Seq(Choice!Named), NEW some
  PROVE  /\ Choice!SelectJobs(jobs, some, Choice!Named, TRUE) = Choice!JobsMatchingAny(jobs, some)
         /\ Choice!ToSet(Choice!SelectJobs(jobs, some, Choice!Named, FALSE)) =
                {j \in Choice!ToSet(Choice!JobsMatchingAny(jobs, some)) : Attributes[j].enabled}
         /\ Choice!ToSet(Choice!JobsMatchingAll(jobs, some)) =
                {j \in Choice!ToSet(jobs) :
                    \A t \in some : j \in Choice!ToSet(Choice!JobsWithTag(jobs, t))}
<1> DEFINE A == {j \in Choice!ToSet(jobs) : some = {} \/ Choice!TagsFor(j) \cap some # {}}
           B(e) == {j \in Choice!ToSet(jobs) : Choice!FilterMatches(j, some, Choice!Named, e)}
<1>1. Choice!JobsMatchingAny(jobs, some) = Choice!Only(jobs, A)
  BY DEF Choice!JobsMatchingAny
<1>2. /\ Choice!SelectJobs(jobs, some, Choice!Named, TRUE) = Choice!Only(jobs, B(FALSE))
      /\ Choice!SelectJobs(jobs, some, Choice!Named, FALSE) = Choice!Only(jobs, B(TRUE))
  BY DEF Choice!SelectJobs, Choice!ApplyFilter
<1>3. /\ \A j : j \in B(FALSE) <=> j \in A
      /\ \A j : j \in B(TRUE) <=> j \in A /\ Attributes[j].enabled
  BY JobsAreNamed DEF Choice!FilterMatches
<1>4. B(FALSE) = A
  BY <1>3
<1> HIDE DEF A, B
<1>5. Choice!ToSet(Choice!Only(jobs, B(TRUE))) =
          {j \in Choice!ToSet(Choice!Only(jobs, A)) : Attributes[j].enabled}
  BY <1>3, SelectionHas
<1>6. Choice!ToSet(Choice!JobsMatchingAll(jobs, some)) =
          {j \in Choice!ToSet(jobs) : \A t \in some : j \in Choice!ToSet(Choice!JobsWithTag(jobs, t))}
  <2>1. \A j : j \in Choice!ToSet(Choice!JobsMatchingAll(jobs, some)) <=>
                  j \in Choice!ToSet(jobs) /\ some \subseteq Choice!TagsFor(j)
    BY SelectionHas DEF Choice!JobsMatchingAll
  <2>2. \A j, t : j \in Choice!ToSet(Choice!JobsWithTag(jobs, t)) <=>
                     j \in Choice!ToSet(jobs) /\ t \in Choice!TagsFor(j)
    BY SelectionHas DEF Choice!JobsWithTag
  <2> QED
    BY <2>1, <2>2
<1> QED
  BY <1>1, <1>2, <1>4, <1>5, <1>6

(* The entries that group_by_tag() goes through.                            *)
LEMMA TagEntriesHave ==
  ASSUME jobs \in Seq(Choice!Named)
  PROVE  \E K, entries :
            /\ entries \in Seq(Entry(K, Choice!Named))
            /\ Choice!GroupByTag(jobs) = Choice!Grouped(entries)
            /\ \A t, x : HasEntry(entries, t, x) <=> x \in Elements(jobs) /\ t \in Choice!TagsFor(x)
            /\ \A i \in 1..Len(entries) : entries[i].job \in Elements(jobs)
<1> DEFINE N == Choice!Named
           K == UNION {Choice!TagsFor(x) : x \in N}
           ss == [n \in DOMAIN jobs |-> Choice!TagEntries(jobs[n])]
           entries == FlattenSeq(ss)
           tags(j) == Attributes[j].tags
<1>1. /\ DOMAIN jobs = 1..Len(jobs) /\ Len(jobs) \in Nat
      /\ \A n \in 1..Len(jobs) : jobs[n] \in N
  OBVIOUS
<1>2. ASSUME NEW j \in N
      PROVE  /\ tags(j) \in Seq(Choice!TagsFor(j)) /\ Choice!TagsFor(j) \subseteq K
             /\ DOMAIN tags(j) = 1..Len(tags(j)) /\ Len(tags(j)) \in Nat
             /\ \A t : t \in Choice!TagsFor(j) <=> \E c \in 1..Len(tags(j)) : tags(j)[c] = t
  <2>1. tags(j) \in Seq(Choice!TagsFor(j))
    BY BooksAssumption DEF Choice!CatalogAssumption, Choice!TagsFor
  <2>2. Choice!TagsFor(j) = Elements(tags(j))
    BY GroupOperators DEF Choice!TagsFor
  <2> HIDE DEF tags
  <2>3. DOMAIN tags(j) = 1..Len(tags(j)) /\ Len(tags(j)) \in Nat
    BY <2>1
  <2>4. \A t : t \in Elements(tags(j)) <=> \E c \in 1..Len(tags(j)) : tags(j)[c] = t
    BY <2>1, ElementOf
  <2> QED
    BY <2>1, <2>2, <2>3, <2>4
<1> HIDE DEF K, N
<1>3. ASSUME NEW j \in N
      PROVE  /\ Choice!TagEntries(j) \in Seq(Entry(K, N))
             /\ Len(Choice!TagEntries(j)) = Len(tags(j))
             /\ \A c \in 1..Len(tags(j)) : Choice!TagEntries(j)[c] = [key |-> tags(j)[c], job |-> j]
  <2>1. \A c \in 1..Len(tags(j)) : [key |-> tags(j)[c], job |-> j] \in Entry(K, N)
    BY <1>2 DEF Entry
  <2>2. Choice!TagEntries(j) = [c \in 1..Len(tags(j)) |-> [key |-> tags(j)[c], job |-> j]]
    BY <1>2 DEF Choice!TagEntries
  <2> HIDE DEF tags
  <2> QED
    BY <1>2, <2>1, <2>2
<1> HIDE DEF tags
<1>4. /\ ss \in Seq(Seq(Entry(K, N))) /\ Len(ss) = Len(jobs)
      /\ \A n \in 1..Len(jobs) : ss[n] = Choice!TagEntries(jobs[n])
  BY <1>1, <1>3
<1>5. Choice!GroupByTag(jobs) = Choice!Grouped(entries)
  BY GroupOperators DEF Choice!GroupByTag
<1> HIDE DEF ss
<1>6. entries \in Seq(Entry(K, N))
  BY <1>4, FlattenSeqProperties
<1>7. \A e : e \in Elements(entries) <=> \E n \in 1..Len(ss) : e \in Elements(ss[n])
  BY <1>4, FlattenSeqElements
<1> HIDE DEF entries
<1>8. ASSUME NEW t, NEW x
      PROVE  /\ HasEntry(entries, t, x) => x \in Elements(jobs) /\ t \in Choice!TagsFor(x)
             /\ x \in Elements(jobs) /\ t \in Choice!TagsFor(x) => HasEntry(entries, t, x)
  <2>1. ASSUME HasEntry(entries, t, x) PROVE x \in Elements(jobs) /\ t \in Choice!TagsFor(x)
    <3>1. PICK i \in 1..Len(entries) : entries[i].key = t /\ entries[i].job = x
      BY <2>1 DEF HasEntry
    <3>2. entries[i] \in Elements(entries)
      BY <1>6, ElementOf
    <3>3. PICK n \in 1..Len(jobs) : entries[i] \in Elements(Choice!TagEntries(jobs[n]))
      BY <1>4, <1>7, <3>2
    <3>4. jobs[n] \in N /\ jobs[n] \in Elements(jobs)
      BY <1>1, ElementOf
    <3>5. PICK c \in 1..Len(tags(jobs[n])) : entries[i] = [key |-> tags(jobs[n])[c], job |-> jobs[n]]
      BY <1>3, <3>3, <3>4, ElementOf
    <3>6. x = jobs[n] /\ t = tags(jobs[n])[c]
      BY <3>1, <3>5
    <3> QED
      BY <1>2, <3>4, <3>5, <3>6
  <2>2. ASSUME x \in Elements(jobs), t \in Choice!TagsFor(x) PROVE HasEntry(entries, t, x)
    <3>1. PICK n \in 1..Len(jobs) : jobs[n] = x
      BY <2>2, ElementOf
    <3>2. x \in N
      BY <1>1, <3>1
    <3>3. PICK c \in 1..Len(tags(x)) : tags(x)[c] = t
      BY <1>2, <2>2, <3>2
    <3> DEFINE e == [key |-> t, job |-> x]
    <3>4. Choice!TagEntries(x)[c] = e
      BY <1>3, <3>2, <3>3
    <3>5. e \in Elements(Choice!TagEntries(x))
      <4>1. Choice!TagEntries(x) \in Seq(Entry(K, N)) /\ c \in 1..Len(Choice!TagEntries(x))
        BY <1>3, <3>2
      <4> HIDE DEF e
      <4> QED
        BY <3>4, <4>1, ElementOf
    <3>6. e \in Elements(entries)
      <4> HIDE DEF e
      <4> QED
        BY <1>4, <1>7, <3>1, <3>5
    <3>7. PICK i \in 1..Len(entries) : entries[i] = e
      BY <1>6, <3>6, ElementOf
    <3>8. entries[i].key = t /\ entries[i].job = x
      BY <3>7
    <3> HIDE DEF e
    <3> QED
      BY <3>8 DEF HasEntry
  <2> QED
    BY <2>1, <2>2
<1>9. \A t, x : HasEntry(entries, t, x) <=> x \in Elements(jobs) /\ t \in Choice!TagsFor(x)
  BY <1>8
<1>10. \A i \in 1..Len(entries) : entries[i].job \in Elements(jobs)
  BY <1>8 DEF HasEntry
<1> QED
  BY <1>5, <1>6, <1>9, <1>10 DEF N

(* The groups by tag hold what the filters by tag pick (job_tags.py,        *)
(* job_filter.py, job_selector.py, job_grouping.py).                        *)
LEMMA TagsHold ==
  ASSUME jobs \in Seq(Choice!Named)
  PROVE  Choice!TagsAgree
<1>1. PICK K, entries :
            /\ entries \in Seq(Entry(K, Choice!Named))
            /\ Choice!GroupByTag(jobs) = Choice!Grouped(entries)
            /\ \A t, x : HasEntry(entries, t, x) <=> x \in Elements(jobs) /\ t \in Choice!TagsFor(x)
            /\ \A i \in 1..Len(entries) : entries[i].job \in Elements(jobs)
  BY TagEntriesHave, Zenon
<1>2. ASSUME NEW t PROVE Choice!Bucket(Choice!GroupByTag(jobs), t) =
                            Choice!ToSet(Choice!JobsWithTag(jobs, t))
  <2>1. \A x : x \in Choice!Bucket(Choice!GroupByTag(jobs), t) <=> HasEntry(entries, t, x)
    BY <1>1, BucketHas
  <2>2. \A x : x \in Choice!ToSet(Choice!JobsWithTag(jobs, t)) <=>
                  x \in Choice!ToSet(jobs) /\ t \in Choice!TagsFor(x)
    BY SelectionHas DEF Choice!JobsWithTag
  <2> QED
    BY <1>1, <2>1, <2>2, GroupOperators
<1> DEFINE S == {j \in Choice!ToSet(jobs) : Choice!TagsFor(j) # {}}
           tagged == Choice!Only(jobs, S)
<1>3. tagged \in Seq(Choice!Named) /\ Elements(tagged) = Elements(jobs) \cap S
  BY OnlyElements, CatalogOperators
<1>4. ASSUME NEW x
      PROVE  x \in Elements(tagged) <=> \E i \in 1..Len(entries) : entries[i].job = x
  <2>1. x \in Elements(tagged) <=> x \in Elements(jobs) /\ \E t : t \in Choice!TagsFor(x)
    BY <1>3, GroupOperators
  <2> HIDE DEF tagged
  <2>2. ASSUME x \in Elements(jobs), NEW t \in Choice!TagsFor(x)
        PROVE  \E i \in 1..Len(entries) : entries[i].job = x
    <3>1. HasEntry(entries, t, x)
      BY <1>1, <2>2
    <3> QED
      BY <3>1 DEF HasEntry
  <2>3. ASSUME NEW i \in 1..Len(entries), entries[i].job = x
        PROVE  x \in Elements(jobs) /\ \E t : t \in Choice!TagsFor(x)
    <3>1. HasEntry(entries, entries[i].key, x)
      BY <2>3 DEF HasEntry
    <3> QED
      BY <1>1, <3>1
  <2> QED
    BY <2>1, <2>2, <2>3
<1>5. Choice!OnceEach(Choice!FlattenGroups(Choice!GroupByTag(jobs)), tagged)
  <2> HIDE DEF tagged
  <2> QED
    BY <1>1, <1>3, <1>4, GroupsHoldOnce
<1> QED
  BY <1>2, <1>5, TagFilters DEF Choice!TagsAgree

(* GroupByHas with the keys of the jobs in a function, as the groupings by  *)
(* label, schedule and team give them.                                      *)
LEMMA GroupsBy ==
  ASSUME jobs \in Seq(Choice!Named), NEW key
  PROVE  /\ \A k, x : x \in Choice!Bucket(Choice!GroupBy(jobs, key), k) <=>
                         x \in Choice!ToSet(jobs) /\ key[x] = k
         /\ Choice!OnceEach(Choice!FlattenGroups(Choice!GroupBy(jobs, key)), jobs)
BY GroupByHas, GroupOperators

(* The groups by label hold what the filters by label pick (job_labels.py,  *)
(* job_grouping.py).                                                        *)
LEMMA LabelsHold ==
  ASSUME jobs \in Seq(Choice!Named)
  PROVE  Choice!LabelsAgree
<1> SUFFICES ASSUME NEW k
             PROVE  LET values == {Choice!LabelsFor(j)[k] : j \in Choice!ToSet(Choice!JobsWithLabel(jobs, k))}
                        labelled(v) == Choice!ToSet(Choice!JobsWithLabel(jobs, k))
                                         \cap Choice!ToSet(Choice!JobsWithLabelValue(jobs, k, v))
                    IN /\ Choice!OnceEach(Choice!FlattenGroups(Choice!GroupByLabel(jobs, k)), jobs)
                       /\ \A v \in values :
                             /\ Text[v] # Text[Blank] =>
                                   Choice!Bucket(Choice!GroupByLabel(jobs, k), Text[v]) =
                                      UNION {labelled(u) : u \in {w \in values : Text[w] = Text[v]}}
                             /\ Choice!JobsMatchingLabels(jobs, [x \in {k} |-> v]) =
                                   Choice!JobsWithLabelValue(jobs, k, v)
  BY DEF Choice!LabelsAgree
<1> DEFINE key == [j \in Choice!ToSet(jobs) |-> Text[Choice!GetOr(Choice!LabelsFor(j), k, Blank)]]
           values == {Choice!LabelsFor(j)[k] : j \in Choice!ToSet(Choice!JobsWithLabel(jobs, k))}
           labelled(v) == Choice!ToSet(Choice!JobsWithLabel(jobs, k))
                            \cap Choice!ToSet(Choice!JobsWithLabelValue(jobs, k, v))
           label(j) == Choice!LabelsFor(j)[k]
           has(j) == j \in Choice!ToSet(jobs) /\ k \in DOMAIN Choice!LabelsFor(j)
           bucket(t) == Choice!Bucket(Choice!GroupByLabel(jobs, k), t)
<1>1. Choice!GroupByLabel(jobs, k) = Choice!GroupBy(jobs, key)
  BY DEF Choice!GroupByLabel
<1>2. \A j \in Choice!ToSet(jobs) :
          key[j] = IF k \in DOMAIN Choice!LabelsFor(j) THEN Text[label(j)] ELSE Text[Blank]
  BY DEF Choice!GetOr
<1> HIDE DEF key
<1>3. /\ \A t, x : x \in bucket(t) <=> x \in Choice!ToSet(jobs) /\ key[x] = t
      /\ Choice!OnceEach(Choice!FlattenGroups(Choice!GroupByLabel(jobs, k)), jobs)
  BY <1>1, GroupsBy
<1>4. \A j : j \in Choice!ToSet(Choice!JobsWithLabel(jobs, k)) <=> has(j)
  BY SelectionHas DEF Choice!JobsWithLabel
<1>5. \A v, j : j \in labelled(v) <=> has(j) /\ label(j) = v
  <2>1. \A v, j : j \in Choice!ToSet(Choice!JobsWithLabelValue(jobs, k, v)) <=>
                     j \in Choice!ToSet(jobs) /\ Choice!Get(Choice!LabelsFor(j), k) = v
    BY SelectionHas DEF Choice!JobsWithLabelValue
  <2>2. \A j : has(j) => Choice!Get(Choice!LabelsFor(j), k) = label(j)
    BY DEF Choice!Get, Choice!GetOr
  <2> HIDE DEF has, label
  <2>3. \A v, j : j \in labelled(v) <=>
                     has(j) /\ j \in Choice!ToSet(jobs) /\ Choice!Get(Choice!LabelsFor(j), k) = v
    BY <1>4, <2>1
  <2>4. \A j : has(j) => j \in Choice!ToSet(jobs)
    BY DEF has
  <2> HIDE DEF labelled
  <2> QED
    BY <2>2, <2>3, <2>4
<1>6. \A j : has(j) => label(j) \in values
  BY <1>4
<1>7. ASSUME NEW v, Text[v] # Text[Blank]
      PROVE  bucket(Text[v]) = UNION {labelled(u) : u \in {w \in values : Text[w] = Text[v]}}
  <2>1. \A j : j \in bucket(Text[v]) <=> has(j) /\ Text[label(j)] = Text[v]
    BY <1>2, <1>3, <1>7
  <2> HIDE DEF values, labelled, label, has, bucket
  <2>2. \A j : j \in bucket(Text[v]) <=>
                  \E u \in values : Text[u] = Text[v] /\ j \in labelled(u)
    BY <1>5, <1>6, <2>1
  <2> QED
    BY <2>2
<1>8. ASSUME NEW v
      PROVE  Choice!JobsMatchingLabels(jobs, [x \in {k} |-> v]) =
                Choice!JobsWithLabelValue(jobs, k, v)
  <2> DEFINE A == {j \in Choice!ToSet(jobs) : \A x \in DOMAIN [y \in {k} |-> v] :
                       Choice!Get(Choice!LabelsFor(j), x) = [y \in {k} |-> v][x]}
             B == {j \in Choice!ToSet(jobs) : Choice!Get(Choice!LabelsFor(j), k) = v}
  <2>1. A = B
    OBVIOUS
  <2>2. /\ Choice!JobsMatchingLabels(jobs, [x \in {k} |-> v]) = Choice!Only(jobs, A)
        /\ Choice!JobsWithLabelValue(jobs, k, v) = Choice!Only(jobs, B)
    BY DEF Choice!JobsMatchingLabels, Choice!JobsWithLabelValue
  <2> HIDE DEF A, B
  <2> QED
    BY <2>1, <2>2
<1> QED
  BY <1>3, <1>7, <1>8

(* The filters by metadata agree, with one another and with the values      *)
(* there are (job_metadata.py).                                             *)
LEMMA MetadataHold ==
  ASSUME jobs \in Seq(Choice!Named)
  PROVE  Choice!MetadataAgree
<1> SUFFICES ASSUME NEW k
             PROVE  LET facts == {Choice!GetMeta(j, k) : j \in Choice!ToSet(jobs)} \ {Nothing}
                    IN /\ \A v \in facts :
                             Choice!JobsMatchingMetadata(jobs, [x \in {k} |-> v]) =
                             Choice!JobsWithMetaValue(jobs, k, v)
                       /\ {j \in Choice!ToSet(Choice!JobsWithMeta(jobs, k)) : Choice!GetMeta(j, k) # Nothing} =
                             UNION {Choice!ToSet(Choice!JobsWithMetaValue(jobs, k, v)) : v \in facts}
  BY DEF Choice!MetadataAgree
<1> DEFINE facts == {Choice!GetMeta(j, k) : j \in Choice!ToSet(jobs)} \ {Nothing}
<1>1. ASSUME NEW v \in facts
      PROVE  Choice!JobsMatchingMetadata(jobs, [x \in {k} |-> v]) = Choice!JobsWithMetaValue(jobs, k, v)
  <2> DEFINE A == {j \in Choice!ToSet(jobs) : \A x \in DOMAIN [y \in {k} |-> v] :
                       Choice!GetMeta(j, x) = [y \in {k} |-> v][x]}
             B == {j \in Choice!ToSet(jobs) : Choice!GetMeta(j, k) # Nothing /\ Choice!GetMeta(j, k) = v}
  <2>1. A = B
    OBVIOUS
  <2>2. /\ Choice!JobsMatchingMetadata(jobs, [x \in {k} |-> v]) = Choice!Only(jobs, A)
        /\ Choice!JobsWithMetaValue(jobs, k, v) = Choice!Only(jobs, B)
    BY DEF Choice!JobsMatchingMetadata, Choice!JobsWithMetaValue
  <2> HIDE DEF A, B
  <2> QED
    BY <2>1, <2>2
<1>2. \A j : j \in Choice!ToSet(Choice!JobsWithMeta(jobs, k)) <=>
                j \in Choice!ToSet(jobs) /\ Choice!HasMeta(j, k)
  BY SelectionHas DEF Choice!JobsWithMeta
<1>3. \A v, j : j \in Choice!ToSet(Choice!JobsWithMetaValue(jobs, k, v)) <=>
                   j \in Choice!ToSet(jobs) /\ Choice!GetMeta(j, k) # Nothing /\ Choice!GetMeta(j, k) = v
  BY SelectionHas DEF Choice!JobsWithMetaValue
<1>4. \A j : Choice!GetMeta(j, k) # Nothing => Choice!HasMeta(j, k)
  BY DEF Choice!GetMeta, Choice!HasMeta, Choice!Get, Choice!GetOr
<1>5. {j \in Choice!ToSet(Choice!JobsWithMeta(jobs, k)) : Choice!GetMeta(j, k) # Nothing} =
          UNION {Choice!ToSet(Choice!JobsWithMetaValue(jobs, k, v)) : v \in facts}
  BY <1>2, <1>3, <1>4
<1> QED
  BY <1>1, <1>5

(* The groups by team hold what the filters by owner pick                   *)
(* (job_ownership.py, job_grouping.py).                                     *)
LEMMA TeamsHold ==
  ASSUME jobs \in Seq(Choice!Named)
  PROVE  Choice!TeamsAgree
<1> DEFINE key == [j \in Choice!ToSet(jobs) |-> Choice!OwnerFor(j).team]
           L == Choice!ToSet(jobs)
           T == Choice!AllTeams(jobs)
           team(j) == Choice!OwnerFor(j).team
<1>1. Choice!GroupByTeam(jobs) = Choice!GroupBy(jobs, key)
  BY DEF Choice!GroupByTeam
<1>2. \A j \in L : key[j] = team(j)
  OBVIOUS
<1> HIDE DEF key
<1>3. /\ \A t, x : x \in Choice!Bucket(Choice!GroupByTeam(jobs), t) <=> x \in L /\ team(x) = t
      /\ Choice!OnceEach(Choice!FlattenGroups(Choice!GroupByTeam(jobs)), jobs)
  <2>1. /\ \A t, x : x \in Choice!Bucket(Choice!GroupBy(jobs, key), t) <=> x \in L /\ key[x] = t
        /\ Choice!OnceEach(Choice!FlattenGroups(Choice!GroupBy(jobs, key)), jobs)
    BY GroupsBy
  <2> HIDE DEF L, team
  <2> QED
    BY <1>1, <1>2, <2>1
<1>4. ASSUME NEW j \in L PROVE team(j) \in DOMAIN Lower \cup {Nothing}
  <2>1. j \in Choice!Named
    BY JobsAreNamed
  <2>2. team(j) = IF "team" \in DOMAIN Attributes[j].ownership THEN Attributes[j].ownership.team ELSE Nothing
    BY DEF Choice!OwnerFor, Choice!Get, Choice!GetOr
  <2> HIDE DEF team
  <2> QED
    BY <2>1, <2>2, BooksAssumption DEF Choice!CatalogAssumption
<1>5. \A t : t \in T <=> t # Nothing /\ t # Blank /\ \E j \in L : team(j) = t
  BY DEF Choice!AllTeams
<1>6. \A j : Choice!TeamName(j) = IF team(j) = Nothing THEN Blank ELSE team(j)
  BY DEF Choice!TeamName
<1>7. \A t, j : j \in Choice!ToSet(Choice!JobsOwnedByTeam(jobs, t)) <=>
                   j \in L /\ Lower[Choice!TeamName(j)] = Lower[t]
  BY SelectionHas DEF Choice!JobsOwnedByTeam
<1>8. /\ Nothing # Blank /\ Blank \in DOMAIN Lower
      /\ \A name \in DOMAIN Lower : Lower[name] = Lower[Blank] => name = Blank
  BY BooksAssumption DEF Choice!CatalogAssumption
<1>9. \A j : j \in Choice!ToSet(Choice!JobsWithoutOwner(jobs)) => j \in L /\ team(j) = Nothing
  <2>1. \A j : j \in Choice!ToSet(Choice!JobsWithoutOwner(jobs)) <=>
                  j \in L /\ Choice!OwnerFor(j) = Choice!NoOwner
    BY SelectionHas DEF Choice!JobsWithoutOwner
  <2>2. Choice!NoOwner.team = Nothing
    BY DEF Choice!NoOwner
  <2> QED
    BY <2>1, <2>2
<1> HIDE DEF L, T, team
<1>10. ASSUME NEW t \in T \cup {Blank}
       PROVE  Choice!ToSet(Choice!JobsOwnedByTeam(jobs, t)) =
                 UNION {Choice!Bucket(Choice!GroupByTeam(jobs), u) :
                           u \in {v \in T : Lower[v] = Lower[t]}
                                   \cup IF t = Blank THEN {Blank, Nothing} ELSE {}}
  <2> DEFINE U == {v \in T : Lower[v] = Lower[t]} \cup IF t = Blank THEN {Blank, Nothing} ELSE {}
  <2>1. t \in DOMAIN Lower
    <3>1. CASE t \in T
      BY <1>4, <1>5, <3>1
    <3>2. CASE t = Blank
      BY <1>8, <3>2
    <3> QED
      BY <3>1, <3>2
  <2>2. ASSUME NEW j \in L PROVE Lower[Choice!TeamName(j)] = Lower[t] <=> team(j) \in U
    <3>1. CASE team(j) \in {Nothing, Blank}
      <4>1. Choice!TeamName(j) = Blank
        BY <1>6, <3>1
      <4>2. Lower[Blank] = Lower[t] <=> t = Blank
        BY <1>8, <2>1
      <4>3. team(j) \notin T
        BY <1>5, <3>1
      <4> QED
        BY <3>1, <4>1, <4>2, <4>3
    <3>2. CASE team(j) \notin {Nothing, Blank}
      <4>1. Choice!TeamName(j) = team(j) /\ team(j) \in T
        BY <1>5, <1>6, <3>2
      <4> QED
        BY <3>2, <4>1
    <3> QED
      BY <3>1, <3>2
  <2> HIDE DEF U
  <2>3. \A j : j \in Choice!ToSet(Choice!JobsOwnedByTeam(jobs, t)) <=>
                  j \in UNION {Choice!Bucket(Choice!GroupByTeam(jobs), u) : u \in U}
    BY <1>3, <1>7, <2>2
  <2>4. Choice!ToSet(Choice!JobsOwnedByTeam(jobs, t)) =
            UNION {Choice!Bucket(Choice!GroupByTeam(jobs), u) : u \in U}
    BY <2>3
  <2> QED
    BY <2>4 DEF U
<1>11. Choice!ToSet(Choice!JobsWithoutOwner(jobs)) \subseteq Choice!Bucket(Choice!GroupByTeam(jobs), Nothing)
  BY <1>3, <1>9
<1> QED
  BY <1>3, <1>10, <1>11 DEF Choice!TeamsAgree, T

(* Of the groups there are, one has the most jobs.                          *)
LEMMA LargestExists ==
  ASSUME NEW K, NEW J, NEW G \in Seq(Group(K, J)), G # <<>>
  PROVE  \A n \in 1..Len(G) : Len(G[n].jobs) <= Len(Choice!LargestGroup(G).jobs)
<1> DEFINE len(n) == Len(G[n].jobs)
           T == {n \in Nat : n >= 1 /\ n <= Len(G) => \E m \in 1..n : \A i \in 1..n : len(i) <= len(m)}
<1>1. Len(G) \in Nat /\ Len(G) >= 1 /\ DOMAIN G = 1..Len(G)
  OBVIOUS
<1>2. \A n \in 1..Len(G) : len(n) \in Nat
  <2>1. \A n \in 1..Len(G) : G[n] \in Group(K, J)
    OBVIOUS
  <2>2. \A g \in Group(K, J) : Len(g.jobs) \in Nat
    BY DEF Group
  <2> QED
    BY <2>1, <2>2
<1> HIDE DEF len
<1>3. 0 \in T /\ T \in SUBSET Nat
  OBVIOUS
<1>4. ASSUME NEW n \in T PROVE n + 1 \in T
  <2> SUFFICES ASSUME n + 1 <= Len(G)
               PROVE  \E m \in 1..(n + 1) : \A i \in 1..(n + 1) : len(i) <= len(m)
    OBVIOUS
  <2>1. n \in Nat /\ n + 1 \in 1..Len(G) /\ \A i \in 1..(n + 1) : len(i) \in Nat
    BY <1>1, <1>2
  <2>2. \A i \in 1..(n + 1) : i \in 1..n \/ i = n + 1
    OBVIOUS
  <2>3. n + 1 \in 1..(n + 1) /\ \A i \in 1..n : i \in 1..(n + 1)
    OBVIOUS
  <2>4. CASE n = 0
    BY <2>1, <2>2, <2>3, <2>4
  <2>5. CASE n # 0
    <3>1. n >= 1 /\ n <= Len(G)
      BY <2>1, <2>5
    <3>2. PICK m \in 1..n : \A i \in 1..n : len(i) <= len(m)
      BY <3>1
    <3> HIDE DEF T
    <3>3. CASE len(n + 1) <= len(m)
      BY <2>2, <2>3, <3>2, <3>3
    <3>4. CASE ~(len(n + 1) <= len(m))
      <4>1. len(m) \in Nat /\ len(n + 1) \in Nat
        BY <2>1, <2>3
      <4>2. \A i \in 1..n : len(i) \in Nat /\ len(i) <= len(n + 1)
        BY <2>1, <2>3, <3>2, <3>4, <4>1
      <4>3. \A i \in 1..(n + 1) : len(i) <= len(n + 1)
        BY <2>2, <4>1, <4>2
      <4> QED
        BY <2>3, <4>3
    <3> QED
      BY <3>3, <3>4
  <2> QED
    BY <2>4, <2>5
<1> HIDE DEF T
<1>5. Len(G) \in T
  BY <1>1, <1>3, <1>4, Induction
<1>6. PICK m \in 1..Len(G) : \A i \in 1..Len(G) : len(i) <= len(m)
  BY <1>1, <1>5 DEF T
<1> DEFINE M == {n \in DOMAIN G : \A i \in DOMAIN G : Len(G[i].jobs) <= Len(G[n].jobs)}
<1>7. M \in SUBSET Nat /\ m \in M
  BY <1>1, <1>6 DEF len
<1>8. PICK b \in M : \A i \in M : b <= i
  BY <1>7, Least
<1>9. Choice!Min(M) \in M
  BY <1>8 DEF Choice!Min
<1>10. Choice!LargestGroup(G) = G[Choice!Min(M)]
  BY DEF Choice!LargestGroup
<1> QED
  BY <1>1, <1>9, <1>10

(* The groups by schedule have the jobs of the schedule, and the largest is *)
(* one of them (job_grouping.py).                                           *)
LEMMA SchedulesHold ==
  ASSUME jobs \in Seq(Choice!Named)
  PROVE  Choice!SchedulesAgree
<1> DEFINE key == [j \in Choice!ToSet(jobs) |-> Attributes[j].schedule]
           K == {key[jobs[i]] : i \in 1..Len(jobs)}
           G == Choice!GroupBy(jobs, key)
<1>1. Choice!GroupBySchedule(jobs) = G
  BY DEF Choice!GroupBySchedule
<1>2. \A i \in 1..Len(jobs) : key[jobs[i]] \in K
  OBVIOUS
<1> HIDE DEF key, K
<1>3. PICK entries \in Seq(Entry(K, Choice!Named)) :
          G = Choice!Grouped(entries) /\ ByKey(entries, jobs, key)
  BY <1>2, GroupByEntries
<1>4. G \in Seq(Group(K, Choice!Named)) /\ GroupsOf(G, entries)
  BY <1>3, GroupedProperties
<1>5. Choice!OnceEach(Choice!FlattenGroups(G), jobs)
  BY GroupsBy
<1> HIDE DEF G
<1>6. ASSUME jobs # <<>>
      PROVE  \A n \in DOMAIN G : Len(G[n].jobs) <= Len(Choice!LargestGroup(G).jobs)
  <2>1. Len(jobs) \in Nat /\ Len(jobs) >= 1
    BY <1>6
  <2>2. \E n \in 1..Len(G) : TRUE
    <3>1. 1 \in 1..Len(entries)
      BY <1>3, <2>1 DEF ByKey
    <3> QED
      BY <1>4, <3>1 DEF GroupsOf
  <2>3. G # <<>> /\ DOMAIN G = 1..Len(G)
    BY <1>4, <2>2
  <2> QED
    BY <1>4, <2>3, LargestExists
<1> QED
  BY <1>1, <1>5, <1>6 DEF Choice!SchedulesAgree

(* Every job has a priority, its own or the default.                        *)
LEMMA PriorityIsInt ==
  ASSUME NEW j \in Choice!Named
  PROVE  Choice!PriorityOf(j) \in Int
<1>1. Attributes[j].priority # Nothing => Attributes[j].priority \in Int
  BY BooksAssumption DEF Choice!CatalogAssumption
<1> QED
  BY <1>1 DEF Choice!PriorityOf

Priorities == [i \in DOMAIN jobs |-> Choice!PriorityOf(jobs[i])]

(* What sort_by_priority() gives: the jobs in the order of Ahead.           *)
LEMMA SortedIs ==
  ASSUME jobs \in Seq(Choice!Named)
  PROVE  /\ \A i \in 1..Len(jobs) : /\ Priorities[i] = Choice!PriorityOf(jobs[i])
                                    /\ Priorities[i] \in Int
         /\ Choice!SortByPriority(jobs) \in Seq(Choice!Named)
         /\ \E f : Sorting(f, Choice!SortByPriority(jobs), jobs, Priorities)
         /\ Elements(Choice!SortByPriority(jobs)) = Elements(jobs)
<1>1. DOMAIN jobs = 1..Len(jobs) /\ \A i \in 1..Len(jobs) : jobs[i] \in Choice!Named
  OBVIOUS
<1>2. \A i \in 1..Len(jobs) : Priorities[i] = Choice!PriorityOf(jobs[i]) /\ Priorities[i] \in Int
  BY <1>1, PriorityIsInt DEF Priorities
<1>3. Choice!SortByPriority(jobs) = SortedBy(jobs, Priorities)
  BY GroupOperators DEF Choice!SortByPriority, Priorities
<1> QED
  BY <1>2, <1>3, SortedByProperties

(* The groups by priority in their order: their keys fall, each has jobs of *)
(* its priority in the order of the list, and each job is in one.           *)
Falls(G) == \A m, n \in 1..Len(G) : m < n => G[m].key > G[n].key
InOrder(g, list) ==
    /\ \A c \in 1..Len(list) : g[c] \in 1..Len(jobs) /\ jobs[g[c]] = list[c]
    /\ \A c, d \in 1..Len(list) : c < d => g[c] < g[d]

(* What the groups by priority are, once they are sorted (job_priority.py). *)
LEMMA PriorityGroups ==
  ASSUME jobs \in Seq(Choice!Named)
  PROVE  \E G \in Seq(Group(Int, Choice!Named)) :
            /\ Choice!GroupByPriority(jobs) = G
            /\ Falls(G)
            /\ \A n \in 1..Len(G) : \A x \in Elements(G[n].jobs) : Choice!PriorityOf(x) = G[n].key
            /\ \A n \in 1..Len(G) : \E g : InOrder(g, G[n].jobs)
            /\ \A x \in Elements(jobs) : \E n \in 1..Len(G) : x \in Elements(G[n].jobs)
<1> DEFINE N == Choice!Named
           key == [j \in Choice!ToSet(jobs) |-> Choice!PriorityOf(j)]
           H == Choice!GroupBy(jobs, key)
           hk == [n \in DOMAIN H |-> H[n].key]
           G == SortedBy(H, hk)
<1>1. /\ DOMAIN jobs = 1..Len(jobs) /\ Len(jobs) \in Nat
      /\ \A i \in 1..Len(jobs) : jobs[i] \in N /\ jobs[i] \in Elements(jobs)
      /\ \A x : x \in Elements(jobs) <=> \E i \in 1..Len(jobs) : jobs[i] = x
  BY ElementOf
<1>2. \A i \in 1..Len(jobs) : key[jobs[i]] = Choice!PriorityOf(jobs[i]) /\ key[jobs[i]] \in Int
  BY <1>1, GroupOperators, PriorityIsInt
<1>3. Choice!GroupByPriority(jobs) = G
  BY GroupOperators DEF Choice!GroupByPriority
<1> HIDE DEF key
<1>4. PICK entries \in Seq(Entry(Int, N)) : H = Choice!Grouped(entries) /\ ByKey(entries, jobs, key)
  BY <1>2, GroupByEntries
<1> HIDE DEF H
<1>5. H \in Seq(Group(Int, N)) /\ GroupsOf(H, entries)
  BY <1>4, GroupedProperties
<1>6. DOMAIN H = 1..Len(H) /\ Len(H) \in Nat /\ \A n \in 1..Len(H) : H[n].key \in Int
  <2>1. DOMAIN H = 1..Len(H) /\ Len(H) \in Nat /\ \A n \in 1..Len(H) : H[n] \in Group(Int, N)
    BY <1>5
  <2>2. \A g \in Group(Int, N) : g.key \in Int
    BY DEF Group
  <2> QED
    BY <2>1, <2>2
<1>7. \A n \in 1..Len(H) : hk[n] = H[n].key /\ hk[n] \in Int
  BY <1>6
<1> HIDE DEF hk
<1>8. G \in Seq(Group(Int, N)) /\ \E e : Sorting(e, G, H, hk)
  BY <1>5, <1>7, SortedByProperties
<1> HIDE DEF G, N
<1>9. PICK e : Sorting(e, G, H, hk)
  BY <1>8
<1>10. /\ Len(G) = Len(H)
       /\ \A n \in 1..Len(G) : e[n] \in 1..Len(H) /\ G[n] = H[e[n]]
       /\ \A n \in 1..Len(H) : \E k \in 1..Len(G) : G[k] = H[n]
       /\ \A m, n \in 1..Len(G) : m < n => Ahead(hk, e[m], e[n])
  <2>1. Len(G) = Len(H) /\ \A n \in 1..Len(H) : G[n] = H[e[n]]
    BY <1>9 DEF Sorting
  <2>2. /\ \A n \in 1..Len(H) : e[n] \in 1..Len(H)
        /\ \A n \in 1..Len(H) : \E k \in 1..Len(H) : e[k] = n
        /\ \A m, n \in 1..Len(H) : m < n => Ahead(hk, e[m], e[n])
    BY <1>9 DEF Sorting, Sorts
  <2>3. \A n \in 1..Len(H) : \E k \in 1..Len(H) : G[k] = H[n]
    <3> SUFFICES ASSUME NEW n \in 1..Len(H) PROVE \E k \in 1..Len(H) : G[k] = H[n]
      OBVIOUS
    <3>1. PICK k \in 1..Len(H) : e[k] = n
      BY <2>2
    <3> QED
      BY <2>1, <3>1
  <2> QED
    BY <2>1, <2>2, <2>3
<1>11. Falls(G)
  <2> SUFFICES ASSUME NEW m \in 1..Len(G), NEW n \in 1..Len(G), m < n
               PROVE  G[m].key > G[n].key
    BY DEF Falls
  <2>1. Ahead(hk, e[m], e[n]) /\ e[m] \in 1..Len(H) /\ e[n] \in 1..Len(H)
    BY <1>10
  <2>2. e[m] # e[n]
    <3> SUFFICES ASSUME e[m] = e[n] PROVE FALSE
      OBVIOUS
    <3>1. ~(hk[e[m]] > hk[e[m]]) /\ ~(e[m] < e[m])
      BY <1>6, <1>7, <2>1
    <3> QED
      BY <2>1, <3>1 DEF Ahead
  <2>3. hk[e[m]] # hk[e[n]]
    BY <1>5, <1>7, <2>1, <2>2 DEF GroupsOf
  <2>4. hk[e[m]] > hk[e[n]]
    BY <2>1, <2>3 DEF Ahead
  <2> QED
    BY <1>7, <1>10, <2>1, <2>4
<1>12. \A i \in 1..Len(jobs) : entries[i].key = Choice!PriorityOf(jobs[i]) /\ entries[i].job = jobs[i]
  BY <1>2, <1>4 DEF ByKey
<1>13. Len(entries) = Len(jobs)
  BY <1>4 DEF ByKey
<1>14. \A n \in 1..Len(H) : \A x : x \in Elements(H[n].jobs) <=> HasEntry(entries, H[n].key, x)
  BY <1>5, Zenon DEF GroupsOf
<1>15. \A n \in 1..Len(G) : \A x \in Elements(G[n].jobs) : Choice!PriorityOf(x) = G[n].key
  <2> SUFFICES ASSUME NEW n \in 1..Len(G), NEW x \in Elements(G[n].jobs)
               PROVE  Choice!PriorityOf(x) = G[n].key
    OBVIOUS
  <2>1. HasEntry(entries, G[n].key, x)
    BY <1>10, <1>14
  <2> QED
    BY <1>12, <1>13, <2>1 DEF HasEntry
<1>16. \A n \in 1..Len(G) : \E g : InOrder(g, G[n].jobs)
  <2> SUFFICES ASSUME NEW n \in 1..Len(G) PROVE \E g : InOrder(g, G[n].jobs)
    OBVIOUS
  <2>1. e[n] \in 1..Len(H) /\ G[n] = H[e[n]]
    BY <1>10
  <2>2. PICK g : Picked(g, G[n].jobs, entries)
    BY <1>5, <2>1 DEF GroupsOf
  <2> DEFINE l == G[n].jobs
  <2> HIDE DEF l
  <2>3. InOrder(g, l)
    BY <1>12, <1>13, <2>2 DEF Picked, InOrder, l
  <2> QED
    BY <2>3 DEF l
<1>17. ASSUME NEW x \in Elements(jobs) PROVE \E n \in 1..Len(G) : x \in Elements(G[n].jobs)
  <2>1. PICK i \in 1..Len(jobs) : jobs[i] = x
    BY <1>1
  <2>2. PICK n \in 1..Len(H) : H[n].key = entries[i].key
    BY <1>5, <1>13, <2>1 DEF GroupsOf
  <2>3. HasEntry(entries, H[n].key, x)
    BY <1>12, <1>13, <2>1, <2>2 DEF HasEntry
  <2>4. x \in Elements(H[n].jobs)
    BY <1>14, <2>3
  <2> QED
    BY <1>10, <2>4
<1> QED
  BY <1>3, <1>8, <1>11, <1>15, <1>16, <1>17 DEF N

(* x comes before y when the list sorted by priority has it first.          *)
Sooner(x, y) ==
    \E h, i \in 1..Len(jobs) : jobs[h] = x /\ jobs[i] = y /\ Ahead(Priorities, h, i)
SoonerThan == {r \in Choice!Named \X Choice!Named : Sooner(r[1], r[2])}

(* Of two jobs only one comes first, as no job is twice in the list.        *)
LEMMA SoonerOrders ==
  ASSUME jobs \in Seq(Choice!Named), Choice!IsInjective(jobs),
         NEW x \in Choice!Named, NEW y \in Choice!Named
  PROVE  /\ <<x, y>> \in SoonerThan <=> Sooner(x, y)
         /\ <<x, y>> \in SoonerThan => <<y, x>> \notin SoonerThan
<1>1. /\ Len(jobs) \in Nat
      /\ \A i \in 1..Len(jobs) : Priorities[i] \in Int
      /\ \A h, i \in 1..Len(jobs) : jobs[h] = jobs[i] => h = i
  <2>1. DOMAIN jobs = 1..Len(jobs) /\ Len(jobs) \in Nat
    OBVIOUS
  <2>2. \A i \in 1..Len(jobs) : Priorities[i] \in Int
    BY SortedIs
  <2> QED
    BY <2>1, <2>2 DEF Choice!IsInjective
<1>2. \A a, b \in Choice!Named : <<a, b>> \in SoonerThan <=> Sooner(a, b)
  BY DEF SoonerThan
<1>3. ~(Sooner(x, y) /\ Sooner(y, x))
  <2> SUFFICES ASSUME Sooner(x, y), Sooner(y, x) PROVE FALSE
    OBVIOUS
  <2>1. PICK h, i \in 1..Len(jobs) : jobs[h] = x /\ jobs[i] = y /\ Ahead(Priorities, h, i)
    BY DEF Sooner
  <2>2. Ahead(Priorities, i, h)
    BY <1>1, <2>1 DEF Sooner
  <2> QED
    BY <1>1, <2>1, <2>2, AheadOrders
<1> QED
  BY <1>2, <1>3

(* The groups by priority, one after the other, are the sorted list.        *)
LEMMA PriorityGroupsSorted ==
  ASSUME jobs \in Seq(Choice!Named), Choice!IsInjective(jobs)
  PROVE  Choice!FlattenGroups(Choice!GroupByPriority(jobs)) = Choice!SortByPriority(jobs)
<1> DEFINE N == Choice!Named
           sorted == Choice!SortByPriority(jobs)
           n == Len(jobs)
<1>1. PICK G \in Seq(Group(Int, N)) :
            /\ Choice!GroupByPriority(jobs) = G
            /\ Falls(G)
            /\ \A m \in 1..Len(G) : \A x \in Elements(G[m].jobs) : Choice!PriorityOf(x) = G[m].key
            /\ \A m \in 1..Len(G) : \E g : InOrder(g, G[m].jobs)
            /\ \A x \in Elements(jobs) : \E m \in 1..Len(G) : x \in Elements(G[m].jobs)
  BY PriorityGroups
<1> DEFINE t == Choice!FlattenGroups(G)
           ss == [m \in DOMAIN G |-> G[m].jobs]
<1>2. PICK flat, row, col, f :
            /\ flat \in Seq(N) /\ Joins(row, col, flat, ss, Len(G))
            /\ t \in Seq(N) /\ FirstPlaces(f, t, flat)
            /\ \A x : x \in Elements(t) <=> \E m \in 1..Len(G) : x \in Elements(G[m].jobs)
  BY FlattenHas
<1>3. /\ Len(G) \in Nat /\ \A m \in 1..Len(G) : ss[m] = G[m].jobs /\ G[m].jobs \in Seq(N)
      /\ \A m \in 1..Len(G) : G[m].key \in Int
  <2>1. DOMAIN G = 1..Len(G) /\ Len(G) \in Nat /\ \A m \in 1..Len(G) : G[m] \in Group(Int, N)
    OBVIOUS
  <2> QED
    BY <2>1 DEF Group
<1> HIDE DEF t, ss
<1>4. /\ \A i \in 1..n : Priorities[i] = Choice!PriorityOf(jobs[i]) /\ Priorities[i] \in Int
      /\ sorted \in Seq(N)
      /\ Elements(sorted) = Elements(jobs)
      /\ \A i \in 1..n : jobs[i] \in N
  BY SortedIs
<1>5. PICK e : Sorting(e, sorted, jobs, Priorities)
  BY SortedIs
<1> HIDE DEF sorted, N
<1>6. Follows(sorted, SoonerThan)
  <2> SUFFICES ASSUME NEW j \in 1..Len(sorted), NEW k \in 1..Len(sorted), j < k
               PROVE  <<sorted[j], sorted[k]>> \in SoonerThan
    BY DEF Follows
  <2>1. /\ j \in 1..n /\ k \in 1..n /\ e[j] \in 1..n /\ e[k] \in 1..n
        /\ sorted[j] = jobs[e[j]] /\ sorted[k] = jobs[e[k]] /\ Ahead(Priorities, e[j], e[k])
    BY <1>5 DEF Sorting, Sorts
  <2>2. Sooner(sorted[j], sorted[k])
    BY <2>1 DEF Sooner
  <2> QED
    BY <2>1, <2>2, <1>4, SoonerOrders DEF N
<1>7. ASSUME NEW m \in 1..Len(G), NEW c \in 1..Len(ss[m])
      PROVE  /\ Choice!PriorityOf(ss[m][c]) = G[m].key
             /\ \E i \in 1..n : jobs[i] = ss[m][c]
  <2>1. ss[m] = G[m].jobs /\ ss[m] \in Seq(N)
    BY <1>3
  <2>2. ss[m][c] \in Elements(ss[m])
    BY <2>1, ElementOf
  <2>3. PICK g : InOrder(g, ss[m])
    BY <1>1, <2>1
  <2>4. jobs[g[c]] = ss[m][c] /\ g[c] \in 1..n
    BY <2>3 DEF InOrder
  <2> QED
    BY <1>1, <2>1, <2>2, <2>4
<1>8. Follows(t, SoonerThan)
  <2> SUFFICES ASSUME NEW j \in 1..Len(t), NEW k \in 1..Len(t), j < k
               PROVE  <<t[j], t[k]>> \in SoonerThan
    BY DEF Follows
  <2> DEFINE p == f[j]
             q == f[k]
             x == t[j]
             y == t[k]
  <2>1. p \in 1..Len(flat) /\ q \in 1..Len(flat) /\ p < q /\ x = flat[p] /\ y = flat[q]
    BY <1>2 DEF FirstPlaces
  <2>2. x \in N /\ y \in N
    BY <1>2
  <2> HIDE DEF p, q, x, y
  <2>3. /\ row[p] \in 1..Len(G) /\ col[p] \in 1..Len(ss[row[p]]) /\ x = ss[row[p]][col[p]]
        /\ row[q] \in 1..Len(G) /\ col[q] \in 1..Len(ss[row[q]]) /\ y = ss[row[q]][col[q]]
        /\ row[p] < row[q] \/ (row[p] = row[q] /\ col[p] < col[q])
    BY <1>2, <2>1 DEF Joins
  <2>4. Choice!PriorityOf(x) = G[row[p]].key
    BY <1>7, <2>3
  <2>5. Choice!PriorityOf(y) = G[row[q]].key
    BY <1>7, <2>3
  <2>6. ASSUME row[p] < row[q] PROVE Sooner(x, y)
    <3>1. G[row[p]].key > G[row[q]].key
      BY <1>1, <2>3, <2>6 DEF Falls
    <3>2. Choice!PriorityOf(x) > Choice!PriorityOf(y)
      BY <2>4, <2>5, <3>1
    <3>3. PICK h \in 1..n : jobs[h] = x
      BY <1>7, <2>3
    <3>4. PICK i \in 1..n : jobs[i] = y
      BY <1>7, <2>3
    <3>5. Ahead(Priorities, h, i)
      BY <1>4, <3>2, <3>3, <3>4 DEF Ahead
    <3> QED
      BY <3>3, <3>4, <3>5 DEF Sooner
  <2>7. ASSUME row[p] = row[q], col[p] < col[q] PROVE Sooner(x, y)
    <3>1. PICK g : InOrder(g, ss[row[p]])
      BY <1>1, <1>3, <2>3
    <3> DEFINE h == g[col[p]]
               i == g[col[q]]
    <3>2. h \in 1..n /\ i \in 1..n /\ jobs[h] = x /\ jobs[i] = y /\ h < i
      BY <2>3, <2>7, <3>1 DEF InOrder
    <3>3. Choice!PriorityOf(x) = Choice!PriorityOf(y)
      BY <2>7, <2>4, <2>5
    <3> HIDE DEF h, i
    <3>4. Ahead(Priorities, h, i)
      BY <1>4, <3>2, <3>3 DEF Ahead
    <3> QED
      BY <3>2, <3>4 DEF Sooner
  <2>8. Sooner(x, y)
    BY <2>3, <2>6, <2>7
  <2> QED
    BY <2>2, <2>8, SoonerOrders DEF x, y, N
<1>9. Elements(t) = Elements(sorted)
  <2>1. ASSUME NEW x PROVE x \in Elements(t) <=> x \in Elements(jobs)
    <3>1. x \in Elements(jobs) => x \in Elements(t)
      BY <1>1, <1>2
    <3>2. ASSUME x \in Elements(t) PROVE x \in Elements(jobs)
      <4>1. PICK m \in 1..Len(G) : x \in Elements(ss[m])
        BY <1>2, <1>3, <3>2
      <4>2. ss[m] \in Seq(N)
        BY <1>3
      <4>3. PICK c \in 1..Len(ss[m]) : ss[m][c] = x
        BY <4>1, <4>2, ElementOf
      <4>4. \E i \in 1..n : jobs[i] = x
        BY <1>7, <4>3
      <4> QED
        BY <4>4, ElementOf
    <3> QED
      BY <3>1, <3>2
  <2> QED
    BY <1>4, <2>1
<1>10. \A x, y \in N : <<x, y>> \in SoonerThan => <<y, x>> \notin SoonerThan
  BY SoonerOrders DEF N
<1>11. t \in Seq(N) /\ sorted \in Seq(N)
  BY <1>2, <1>4
<1>12. t = sorted
  BY <1>6, <1>8, <1>9, <1>10, <1>11, SameOrder
<1> QED
  BY <1>1, <1>12 DEF t, sorted

(* A set of places that has every place before one it has is a front.       *)
LEMMA FrontIs ==
  ASSUME NEW n \in Nat, NEW D \in SUBSET (1..n), \A k \in D : \A j \in 1..k : j \in D
  PROVE  Cardinality(D) \in 0..n /\ D = 1..Cardinality(D)
<1> DEFINE T == {k \in Nat : k >= 1 /\ k \notin D}
<1>1. T \in SUBSET Nat /\ n + 1 \in T
  OBVIOUS
<1>2. PICK m \in T : \A k \in T : m <= k
  BY <1>1, Least
<1>3. m \in Nat /\ m >= 1 /\ m \notin D /\ m <= n + 1
  BY <1>1, <1>2
<1>4. \A k \in 1..(m - 1) : k \in D
  BY <1>2, <1>3
<1>5. \A k \in D : k \in 1..(m - 1)
  <2> SUFFICES ASSUME NEW k \in D, ~(k \in 1..(m - 1)) PROVE FALSE
    OBVIOUS
  <2>1. k \in 1..n /\ m \in 1..k
    BY <1>3
  <2> QED
    BY <1>3, <2>1
<1>6. D = 1..(m - 1)
  BY <1>4, <1>5
<1>7. Cardinality(1..(m - 1)) = m - 1
  BY <1>3, FS_Interval
<1> HIDE DEF T
<1> QED
  BY <1>3, <1>6, <1>7

(* A least priority takes the front of the sorted list.                     *)
LEMMA LeastTakesFront ==
  ASSUME jobs \in Seq(Choice!Named), NEW least \in Int
  PROVE  Choice!ToSet(Choice!FilterByMinPriority(jobs, least)) =
             Choice!ToSet(SubSeq(Choice!SortByPriority(jobs), 1,
                                 Len(Choice!FilterByMinPriority(jobs, least))))
<1> DEFINE N == Choice!Named
           n == Len(jobs)
           sorted == Choice!SortByPriority(jobs)
           S == {j \in Choice!ToSet(jobs) : Choice!PriorityOf(j) >= least}
           F == Choice!FilterByMinPriority(jobs, least)
           D == {k \in 1..n : Choice!PriorityOf(sorted[k]) >= least}
           W == Where(jobs, S \cap N)
<1>1. /\ \A i \in 1..n : Priorities[i] = Choice!PriorityOf(jobs[i]) /\ Priorities[i] \in Int
      /\ sorted \in Seq(N)
  BY SortedIs
<1>2. PICK e : Sorting(e, sorted, jobs, Priorities)
  BY SortedIs
<1>3. n \in Nat /\ \A i \in 1..n : jobs[i] \in N /\ jobs[i] \in Choice!ToSet(jobs)
  BY GroupOperators, ElementOf
<1>4. \A i \in 1..n : jobs[i] \in S <=> Priorities[i] >= least
  BY <1>1, <1>3
<1>5. F = Only(jobs, S)
  BY CatalogOperators DEF Choice!FilterByMinPriority
<1> HIDE DEF S, F, sorted
<1>6. F \in Seq(N) /\ \E f : Picks(f, F, jobs, S)
  BY <1>5, OnlyProperties
<1>7. /\ Len(sorted) = n
      /\ \A k \in 1..n : sorted[k] = jobs[e[k]] /\ e[k] \in 1..n
      /\ \A i \in 1..n : \E k \in 1..n : e[k] = i
      /\ \A j, k \in 1..n : j < k => Ahead(Priorities, e[j], e[k])
  BY <1>2 DEF Sorting, Sorts
<1>8. \A k \in 1..n : Choice!PriorityOf(sorted[k]) = Priorities[e[k]] /\ Priorities[e[k]] \in Int
  BY <1>1, <1>7
<1>9. Cardinality(D) \in 0..n /\ D = 1..Cardinality(D)
  <2>1. ASSUME NEW k \in D, NEW j \in 1..k PROVE j \in D
    <3>1. k \in 1..n /\ j \in 1..n /\ Priorities[e[k]] >= least
      BY <1>3, <1>8
    <3>2. CASE j = k
      BY <3>2
    <3>3. CASE j # k
      <4>1. j < k
        BY <1>3, <3>1, <3>3
      <4>2. Ahead(Priorities, e[j], e[k])
        BY <1>7, <3>1, <4>1
      <4>3. Priorities[e[j]] \in Int /\ Priorities[e[k]] \in Int
        BY <1>8, <3>1
      <4>4. Priorities[e[j]] >= Priorities[e[k]]
        BY <4>2, <4>3 DEF Ahead
      <4> QED
        BY <1>8, <3>1, <4>3, <4>4
    <3> QED
      BY <3>2, <3>3
  <2> HIDE DEF D
  <2>2. D \in SUBSET (1..n)
    BY DEF D
  <2> QED
    BY <1>3, <2>1, <2>2, FrontIs
<1>10. \A k \in 1..n : k \in D <=> e[k] \in W
  BY <1>3, <1>4, <1>7, <1>8 DEF Where
<1>11. Cardinality(D) = Cardinality(W)
  <2> DEFINE g == [k \in D |-> e[k]]
  <2>1. g \in [D -> W]
    BY <1>10
  <2>2. \A j, k \in D : g[j] = g[k] => j = k
    <3> SUFFICES ASSUME NEW j \in D, NEW k \in D, e[j] = e[k] PROVE j = k
      OBVIOUS
    <3>1. j \in 1..n /\ k \in 1..n
      OBVIOUS
    <3>2. \A i \in 1..n : ~Ahead(Priorities, i, i)
      BY <1>1, <1>3, AheadOrders
    <3>3. ~(j < k) /\ ~(k < j)
      BY <1>7, <3>1, <3>2
    <3> QED
      BY <1>3, <3>1, <3>3
  <2>3. \A i \in W : \E k \in D : g[k] = i
    <3> SUFFICES ASSUME NEW i \in W PROVE \E k \in D : g[k] = i
      OBVIOUS
    <3>1. i \in 1..n
      BY DEF Where
    <3>2. PICK k \in 1..n : e[k] = i
      BY <1>7, <3>1
    <3> QED
      BY <1>10, <3>2
  <2> HIDE DEF D, W
  <2>4. g \in Bijection(D, W)
    BY <2>1, <2>2, <2>3 DEF Bijection, Injection, Surjection, IsInjective
  <2>5. IsFiniteSet(D)
    <3>1. IsFiniteSet(1..n) /\ D \subseteq 1..n
      BY <1>3, FS_Interval DEF D
    <3> QED
      BY <3>1, FS_Subset
  <2> QED
    BY <2>4, <2>5, FS_Bijection DEF ExistsBijection
<1>12. Len(F) = Cardinality(W)
  <2>1. Cardinality(Where(F, N)) = Cardinality(W)
    BY <1>6, AsManyPicked
  <2>2. Where(F, N) = 1..Len(F) /\ Len(F) \in Nat
    BY <1>6 DEF Where
  <2> DEFINE l == Len(F)
  <2> HIDE DEF l
  <2>3. Cardinality(1..l) = l
    <3>1. l \in Nat
      BY <2>2 DEF l
    <3> QED
      BY <3>1, FS_Interval
  <2> QED
    BY <2>1, <2>2, <2>3 DEF l
<1> DEFINE m == Len(F)
           head == SubSeq(sorted, 1, m)
<1>13. D = 1..m /\ m \in 0..n
  BY <1>9, <1>11, <1>12
<1> HIDE DEF D, m, W
<1>14. head \in Seq(N) /\ Len(head) = m /\ \A k \in 1..m : head[k] = sorted[k]
  <2>1. m \in Int /\ \A i \in 1..m : sorted[i] \in N
    BY <1>1, <1>3, <1>7, <1>13
  <2>2. /\ head \in Seq(N)
        /\ Len(head) = IF 1 <= m THEN m - 1 + 1 ELSE 0
        /\ \A i \in 1..(m - 1 + 1) : head[i] = sorted[1 + i - 1]
    BY <1>1, <2>1, SubSeqProperties
  <2> HIDE DEF head
  <2> QED
    BY <1>13, <2>1, <2>2
<1> HIDE DEF head
<1>15. ASSUME NEW x PROVE x \in Choice!ToSet(F) <=> x \in Choice!ToSet(head)
  <2>1. x \in Choice!ToSet(head) <=> \E k \in 1..m : sorted[k] = x
    BY <1>14, GroupOperators, ElementOf
  <2>2. x \in Choice!ToSet(F) <=> x \in Elements(jobs) /\ x \in S
    BY <1>5, OnlyElements, GroupOperators
  <2>3. ASSUME NEW k \in 1..m, sorted[k] = x PROVE x \in Elements(jobs) /\ x \in S
    <3>1. k \in 1..n /\ e[k] \in W
      BY <1>3, <1>10, <1>13
    <3>2. e[k] \in 1..n /\ jobs[e[k]] = x /\ jobs[e[k]] \in S
      BY <1>7, <2>3, <3>1 DEF W, Where
    <3> QED
      BY <3>2, ElementOf
  <2>4. ASSUME x \in Elements(jobs), x \in S PROVE \E k \in 1..m : sorted[k] = x
    <3>1. PICK i \in 1..n : jobs[i] = x
      BY <2>4, ElementOf
    <3>2. PICK k \in 1..n : e[k] = i
      BY <1>7, <3>1
    <3>3. k \in D
      BY <1>3, <1>10, <2>4, <3>1, <3>2 DEF W, Where
    <3> QED
      BY <1>7, <1>13, <3>1, <3>2, <3>3
  <2> QED
    BY <2>1, <2>2, <2>3, <2>4
<1>16. Choice!ToSet(F) = Choice!ToSet(head)
  BY <1>15
<1> QED
  BY <1>16 DEF head, m, F, sorted

(* The first of the sorted list has the highest priority.                   *)
LEMMA HighestIsFirst ==
  ASSUME jobs \in Seq(Choice!Named), jobs # <<>>
  PROVE  Choice!HighestPriority(jobs) = Choice!PriorityOf(Choice!SortByPriority(jobs)[1])
<1> DEFINE n == Len(jobs)
           sorted == Choice!SortByPriority(jobs)
           top == Choice!PriorityOf(sorted[1])
           P == {Choice!PriorityOf(j) : j \in Choice!ToSet(jobs)}
<1>1. /\ \A i \in 1..n : Priorities[i] = Choice!PriorityOf(jobs[i]) /\ Priorities[i] \in Int
      /\ sorted \in Seq(Choice!Named) /\ Elements(sorted) = Elements(jobs)
  BY SortedIs
<1>2. PICK e : Sorting(e, sorted, jobs, Priorities)
  BY SortedIs
<1>3. n \in Nat /\ n >= 1
  OBVIOUS
<1> HIDE DEF sorted
<1>4. /\ \A k \in 1..n : sorted[k] = jobs[e[k]] /\ e[k] \in 1..n
      /\ \A i \in 1..n : \E k \in 1..n : e[k] = i
      /\ \A j, k \in 1..n : j < k => Ahead(Priorities, e[j], e[k])
  BY <1>2 DEF Sorting, Sorts
<1>5. 1 \in 1..n
  BY <1>3
<1>6. top = Priorities[e[1]] /\ top \in Int
  <2>1. sorted[1] = jobs[e[1]] /\ e[1] \in 1..n
    BY <1>4, <1>5
  <2>2. Priorities[e[1]] = Choice!PriorityOf(jobs[e[1]]) /\ Priorities[e[1]] \in Int
    BY <1>1, <2>1
  <2> QED
    BY <2>1, <2>2
<1>7. ASSUME NEW j \in Choice!ToSet(jobs)
      PROVE  Choice!PriorityOf(j) \in Int /\ Choice!PriorityOf(j) <= top
  <2>1. PICK i \in 1..n : jobs[i] = j
    BY GroupOperators, ElementOf
  <2>2. PICK k \in 1..n : e[k] = i
    BY <1>4
  <2>3. k = 1 \/ 1 < k
    BY <1>3
  <2>4. Priorities[i] <= Priorities[e[1]]
    <3>1. CASE k = 1
      BY <1>1, <2>2, <3>1
    <3>2. CASE 1 < k
      <4>1. Ahead(Priorities, e[1], i) /\ e[1] \in 1..n
        BY <1>4, <1>5, <2>2, <3>2
      <4> QED
        BY <1>1, <4>1 DEF Ahead
    <3> QED
      BY <2>3, <3>1, <3>2
  <2> QED
    BY <1>1, <1>6, <2>1, <2>4
<1>8. top \in P
  <2>1. jobs[e[1]] \in Choice!ToSet(jobs) /\ sorted[1] = jobs[e[1]]
    BY <1>4, <1>5, GroupOperators, ElementOf
  <2> QED
    BY <2>1
<1> HIDE DEF top
<1>9. \A p \in P : (\A j \in Choice!ToSet(jobs) : Choice!PriorityOf(j) <= p) => p = top
  <2> SUFFICES ASSUME NEW p \in P, \A j \in Choice!ToSet(jobs) : Choice!PriorityOf(j) <= p
               PROVE  p = top
    OBVIOUS
  <2>1. p \in Int /\ p <= top
    BY <1>7
  <2>2. top <= p
    BY <1>8
  <2> QED
    BY <1>6, <2>1, <2>2
<1>10. Choice!HighestPriority(jobs) =
           CHOOSE p \in P : \A j \in Choice!ToSet(jobs) : Choice!PriorityOf(j) <= p
  BY DEF Choice!HighestPriority
<1> HIDE DEF P
<1>11. Choice!HighestPriority(jobs) = top
  BY <1>7, <1>8, <1>9, <1>10
<1> QED
  BY <1>11 DEF top, sorted

(* Sorting by priority, grouping by it, the highest one and the jobs of a   *)
(* least priority agree (job_priority.py).                                  *)
LEMMA PrioritiesHold ==
  ASSUME jobs \in Seq(Choice!Named), Choice!IsInjective(jobs)
  PROVE  Choice!PrioritiesAgree
<1>1. ASSUME NEW least \in {Choice!PriorityOf(j) : j \in Choice!Named} PROVE least \in Int
  BY PriorityIsInt
<1> QED
  BY <1>1, PriorityGroupsSorted, HighestIsFirst, LeastTakesFront DEF Choice!PrioritiesAgree

(* The list of jobs does not change.                                        *)
ListInv == jobs \in Seq(Choice!Named) /\ Choice!IsInjective(jobs)

(* ListInv holds always.                                                    *)
LEMMA ListInvHolds == MonitoringSpec => []ListInv
<1>1. MonitoringInit => ListInv
  BY BooksAssumption DEF MonitoringInit, Choice!Init, Choice!CatalogAssumption, ListInv
<1>2. ListInv /\ [MonitoringNext]_<<part, now, monitorVars, throttleVars, graphVars, windowVars,
                         bookVars, catalogVars>> => ListInv'
  <2> SUFFICES ASSUME ListInv, [MonitoringNext]_<<part, now, monitorVars, throttleVars, graphVars,
                                  windowVars, bookVars, catalogVars>>
               PROVE  ListInv'
    OBVIOUS
  <2>1. Choice!Next => jobs' = jobs
    BY DEF Choice!Next, Choice!StartSend, Choice!Deliver, Choice!DeliverRaises, Choice!EndSend
  <2>2. jobs' = jobs
    BY <2>1 DEF MonitoringNext, AdvanceClock, catalogVars
  <2> QED
    BY <2>2 DEF ListInv
<1> QED
  BY <1>1, <1>2, PTL DEF MonitoringSpec

(* The selections of jobs agree in every reachable state, whatever the list *)
(* of jobs and their attributes: the groups by tag, label, schedule, team   *)
(* and priority have the jobs they are for and each of them once when they  *)
(* are flattened; the filters pick what the groups hold; and flattening the *)
(* groups by priority gives the list sorted by priority (job_tags.py,       *)
(* job_labels.py, job_metadata.py, job_filter.py, job_selector.py,          *)
(* job_priority.py, job_grouping.py, job_ownership.py).                     *)
THEOREM SelectionsAgreeHolds == MonitoringSpec => []SelectionsAgree
<1>1. ListInv => SelectionsAgree
  BY TagsHold, LabelsHold, MetadataHold, TeamsHold, SchedulesHold, PrioritiesHold
  DEF ListInv, SelectionsAgree, Choice!SelectionsAgree
<1> QED
  BY <1>1, ListInvHolds, PTL
=============================================================================
