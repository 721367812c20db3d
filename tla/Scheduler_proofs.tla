-------------------------- MODULE Scheduler_proofs --------------------------
(* Proofs about Scheduler for any number of jobs, any periods, poll         *)
(* intervals and durations of runs, and any number of faults.               *)
EXTENDS Scheduler, TLAPS

(* How much the jobs before the k-th can hold up a tick.                    *)
Delay(k) == (k - 1) * MaxDuration

(* What the guard of _should_run will compare the next tick with, once the  *)
(* run in progress is over.                                                 *)
Reference(j) == IF pc = "run" /\ job = j THEN tickNow ELSE lastRun[j]

(* Whatever was run or started is before that: the occurrence by itself,    *)
(* the start but for the jobs that came first in its tick.                  *)
Remembered(j) ==
    /\ \A t \in known[j] : Reference(j) # None /\ t <= Reference(j)
    /\ lastStart[j] # None =>
        Reference(j) # None /\ lastStart[j] - Reference(j) <= Delay(j)

(* How far the loop is behind the time of its tick.                         *)
HeldUp ==
    /\ pc = "loop" => now - tickNow <= Delay(job)
    /\ pc = "run" =>
        /\ started - tickNow <= Delay(job)
        /\ now - started <= MaxDuration

(* What typing rests on: no tick is ahead of the clock, and the job that    *)
(* runs is one of the jobs.                                                 *)
TypeInv ==
    /\ TypeOK
    /\ tickNow <= now
    /\ pc = "run" => job \in Job

(* The inductive invariant.                                                 *)
SchedulerInv ==
    /\ TypeInv
    /\ HeldUp
    /\ pc # "down" => \A j \in Job : Remembered(j)

(* The assumptions on the constants, without those on the periods.          *)
LEMMA Constants ==
  /\ NumJobs \in Nat /\ MaxDuration \in Nat /\ MaxFaults \in Nat
  /\ Minute \in Nat /\ Tolerance \in Nat /\ Tolerance < Minute
  /\ Polls \subseteq Nat /\ None \notin Int
  BY ConstantsAssumption DEF ConstantsAssumption

(* The places of the jobs in the loop of tick().                            *)
LEMMA JobPlaces ==
  /\ \A j \in Job : j \in Nat /\ j \in 1..(NumJobs + 1) /\ j + 1 \in 1..(NumJobs + 1)
  /\ 1 \in 1..(NumJobs + 1)
  BY Constants DEF Job

(* Each job can add a run of MaxDuration to the delay.                      *)
LEMMA DelayFacts ==
  /\ Delay(1) = 0
  /\ \A k \in 1..(NumJobs + 1) : Delay(k) \in Nat /\ Delay(k + 1) = Delay(k) + MaxDuration
<1>1. Delay(1) = 0
  BY Constants DEF Delay
<1>2. ASSUME NEW k \in 1..(NumJobs + 1)
      PROVE  Delay(k) \in Nat /\ Delay(k + 1) = Delay(k) + MaxDuration
  <2>1. k - 1 \in Nat /\ (k + 1) - 1 = (k - 1) + 1
    BY Constants
  <2>2. ASSUME NEW n \in Nat
        PROVE  n * MaxDuration \in Nat /\ (n + 1) * MaxDuration = n * MaxDuration + MaxDuration
    BY Constants
  <2> QED
    BY <2>1, <2>2 DEF Delay
<1> QED
  BY <1>1, <1>2

(* The last occurrence is an instant, and not in the future (get_prev).     *)
LEMMA PrevFacts ==
  ASSUME tickNow \in Nat, NEW j \in Job
  PROVE  Prev(j) \in Int /\ Prev(j) <= tickNow
<1>1. Period[j] \in Nat /\ Period[j] > 0
  BY ConstantsAssumption DEF ConstantsAssumption
<1>2. \A p \in Nat : p > 0 =>
        (tickNow \div p) * p \in Int /\ (tickNow \div p) * p <= tickNow
  OBVIOUS
<1> QED
  BY <1>1, <1>2 DEF Prev

(* The scheduler's state is well typed in every reachable state, no run is  *)
(* on record after the tick in progress, and no tick is ahead of the clock  *)
(* (Scheduler.tick).                                                        *)
THEOREM TypingHolds == Spec => []TypeInv
<1> USE Constants, JobPlaces
<1>1. Init => TypeInv
  <2> SUFFICES ASSUME Init PROVE TypeInv
    OBVIOUS
  <2>1. now \in Nat /\ faults \in 0..MaxFaults /\ job \in 1..(NumJobs + 1)
    BY DEF Init
  <2>2. wake \in Nat /\ tickNow \in Nat /\ started \in Nat /\ upSince \in Nat /\ tickNow <= now
    BY <2>1 DEF Init
  <2>3. poll \in Polls /\ pc \in {"sleep", "loop", "run", "down"}
    BY DEF Init
  <2>4. lastRun \in [Job -> Nat \cup {None}] /\ lastStart \in [Job -> Nat \cup {None}]
    BY Zenon DEF Init
  <2>5. \A j \in Job : lastRun[j] = None
    BY DEF Init
  <2>6. ran \in [Job -> SUBSET Int] /\ known \in [Job -> SUBSET Int]
    BY DEF Init
  <2>7. pc # "run"
    BY DEF Init
  <2> QED
    BY <2>1, <2>2, <2>3, <2>4, <2>5, <2>6, <2>7 DEF TypeInv, TypeOK
<1>2. TypeInv /\ [Next]_vars => TypeInv'
  <2> SUFFICES ASSUME TypeInv, [Next]_vars
               PROVE  TypeInv'
    OBVIOUS
  <2> USE DEF TypeInv, TypeOK, historyVars, loopVars
  <2>1. CASE StartTick
    <3>1. ASSUME NEW j \in Job, lastRun[j] # None
          PROVE  lastRun[j] <= now
      BY <3>1
    <3> QED
      BY <2>1, <3>1 DEF StartTick
  <2>2. CASE SkipJob
    BY <2>2 DEF SkipJob
  <2>3. CASE StartRun
    BY <2>3, PrevFacts DEF StartRun
  <2>4. CASE FinishRun
    BY <2>4 DEF FinishRun
  <2>5. CASE EndTick
    BY <2>5 DEF EndTick
  <2>6. CASE AdvanceClock
    BY <2>6 DEF AdvanceClock
  <2>7. CASE Crash
    BY <2>7 DEF Crash
  <2>8. CASE Restart
    BY <2>8 DEF Restart
  <2>9. ASSUME NEW j \in Job, ResetJob(j)
        PROVE  TypeInv'
    BY <2>9 DEF ResetJob
  <2>10. CASE UNCHANGED vars
    BY <2>10 DEF vars
  <2> QED
    BY <2>1, <2>2, <2>3, <2>4, <2>5, <2>6, <2>7, <2>8, <2>9, <2>10 DEF Next
<1> QED
  BY <1>1, <1>2, PTL DEF Spec

(* The type invariant of the scheduler (Scheduler.tick).                    *)
THEOREM Typing == Spec => []TypeOK
<1>1. TypeInv => TypeOK
  BY DEF TypeInv
<1> QED
  BY <1>1, TypingHolds, PTL

(* A tick falls behind its own clock reading by the runs before the current *)
(* job at most, and each run adds MaxDuration at most.                      *)
LEMMA HeldUpStep ==
  ASSUME TypeInv, HeldUp, [Next]_vars
  PROVE  HeldUp'
<1> USE Constants, JobPlaces, DelayFacts DEF TypeInv, TypeOK, HeldUp
<1>1. CASE StartTick
  BY <1>1 DEF StartTick
<1>2. CASE SkipJob
  BY <1>2 DEF SkipJob
<1>3. CASE StartRun
  BY <1>3 DEF StartRun
<1>4. CASE FinishRun
  <2>1. now - tickNow <= Delay(job) + MaxDuration
    BY <1>4 DEF FinishRun
  <2>2. job' = job + 1 /\ pc' = "loop" /\ now' = now /\ tickNow' = tickNow
    BY <1>4 DEF FinishRun
  <2>3. Delay(job') = Delay(job) + MaxDuration
    BY <1>4, <2>2 DEF FinishRun
  <2>4. now' - tickNow' <= Delay(job')
    BY <2>1, <2>2, <2>3
  <2> QED
    BY <2>2, <2>4 DEF Delay
<1>5. CASE EndTick
  BY <1>5 DEF EndTick
<1>6. CASE AdvanceClock
  BY <1>6 DEF AdvanceClock, loopVars
<1>7. CASE Crash
  BY <1>7 DEF Crash
<1>8. CASE Restart
  BY <1>8 DEF Restart
<1>9. ASSUME NEW j \in Job, ResetJob(j)
      PROVE  HeldUp'
  BY <1>9 DEF ResetJob
<1>10. CASE UNCHANGED vars
  BY <1>10 DEF vars, loopVars
<1> QED
  BY <1>1, <1>2, <1>3, <1>4, <1>5, <1>6, <1>7, <1>8, <1>9, <1>10 DEF Next

(* What was run or started stays before what the guard will compare with:   *)
(* the record of a run is the tick it began in (tick), and whatever empties *)
(* the record empties the history with it.                                  *)
LEMMA RememberedStep ==
  ASSUME SchedulerInv, [Next]_vars, NEW j \in Job, pc' # "down"
  PROVE  Remembered(j)'
<1> USE Constants, JobPlaces DEF SchedulerInv, TypeInv, TypeOK, historyVars, loopVars
<1>1. ASSUME pc # "down", Reference(j)' = Reference(j),
             known'[j] = known[j], lastStart'[j] = lastStart[j]
      PROVE  Remembered(j)'
  BY <1>1 DEF Remembered, Delay
<1>2. CASE StartTick
  BY <1>1, <1>2 DEF StartTick, Reference
<1>3. CASE SkipJob
  BY <1>1, <1>3 DEF SkipJob, Reference
<1>4. CASE StartRun
  <2>1. CASE j # job
    BY <1>1, <1>4, <2>1 DEF StartRun, Reference
  <2>2. CASE j = job
    <3>1. Reference(j) = lastRun[j] /\ Reference(j)' = tickNow /\ tickNow # None
      BY <1>4, <2>2 DEF StartRun, Reference
    <3>2. ASSUME NEW t \in known'[j]
          PROVE  t <= tickNow
      <4>1. t \in known[j] \/ t = Prev(j)
        BY <1>4, <2>2 DEF StartRun
      <4>2. CASE t \in known[j]
        <5>1. t <= lastRun[j] /\ lastRun[j] <= tickNow /\ lastRun[j] # None
          BY <1>4, <3>1, <4>2 DEF Remembered, StartRun
        <5> QED
          BY <4>2, <5>1
      <4> QED
        BY <4>1, <4>2, PrevFacts
    <3>3. lastStart'[j] = now /\ now - tickNow <= Delay(j)
      BY <1>4, <2>2 DEF StartRun, HeldUp
    <3> QED
      BY <3>1, <3>2, <3>3 DEF Remembered, Delay
  <2> QED
    BY <2>1, <2>2
<1>5. CASE FinishRun
  <2>1. Reference(j)' = Reference(j)
    BY <1>5 DEF FinishRun, Reference
  <2> QED
    BY <1>1, <1>5, <2>1 DEF FinishRun
<1>6. CASE EndTick
  BY <1>1, <1>6 DEF EndTick, Reference
<1>7. CASE AdvanceClock
  BY <1>1, <1>7 DEF AdvanceClock, Reference
<1>8. CASE Crash
  BY <1>8 DEF Crash
<1>9. CASE Restart
  <2>1. known'[j] = {} /\ lastStart'[j] = None
    BY <1>9 DEF Restart
  <2> QED
    BY <2>1 DEF Remembered
<1>10. ASSUME NEW k \in Job, ResetJob(k)
       PROVE  Remembered(j)'
  <2>1. CASE j = k
    <3>1. known'[j] = {} /\ lastStart'[j] = None
      BY <1>10, <2>1 DEF ResetJob
    <3> QED
      BY <3>1 DEF Remembered
  <2>2. CASE j # k
    BY <1>1, <1>10, <2>2 DEF ResetJob, Reference
  <2> QED
    BY <2>1, <2>2
<1>11. CASE UNCHANGED vars
  BY <1>1, <1>11 DEF vars, Reference
<1> QED
  BY <1>2, <1>3, <1>4, <1>5, <1>6, <1>7, <1>8, <1>9, <1>10, <1>11 DEF Next

(* The inductive invariant holds in every reachable state: the run guard's  *)
(* memory covers whatever was run (Scheduler.tick, _should_run).            *)
THEOREM SchedulerInvHolds == Spec => []SchedulerInv
<1>1. Init => HeldUp /\ \A j \in Job : Remembered(j)
  <2> SUFFICES ASSUME Init PROVE HeldUp /\ \A j \in Job : Remembered(j)
    OBVIOUS
  <2>1. HeldUp
    BY DEF Init, HeldUp
  <2>2. \A j \in Job : known[j] = {} /\ lastStart[j] = None
    BY DEF Init
  <2> QED
    BY <2>1, <2>2 DEF Remembered
<1>2. TypeInv /\ HeldUp /\ (pc # "down" => \A j \in Job : Remembered(j))
        /\ [Next]_vars /\ TypeInv'
        => HeldUp' /\ (pc # "down" => \A j \in Job : Remembered(j))'
  BY HeldUpStep, RememberedStep DEF SchedulerInv
<1>3. TypeInv /\ HeldUp /\ (pc # "down" => \A j \in Job : Remembered(j)) <=> SchedulerInv
  BY DEF SchedulerInv
<1> QED
  BY <1>1, <1>2, <1>3, TypingHolds, PTL DEF Spec

(* No occurrence runs its job twice between two resets: the guard refuses   *)
(* a second run within a minute of the first tick, and a minute after it    *)
(* the tolerance of is_due has passed (scheduler.py:57-63).                 *)
THEOREM OncePerOccurrenceHolds == Spec => OncePerOccurrence
<1>1. SchedulerInv /\ [Next]_vars
        => [pc = "loop" /\ pc' = "run" => Prev(job) \notin known[job]]_vars
  <2> SUFFICES ASSUME SchedulerInv, [Next]_vars, pc = "loop", pc' = "run"
               PROVE  Prev(job) \notin known[job]
    OBVIOUS
  <2>1. StartRun
    BY DEF Next, StartTick, SkipJob, FinishRun, EndTick, AdvanceClock, Crash, Restart,
           ResetJob, vars
  <2>2. job \in Job /\ ShouldRun(job) /\ Reference(job) = lastRun[job]
    BY <2>1 DEF StartRun, Reference
  <2>3. Prev(job) \in Int /\ tickNow - Prev(job) < Minute
    BY <2>2, PrevFacts, Constants DEF ShouldRun, Due, SchedulerInv, TypeInv, TypeOK
  <2>4. ASSUME Prev(job) \in known[job]
        PROVE  FALSE
    <3>1. lastRun[job] # None /\ Prev(job) <= lastRun[job]
      BY <2>2, <2>4 DEF SchedulerInv, Remembered
    <3>2. lastRun[job] \in Nat /\ tickNow \in Nat /\ tickNow - lastRun[job] >= Minute
      BY <2>2, <3>1 DEF ShouldRun, SchedulerInv, TypeInv, TypeOK
    <3> QED
      BY <2>3, <3>1, <3>2, Constants
  <2> QED
    BY <2>4
<1> QED
  BY <1>1, SchedulerInvHolds, PTL DEF Spec, OncePerOccurrence

(* Two starts of a job are a minute apart but for what the jobs before it   *)
(* in the tick of the first one took (scheduler.py:48).                     *)
THEOREM StartsAreSpacedHolds == Spec => StartsAreSpaced
<1> DEFINE Spaced(j) ==
      lastStart'[j] # lastStart[j] /\ None \notin {lastStart[j], lastStart'[j]} =>
        lastStart'[j] - lastStart[j] >= Minute - (j - 1) * MaxDuration
<1>1. SchedulerInv /\ [Next]_vars => [\A j \in Job : Spaced(j)]_vars
  <2> SUFFICES ASSUME SchedulerInv, [Next]_vars, NEW j \in Job,
                      lastStart'[j] # lastStart[j], lastStart[j] # None, lastStart'[j] # None
               PROVE  lastStart'[j] - lastStart[j] >= Minute - Delay(j)
    BY DEF Delay
  <2> USE DEF SchedulerInv, TypeInv, TypeOK
  <2>1. StartRun
    <3>1. ASSUME NEW k \in Job, ResetJob(k)
          PROVE  FALSE
      BY <3>1 DEF ResetJob
    <3>2. ASSUME Restart
          PROVE  FALSE
      BY <3>2 DEF Restart
    <3> QED
      BY <3>1, <3>2 DEF Next, StartTick, SkipJob, FinishRun, EndTick, AdvanceClock, Crash,
                        vars, historyVars
  <2>2. j = job /\ lastStart'[j] = now /\ ShouldRun(j) /\ Reference(j) = lastRun[j]
    BY <2>1 DEF StartRun, Reference
  <2>3. lastRun[j] # None /\ lastStart[j] - lastRun[j] <= Delay(j)
    BY <2>1, <2>2 DEF StartRun, Remembered
  <2>4. tickNow - lastRun[j] >= Minute
    BY <2>2, <2>3 DEF ShouldRun
  <2>5. lastRun[j] \in Nat /\ lastStart[j] \in Nat /\ Delay(j) \in Nat
    BY <2>3, DelayFacts, JobPlaces
  <2> QED
    BY <2>2, <2>3, <2>4, <2>5, Constants
<1> QED
  BY <1>1, SchedulerInvHolds, PTL DEF Spec, StartsAreSpaced

-----------------------------------------------------------------------------
(* Missed occurrences: what the record of runs has to say of those that are *)
(* over when a tick ends, as an invariant of its own.                       *)

(* The last occurrence at a time or before it.                              *)
Floor(x, j) == (x \div Period[j]) * Period[j]

(* Of two occurrences in a row, both over before a time, one was run.       *)
PairsRun(j, x) ==
    \A t \in upSince .. x : t % Period[j] = 0 /\ t + Period[j] + Tolerance <= x =>
        t \in ran[j] \/ t + Period[j] \in ran[j]

(* A run on record is one of an occurrence, and in its tolerance.           *)
Recorded(j) ==
    lastRun[j] # None =>
        /\ Floor(lastRun[j], j) \in ran[j]
        /\ lastRun[j] - Floor(lastRun[j], j) < Tolerance

(* A tick in which anything runs begins within the tolerance of a minute.   *)
OnTime == \E m \in Nat : m * Minute <= tickNow /\ tickNow < m * Minute + Tolerance

(* The jobs the loop is past: one that was due has run in the last minute,  *)
(* and one that has not run in this tick has not held it up.                *)
Past(j) ==
    /\ Due(j) => lastRun[j] # None /\ tickNow - lastRun[j] < Minute
    /\ lastRun[j] # tickNow =>
           (IF pc = "run" THEN started ELSE now) - tickNow <= Delay(job - 1)

(* The inductive invariant: the pairs that are over by the time of the tick *)
(* or, asleep, by that of the next one, and what the tick so far has run.   *)
OccurrenceInv ==
    /\ pc = "sleep" => now <= wake
    /\ pc # "down" => \A j \in Job :
           /\ Recorded(j)
           /\ PairsRun(j, IF pc = "sleep" THEN wake ELSE tickNow)
    /\ pc \in {"loop", "run"} =>
           /\ now = tickNow \/ OnTime
           /\ \A j \in Job : j < job => Past(j)
    /\ pc = "run" => Due(job) /\ Prev(job) \in ran[job] /\ OnTime

(* Multiplication is monotonic, and strictly so by a positive number.       *)
LEMMA Monotonic ==
  ASSUME NEW a \in Nat, NEW b \in Nat, NEW d \in Nat
  PROVE  /\ a <= b => a * d <= b * d
         /\ a < b => a * d + d <= b * d
<1>1. ASSUME a <= b
      PROVE  a * d <= b * d
  <2>1. PICK k \in Nat : b = a + k
    <3>1. b - a \in Nat /\ b = a + (b - a)
      BY <1>1
    <3> QED
      BY <3>1
  <2>2. b * d = a * d + k * d /\ k * d \in Nat /\ a * d \in Nat
    BY <2>1
  <2> QED
    BY <2>2
<1>2. ASSUME a < b
      PROVE  a * d + d <= b * d
  <2>1. PICK k \in Nat : b = (a + 1) + k
    <3>1. b - (a + 1) \in Nat /\ b = (a + 1) + (b - (a + 1))
      BY <1>2
    <3> QED
      BY <3>1
  <2>2. b * d = (a + 1) * d + k * d /\ k * d \in Nat /\ (a + 1) * d = a * d + d /\ a * d \in Nat
    BY <2>1
  <2> QED
    BY <2>2
<1> QED
  BY <1>1, <1>2

(* The last multiple of a number at a time or before it (get_prev).         *)
LEMMA LastMultiple ==
  ASSUME NEW x \in Nat, NEW p \in Nat, p > 0
  PROVE  /\ x \div p \in Nat /\ (x \div p) * p \in Nat
         /\ (x \div p) * p <= x /\ x < (x \div p) * p + p
         /\ x % p = 0 => (x \div p) * p = x
         /\ \A t \in Nat : t % p = 0 /\ t <= x => t <= (x \div p) * p
         /\ \A t \in Nat : t % p = 0 /\ x < t => (x \div p) * p + p <= t
<1>1. /\ x \div p \in Nat /\ (x \div p) * p \in Nat
      /\ (x \div p) * p <= x /\ x < (x \div p) * p + p
      /\ x % p = 0 => (x \div p) * p = x
  OBVIOUS
<1>2. ASSUME NEW t \in Nat, t % p = 0
      PROVE  /\ t <= x => t <= (x \div p) * p
             /\ x < t => (x \div p) * p + p <= t
  <2>1. PICK k \in Nat : t = k * p
    <3>1. t \div p \in Nat /\ t = (t \div p) * p
      BY <1>2
    <3> QED
      BY <3>1
  <2>2. PICK q \in Nat : q = x \div p
    BY <1>1
  <2>3. q * p \in Nat /\ k * p \in Nat /\ q * p <= x /\ x < q * p + p
    BY <1>1, <2>2
  <2>4. k <= q \/ q < k
    OBVIOUS
  <2>5. CASE k <= q
    <3>1. k * p <= q * p
      BY <2>5, Monotonic
    <3> QED
      BY <2>1, <2>2, <2>3, <3>1
  <2>6. CASE q < k
    <3>1. q * p + p <= k * p
      BY <2>6, Monotonic
    <3> QED
      BY <2>1, <2>2, <2>3, <3>1
  <2> QED
    BY <2>4, <2>5, <2>6
<1> QED
  BY <1>1, <1>2

(* The last occurrence of a job, an instant of the clock.                   *)
LEMMA PeriodFacts ==
  /\ \A j \in Job : Period[j] \in Nat /\ Period[j] > 0 /\ Minute <= Period[j]
  /\ Minute > 0
  BY ConstantsAssumption DEF ConstantsAssumption

(* The floor of the time of a tick is the occurrence get_prev returns.      *)
LEMMA FloorFacts ==
  ASSUME NEW x \in Nat, NEW j \in Job
  PROVE  /\ Floor(x, j) \in Nat /\ Floor(x, j) <= x /\ x < Floor(x, j) + Period[j]
         /\ \A t \in Nat : t % Period[j] = 0 /\ t <= x => t <= Floor(x, j)
         /\ \A t \in Nat : t % Period[j] = 0 /\ x < t => Floor(x, j) + Period[j] <= t
  BY PeriodFacts, LastMultiple DEF Floor

(* The next occurrence of a schedule is one too.                            *)
LEMMA NextMultiple ==
  ASSUME NEW t \in Nat, NEW p \in Nat, p > 0, t % p = 0
  PROVE  (t + p) % p = 0
<1>1. PICK k \in Nat : t = k * p
  <2>1. t \div p \in Nat /\ t = (t \div p) * p
    BY LastMultiple
  <2> QED
    BY <2>1
<1>2. PICK x \in Nat : x = t + p
  OBVIOUS
<1>3. PICK q \in Nat : q = x \div p
  BY LastMultiple
<1>4. /\ x = (k + 1) * p /\ (k + 1) * p = k * p + p
      /\ k * p \in Nat /\ q * p \in Nat
  BY <1>1, <1>2
<1>5. q * p <= x /\ x < q * p + p /\ x = q * p + (x % p)
  BY <1>3
<1>6. q <= k + 1
  <2>1. k + 1 < q => (k + 1) * p + p <= q * p
    BY Monotonic
  <2> QED
    BY <1>4, <1>5, <2>1
<1>7. k + 1 <= q
  <2>1. q < k + 1 => q * p + p <= (k + 1) * p
    BY Monotonic
  <2> QED
    BY <1>4, <1>5, <2>1
<1>8. q = k + 1
  BY <1>6, <1>7
<1>9. x % p = 0
  <2>1. q * p = (k + 1) * p
    BY <1>8
  <2>2. x % p \in Nat
    OBVIOUS
  <2> QED
    BY <1>4, <1>5, <2>1, <2>2
<1> QED
  BY <1>2, <1>9

(* A multiple of a period by the minute is one of the minute.               *)
LEMMA Minutes ==
  ASSUME LoopKeepsUp, NEW j \in Job, NEW t \in Nat, NEW k \in Nat, t = k * Period[j]
  PROVE  \E m \in Nat : t = m * Minute
<1>1. PICK c \in Nat : Period[j] = c * Minute
  <2>1. Period[j] \in Nat /\ Minute \in Nat /\ Minute > 0 /\ Period[j] % Minute = 0
    BY PeriodFacts, Constants DEF LoopKeepsUp
  <2>2. /\ Period[j] \div Minute \in Nat
        /\ Period[j] = (Period[j] \div Minute) * Minute
    BY <2>1, LastMultiple
  <2> QED
    BY <2>2
<1>2. t = (k * c) * Minute /\ k * c \in Nat
  BY <1>1, Constants
<1> QED
  BY <1>2

(* A tick in the tolerance of an occurrence is in that of a minute.         *)
LEMMA DueIsOnTime ==
  ASSUME LoopKeepsUp, NEW j \in Job, tickNow \in Nat, Due(j)
  PROVE  OnTime
<1> DEFINE f == Floor(tickNow, j)
<1>1. f \in Nat /\ f <= tickNow /\ tickNow - f < Tolerance
  BY FloorFacts DEF Due, Prev, Floor
<1>2. PICK k \in Nat : f = k * Period[j]
  <2>1. tickNow \div Period[j] \in Nat
    BY PeriodFacts, LastMultiple
  <2> QED
    BY <2>1 DEF Floor
<1>3. \E m \in Nat : f = m * Minute
  BY <1>1, <1>2, Minutes
<1>4. PICK m \in Nat : f = m * Minute
  BY <1>3
<1> QED
  <2> HIDE DEF f
  <2>1. m * Minute <= tickNow /\ tickNow < m * Minute + Tolerance
    BY <1>1, <1>4, Constants
  <2> QED
    BY <2>1 DEF OnTime

(* An occurrence after the time of a tick in the tolerance of a minute is   *)
(* at the next minute or later.                                             *)
LEMMA NextMinute ==
  ASSUME LoopKeepsUp, NEW j \in Job, tickNow \in Nat, OnTime,
         NEW t \in Nat, t % Period[j] = 0, tickNow < t
  PROVE  t + Tolerance - tickNow > Minute
<1>1. PICK m \in Nat : m * Minute <= tickNow /\ tickNow < m * Minute + Tolerance
  BY DEF OnTime
<1>2. PICK k \in Nat : t = k * Minute
  <2>1. PICK n \in Nat : n = t \div Period[j]
    BY PeriodFacts, LastMultiple
  <2>2. t = n * Period[j]
    BY <2>1, PeriodFacts, LastMultiple
  <2> QED
    BY <2>2, Minutes
<1>3. m * Minute \in Nat /\ k * Minute \in Nat
  BY Constants
<1>4. m < k
  <2>1. k <= m => k * Minute <= m * Minute
    BY Constants, Monotonic
  <2> QED
    BY <1>1, <1>2, <1>3, <2>1
<1>5. m * Minute + Minute <= k * Minute
  BY <1>4, Constants, Monotonic
<1> QED
  BY <1>1, <1>2, <1>3, <1>5, Constants

(* Of two occurrences in a row that are over before the next tick, one was  *)
(* run: a tick after both ran the later one, or had run the earlier one     *)
(* less than a minute before; a tick between them is held up too little to  *)
(* outlast the tolerance of the later one, unless it ran the earlier one;   *)
(* and a tick before both is not held up that long.                         *)
LEMMA PairRun ==
  ASSUME LoopKeepsUp, TypeInv, HeldUp, OccurrenceInv, pc = "loop", job = NumJobs + 1,
         NEW j \in Job, NEW t \in Nat, t % Period[j] = 0,
         tickNow < t + Period[j] + Tolerance, t + Period[j] + Tolerance <= now + poll
  PROVE  t \in ran[j] \/ t + Period[j] \in ran[j]
<1> DEFINE P == Period[j]
<1>1. P \in Nat /\ P > 0 /\ Minute <= P /\ Minute > 0
  BY PeriodFacts
<1>2. tickNow \in Nat /\ now \in Nat /\ tickNow <= now /\ poll \in Nat /\ poll \in Polls
  BY Constants DEF TypeInv, TypeOK
<1>3. Past(j) /\ Recorded(j) /\ (now = tickNow \/ OnTime)
  BY JobPlaces, Constants DEF OccurrenceInv, Job
<1>4. (t + P) % P = 0 /\ t + P \in Nat
  BY <1>1, NextMultiple
<1>5. lastRun[j] # None => lastRun[j] \in Nat /\ lastRun[j] <= tickNow
  BY DEF TypeInv, TypeOK
<1>6. /\ poll <= Tolerance
      /\ poll + (NumJobs - 1) * MaxDuration <= Minute
      /\ poll + NumJobs * MaxDuration <= 2 * Minute
  BY <1>2 DEF LoopKeepsUp
<1>7. now - tickNow <= NumJobs * MaxDuration /\ NumJobs * MaxDuration \in Nat
      /\ (NumJobs - 1) * MaxDuration \in Int
  BY Constants DEF HeldUp, Delay
<1>8. CASE t + P <= tickNow
  <2>1. Floor(tickNow, j) \in Nat /\ t + P <= Floor(tickNow, j) /\ Floor(tickNow, j) <= tickNow
    BY <1>2, <1>4, <1>8, FloorFacts
  <2>2. Due(j)
    BY <2>1, <1>1, <1>2, Constants DEF Due, Prev, Floor
  <2>3. lastRun[j] # None /\ tickNow - lastRun[j] < Minute
    BY <1>3, <2>2 DEF Past
  <2>4. PICK x \in Nat : x = lastRun[j] /\ x <= tickNow /\ tickNow - x < Minute
    BY <1>5, <2>3
  <2>5. Floor(x, j) \in ran[j]
    BY <1>3, <2>3, <2>4 DEF Recorded
  <2>6. t <= x /\ x < t + P + P
    BY <1>1, <1>2, <1>8, <2>4, Constants
  <2>7. Floor(x, j) \in Nat /\ t <= Floor(x, j) /\ Floor(x, j) <= x
    BY <2>6, FloorFacts
  <2>8. x < t + P => Floor(x, j) = t
    <3>1. x < t + P => Floor(x, j) + P <= t + P
      BY <1>4, FloorFacts
    <3> QED
      BY <1>1, <2>7, <3>1
  <2>9. t + P <= x => Floor(x, j) = t + P
    <3>1. (t + P + P) % P = 0 /\ t + P + P \in Nat
      <4>1. PICK y \in Nat : y = t + P /\ y % P = 0
        BY <1>4
      <4>2. (y + P) % P = 0
        BY <1>1, <4>1, NextMultiple, Zenon
      <4> QED
        BY <1>1, <4>1, <4>2
    <3>2. Floor(x, j) + P <= t + P + P
      BY <2>6, <3>1, FloorFacts
    <3>3. t + P <= x => t + P <= Floor(x, j)
      BY <1>4, FloorFacts
    <3> QED
      BY <1>1, <2>7, <3>2, <3>3
  <2> QED
    BY <1>1, <2>4, <2>5, <2>8, <2>9
<1>9. CASE tickNow < t + P
  <2>1. OnTime
    BY <1>1, <1>2, <1>3, <1>6, <1>9, Constants
  <2>2. t + P + Tolerance - tickNow > Minute
    BY <1>2, <1>4, <1>9, <2>1, NextMinute
  <2>3. now + poll - tickNow > Minute
    BY <1>1, <1>2, <2>2, Constants
  <2>4. lastRun[j] = tickNow
    <3>1. lastRun[j] # tickNow => now - tickNow <= (NumJobs - 1) * MaxDuration
      BY <1>3, Constants DEF Past, Delay
    <3> QED
      BY <1>2, <1>6, <1>7, <2>3, <3>1, Constants
  <2>5. lastRun[j] # None
    BY <1>2, <2>4, Constants
  <2>6. Floor(tickNow, j) \in ran[j] /\ tickNow - Floor(tickNow, j) < Tolerance
    BY <1>3, <2>4, <2>5 DEF Recorded
  <2>7. CASE t <= tickNow
    <3>1. Floor(tickNow, j) + P <= t + P
      BY <1>2, <1>4, <1>9, FloorFacts
    <3>2. t <= Floor(tickNow, j) /\ Floor(tickNow, j) \in Nat
      BY <1>2, <2>7, FloorFacts
    <3>3. Floor(tickNow, j) = t
      BY <1>1, <3>1, <3>2
    <3> QED
      BY <2>6, <3>3
  <2>8. CASE tickNow < t
    <3>1. Floor(tickNow, j) + P <= t /\ Floor(tickNow, j) \in Nat
      BY <1>2, <2>8, FloorFacts
    <3>2. t + P + Tolerance - tickNow > P + P
      BY <1>1, <1>2, <2>6, <3>1, Constants
    <3> QED
      BY <1>1, <1>2, <1>6, <1>7, <3>2, Constants
  <2> QED
    BY <1>2, <2>7, <2>8
<1> QED
  BY <1>1, <1>2, <1>8, <1>9

(* What the runs of a tick record, and the next tick finds (tick).          *)
LEMMA OccurrenceStep ==
  ASSUME LoopKeepsUp, SchedulerInv, OccurrenceInv, [Next]_vars, TypeInv'
  PROVE  OccurrenceInv'
<1> USE Constants, JobPlaces DEF SchedulerInv, TypeInv, TypeOK, historyVars, loopVars
<1>1. CASE StartTick
  <2>1. now = wake /\ tickNow' = wake /\ now' = wake /\ pc' = "loop" /\ job' = 1
    BY <1>1 DEF StartTick, OccurrenceInv
  <2>2. ASSUME NEW j \in Job
        PROVE  Recorded(j)' /\ PairsRun(j, tickNow)'
    BY <1>1, <2>1 DEF StartTick, OccurrenceInv, Recorded, PairsRun, Floor
  <2>3. \A j \in Job : ~ (j < job')
    BY <2>1 DEF Job
  <2> QED
    BY <2>1, <2>2, <2>3 DEF OccurrenceInv
<1>2. CASE SkipJob
  <2>1. /\ pc = "loop" /\ pc' = "loop" /\ job \in Job /\ job' = job + 1
        /\ now' = now /\ tickNow' = tickNow /\ lastRun' = lastRun
    BY <1>2 DEF SkipJob
  <2>2. \A j \in Job : Recorded(j)' /\ PairsRun(j, tickNow)'
    BY <1>2 DEF SkipJob, OccurrenceInv, Recorded, PairsRun, Floor
  <2>3. (now = tickNow \/ OnTime)'
    BY <1>2 DEF SkipJob, OccurrenceInv, OnTime
  <2>4. ASSUME NEW j \in Job, j < job'
        PROVE  Past(j)'
    <3>1. now - tickNow <= Delay(job)
      BY <2>1 DEF HeldUp
    <3>2. Delay(job - 1) <= Delay(job) \/ j = job
      <4>1. CASE j # job
        <5>1. job - 1 \in 1..(NumJobs + 1) /\ (job - 1) + 1 = job
          BY <2>1, <2>4, <4>1 DEF Job
        <5> QED
          BY <5>1, DelayFacts
      <4> QED
        BY <4>1
    <3>3. job' - 1 = job
      BY <2>1
    <3>4. CASE j = job
      <4>1. Due(j) => lastRun[j] # None /\ tickNow - lastRun[j] < Minute
        <5>1. Due(j) => lastRun[j] # None /\ ~ (tickNow - lastRun[j] >= Minute)
          BY <1>2, <3>4 DEF SkipJob, ShouldRun
        <5> QED
          BY <5>1
      <4> QED
        BY <2>1, <3>1, <3>3, <4>1 DEF Past, Due, Prev, Delay
    <3>5. CASE j # job
      <4>1. Past(j)
        BY <2>1, <2>4, <3>5 DEF OccurrenceInv
      <4> QED
        BY <2>1, <3>1, <3>3, <4>1 DEF Past, Due, Prev, Delay
    <3> QED
      BY <3>4, <3>5
  <2> QED
    BY <2>1, <2>2, <2>3, <2>4 DEF OccurrenceInv
<1>3. CASE StartRun
  <2>1. /\ pc = "loop" /\ pc' = "run" /\ job \in Job /\ job' = job /\ started' = now
        /\ now' = now /\ tickNow' = tickNow /\ lastRun' = lastRun /\ upSince' = upSince
        /\ Due(job)
    BY <1>3 DEF StartRun, ShouldRun
  <2>2. ran[job] \cup {Prev(job)} = ran'[job]
    BY <1>3 DEF StartRun
  <2>3. \A j \in Job : ran[j] \subseteq ran'[j]
    BY <1>3 DEF StartRun
  <2>4. ASSUME NEW j \in Job
        PROVE  Recorded(j)' /\ PairsRun(j, tickNow)'
    <3>1. Recorded(j) /\ PairsRun(j, tickNow)
      BY <2>1 DEF OccurrenceInv
    <3> QED
      BY <2>1, <2>3, <3>1 DEF Recorded, PairsRun, Floor
  <2>5. OnTime'
    BY <2>1, DueIsOnTime DEF OnTime
  <2>6. ASSUME NEW j \in Job, j < job'
        PROVE  Past(j)'
    <3>1. Past(j)
      BY <2>1, <2>6 DEF OccurrenceInv
    <3> QED
      BY <2>1, <3>1 DEF Past, Due, Prev, Delay
  <2>7. Due(job)' /\ (Prev(job) \in ran[job])'
    BY <2>1, <2>2 DEF Due, Prev
  <2> QED
    BY <2>1, <2>4, <2>5, <2>6, <2>7 DEF OccurrenceInv
<1>4. CASE FinishRun
  <2>1. /\ pc = "run" /\ pc' = "loop" /\ job \in Job /\ job' = job + 1
        /\ now' = now /\ tickNow' = tickNow /\ upSince' = upSince /\ ran' = ran
        /\ lastRun' = [lastRun EXCEPT ![job] = tickNow]
    BY <1>4 DEF FinishRun
  <2>2. Due(job) /\ Prev(job) \in ran[job] /\ OnTime /\ OnTime'
    BY <2>1 DEF OccurrenceInv, OnTime
  <2>3. ASSUME NEW j \in Job
        PROVE  Recorded(j)' /\ PairsRun(j, tickNow)'
    <3>1. Recorded(j) /\ PairsRun(j, tickNow)
      BY <2>1 DEF OccurrenceInv
    <3>2. CASE j = job
      <4>1. lastRun'[j] = tickNow
        BY <2>1, <3>2
      <4>2. Floor(lastRun'[j], j) = Prev(job)
        BY <3>2, <4>1 DEF Floor, Prev
      <4> QED
        BY <2>1, <2>2, <3>1, <3>2, <4>1, <4>2 DEF Recorded, PairsRun, Due, Floor, Prev
    <3>3. CASE j # job
      BY <2>1, <3>1, <3>3 DEF Recorded, PairsRun, Floor
    <3> QED
      BY <3>2, <3>3
  <2>4. ASSUME NEW j \in Job, j < job'
        PROVE  Past(j)'
    <3>1. job' - 1 = job
      BY <2>1
    <3>2. CASE j = job
      <4>1. lastRun'[j] = tickNow /\ tickNow' - lastRun'[j] < Minute /\ lastRun'[j] # None
        BY <2>1, <3>2, PeriodFacts
      <4> QED
        BY <2>1, <4>1 DEF Past
    <3>3. CASE j # job
      <4>1. Past(j) /\ j < job
        BY <2>1, <2>4, <3>3 DEF OccurrenceInv
      <4>2. job - 1 \in 1..(NumJobs + 1) /\ (job - 1) + 1 = job
        BY <2>1, <4>1 DEF Job
      <4>3. Delay(job) = Delay(job - 1) + MaxDuration /\ Delay(job - 1) \in Nat
        BY <4>2, DelayFacts
      <4>4. now - started <= MaxDuration
        BY <2>1 DEF HeldUp
      <4>5. lastRun'[j] = lastRun[j]
        BY <2>1, <3>3
      <4>6. lastRun[j] # tickNow => now - tickNow <= Delay(job)
        BY <2>1, <4>1, <4>3, <4>4 DEF Past
      <4> QED
        BY <2>1, <3>1, <4>1, <4>5, <4>6 DEF Past, Due, Prev, Delay
    <3> QED
      BY <3>2, <3>3
  <2> QED
    BY <2>1, <2>2, <2>3, <2>4 DEF OccurrenceInv
<1>5. CASE EndTick
  <2>1. /\ pc = "loop" /\ pc' = "sleep" /\ job = NumJobs + 1 /\ wake' = now + poll
        /\ now' = now /\ lastRun' = lastRun /\ upSince' = upSince /\ ran' = ran
    BY <1>5 DEF EndTick
  <2>2. now' <= wake'
    BY <2>1
  <2>3. ASSUME NEW j \in Job
        PROVE  Recorded(j)' /\ PairsRun(j, wake)'
    <3>1. Recorded(j) /\ PairsRun(j, tickNow)
      BY <2>1 DEF OccurrenceInv
    <3>2. ASSUME NEW t \in upSince .. (now + poll), t % Period[j] = 0,
                 t + Period[j] + Tolerance <= now + poll
          PROVE  t \in ran[j] \/ t + Period[j] \in ran[j]
      <4>1. t \in Nat /\ Period[j] \in Nat
        BY <3>2, PeriodFacts
      <4>2. CASE t + Period[j] + Tolerance <= tickNow
        <5>1. t \in upSince .. tickNow
          BY <3>2, <4>1, <4>2
        <5> QED
          BY <3>1, <3>2, <4>2, <5>1 DEF PairsRun
      <4>3. CASE tickNow < t + Period[j] + Tolerance
        BY <2>1, <3>2, <4>1, <4>3, PairRun
      <4> QED
        BY <4>1, <4>2, <4>3
    <3>3. PairsRun(j, now + poll)
      BY <3>2 DEF PairsRun
    <3> QED
      BY <2>1, <3>1, <3>3 DEF Recorded, PairsRun, Floor
  <2> QED
    BY <2>1, <2>2, <2>3 DEF OccurrenceInv
<1>6. CASE AdvanceClock
  <2>1. /\ pc' = pc /\ wake' = wake /\ tickNow' = tickNow /\ lastRun' = lastRun
        /\ ran' = ran /\ upSince' = upSince /\ job' = job /\ started' = started
    BY <1>6 DEF AdvanceClock
  <2>2. pc # "loop" /\ (pc = "sleep" => now' <= wake')
    BY <1>6 DEF AdvanceClock
  <2>3. ASSUME NEW j \in Job, pc # "down"
        PROVE  Recorded(j)' /\ PairsRun(j, IF pc = "sleep" THEN wake ELSE tickNow)'
    BY <2>1, <2>3 DEF OccurrenceInv, Recorded, PairsRun, Floor
  <2>4. ASSUME pc = "run", NEW j \in Job, j < job
        PROVE  Past(j)'
    BY <2>1, <2>4 DEF OccurrenceInv, Past, Due, Prev, Delay
  <2>5. pc = "run" => OnTime' /\ Due(job)' /\ (Prev(job) \in ran[job])'
    BY <2>1 DEF OccurrenceInv, OnTime, Due, Prev
  <2> QED
    BY <2>1, <2>2, <2>3, <2>4, <2>5 DEF OccurrenceInv
<1>7. CASE Crash
  BY <1>7 DEF Crash, OccurrenceInv
<1>8. CASE Restart
  <2>1. pc' = "sleep" /\ now' = now /\ wake' = now /\ upSince' = now
    BY <1>8 DEF Restart
  <2>2. ASSUME NEW j \in Job
        PROVE  Recorded(j)' /\ PairsRun(j, now)'
    <3>1. lastRun'[j] = None
      BY <1>8 DEF Restart
    <3>2. ASSUME NEW t \in now .. now
          PROVE  ~ (t + Period[j] + Tolerance <= now)
      BY <3>2, PeriodFacts
    <3> QED
      BY <2>1, <3>1, <3>2 DEF Recorded, PairsRun
  <2> QED
    BY <2>1, <2>2 DEF OccurrenceInv
<1>9. ASSUME NEW k \in Job, ResetJob(k)
      PROVE  OccurrenceInv'
  <2>1. /\ pc = "sleep" /\ pc' = "sleep" /\ now' = now /\ wake' = wake
        /\ upSince' = upSince /\ ran' = ran /\ lastRun' = [lastRun EXCEPT ![k] = None]
    BY <1>9 DEF ResetJob
  <2>2. ASSUME NEW j \in Job
        PROVE  Recorded(j)' /\ PairsRun(j, wake)'
    <3>1. Recorded(j) /\ PairsRun(j, wake)
      BY <2>1 DEF OccurrenceInv
    <3>2. lastRun'[j] = lastRun[j] \/ lastRun'[j] = None
      BY <2>1
    <3> QED
      BY <2>1, <3>1, <3>2 DEF Recorded, PairsRun, Floor
  <2> QED
    BY <2>1, <2>2 DEF OccurrenceInv
<1>10. CASE UNCHANGED vars
  <2>1. \A j \in Job : Past(j)' <=> Past(j)
    BY <1>10 DEF vars, Past, Due, Prev, Delay
  <2>2. \A j \in Job : Recorded(j)' <=> Recorded(j)
    BY <1>10 DEF vars, Recorded, Floor
  <2>3. OnTime' <=> OnTime
    BY <1>10 DEF vars, OnTime
  <2> QED
    BY <1>10, <2>1, <2>2, <2>3 DEF vars, OccurrenceInv, PairsRun, Due, Prev
<1> QED
  BY <1>1, <1>2, <1>3, <1>4, <1>5, <1>6, <1>7, <1>8, <1>9, <1>10 DEF Next

(* When the loop keeps up, of two occurrences of a job in a row that are    *)
(* over, one was run (scheduler.py:30, :60).                                *)
THEOREM NoTwoMissedHolds ==
  ASSUME LoopKeepsUp
  PROVE  Spec => []NoTwoMissedInARow
<1>1. Init => OccurrenceInv
  <2> SUFFICES ASSUME Init PROVE OccurrenceInv
    OBVIOUS
  <2>1. pc = "sleep" /\ wake = now /\ upSince = now /\ now \in Nat
    BY Constants DEF Init
  <2>2. ASSUME NEW j \in Job
        PROVE  Recorded(j) /\ PairsRun(j, now)
    <3>1. lastRun[j] = None
      BY <2>2 DEF Init
    <3>2. ASSUME NEW t \in now .. now
          PROVE  ~ (t + Period[j] + Tolerance <= now)
      BY <2>1, <3>2, PeriodFacts, Constants
    <3> QED
      BY <2>1, <3>1, <3>2 DEF Recorded, PairsRun
  <2> QED
    BY <2>1, <2>2 DEF OccurrenceInv
<1>2. SchedulerInv /\ OccurrenceInv /\ [Next]_vars /\ SchedulerInv' => OccurrenceInv'
  BY OccurrenceStep DEF SchedulerInv
<1>3. SchedulerInv /\ OccurrenceInv => NoTwoMissedInARow
  <2> SUFFICES ASSUME SchedulerInv, OccurrenceInv, pc = "sleep", NEW j \in Job,
                      NEW t \in Expired(j), t + Period[j] \in Expired(j)
               PROVE  t \in ran[j] \/ t + Period[j] \in ran[j]
    BY DEF NoTwoMissedInARow
  <2>1. PairsRun(j, wake) /\ now <= wake
    BY DEF OccurrenceInv
  <2>2. now \in Nat /\ wake \in Nat /\ upSince \in Nat /\ Period[j] \in Nat
    BY PeriodFacts DEF SchedulerInv, TypeInv, TypeOK
  <2>3. /\ t \in upSince .. wake /\ t % Period[j] = 0
        /\ t + Period[j] + Tolerance <= wake
    BY <2>1, <2>2, Constants DEF Expired
  <2> QED
    BY <2>1, <2>3 DEF PairsRun
<1> QED
  BY <1>1, <1>2, <1>3, SchedulerInvHolds, PTL DEF Spec
=============================================================================
