------------------------ MODULE RunPipeline_proofs ------------------------
(* Proofs about RunPipeline for any number of jobs, any threshold and       *)
(* window, histories of any length and any number of restarts.              *)
EXTENDS RunPipeline, TLAPS

Entry == [ok : BOOLEAN, at : Nat]

(* What appending an entry to a history file does.                          *)
LEMMA AppendEntry ==
  ASSUME NEW s \in Seq(Entry), NEW e \in Entry
  PROVE  /\ Append(s, e) \in Seq(Entry)
         /\ Len(Append(s, e)) = Len(s) + 1
         /\ \A i \in 1..Len(s) : Append(s, e)[i] = s[i]
         /\ Append(s, e)[Len(s) + 1] = e
  OBVIOUS

(* The loop of tick() over the jobs: each has a successor, and there is a   *)
(* place to start and one to stop.                                          *)
LEMMA JobPlaces ==
  /\ \A j \in Job : j \in 1..(NumJobs + 1) /\ j + 1 \in 1..(NumJobs + 1)
  /\ 1 \in 1..(NumJobs + 1)
<1>1. NumJobs \in Nat
  BY ConstantsAssumption DEF ConstantsAssumption
<1> QED
  BY <1>1 DEF Job

(* A daemon that has run nothing is well typed.                             *)
LEMMA InitTyping == Init => TypeOK
<1> SUFFICES ASSUME Init PROVE TypeOK
  OBVIOUS
<1> USE ConstantsAssumption DEF ConstantsAssumption, Init, Job
<1>1. now \in Nat /\ job \in 1..(NumJobs + 1) /\ resets \in 0..MaxResets
  OBVIOUS
<1>2. hist \in [Job -> Seq([ok : BOOLEAN, at : Nat])]
  OBVIOUS
<1>3. /\ failures \in [Job -> Nat]
      /\ openSince \in [Job -> Nat \cup {None}]
      /\ epoch \in [Job -> Nat]
  OBVIOUS
<1>4. /\ lastNotified \in [Job -> Nat]
      /\ lastExit \in [Job -> {None, "zero", "nonzero"}]
      /\ streak \in [Job -> Nat]
      /\ told \in [Job -> {None, "failing", "recovered"}]
  OBVIOUS
<1> QED
  BY <1>1, <1>2, <1>3, <1>4 DEF TypeOK

(* CircuitBreaker.record_success and record_failure keep its state typed.   *)
LEMMA BreakerTyping ==
  ASSUME failures \in [Job -> Nat], openSince \in [Job -> Nat \cup {None}], now \in Nat,
         NEW j \in Job, NEW ok, Breaker!Record(j, ok)
  PROVE  failures' \in [Job -> Nat] /\ openSince' \in [Job -> Nat \cup {None}]
<1>1. CASE ok
  BY <1>1 DEF Breaker!Record, Breaker!Close
<1>2. CASE ~ok
  BY <1>2 DEF Breaker!Record, Breaker!RecordFailure
<1> QED
  BY <1>1, <1>2

(* So does Notifier.should_notify.                                          *)
LEMMA NotifierTyping ==
  ASSUME lastNotified \in [Job -> Nat], lastExit \in [Job -> {None, "zero", "nonzero"}],
         streak \in [Job -> Nat], now \in Nat,
         NEW j \in Job, NEW ok, Notify!ShouldNotify(j, ok)
  PROVE  /\ lastNotified' \in [Job -> Nat]
         /\ lastExit' \in [Job -> {None, "zero", "nonzero"}]
         /\ streak' \in [Job -> Nat]
<1>1. lastNotified' \in [Job -> Nat]
  BY DEF Notify!ShouldNotify
<1>2. lastExit' \in [Job -> {None, "zero", "nonzero"}]
  BY DEF Notify!ShouldNotify
<1>3. streak' \in [Job -> Nat]
  BY DEF Notify!ShouldNotify
<1> QED
  BY <1>1, <1>2, <1>3

(* What each step at the end of a run does, conjunct by conjunct.           *)
LEMMA RecordHistoryFacts ==
  ASSUME NEW ok \in BOOLEAN, RecordHistory(ok)
  PROVE  /\ pc = "run" /\ pc' = "recorded"
         /\ hist' = [hist EXCEPT ![job] = Append(@, [ok |-> ok, at |-> now])]
         /\ UNCHANGED <<now, job, failures, openSince, lastNotified, lastExit, streak,
                        resets, epoch, told, unsent, forgot, cut>>
  BY DEF RecordHistory, historyVars, breakerVars, notifierVars

(* The breaker hears of the run.                                            *)
LEMMA RecordBreakerFacts ==
  ASSUME RecordBreaker
  PROVE  /\ pc = "recorded" /\ pc' = "ask"
         /\ Breaker!Record(job, LastOk(job))
         /\ UNCHANGED <<now, job, hist, lastNotified, lastExit, streak,
                        resets, epoch, told, unsent, forgot, cut>>
  BY DEF RecordBreaker, historyVars, notifierVars

(* The notifier hears of it, and the alert is sent or not.                  *)
LEMMA AskNotifierFacts ==
  ASSUME AskNotifier
  PROVE  /\ pc = "ask"
         /\ Notify!ShouldNotify(job, LastOk(job))
         /\ IF Notify!Notifies(job, LastOk(job)) THEN pc' = "send" /\ job' = job
                                                 ELSE pc' = "next" /\ job' = job + 1
         /\ cut' = cut \ {job}
         /\ UNCHANGED <<now, hist, failures, openSince, resets, epoch, told, unsent, forgot>>
  BY DEF AskNotifier, breakerVars

(* A restart or a reset counts against their bound.                         *)
LEMMA CountResetTyping ==
  ASSUME resets \in 0..MaxResets, CountReset
  PROVE  resets' \in 0..MaxResets
<1>1. MaxResets \in Nat
  BY ConstantsAssumption DEF ConstantsAssumption
<1> QED
  BY <1>1 DEF CountReset

(* The state of the pipeline, its breaker and its notifier is well typed in *)
(* every reachable state (RunPipeline.tick).                                *)
THEOREM Typing == Spec => []TypeOK
<1> USE JobPlaces
<1>1. TypeOK /\ [Next]_vars => TypeOK'
  <2> SUFFICES ASSUME TypeOK, [Next]_vars
               PROVE  TypeOK'
    OBVIOUS
  <2> USE DEF TypeOK, historyVars, breakerVars, notifierVars
  <2>1. CASE StartTick
    BY <2>1 DEF StartTick
  <2>2. CASE PassOver
    BY <2>2 DEF PassOver
  <2>3. CASE StartRun
    BY <2>3 DEF StartRun
  <2>4. ASSUME NEW ok \in BOOLEAN, RecordHistory(ok)
        PROVE  TypeOK'
    <3>1. job \in Job
      BY <2>4, RecordHistoryFacts
    <3>2. hist' \in [Job -> Seq(Entry)]
      <4>1. [ok |-> ok, at |-> now] \in Entry
        BY DEF Entry
      <4>2. Append(hist[job], [ok |-> ok, at |-> now]) \in Seq(Entry)
        BY <3>1, <4>1, AppendEntry DEF Entry
      <4> QED
        BY <2>4, <4>2, RecordHistoryFacts DEF Entry
    <3> QED
      BY <2>4, <3>1, <3>2, RecordHistoryFacts DEF Entry
  <2>14. CASE RecordBreaker
    <3>1. job \in Job
      BY <2>14, RecordBreakerFacts
    <3>2. failures' \in [Job -> Nat] /\ openSince' \in [Job -> Nat \cup {None}]
      BY <2>14, <3>1, RecordBreakerFacts, BreakerTyping
    <3> QED
      BY <2>14, <3>1, <3>2, RecordBreakerFacts
  <2>15. CASE AskNotifier
    <3>1. job \in Job
      BY <2>15, AskNotifierFacts
    <3>2. /\ lastNotified' \in [Job -> Nat]
          /\ lastExit' \in [Job -> {None, "zero", "nonzero"}]
          /\ streak' \in [Job -> Nat]
      BY <2>15, <3>1, AskNotifierFacts, NotifierTyping
    <3>3. /\ job' \in 1..(NumJobs + 1) /\ pc' \in {"send", "next"}
          /\ pc' = "send" => job' \in Job
      <4>1. (pc' = "send" /\ job' = job) \/ (pc' = "next" /\ job' = job + 1)
        BY <2>15, AskNotifierFacts
      <4> QED
        BY <3>1, <4>1
    <3>4. cut' \subseteq Job
      BY <2>15, AskNotifierFacts
    <3>5. UNCHANGED <<now, hist, failures, openSince, resets, epoch, told, unsent, forgot>>
      BY <2>15, AskNotifierFacts
    <3> QED
      BY <3>2, <3>3, <3>4, <3>5
  <2>5. CASE RunRaises
    BY <2>5 DEF RunRaises
  <2>6. CASE Delivered
    <3>1. job \in Job /\ job' = job + 1 /\ pc' = "next"
      BY <2>6 DEF Delivered
    <3>2. told' \in [Job -> {None, "failing", "recovered"}]
      BY <2>6 DEF Delivered
    <3>3. unsent' \subseteq Job /\ forgot' \subseteq Job
      BY <2>6 DEF Delivered
    <3>4. UNCHANGED <<now, hist, failures, openSince, lastNotified, lastExit, streak, resets, epoch, cut>>
      BY <2>6 DEF Delivered
    <3>5. job' \in 1..(NumJobs + 1)
      BY <3>1
    <3> QED
      BY <3>1, <3>2, <3>3, <3>4, <3>5
  <2>7. CASE SendFails
    BY <2>7 DEF SendFails
  <2>8. CASE EndTick
    BY <2>8 DEF EndTick
  <2>9. CASE AdvanceClock
    BY <2>9 DEF AdvanceClock
  <2>10. CASE Restart
    <3>1. epoch' \in [Job -> Nat]
      BY <2>10 DEF Restart
    <3>2. resets' \in 0..MaxResets
      BY <2>10, CountResetTyping DEF Restart
    <3>3. unsent' \subseteq Job /\ forgot' \subseteq Job /\ cut' \subseteq Job
      BY <2>10 DEF Restart
    <3>4. /\ failures' \in [Job -> Nat]
          /\ openSince' \in [Job -> Nat \cup {None}]
          /\ lastNotified' \in [Job -> Nat]
          /\ lastExit' \in [Job -> {None, "zero", "nonzero"}]
          /\ streak' \in [Job -> Nat]
      BY <2>10 DEF Restart
    <3> QED
      BY <2>10, <3>1, <3>2, <3>3, <3>4 DEF Restart
  <2>11. ASSUME NEW j \in Job, ResetBreaker(j)
         PROVE  TypeOK'
    <3>1. resets' \in 0..MaxResets
      BY <2>11, CountResetTyping DEF ResetBreaker
    <3> QED
      BY <2>11, <3>1 DEF ResetBreaker, Breaker!Close
  <2>12. ASSUME NEW j \in Job, ResetNotifier(j)
         PROVE  TypeOK'
    <3>1. resets' \in 0..MaxResets
      BY <2>12, CountResetTyping DEF ResetNotifier
    <3> QED
      BY <2>12, <3>1 DEF ResetNotifier, Notify!Reset
  <2>13. CASE UNCHANGED vars
    BY <2>13 DEF vars
  <2> QED
    BY <2>1, <2>2, <2>3, <2>4, <2>5, <2>6, <2>7, <2>8, <2>9, <2>10, <2>11, <2>12, <2>13,
       <2>14, <2>15
    DEF Next
<1> QED
  BY <1>1, InitTyping, PTL DEF Spec

-----------------------------------------------------------------------------
(* The breaker and the history *)

(* The entries of a history file are not younger than the clock.            *)
HistoryIsPast ==
    \A j \in Job : \A i \in DOMAIN hist[j] : hist[j][i].at <= now

(* BreakerReflectsHistory for one job at time t: the breaker has heard of   *)
(* the first n entries of h since it forgot the job at e, it holds f and o, *)
(* and m is where its count started.                                        *)
CountedFrom(m, h, n, e, f, o, t) ==
    /\ m \in e..n
    /\ m = e \/ h[m].ok
    /\ \A k \in (m + 1)..n : ~h[k].ok
    /\ f = n - m
    /\ f < Threshold => o = None
    /\ f >= Threshold =>
         /\ o \in h[m + Threshold].at..t
         /\ m + Threshold < Len(h) => o <= h[m + Threshold + 1].at

Counted(j) ==
    \E m : CountedFrom(m, hist[j], Heard(j), epoch[j], failures[j], openSince[j], now)

(* The invariant in these words.                                            *)
LEMMA BreakerPerJob ==
  BreakerReflectsHistory <=> \A j \in Job : Counted(j)
BY DEF BreakerReflectsHistory, CountedFrom, Counted

(* What the breaker has heard of: all but a run that is being recorded.     *)
LEMMA HeardOf ==
  ASSUME TypeOK, NEW j \in Job
  PROVE  /\ hist[j] \in Seq(Entry) /\ Len(hist[j]) \in Nat
         /\ ~(pc = "recorded" /\ job = j) => Heard(j) = Len(hist[j])
         /\ pc = "recorded" /\ job = j => Heard(j) = Len(hist[j]) - 1
<1>1. hist[j] \in Seq(Entry) /\ Len(hist[j]) \in Nat
  BY DEF TypeOK, Entry
<1>2. CASE pc = "recorded" /\ job = j
  BY <1>1, <1>2 DEF Heard
<1>3. CASE ~(pc = "recorded" /\ job = j)
  <2>1. (IF pc = "recorded" /\ job = j THEN 1 ELSE 0) = 0
    BY <1>3
  <2>2. Heard(j) = Len(hist[j]) - 0
    BY <2>1, Zenon DEF Heard
  <2> QED
    BY <1>1, <1>3, <2>2
<1> QED
  BY <1>1, <1>2, <1>3

(* A job nobody has a failure of.                                           *)
LEMMA CountNothing ==
  ASSUME NEW h \in Seq(Entry), NEW t \in Nat
  PROVE  CountedFrom(Len(h), h, Len(h), Len(h), 0, None, t)
<1>1. Threshold \in Nat /\ 0 < Threshold
  BY ConstantsAssumption DEF ConstantsAssumption
<1> QED
  BY <1>1 DEF CountedFrom

(* A run that is on file changes nothing for a breaker that has yet to hear *)
(* of it (run_pipeline.py:85).                                              *)
LEMMA CountPending ==
  ASSUME NEW h \in Seq(Entry), NEW e \in Nat, NEW f \in Nat, NEW o \in Nat \cup {None},
         NEW t \in Nat, NEW x \in Entry, x.at = t,
         NEW m, CountedFrom(m, h, Len(h), e, f, o, t)
  PROVE  CountedFrom(m, Append(h, x), Len(h), e, f, o, t)
<1> DEFINE g == Append(h, x)
<1>1. Threshold \in Nat /\ 0 < Threshold /\ None \notin Nat
  BY ConstantsAssumption DEF ConstantsAssumption
<1>2. /\ Len(g) = Len(h) + 1
      /\ \A i \in 1..Len(h) : g[i] = h[i]
      /\ g[Len(h) + 1] = x
  BY AppendEntry
<1>3. /\ m \in Nat /\ e <= m /\ m <= Len(h) /\ Len(h) \in Nat
      /\ m = e \/ h[m].ok
      /\ \A k \in (m + 1)..Len(h) : ~h[k].ok
      /\ f = Len(h) - m
      /\ f < Threshold => o = None
      /\ f >= Threshold =>
           /\ o \in h[m + Threshold].at..t
           /\ m + Threshold < Len(h) => o <= h[m + Threshold + 1].at
  BY DEF CountedFrom
<1> HIDE DEF g
<1>4. m = e \/ g[m].ok
  BY <1>2, <1>3
<1>5. \A k \in (m + 1)..Len(h) : ~g[k].ok
  BY <1>2, <1>3
<1>6. ASSUME f >= Threshold
      PROVE  /\ o \in g[m + Threshold].at..t
             /\ m + Threshold < Len(g) => o <= g[m + Threshold + 1].at
  <2>1. m + Threshold \in 1..Len(h) /\ g[m + Threshold] = h[m + Threshold]
    BY <1>1, <1>2, <1>3, <1>6
  <2>2. CASE m + Threshold < Len(h)
    <3>1. g[m + Threshold + 1] = h[m + Threshold + 1]
      BY <1>1, <1>2, <1>3, <2>2
    <3> QED
      BY <1>3, <1>6, <2>1, <2>2, <3>1
  <2>3. CASE m + Threshold = Len(h)
    <3>1. g[m + Threshold + 1].at = t
      BY <1>2, <2>3
    <3>2. h[m + Threshold] \in Entry
      BY <2>1
    <3>3. h[m + Threshold].at \in Nat
      BY <3>2 DEF Entry
    <3>4. o <= t
      BY <1>3, <1>6, <3>3
    <3> QED
      BY <1>3, <1>6, <2>1, <3>1, <3>4
  <2> QED
    BY <2>1, <2>2, <2>3, <1>3
<1> QED
  BY <1>3, <1>4, <1>5, <1>6 DEF CountedFrom, g

(* A success restarts the count after it (record_success).                  *)
LEMMA CountSuccess ==
  ASSUME NEW h \in Seq(Entry), NEW e \in Nat, NEW t \in Nat,
         e < Len(h), h[Len(h)].ok
  PROVE  CountedFrom(Len(h), h, Len(h), e, 0, None, t)
<1>1. Threshold \in Nat /\ 0 < Threshold
  BY ConstantsAssumption DEF ConstantsAssumption
<1> QED
  BY <1>1 DEF CountedFrom

(* A failure continues it, and opens the breaker at the Threshold-th        *)
(* (record_failure).                                                        *)
LEMMA CountFailure ==
  ASSUME NEW h \in Seq(Entry), NEW e \in Nat, NEW f \in Nat, NEW o \in Nat \cup {None},
         NEW t \in Nat, ~h[Len(h)].ok, h[Len(h)].at <= t,
         NEW m, CountedFrom(m, h, Len(h) - 1, e, f, o, t)
  PROVE  CountedFrom(m, h, Len(h), e, f + 1,
                     IF f + 1 >= Threshold /\ o = None THEN t ELSE o, t)
<1> DEFINE q == IF f + 1 >= Threshold /\ o = None THEN t ELSE o
<1>1. Threshold \in Nat /\ 0 < Threshold /\ None \notin Nat
  BY ConstantsAssumption DEF ConstantsAssumption
<1>2. /\ m \in Nat /\ e <= m /\ m <= Len(h) - 1 /\ Len(h) \in Nat
      /\ m = e \/ h[m].ok
      /\ \A k \in (m + 1)..(Len(h) - 1) : ~h[k].ok
      /\ f = Len(h) - 1 - m
      /\ f < Threshold => o = None
      /\ f >= Threshold =>
           /\ o \in h[m + Threshold].at..t
           /\ m + Threshold < Len(h) => o <= h[m + Threshold + 1].at
  BY DEF CountedFrom
<1>3. \A k \in (m + 1)..Len(h) : ~h[k].ok
  <2> SUFFICES ASSUME NEW k \in (m + 1)..Len(h) PROVE ~h[k].ok
    OBVIOUS
  <2>1. k = Len(h) \/ k \in (m + 1)..(Len(h) - 1)
    BY <1>2
  <2> QED
    BY <1>2, <2>1
<1>4. f + 1 = Len(h) - m /\ m \in e..Len(h)
  BY <1>2
<1>5. f + 1 < Threshold => q = None
  BY <1>1, <1>2
<1>6. ASSUME f + 1 >= Threshold
      PROVE  /\ q \in h[m + Threshold].at..t
             /\ m + Threshold < Len(h) => q <= h[m + Threshold + 1].at
  <2>1. CASE f + 1 = Threshold
    <3>1. m + Threshold = Len(h) /\ q = t
      BY <1>1, <1>2, <2>1
    <3>2. h[Len(h)] \in Entry
      BY <1>2
    <3>3. h[Len(h)].at \in Nat
      BY <3>2 DEF Entry
    <3> QED
      BY <1>2, <3>1, <3>3
  <2>2. CASE f >= Threshold
    <3>1. m + Threshold \in 1..Len(h) /\ h[m + Threshold] \in Entry
      BY <1>1, <1>2, <2>2
    <3>2. h[m + Threshold].at \in Nat
      BY <3>1 DEF Entry
    <3>3. o \in Nat /\ o # None
      BY <1>1, <1>2, <2>2, <3>2
    <3>4. q = o
      BY <3>3
    <3> QED
      BY <1>2, <2>2, <3>4
  <2> QED
    BY <1>1, <1>6, <2>1, <2>2
<1> HIDE DEF q
<1>7. CountedFrom(m, h, Len(h), e, f + 1, q, t)
  BY <1>2, <1>3, <1>4, <1>5, <1>6 DEF CountedFrom
<1> QED
  BY <1>7 DEF q

(* The clock only moves on.                                                 *)
LEMMA CountLater ==
  ASSUME NEW h \in Seq(Entry), NEW n, NEW e \in Nat, NEW f \in Nat,
         NEW o \in Nat \cup {None}, NEW t \in Nat, NEW u \in Nat, t <= u,
         n = Len(h) \/ n = Len(h) - 1,
         NEW m, CountedFrom(m, h, n, e, f, o, t)
  PROVE  CountedFrom(m, h, n, e, f, o, u)
<1>1. Threshold \in Nat /\ 0 < Threshold /\ None \notin Nat
  BY ConstantsAssumption DEF ConstantsAssumption
<1>2. /\ m \in Nat /\ m <= n /\ n \in Nat /\ f = n - m /\ n <= Len(h)
      /\ f >= Threshold => o \in h[m + Threshold].at..t
  BY DEF CountedFrom
<1>3. ASSUME f >= Threshold PROVE o \in h[m + Threshold].at..u
  <2>1. m + Threshold \in 1..Len(h) /\ h[m + Threshold] \in Entry
    BY <1>1, <1>2, <1>3
  <2>2. h[m + Threshold].at \in Nat
    BY <2>1 DEF Entry
  <2> QED
    BY <1>2, <1>3, <2>2
<1> QED
  BY <1>3 DEF CountedFrom

(* The entry of the run that is over is put on file.                        *)
LEMMA RunOnFile ==
  ASSUME TypeOK, NEW ok \in BOOLEAN, RecordHistory(ok)
  PROVE  /\ job \in Job /\ [ok |-> ok, at |-> now] \in Entry
         /\ hist'[job] = Append(hist[job], [ok |-> ok, at |-> now])
         /\ \A j \in Job : j # job => hist'[j] = hist[j]
  BY RecordHistoryFacts DEF TypeOK, Entry

(* It is not younger than the clock, and the clock only moves on.           *)
LEMMA PastInvariance == Spec => []HistoryIsPast
<1>1. Init => HistoryIsPast
  BY DEF Init, HistoryIsPast
<1>2. TypeOK /\ TypeOK' /\ HistoryIsPast /\ [Next]_vars => HistoryIsPast'
  <2> SUFFICES ASSUME TypeOK, TypeOK', HistoryIsPast, [Next]_vars,
                      NEW j \in Job, NEW i \in DOMAIN hist'[j]
               PROVE  hist'[j][i].at <= now'
    BY DEF HistoryIsPast
  <2>1. now \in Nat /\ now' \in Nat /\ hist[j] \in Seq(Entry) /\ hist'[j] \in Seq(Entry)
    BY DEF TypeOK, Entry
  <2>2. hist'[j][i].at \in Nat
    <3>1. hist'[j][i] \in Entry
      BY <2>1
    <3> QED
      BY <3>1 DEF Entry
  <2>3. CASE hist' = hist /\ now <= now'
    <3>1. hist'[j][i].at <= now
      BY <2>3 DEF HistoryIsPast
    <3> QED
      BY <2>1, <2>2, <2>3, <3>1
  <2>4. ASSUME NEW ok \in BOOLEAN, RecordHistory(ok)
        PROVE  hist'[j][i].at <= now'
    <3>1. now' = now
      BY <2>4, RecordHistoryFacts
    <3>2. CASE j = job
      <4> DEFINE x == [ok |-> ok, at |-> now]
      <4>1. hist'[j] = Append(hist[j], x) /\ x \in Entry /\ x.at = now
        BY <2>4, <3>2, RunOnFile
      <4> HIDE DEF x
      <4>2. /\ Len(hist'[j]) = Len(hist[j]) + 1
            /\ \A k \in 1..Len(hist[j]) : hist'[j][k] = hist[j][k]
            /\ hist'[j][Len(hist[j]) + 1] = x
        BY <2>1, <4>1, AppendEntry
      <4>3. i = Len(hist[j]) + 1 \/ i \in 1..Len(hist[j])
        BY <2>1, <4>2
      <4>4. CASE i = Len(hist[j]) + 1
        BY <2>1, <3>1, <4>1, <4>2, <4>4
      <4>5. CASE i \in 1..Len(hist[j])
        BY <2>1, <3>1, <4>2, <4>5 DEF HistoryIsPast
      <4> QED
        BY <4>3, <4>4, <4>5
    <3>3. CASE j # job
      BY <2>4, <3>1, <3>3, RunOnFile DEF HistoryIsPast
    <3> QED
      BY <3>2, <3>3
  <2>5. CASE RecordBreaker \/ AskNotifier
    BY <2>1, <2>3, <2>5, RecordBreakerFacts, AskNotifierFacts
  <2>6. CASE StartTick \/ PassOver \/ StartRun \/ RunRaises \/ EndTick
    BY <2>1, <2>3, <2>6 DEF StartTick, PassOver, StartRun, RunRaises, EndTick
  <2>7. CASE Delivered \/ SendFails \/ AdvanceClock \/ Restart \/ UNCHANGED vars
    BY <2>1, <2>3, <2>7 DEF Delivered, SendFails, AdvanceClock, Restart, vars
  <2>8. ASSUME NEW k \in Job, ResetBreaker(k) \/ ResetNotifier(k)
        PROVE  hist'[j][i].at <= now'
    BY <2>1, <2>3, <2>8 DEF ResetBreaker, ResetNotifier
  <2> QED
    BY <2>4, <2>5, <2>6, <2>7, <2>8 DEF Next
<1> QED
  BY <1>1, <1>2, Typing, PTL DEF Spec

(* The breaker hears of the run, for the job that ran.                      *)
LEMMA CountRun ==
  ASSUME TypeOK, HistoryIsPast, NEW j \in Job, j = job, RecordBreaker, Counted(j)
  PROVE  Counted(j)'
<1> DEFINE h == hist[j]
<1>1. /\ h \in Seq(Entry) /\ Len(h) \in Nat /\ epoch[j] \in Nat /\ failures[j] \in Nat
      /\ openSince[j] \in Nat \cup {None} /\ now \in Nat
  BY HeardOf DEF TypeOK
<1>2. Heard(j) = Len(h) - 1
  BY HeardOf, RecordBreakerFacts
<1>3. PICK m : CountedFrom(m, h, Len(h) - 1, epoch[j], failures[j], openSince[j], now)
  BY <1>2 DEF Counted
<1>4. hist'[j] = h /\ epoch'[j] = epoch[j] /\ now' = now
  BY RecordBreakerFacts
<1>5. Heard(j)' = Len(h)
  BY <1>4, RecordBreakerFacts DEF Heard
<1>6. epoch[j] < Len(h)
  BY <1>1, <1>3 DEF CountedFrom
<1>7. h[Len(h)].at <= now
  BY <1>1, <1>6 DEF HistoryIsPast
<1>8. LastOk(j) = h[Len(h)].ok
  BY DEF LastOk
<1> HIDE DEF h
<1>9. CASE LastOk(j)
  <2>1. failures'[j] = 0 /\ openSince'[j] = None
    BY <1>9, RecordBreakerFacts DEF TypeOK, Breaker!Record, Breaker!Close
  <2>2. CountedFrom(Len(h), h, Len(h), epoch[j], 0, None, now)
    BY <1>1, <1>6, <1>8, <1>9, CountSuccess
  <2> QED
    BY <1>4, <1>5, <2>1, <2>2 DEF Counted
<1>10. CASE ~LastOk(j)
  <2>1. /\ failures'[j] = failures[j] + 1
        /\ openSince'[j] = IF failures[j] + 1 >= Threshold /\ openSince[j] = None
                             THEN now ELSE openSince[j]
    BY <1>10, RecordBreakerFacts DEF TypeOK, Breaker!Record, Breaker!RecordFailure
  <2>2. CountedFrom(m, h, Len(h), epoch[j], failures[j] + 1,
                    IF failures[j] + 1 >= Threshold /\ openSince[j] = None
                      THEN now ELSE openSince[j], now)
    BY <1>1, <1>3, <1>7, <1>8, <1>10, CountFailure
  <2> QED
    BY <1>4, <1>5, <2>1, <2>2 DEF Counted
<1> QED
  BY <1>9, <1>10

(* The breaker counts exactly the failures at the end of each history file, *)
(* and opened between the end of the Threshold-th and that of the next      *)
(* (circuit_breaker.py:42-53).                                              *)
THEOREM BreakerHolds == Spec => []BreakerReflectsHistory
<1>1. Init => BreakerReflectsHistory
  <2> SUFFICES ASSUME Init, NEW j \in Job
               PROVE  Counted(j)
    BY BreakerPerJob
  <2>1. /\ hist[j] = <<>> /\ epoch[j] = 0
        /\ failures[j] = 0 /\ openSince[j] = None
        /\ now \in Nat
    BY ConstantsAssumption DEF Init, ConstantsAssumption
  <2>2. hist[j] \in Seq(Entry) /\ Len(hist[j]) = 0
    BY <2>1
  <2>3. Heard(j) = 0
    BY <2>2 DEF Heard, Init
  <2> QED
    BY <2>1, <2>2, <2>3, CountNothing DEF Counted
<1>2. TypeOK /\ TypeOK' /\ HistoryIsPast /\ BreakerReflectsHistory /\ [Next]_vars
        => BreakerReflectsHistory'
  <2> SUFFICES ASSUME TypeOK, TypeOK', HistoryIsPast, BreakerReflectsHistory, [Next]_vars,
                      NEW j \in Job
               PROVE  Counted(j)'
    BY DEF BreakerReflectsHistory, CountedFrom, Counted
  <2>1. Counted(j)
    BY BreakerPerJob
  <2>2. /\ hist[j] \in Seq(Entry) /\ epoch[j] \in Nat /\ failures[j] \in Nat
        /\ openSince[j] \in Nat \cup {None} /\ now \in Nat /\ now' \in Nat
        /\ Heard(j) = Len(hist[j]) \/ Heard(j) = Len(hist[j]) - 1
    BY HeardOf DEF TypeOK
  <2>3. ASSUME hist'[j] = hist[j], epoch'[j] = epoch[j], failures'[j] = failures[j],
               openSince'[j] = openSince[j], now <= now', Heard(j)' = Heard(j)
        PROVE  Counted(j)'
    <3>1. PICK m : CountedFrom(m, hist[j], Heard(j), epoch[j], failures[j],
                               openSince[j], now)
      BY <2>1 DEF Counted
    <3>2. CountedFrom(m, hist[j], Heard(j), epoch[j], failures[j], openSince[j], now')
      BY <2>2, <2>3, <3>1, CountLater
    <3> QED
      BY <2>3, <3>2 DEF Counted
  <2>4. ASSUME NEW ok \in BOOLEAN, RecordHistory(ok)
        PROVE  Counted(j)'
    <3>1. UNCHANGED <<now, job, failures, openSince, epoch>> /\ pc = "run" /\ pc' = "recorded"
      BY <2>4, RecordHistoryFacts
    <3>2. CASE j = job
      <4> DEFINE x == [ok |-> ok, at |-> now]
      <4>1. hist'[j] = Append(hist[j], x) /\ x \in Entry /\ x.at = now
        BY <2>4, <3>2, RunOnFile
      <4> HIDE DEF x
      <4>2. Heard(j) = Len(hist[j])
        BY <3>1, HeardOf
      <4>3. Heard(j)' = Len(hist[j])
        <5>1. Len(hist'[j]) = Len(hist[j]) + 1
          BY <2>2, <4>1, AppendEntry
        <5> QED
          BY <2>2, <3>1, <3>2, <5>1 DEF Heard
      <4>4. PICK m : CountedFrom(m, hist[j], Len(hist[j]), epoch[j], failures[j],
                                 openSince[j], now)
        BY <2>1, <4>2 DEF Counted
      <4>5. CountedFrom(m, Append(hist[j], x), Len(hist[j]), epoch[j], failures[j],
                        openSince[j], now)
        BY <2>2, <4>1, <4>4, CountPending
      <4> QED
        BY <3>1, <4>1, <4>3, <4>5 DEF Counted
    <3>3. CASE j # job
      <4>1. hist'[j] = hist[j]
        BY <2>4, <3>3, RunOnFile
      <4>2. Heard(j)' = Heard(j)
        BY <3>1, <3>3, <4>1 DEF Heard
      <4> QED
        BY <2>2, <2>3, <3>1, <4>1, <4>2
    <3> QED
      BY <3>2, <3>3
  <2>5. CASE RecordBreaker
    <3>1. CASE j = job
      BY <2>1, <2>5, <3>1, CountRun
    <3>2. CASE j # job
      <4>1. failures'[j] = failures[j] /\ openSince'[j] = openSince[j]
        <5>1. Breaker!Record(job, LastOk(job))
          BY <2>5, RecordBreakerFacts
        <5> QED
          BY <3>2, <5>1 DEF TypeOK, Breaker!Record, Breaker!Close, Breaker!RecordFailure
      <4>2. Heard(j)' = Heard(j)
        BY <2>5, <3>2, RecordBreakerFacts DEF Heard
      <4> QED
        BY <2>2, <2>3, <2>5, <4>1, <4>2, RecordBreakerFacts
    <3> QED
      BY <3>1, <3>2
  <2>6. CASE Restart
    <3>1. /\ hist'[j] = hist[j] /\ epoch'[j] = Len(hist[j]) /\ now' = now
          /\ failures'[j] = 0 /\ openSince'[j] = None /\ pc' = "idle"
      BY <2>6 DEF Restart
    <3>2. Heard(j)' = Len(hist[j])
      BY <2>2, <3>1 DEF Heard
    <3> QED
      BY <2>2, <3>1, <3>2, CountNothing DEF Counted
  <2>7. ASSUME NEW i \in Job, ResetBreaker(i)
        PROVE  Counted(j)'
    <3>1. hist' = hist /\ now' = now /\ pc = "idle" /\ pc' = "idle"
      BY <2>7 DEF ResetBreaker
    <3>2. Heard(j)' = Len(hist[j]) /\ Heard(j)' = Heard(j)
      BY <2>2, <3>1 DEF Heard
    <3>3. CASE j = i
      <4>1. epoch'[j] = Len(hist[j]) /\ failures'[j] = 0 /\ openSince'[j] = None
        BY <2>7, <3>3 DEF ResetBreaker, Breaker!Close, TypeOK
      <4> QED
        BY <2>2, <3>1, <3>2, <4>1, CountNothing DEF Counted
    <3>4. CASE j # i
      <4>1. /\ epoch'[j] = epoch[j]
            /\ failures'[j] = failures[j] /\ openSince'[j] = openSince[j]
        BY <2>7, <3>4 DEF ResetBreaker, Breaker!Close, TypeOK
      <4> QED
        BY <2>2, <2>3, <3>1, <3>2, <4>1
    <3> QED
      BY <3>3, <3>4
  <2>8. ASSUME UNCHANGED <<hist, epoch, failures, openSince>>, now <= now',
               pc # "recorded", pc' # "recorded"
        PROVE  Counted(j)'
    <3>1. Heard(j)' = Heard(j)
      BY <2>8 DEF Heard
    <3> QED
      BY <2>3, <2>8, <3>1
  <2>9. CASE AskNotifier
    <3>1. pc # "recorded" /\ pc' # "recorded"
      BY <2>9, AskNotifierFacts
    <3> QED
      BY <2>2, <2>8, <2>9, <3>1, AskNotifierFacts
  <2>10. ASSUME NEW i \in Job, ResetNotifier(i)
         PROVE  Counted(j)'
    BY <2>2, <2>8, <2>10 DEF ResetNotifier, breakerVars
  <2>11. CASE StartTick \/ PassOver \/ StartRun \/ RunRaises \/ EndTick
    BY <2>2, <2>8, <2>11
    DEF StartTick, PassOver, StartRun, RunRaises, EndTick, breakerVars, historyVars
  <2>12. CASE Delivered \/ SendFails
    BY <2>2, <2>8, <2>12 DEF Delivered, SendFails, breakerVars
  <2>13. CASE AdvanceClock \/ UNCHANGED vars
    <3>1. UNCHANGED <<pc, job, hist, epoch, failures, openSince>> /\ now <= now'
      BY <2>2, <2>13 DEF AdvanceClock, vars, breakerVars, historyVars
    <3>2. Heard(j)' = Heard(j)
      BY <3>1 DEF Heard
    <3> QED
      BY <2>3, <3>1, <3>2
  <2> QED
    BY <2>4, <2>5, <2>6, <2>7, <2>9, <2>10, <2>11, <2>12, <2>13 DEF Next
<1> QED
  BY <1>1, <1>2, Typing, PastInvariance, PTL DEF Spec

(* Only one place in a history file begins the failures at its end.         *)
LEMMA OneCount ==
  ASSUME NEW h \in Seq(Entry), NEW e \in Nat,
         NEW m \in e..Len(h), m = e \/ h[m].ok,
         \A k \in (m + 1)..Len(h) : ~h[k].ok,
         NEW n \in e..Len(h), n = e \/ h[n].ok,
         \A k \in (n + 1)..Len(h) : ~h[k].ok
  PROVE  m = n
<1>1. CASE m < n
  <2>1. n \in (m + 1)..Len(h) /\ n # e
    BY <1>1
  <2> QED
    BY <2>1
<1>2. CASE n < m
  <2>1. m \in (n + 1)..Len(h) /\ m # e
    BY <1>2
  <2> QED
    BY <2>1
<1> QED
  BY <1>1, <1>2

(* A job whose circuit is not open is past the window of the failure that   *)
(* opened it.                                                               *)
LEMMA ClosedIsQuiet ==
  ASSUME TypeOK, BreakerReflectsHistory, NEW j \in Job, ~Breaker!IsOpen(j), pc = "next"
  PROVE  QuietAfterTrip(j)
<1>1. hist[j] \in Seq(Entry) /\ epoch[j] \in Nat /\ Heard(j) = Len(hist[j])
  BY HeardOf DEF TypeOK
<1>2. Threshold \in Nat /\ 0 < Threshold /\ None \notin Nat /\ RecoveryWindow \in Nat /\ now \in Nat
  BY ConstantsAssumption DEF ConstantsAssumption, TypeOK
<1> SUFFICES ASSUME NEW n \in epoch[j]..Len(hist[j]),
                    FailingSince(j, n), Len(hist[j]) - n >= Threshold
             PROVE  now - hist[j][n + Threshold].at >= RecoveryWindow
  BY DEF QuietAfterTrip
<1>3. PICK m : CountedFrom(m, hist[j], Len(hist[j]), epoch[j], failures[j], openSince[j], now)
  BY <1>1, BreakerPerJob DEF Counted
<1>4. m = n
  BY <1>1, <1>3, OneCount DEF CountedFrom, FailingSince
<1>5. openSince[j] \in hist[j][n + Threshold].at..now
  BY <1>1, <1>2, <1>3, <1>4 DEF CountedFrom
<1>6. hist[j][n + Threshold] \in Entry
  BY <1>1, <1>2
<1>7. hist[j][n + Threshold].at \in Nat
  BY <1>6 DEF Entry
<1>8. openSince[j] \in Nat /\ hist[j][n + Threshold].at <= openSince[j]
  BY <1>2, <1>5, <1>7
<1>9. ~(now - openSince[j] < RecoveryWindow)
  BY <1>2, <1>8 DEF Breaker!IsOpen
<1> QED
  BY <1>2, <1>7, <1>8, <1>9

(* No run of a job starts within RecoveryWindow of the failure that opened  *)
(* its breaker (run_pipeline.py:55).                                        *)
THEOREM NoRunWhileOpenHolds == Spec => NoRunWhileOpen
<1>1. TypeOK /\ BreakerReflectsHistory /\ [Next]_vars
        => [pc = "next" /\ pc' = "run" => QuietAfterTrip(job)]_vars
  <2> SUFFICES ASSUME TypeOK, BreakerReflectsHistory, Next, pc = "next", pc' = "run"
               PROVE  QuietAfterTrip(job)
    OBVIOUS
  <2>1. CASE StartRun
    BY <2>1, ClosedIsQuiet DEF StartRun
  <2>2. ASSUME NEW ok \in BOOLEAN, RecordHistory(ok)
        PROVE  FALSE
    BY <2>2, RecordHistoryFacts
  <2>3. CASE RecordBreaker \/ AskNotifier
    BY <2>3, RecordBreakerFacts, AskNotifierFacts
  <2>4. CASE StartTick \/ PassOver \/ RunRaises \/ EndTick
    BY <2>4 DEF StartTick, PassOver, RunRaises, EndTick
  <2>5. CASE Delivered \/ SendFails \/ AdvanceClock \/ Restart
    BY <2>5 DEF Delivered, SendFails, AdvanceClock, Restart
  <2>6. ASSUME NEW j \in Job, ResetBreaker(j) \/ ResetNotifier(j)
        PROVE  FALSE
    BY <2>6 DEF ResetBreaker, ResetNotifier
  <2> QED
    BY <2>1, <2>2, <2>3, <2>4, <2>5, <2>6 DEF Next
<1> QED
  BY <1>1, Typing, BreakerHolds, PTL DEF Spec, NoRunWhileOpen
-----------------------------------------------------------------------------
(* The notifier and what its alerts said *)

ExitOf(ok) == IF ok THEN "zero" ELSE "nonzero"

(* While an alert is on its way the notifier's exit code is that of the run *)
(* it reports; and it knows that a job fails as long as the reader was told *)
(* so and neither the alert was lost nor the job forgotten, until it hears  *)
(* of a success that is on file already.                                    *)
NotifierAgrees ==
    \A j \in Job :
        /\ Unheard(j) => hist[j] # <<>>
        /\ Sending(j) => hist[j] # <<>> /\ lastExit[j] = ExitOf(LastOk(j))
        /\ told[j] = "failing" /\ NotifyOnRecovery =>
             \/ j \in unsent \cup forgot \/ Sending(j)
             \/ lastExit[j] = "nonzero" /\ (Unheard(j) \/ (hist[j] # <<>> /\ ~LastOk(j)))

(* The reader knows that j fails, or an alert is or was on its way.         *)
Known(j) == told[j] = "failing" \/ j \in unsent \/ Sending(j)

FailedFrom(h, i) == \A k \in i..Len(h) : ~h[k].ok

(* The notifier has not heard of the last run of j that is on file.         *)
Missed(j) == Unheard(j) \/ j \in cut

(* An outage the reader does not know of began after the last alert, and    *)
(* the notifier has not heard of all of it or it is younger than            *)
(* MinInterval.                                                             *)
UnknownOutage(j, i) ==
    /\ lastNotified[j] <= hist[j][i].at
    /\ Missed(j) \/ hist[j][Len(hist[j])].at - hist[j][i].at < MinInterval

OutagesAreYoung ==
    \A j \in Job :
        /\ lastNotified[j] <= now
        /\ \A i \in DOMAIN hist[j] :
             FailedFrom(hist[j], i) => Known(j) \/ UnknownOutage(j, i)

(* The history of a job grows by the run that is over, which nobody has     *)
(* heard of then (run_pipeline.py:85).                                      *)
LEMMA RunOfJob ==
  ASSUME TypeOK, NEW ok \in BOOLEAN, RecordHistory(ok), NEW j, j = job
  PROVE  /\ j \in Job /\ hist[j] \in Seq(Entry)
         /\ hist'[j] # <<>> /\ Len(hist'[j]) = Len(hist[j]) + 1
         /\ \A i \in 1..Len(hist[j]) : hist'[j][i] = hist[j][i]
         /\ hist'[j][Len(hist'[j])] = [ok |-> ok, at |-> now]
         /\ ~Sending(j) /\ ~Sending(j)' /\ Unheard(j)'
<1>1. /\ j \in Job /\ hist[j] \in Seq(Entry) /\ [ok |-> ok, at |-> now] \in Entry
      /\ hist'[j] = Append(hist[j], [ok |-> ok, at |-> now])
  BY RunOnFile DEF TypeOK, Entry
<1>2. /\ Len(hist'[j]) = Len(hist[j]) + 1
      /\ \A i \in 1..Len(hist[j]) : hist'[j][i] = hist[j][i]
      /\ hist'[j][Len(hist'[j])] = [ok |-> ok, at |-> now]
  BY <1>1, AppendEntry
<1>3. hist'[j] # <<>>
  BY <1>1, <1>2
<1>4. ~Sending(j) /\ ~Sending(j)' /\ Unheard(j)'
  BY RecordHistoryFacts DEF Sending, Unheard
<1> QED
  BY <1>1, <1>2, <1>3, <1>4

(* The notifier hears of the run: its exit code is that of the run, and an  *)
(* alert is under way exactly if should_notify returned True                *)
(* (run_pipeline.py:91-93).                                                 *)
LEMMA AskOfJob ==
  ASSUME TypeOK, AskNotifier, NEW j, j = job
  PROVE  /\ j \in Job
         /\ LastOk(j)' = LastOk(j)
         /\ lastExit'[j] = ExitOf(LastOk(j))
         /\ lastNotified'[j] = IF Notify!Notifies(j, LastOk(j)) THEN now ELSE lastNotified[j]
         /\ Sending(j)' <=> Notify!Notifies(j, LastOk(j))
         /\ ~Sending(j) /\ Unheard(j) /\ ~Unheard(j)' /\ j \notin cut'
<1>1. j \in Job /\ LastOk(j)' = LastOk(j)
  BY AskNotifierFacts DEF TypeOK, LastOk
<1>2. lastExit'[j] = ExitOf(LastOk(j))
  BY <1>1, AskNotifierFacts DEF Notify!ShouldNotify, TypeOK, ExitOf
<1>3. lastNotified'[j] = IF Notify!Notifies(j, LastOk(j)) THEN now ELSE lastNotified[j]
  BY <1>1, AskNotifierFacts DEF Notify!ShouldNotify, TypeOK
<1>4. (Sending(j)' <=> Notify!Notifies(j, LastOk(j))) /\ ~Sending(j)
  <2>1. j + 1 # j
    BY <1>1 DEF Job
  <2> QED
    BY <2>1, AskNotifierFacts DEF Sending
<1>5. Unheard(j) /\ ~Unheard(j)' /\ j \notin cut'
  BY AskNotifierFacts DEF Unheard
<1> QED
  BY <1>1, <1>2, <1>3, <1>4, <1>5

(* Neither step touches another job.                                        *)
LEMMA RunOfOthers ==
  ASSUME TypeOK, (\E ok \in BOOLEAN : RecordHistory(ok)) \/ AskNotifier,
         NEW j \in Job, j # job
  PROVE  /\ hist'[j] = hist[j] /\ lastExit'[j] = lastExit[j]
         /\ lastNotified'[j] = lastNotified[j]
         /\ LastOk(j)' = LastOk(j)
         /\ ~Sending(j) /\ ~Sending(j)' /\ ~Unheard(j) /\ ~Unheard(j)'
         /\ j \in cut' <=> j \in cut
<1>1. CASE \E ok \in BOOLEAN : RecordHistory(ok)
  <2>1. hist'[j] = hist[j] /\ LastOk(j)' = LastOk(j)
    BY <1>1, RunOnFile DEF LastOk
  <2>2. ~Sending(j) /\ ~Sending(j)' /\ ~Unheard(j) /\ ~Unheard(j)'
    BY <1>1, RecordHistoryFacts DEF Sending, Unheard
  <2> QED
    BY <1>1, <2>1, <2>2, RecordHistoryFacts
<1>2. CASE AskNotifier
  <2>1. lastExit'[j] = lastExit[j]
    BY <1>2, AskNotifierFacts DEF Notify!ShouldNotify, TypeOK
  <2>2. lastNotified'[j] = lastNotified[j]
    <3>1. \/ lastNotified' = [lastNotified EXCEPT ![job] = now]
          \/ lastNotified' = lastNotified
      BY <1>2, AskNotifierFacts DEF Notify!ShouldNotify
    <3> QED
      BY <3>1 DEF TypeOK
  <2>3. ~Sending(j) /\ ~Sending(j)' /\ ~Unheard(j) /\ ~Unheard(j)'
    BY <1>2, AskNotifierFacts DEF Sending, Unheard
  <2> QED
    BY <1>2, <2>1, <2>2, <2>3, AskNotifierFacts DEF LastOk
<1> QED
  BY <1>1, <1>2

(* What the reader is told when an alert arrives.                           *)
LEMMA DeliveredFacts ==
  ASSUME TypeOK, Delivered, NEW j \in Job
  PROVE  /\ Sending(j) <=> j = job
         /\ ~Sending(j)' /\ ~Unheard(j) /\ ~Unheard(j)'
         /\ told'[j] = IF j # job THEN told[j]
                       ELSE IF LastOk(j) THEN "recovered" ELSE "failing"
         /\ j # job => (j \in unsent' <=> j \in unsent) /\ (j \in forgot' <=> j \in forgot)
         /\ LastOk(j)' = LastOk(j)
         /\ UNCHANGED <<now, hist, lastNotified, lastExit, cut>>
  BY DEF Delivered, Sending, Unheard, TypeOK, notifierVars, LastOk

(* The notifier's exit codes agree with what its alerts said.               *)
LEMMA NotifierInvariance == Spec => []NotifierAgrees
<1>0. None \notin {"failing", "recovered"}
  BY ConstantsAssumption DEF ConstantsAssumption
<1>1. Init => NotifierAgrees
  BY <1>0 DEF Init, NotifierAgrees, Sending, Unheard
<1>2. TypeOK /\ NotifierAgrees /\ [Next]_vars => NotifierAgrees'
  <2> SUFFICES ASSUME TypeOK, NotifierAgrees, [Next]_vars
               PROVE  NotifierAgrees'
    OBVIOUS
  <2> DEFINE Agrees(j) ==
        /\ Unheard(j) => hist[j] # <<>>
        /\ Sending(j) => hist[j] # <<>> /\ lastExit[j] = ExitOf(LastOk(j))
        /\ told[j] = "failing" /\ NotifyOnRecovery =>
             \/ j \in unsent \cup forgot \/ Sending(j)
             \/ lastExit[j] = "nonzero" /\ (Unheard(j) \/ (hist[j] # <<>> /\ ~LastOk(j)))
  <2>0. ASSUME NEW j \in Job PROVE Agrees(j)
    BY <2>0 DEF NotifierAgrees
  <2>00. (\A j \in Job : Agrees(j)') => NotifierAgrees'
    BY DEF NotifierAgrees
  <2>1. ASSUME NEW ok \in BOOLEAN, RecordHistory(ok), NEW j \in Job
        PROVE  Agrees(j)'
    <3>1. /\ told'[j] = told[j] /\ unsent' = unsent /\ forgot' = forgot
          /\ lastExit' = lastExit
      BY <2>1, RecordHistoryFacts
    <3>2. CASE j = job
      <4>1. ~Sending(j) /\ ~Sending(j)' /\ Unheard(j)' /\ hist'[j] # <<>>
        BY <2>1, <3>2, RunOfJob
      <4>2. told[j] = "failing" /\ NotifyOnRecovery =>
              j \in unsent \cup forgot \/ lastExit[j] = "nonzero"
        BY <2>0, <4>1
      <4>3. told'[j] = "failing" /\ NotifyOnRecovery =>
              j \in unsent' \cup forgot' \/ lastExit'[j] = "nonzero"
        BY <3>1, <4>2
      <4> QED
        BY <4>1, <4>3
    <3>3. CASE j # job
      BY <2>0, <2>1, <3>1, <3>3, RunOfOthers
    <3> QED
      BY <3>2, <3>3
  <2>10. ASSUME AskNotifier, NEW j \in Job
         PROVE  Agrees(j)'
    <3>1. told'[j] = told[j] /\ unsent' = unsent /\ forgot' = forgot /\ hist' = hist
      BY <2>10, AskNotifierFacts
    <3>2. CASE j = job
      <4>1. hist'[j] # <<>> /\ ~Sending(j) /\ ~Unheard(j)' /\ LastOk(j)' = LastOk(j)
        BY <2>0, <2>10, <3>1, <3>2, AskOfJob
      <4>2. lastExit'[j] = ExitOf(LastOk(j))
        BY <2>10, <3>2, AskOfJob
      <4>3. CASE LastOk(j)
        <5>1. Sending(j)' <=> lastExit[j] = "nonzero" /\ NotifyOnRecovery
          BY <2>10, <3>2, <4>3, AskOfJob DEF Notify!Notifies, Notify!WasFailing
        <5> QED
          BY <2>0, <2>10, <3>1, <4>1, <4>2, <5>1
      <4>4. CASE ~LastOk(j)
        BY <4>1, <4>2, <4>4 DEF ExitOf
      <4> QED
        BY <4>3, <4>4
    <3>3. CASE j # job
      BY <2>0, <2>10, <3>1, <3>3, RunOfOthers
    <3> QED
      BY <3>2, <3>3
  <2>2. ASSUME Delivered, NEW j \in Job
        PROVE  Agrees(j)'
    <3>1. LastOk(j)' = LastOk(j)
      BY <2>2, DeliveredFacts
    <3>2. CASE j = job
      BY <2>0, <2>2, <3>1, <3>2, DeliveredFacts DEF ExitOf
    <3>3. CASE j # job
      BY <2>0, <2>2, <3>1, <3>3, DeliveredFacts
    <3> QED
      BY <3>2, <3>3
  <2>3. ASSUME SendFails, NEW j \in Job
        PROVE  Agrees(j)'
    BY <2>0, <2>3 DEF SendFails, notifierVars, Sending, Unheard, LastOk
  <2>4. ASSUME Restart, NEW j \in Job
        PROVE  Agrees(j)'
    BY <2>4 DEF Restart, Sending, Unheard
  <2>5. ASSUME NEW i \in Job, ResetNotifier(i), NEW j \in Job
        PROVE  Agrees(j)'
    <3>1. /\ ~Sending(j)' /\ ~Sending(j) /\ ~Unheard(j)' /\ ~Unheard(j)
          /\ hist' = hist /\ told' = told /\ unsent' = unsent
      BY <2>5 DEF ResetNotifier, Sending, Unheard
    <3>2. forgot' = forgot \cup {i} /\ (j # i => lastExit'[j] = lastExit[j])
      BY <2>5 DEF ResetNotifier, Notify!Reset, TypeOK
    <3>3. LastOk(j)' = LastOk(j)
      BY <3>1 DEF LastOk
    <3> QED
      BY <2>0, <3>1, <3>2, <3>3
  <2>6. ASSUME UNCHANGED <<hist, lastExit, told, unsent, forgot>>,
               \A j \in Job : Sending(j)' = Sending(j) /\ Unheard(j)' = Unheard(j),
               NEW j \in Job
        PROVE  Agrees(j)'
    BY <2>0, <2>6 DEF LastOk
  <2>7. CASE StartTick \/ PassOver \/ StartRun \/ RunRaises \/ EndTick
    BY <2>6, <2>7, <2>00
    DEF StartTick, PassOver, StartRun, RunRaises, EndTick, notifierVars, historyVars,
        Sending, Unheard
  <2>8. ASSUME NEW i \in Job, ResetBreaker(i)
        PROVE  NotifierAgrees'
    BY <2>6, <2>8, <2>00 DEF ResetBreaker, notifierVars, Sending, Unheard
  <2>9. CASE AdvanceClock \/ UNCHANGED vars
    BY <2>6, <2>9, <2>00 DEF AdvanceClock, vars, notifierVars, historyVars, Sending, Unheard
  <2>11. CASE RecordBreaker
    <3>1. \A j \in Job : Sending(j)' = Sending(j) /\ Unheard(j)' = Unheard(j)
      BY <2>11, RecordBreakerFacts DEF Sending, Unheard
    <3> QED
      BY <2>6, <2>11, <2>00, <3>1, RecordBreakerFacts
  <2> QED
    BY <2>00, <2>1, <2>2, <2>3, <2>4, <2>5, <2>7, <2>8, <2>9, <2>10, <2>11 DEF Next
<1> QED
  BY <1>1, <1>2, Typing, PTL DEF Spec

(* Whoever reads the alerts does not go on believing that a job fails after *)
(* it succeeded, unless the alert was lost or the job forgotten             *)
(* (notifier.py:47-55).                                                     *)
THEOREM RecoveryIsReportedHolds == Spec => []RecoveryIsReported
<1>1. NotifierAgrees => RecoveryIsReported
  BY DEF NotifierAgrees, RecoveryIsReported
<1> QED
  BY <1>1, NotifierInvariance, PTL

(* A run that is put on file leaves every outage known, or after the last   *)
(* alert and not all heard of.                                              *)
LEMMA OutageOnFile ==
  ASSUME TypeOK, OutagesAreYoung, NEW ok \in BOOLEAN, RecordHistory(ok), NEW j, j = job,
         NEW i \in DOMAIN hist'[j], FailedFrom(hist'[j], i), ~Known(j)'
  PROVE  UnknownOutage(j, i)'
<1> DEFINE h == hist[j]
           g == hist'[j]
<1>1. /\ j \in Job /\ h \in Seq(Entry) /\ Len(g) = Len(h) + 1 /\ g \in Seq(Entry)
      /\ \A k \in 1..Len(h) : g[k] = h[k]
      /\ g[Len(g)] = [ok |-> ok, at |-> now]
      /\ ~Sending(j) /\ Unheard(j)'
  <2>1. j \in Job /\ [ok |-> ok, at |-> now] \in Entry /\ h \in Seq(Entry)
    BY RunOnFile, RunOfJob
  <2>2. g \in Seq(Entry)
    BY <2>1, RunOnFile, AppendEntry
  <2> QED
    BY <2>1, <2>2, RunOfJob
<1>2. lastNotified'[j] = lastNotified[j] /\ told' = told /\ unsent' = unsent
  BY RecordHistoryFacts
<1>3. ~Known(j)
  BY <1>1, <1>2 DEF Known
<1>4. lastNotified[j] <= now /\ now \in Nat
  BY <1>1 DEF OutagesAreYoung, TypeOK
<1>5. \A k \in DOMAIN h : FailedFrom(h, k) => lastNotified[j] <= h[k].at
  BY <1>1, <1>3 DEF OutagesAreYoung, UnknownOutage
<1>6. FailedFrom(g, i) /\ i \in DOMAIN g
  OBVIOUS
<1> HIDE DEF h, g
<1>7. lastNotified[j] <= g[i].at
  <2>1. CASE i = Len(g)
    BY <1>1, <1>4, <2>1
  <2>2. CASE i # Len(g)
    <3>1. i \in 1..Len(h) /\ i \in DOMAIN h
      BY <1>1, <1>6, <2>2
    <3>2. FailedFrom(h, i)
      BY <1>1, <1>6, <3>1 DEF FailedFrom
    <3> QED
      BY <1>1, <1>5, <3>1, <3>2
  <2> QED
    BY <2>1, <2>2
<1> QED
  BY <1>1, <1>2, <1>7 DEF UnknownOutage, Missed, g

(* A failure that should_notify keeps quiet about is younger than           *)
(* MinInterval, counted from the last alert (notifier.py:57-65).            *)
LEMMA QuietFailure ==
  ASSUME TypeOK, HistoryIsPast, OutagesAreYoung, AskNotifier, NEW j, j = job,
         ~LastOk(j), ~Notify!Notifies(j, LastOk(j)),
         NEW i \in DOMAIN hist[j], FailedFrom(hist[j], i), ~Known(j)'
  PROVE  UnknownOutage(j, i)'
<1>1. /\ j \in Job /\ now \in Nat /\ MinInterval \in Nat /\ lastNotified[j] \in Nat
      /\ hist[j] \in Seq(Entry)
  BY AskOfJob, ConstantsAssumption DEF ConstantsAssumption, TypeOK, Entry
<1>2. lastNotified'[j] = lastNotified[j] /\ hist' = hist /\ told' = told /\ unsent' = unsent
  BY AskOfJob, AskNotifierFacts
<1>3. ~Known(j)
  BY <1>2, AskOfJob DEF Known
<1>4. now - lastNotified[j] < MinInterval
  BY <1>1 DEF Notify!Notifies
<1>5. lastNotified[j] <= hist[j][i].at
  BY <1>1, <1>3 DEF OutagesAreYoung, UnknownOutage
<1>6. Len(hist[j]) \in DOMAIN hist[j]
  BY <1>1
<1>7. /\ hist[j][Len(hist[j])].at <= now
      /\ hist[j][Len(hist[j])] \in Entry /\ hist[j][i] \in Entry
  BY <1>1, <1>6 DEF HistoryIsPast
<1>8. hist[j][Len(hist[j])].at - hist[j][i].at < MinInterval
  BY <1>1, <1>4, <1>5, <1>7 DEF Entry
<1> QED
  BY <1>2, <1>5, <1>8 DEF UnknownOutage

(* What keeps an outage young or known: as long as the histories stay, an   *)
(* alert on its way arrives or is lost.                                     *)
LEMMA OutagesKept ==
  ASSUME TypeOK, OutagesAreYoung, hist' = hist, now' \in Nat, now <= now',
         \A j \in Job : lastNotified'[j] \in Nat /\ lastNotified'[j] <= lastNotified[j],
         \A j \in Job : Known(j) /\ hist[j] # <<>> /\ ~LastOk(j) => Known(j)',
         \A j \in Job : Missed(j) => Missed(j)'
  PROVE  OutagesAreYoung'
<1> SUFFICES ASSUME NEW j \in Job
             PROVE  /\ lastNotified'[j] <= now'
                    /\ \A i \in DOMAIN hist'[j] :
                         FailedFrom(hist'[j], i) => Known(j)' \/ UnknownOutage(j, i)'
  BY DEF OutagesAreYoung
<1>1. lastNotified[j] \in Nat /\ lastNotified[j] <= now /\ now \in Nat
  BY DEF OutagesAreYoung, TypeOK
<1>2. ASSUME NEW i \in DOMAIN hist[j], FailedFrom(hist[j], i), ~Known(j)'
      PROVE  UnknownOutage(j, i)'
  <2>1. hist[j] \in Seq(Entry) /\ hist[j][i] \in Entry
    <3>1. hist[j] \in Seq(Entry)
      BY DEF TypeOK, Entry
    <3> QED
      BY <3>1
  <2>2. hist[j] # <<>> /\ ~LastOk(j)
    BY <1>2, <2>1 DEF FailedFrom, LastOk
  <2>3. UnknownOutage(j, i)
    BY <1>2, <2>2 DEF OutagesAreYoung
  <2>4. lastNotified'[j] <= hist[j][i].at
    <3>1. lastNotified[j] <= hist[j][i].at /\ hist[j][i].at \in Nat
      BY <2>1, <2>3 DEF UnknownOutage, Entry
    <3> QED
      BY <1>1, <3>1
  <2> QED
    BY <2>3, <2>4 DEF UnknownOutage
<1> QED
  BY <1>1, <1>2

(* Every outage the reader does not know of is young, or one the notifier   *)
(* has not heard all of.                                                    *)
LEMMA OutageInvariance == Spec => []OutagesAreYoung
<1>1. Init => OutagesAreYoung
  <2> SUFFICES ASSUME Init, NEW j \in Job
               PROVE  lastNotified[j] <= now /\ DOMAIN hist[j] = {}
    BY DEF OutagesAreYoung
  <2> QED
    BY ConstantsAssumption DEF ConstantsAssumption, Init
<1>2. TypeOK /\ TypeOK' /\ HistoryIsPast /\ OutagesAreYoung /\ [Next]_vars
        => OutagesAreYoung'
  <2> SUFFICES ASSUME TypeOK, TypeOK', HistoryIsPast, OutagesAreYoung, [Next]_vars
               PROVE  OutagesAreYoung'
    OBVIOUS
  <2>0. /\ now \in Nat /\ now' \in Nat
        /\ \A j \in Job : lastNotified[j] \in Nat /\ lastNotified'[j] \in Nat
    BY DEF TypeOK
  <2> DEFINE Young(j) ==
        /\ lastNotified[j] <= now
        /\ \A i \in DOMAIN hist[j] :
             FailedFrom(hist[j], i) => Known(j) \/ UnknownOutage(j, i)
  <2>00. (\A j \in Job : Young(j)') => OutagesAreYoung'
    BY DEF OutagesAreYoung
  <2>1. ASSUME NEW ok \in BOOLEAN, RecordHistory(ok), NEW j \in Job
        PROVE  Young(j)'
    <3>1. /\ told' = told /\ unsent' = unsent /\ now' = now
          /\ lastNotified' = lastNotified
      BY <2>1, RecordHistoryFacts
    <3>2. lastNotified'[j] <= now'
      BY <3>1 DEF OutagesAreYoung
    <3>3. CASE j = job
      <4>1. ASSUME NEW i \in DOMAIN hist'[j], FailedFrom(hist'[j], i)
            PROVE  Known(j)' \/ UnknownOutage(j, i)'
        BY <2>1, <3>3, <4>1, OutageOnFile
      <4> QED
        BY <3>2, <4>1
    <3>4. CASE j # job
      <4>1. /\ hist'[j] = hist[j] /\ ~Sending(j) /\ ~Sending(j)'
            /\ ~Unheard(j) /\ ~Unheard(j)' /\ (j \in cut' <=> j \in cut)
        BY <2>1, <3>4, RunOfOthers
      <4> QED
        BY <3>1, <3>2, <4>1 DEF OutagesAreYoung, Known, UnknownOutage, Missed
    <3> QED
      BY <3>3, <3>4
  <2>2. ASSUME AskNotifier, NEW j \in Job
        PROVE  Young(j)'
    <3>1. told' = told /\ unsent' = unsent /\ now' = now /\ hist' = hist
      BY <2>2, AskNotifierFacts
    <3>2. CASE j = job
      <4>1. lastNotified'[j] <= now'
        <5>1. lastNotified'[j] = IF Notify!Notifies(j, LastOk(j)) THEN now ELSE lastNotified[j]
          BY <2>2, <3>2, AskOfJob
        <5>2. lastNotified[j] <= now /\ now <= now
          BY <2>0 DEF OutagesAreYoung
        <5> QED
          BY <3>1, <5>1, <5>2
      <4>2. ASSUME NEW i \in DOMAIN hist'[j], FailedFrom(hist'[j], i)
            PROVE  Known(j)' \/ UnknownOutage(j, i)'
        <5>1. ~LastOk(j)
          <6>1. hist[j] \in Seq(Entry)
            BY DEF TypeOK, Entry
          <6> QED
            BY <3>1, <4>2, <6>1 DEF FailedFrom, LastOk
        <5>2. CASE Notify!Notifies(j, LastOk(j))
          BY <2>2, <3>2, <5>2, AskOfJob DEF Known
        <5>3. CASE ~Notify!Notifies(j, LastOk(j))
          BY <2>2, <3>1, <3>2, <4>2, <5>1, <5>3, QuietFailure
        <5> QED
          BY <5>2, <5>3
      <4> QED
        BY <4>1, <4>2
    <3>3. CASE j # job
      <4>1. /\ lastNotified'[j] = lastNotified[j] /\ ~Sending(j) /\ ~Sending(j)'
            /\ ~Unheard(j) /\ ~Unheard(j)' /\ (j \in cut' <=> j \in cut)
        BY <2>2, <3>3, RunOfOthers
      <4> QED
        BY <3>1, <4>1 DEF OutagesAreYoung, Known, UnknownOutage, Missed
    <3> QED
      BY <3>2, <3>3
  <2>3. CASE Delivered
    <3>1. ASSUME NEW j \in Job, Known(j), ~LastOk(j)
          PROVE  Known(j)'
      BY <2>3, <3>1, DeliveredFacts DEF Known
    <3>2. \A j \in Job : Missed(j) => Missed(j)'
      BY <2>3, DeliveredFacts DEF Missed
    <3>3. hist' = hist /\ now' = now /\ lastNotified' = lastNotified
      BY <2>3 DEF Delivered, notifierVars
    <3> QED
      BY <2>0, <3>1, <3>2, <3>3, OutagesKept
  <2>4. CASE SendFails
    <3>1. \A j \in Job : Known(j) => Known(j)'
      BY <2>4 DEF SendFails, Known, Sending
    <3>2. \A j \in Job : Missed(j) => Missed(j)'
      BY <2>4 DEF SendFails, Missed, Unheard
    <3> QED
      BY <2>0, <2>4, <3>1, <3>2, OutagesKept DEF SendFails, notifierVars
  <2>5. CASE Restart
    <3>1. \A j \in Job : Known(j) => Known(j)'
      BY <2>5 DEF Restart, Known, Sending
    <3>2. \A j \in Job : Missed(j) => Missed(j)'
      BY <2>5 DEF Restart, Missed, Unheard
    <3>3. \A j \in Job : lastNotified'[j] = 0
      BY <2>5 DEF Restart
    <3> QED
      BY <2>0, <2>5, <3>1, <3>2, <3>3, OutagesKept DEF Restart
  <2>6. ASSUME NEW i \in Job, ResetNotifier(i)
        PROVE  OutagesAreYoung'
    <3>1. \A j \in Job : Known(j) => Known(j)'
      BY <2>6 DEF ResetNotifier, Known, Sending
    <3>2. \A j \in Job : Missed(j) => Missed(j)'
      BY <2>6 DEF ResetNotifier, Missed, Unheard
    <3>3. \A j \in Job : lastNotified'[j] \in {0, lastNotified[j]}
      BY <2>6 DEF ResetNotifier, Notify!Reset, TypeOK
    <3> QED
      BY <2>0, <2>6, <3>1, <3>2, <3>3, OutagesKept DEF ResetNotifier
  <2>7. ASSUME UNCHANGED <<hist, lastNotified, told, unsent, cut>>, now <= now',
               \A j \in Job : Sending(j)' = Sending(j) /\ Unheard(j)' = Unheard(j)
        PROVE  OutagesAreYoung'
    BY <2>0, <2>7, OutagesKept DEF Known, Missed
  <2>8. CASE StartTick \/ PassOver \/ StartRun \/ RunRaises \/ EndTick
    BY <2>0, <2>7, <2>8
    DEF StartTick, PassOver, StartRun, RunRaises, EndTick, notifierVars, historyVars,
        Sending, Unheard
  <2>9. ASSUME NEW i \in Job, ResetBreaker(i)
        PROVE  OutagesAreYoung'
    BY <2>0, <2>7, <2>9 DEF ResetBreaker, notifierVars, Sending, Unheard
  <2>10. CASE AdvanceClock \/ UNCHANGED vars
    BY <2>0, <2>7, <2>10
    DEF AdvanceClock, vars, notifierVars, historyVars, Sending, Unheard
  <2>11. CASE RecordBreaker
    <3>1. \A j \in Job : Sending(j)' = Sending(j) /\ Unheard(j)' = Unheard(j)
      BY <2>11, RecordBreakerFacts DEF Sending, Unheard
    <3> QED
      BY <2>0, <2>7, <2>11, <3>1, RecordBreakerFacts
  <2> QED
    BY <2>00, <2>1, <2>2, <2>3, <2>4, <2>5, <2>6, <2>8, <2>9, <2>10, <2>11 DEF Next
<1> QED
  BY <1>1, <1>2, Typing, PastInvariance, PTL DEF Spec

(* Rate limiting delays the news of an outage, it never hides it: a job     *)
(* whose runs failed for MinInterval or longer is known to fail, across     *)
(* restarts and resets, once the notifier has heard of a run that is not    *)
(* older than the last on file (notifier.py:57-65, run_pipeline.py:85-93).  *)
THEOREM LongOutageIsReportedHolds == Spec => []LongOutageIsReported
<1>1. TypeOK /\ OutagesAreYoung => LongOutageIsReported
  <2> SUFFICES ASSUME TypeOK, OutagesAreYoung, NEW j \in Job, NEW i \in DOMAIN hist[j],
                      \A k \in i..Len(hist[j]) : ~hist[j][k].ok,
                      hist[j][Len(hist[j])].at - hist[j][i].at >= MinInterval
               PROVE  Known(j) \/ Missed(j)
    BY DEF LongOutageIsReported, Known, Missed
  <2>1. Known(j) \/ UnknownOutage(j, i)
    BY DEF OutagesAreYoung, FailedFrom
  <2>2. hist[j][i].at \in Nat /\ hist[j][Len(hist[j])].at \in Nat /\ MinInterval \in Nat
    <3>1. hist[j] \in Seq(Entry)
      BY DEF TypeOK, Entry
    <3>2. hist[j][i] \in Entry /\ hist[j][Len(hist[j])] \in Entry
      BY <3>1
    <3> QED
      BY <3>2, ConstantsAssumption DEF ConstantsAssumption, Entry
  <2> QED
    BY <2>1, <2>2 DEF UnknownOutage
<1> QED
  BY <1>1, OutageInvariance, Typing, PTL
=============================================================================
