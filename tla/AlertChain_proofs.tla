-------------------------- MODULE AlertChain_proofs --------------------------
(* Proofs about AlertChain: the limiter's windows implement a sliding       *)
(* window over the log of all alerts, so that no stretch of Window ever     *)
(* passes more than MaxAlerts; and the level of an alert is the one the     *)
(* failures since the last success have reached.                            *)
EXTENDS AlertChain, Subsequences_proofs, FiniteSetTheorems

(* An entry of the log.                                                     *)

Alert == [name : Name, at : Nat, fate : {"delivered", "lost", "suppressed"}]

(* The level of n failures is one they have reached, if there is one: the   *)
(* thresholds reached are bounded by n, so one of them is the highest       *)
(* (EscalationPolicy.level_for).                                            *)
LEMMA LevelForProperties ==
  ASSUME NEW n \in Nat
  PROVE  /\ Tracker!LevelFor(n) \in Level \cup {DefaultLevel}
         /\ Tracker!Reached(n) # {} => Tracker!LevelFor(n) \in Tracker!Reached(n)
<1> USE ConstantsAssumption DEF ConstantsAssumption
<1>1. CASE Tracker!Reached(n) = {}
  BY <1>1 DEF Tracker!LevelFor
<1>2. CASE Tracker!Reached(n) # {}
  <2> DEFINE T == {n - After[l] : l \in Tracker!Reached(n)}
  <2>1. \A l \in Tracker!Reached(n) : l \in Level /\ After[l] \in Nat /\ After[l] <= n
    BY DEF Tracker!Reached
  <2>2. T \in SUBSET Nat /\ T # {}
    BY <1>2, <2>1
  <2>3. PICK m \in T : \A k \in T : m <= k
    BY <2>2, Least
  <2>4. PICK l \in Tracker!Reached(n) : m = n - After[l]
    OBVIOUS
  <2>5. \A k \in Tracker!Reached(n) : After[k] <= After[l]
    <3> TAKE k \in Tracker!Reached(n)
    <3>1. n - After[l] <= n - After[k]
      BY <2>3, <2>4
    <3> QED
      BY <2>1, <3>1
  <2>6. Tracker!LevelFor(n) \in Tracker!Reached(n)
    BY <1>2, <2>5 DEF Tracker!LevelFor
  <2> QED
    BY <2>1, <2>6
<1> QED
  BY <1>1, <1>2

(* What is left of a window after an eviction: the times from the first     *)
(* recent one on (_WindowState.evict_before).                               *)
LEMMA EvictProperties ==
  ASSUME NEW n, timestamps[n] \in Seq(Nat)
  PROVE  \E r \in 0..Len(timestamps[n]) :
            /\ Limiter!Evict(n) \in Seq(Nat)
            /\ Len(Limiter!Evict(n)) = Len(timestamps[n]) - r
            /\ \A k \in 1..(Len(timestamps[n]) - r) :
                  Limiter!Evict(n)[k] = timestamps[n][r + k]
            /\ \A k \in 1..r : timestamps[n][k] < now - Window
            /\ r < Len(timestamps[n]) => ~(timestamps[n][r + 1] < now - Window)
<1> DEFINE Old == {t \in Nat : t < now - Window}
           ts == timestamps[n]
<1>1. Limiter!Evict(n) = DropWhile(ts, Old)
  BY DEF Limiter!Evict, Limiter!DropWhile, Limiter!RunLength, DropWhile, RunLength
<1>2. PICK r \in 0..Len(ts) :
            /\ DropWhile(ts, Old) \in Seq(Nat)
            /\ Len(DropWhile(ts, Old)) = Len(ts) - r
            /\ \A k \in 1..(Len(ts) - r) : DropWhile(ts, Old)[k] = ts[r + k]
            /\ \A k \in 1..r : ts[k] \in Old
            /\ r < Len(ts) => ts[r + 1] \notin Old
  <2> HIDE DEF Old
  <2> QED
    BY DropWhileProperties
<1>3. r < Len(ts) => ts[r + 1] \in Nat
  OBVIOUS
<1>4. /\ \A k \in 1..r : ts[k] < now - Window
      /\ r < Len(ts) => ~(ts[r + 1] < now - Window)
  BY <1>2, <1>3
<1> QED
  BY <1>1, <1>2, <1>4

(* Replacing one window by another of at most MaxAlerts times.              *)
LEMMA SetWindow ==
  ASSUME TypeOK, NEW n \in Name, NEW w \in Seq(Nat), Len(w) <= MaxAlerts,
         timestamps' = [timestamps EXCEPT ![n] = w]
  PROVE  /\ timestamps' \in [Name -> Seq(Nat)]
         /\ \A m \in Name : Len(timestamps'[m]) <= MaxAlerts
<1>1. timestamps \in [Name -> Seq(Nat)] /\ \A m \in Name : Len(timestamps[m]) <= MaxAlerts
  BY DEF TypeOK
<1>2. \A m \in Name : timestamps'[m] = IF m = n THEN w ELSE timestamps[m]
  BY <1>1
<1> QED
  BY <1>1, <1>2

(* A window that passes an alert takes a slot, and never has more slots     *)
(* than the limit (RateLimiter.is_allowed and record).                      *)
LEMMA SendTyping ==
  ASSUME TypeOK, NEW n \in Name, Send(n)
  PROVE  /\ timestamps' \in [Name -> Seq(Nat)]
         /\ \A m \in Name : Len(timestamps'[m]) <= MaxAlerts
         /\ log' \in Seq(Alert)
<1> USE ConstantsAssumption DEF ConstantsAssumption
<1>1. /\ timestamps \in [Name -> Seq(Nat)] /\ now \in Nat
      /\ \A m \in Name : Len(timestamps[m]) <= MaxAlerts
      /\ log \in Seq(Alert)
  BY DEF TypeOK, Alert
<1>2. /\ Limiter!Evict(n) \in Seq(Nat)
      /\ Len(Limiter!Evict(n)) <= MaxAlerts
  <2>1. timestamps[n] \in Seq(Nat) /\ Len(timestamps[n]) \in Nat /\ Len(timestamps[n]) <= MaxAlerts
    BY <1>1
  <2> QED
    BY <2>1, EvictProperties
<1>3. PICK fate \in IF Limiter!IsAllowed(n) THEN {"delivered", "lost"} ELSE {"suppressed"} :
        /\ IF fate = "suppressed" THEN Limiter!Decline(n) ELSE Limiter!Admit(n)
        /\ log' = Append(log, [name |-> n, at |-> now, fate |-> fate])
  BY DEF Send
<1>4. [name |-> n, at |-> now, fate |-> fate] \in Alert
  BY <1>1 DEF Alert
<1>5. log' \in Seq(Alert)
  BY <1>1, <1>3, <1>4
<1>6. CASE fate = "suppressed"
  <2>1. timestamps' = [timestamps EXCEPT ![n] = Limiter!Evict(n)]
    BY <1>3, <1>6 DEF Limiter!Decline
  <2> QED
    BY <1>2, <1>5, <2>1, SetWindow
<1>7. CASE fate # "suppressed"
  <2>1. timestamps' = [timestamps EXCEPT ![n] = Append(Limiter!Evict(n), now)]
    BY <1>3, <1>7 DEF Limiter!Admit
  <2>2. Len(Limiter!Evict(n)) < MaxAlerts
    BY <1>3, <1>7 DEF Limiter!IsAllowed
  <2>3. /\ Append(Limiter!Evict(n), now) \in Seq(Nat)
        /\ Len(Append(Limiter!Evict(n), now)) <= MaxAlerts
    BY <1>1, <1>2, <2>2
  <2> QED
    BY <1>5, <2>1, <2>3, SetWindow
<1> QED
  BY <1>6, <1>7

(* A failure of a job leaves a count and a level of its own                 *)
(* (EscalationTracker.record_failure).                                      *)
LEMMA RecordFailureTyping ==
  ASSUME TypeOK, NEW j \in Job, Tracker!RecordFailure(j)
  PROVE  /\ count' \in [Job -> Nat]
         /\ lastLevel' \in [Job -> Level \cup {DefaultLevel, None}]
<1>1. count \in [Job -> Nat] /\ lastLevel \in [Job -> Level \cup {DefaultLevel, None}]
  BY DEF TypeOK
<1>2. count[j] + 1 \in Nat
  BY <1>1
<1>3. Tracker!LevelFor(count[j] + 1) \in Level \cup {DefaultLevel}
  BY <1>2, LevelForProperties
<1> QED
  BY <1>1, <1>2, <1>3 DEF Tracker!RecordFailure

(* Windows, counts, levels and the log of alerts are well typed, for any    *)
(* jobs, names, limits and thresholds (ratelimit.py, job_escalation.py).    *)
THEOREM Typing == Spec => []TypeOK
<1> USE ConstantsAssumption DEF ConstantsAssumption
<1>1. Init => TypeOK
  <2> SUFFICES ASSUME Init PROVE TypeOK
    OBVIOUS
  <2>1. <<>> \in Seq(Nat) /\ Len(<<>>) = 0 /\ <<>> \in Seq(Alert)
    OBVIOUS
  <2>2. log \in Seq([name : Name, at : Nat, fate : {"delivered", "lost", "suppressed"}])
    BY <2>1 DEF Init, Alert
  <2>3. /\ timestamps \in [Name -> Seq(Nat)]
        /\ \A n \in Name : Len(timestamps[n]) <= MaxAlerts
    BY <2>1 DEF Init
  <2> QED
    BY <2>2, <2>3 DEF Init, TypeOK
<1>2. TypeOK /\ [Next]_vars => TypeOK'
  <2> SUFFICES ASSUME TypeOK, [Next]_vars
               PROVE  TypeOK'
    OBVIOUS
  <2>1. ASSUME NEW j \in Job, FailureShown(j) PROVE TypeOK'
    <3>1. <<Tracker!LevelFor(count[j] + 1), j>> \in Name
      BY LevelForProperties DEF Name, TypeOK
    <3>2. /\ count' \in [Job -> Nat]
          /\ lastLevel' \in [Job -> Level \cup {DefaultLevel, None}]
      BY <2>1, RecordFailureTyping DEF FailureShown
    <3>3. /\ timestamps' \in [Name -> Seq(Nat)]
          /\ \A m \in Name : Len(timestamps'[m]) <= MaxAlerts
          /\ log' \in Seq(Alert)
      BY <2>1, <3>1, SendTyping DEF FailureShown
    <3>4. /\ outage' \in [Job -> Nat] /\ now' \in Nat /\ since' \in [Name -> Nat]
          /\ failing' \subseteq Job /\ slipped' \subseteq Job
      BY <2>1 DEF FailureShown, NoteFailure, TypeOK
    <3> QED
      BY <3>2, <3>3, <3>4 DEF TypeOK, Alert
  <2>2. ASSUME NEW j \in Job, FailureHeldBack(j) PROVE TypeOK'
    BY <2>2 DEF FailureHeldBack, NoteFailure, TypeOK
  <2>3. ASSUME NEW j \in Job, Success(j) PROVE TypeOK'
    <3>1. /\ count' \in [Job -> Nat]
          /\ lastLevel' \in [Job -> Level \cup {DefaultLevel, None}]
      <4>1. CASE Tracker!RecordSuccess(j)
        BY <4>1 DEF Tracker!RecordSuccess, TypeOK
      <4>2. CASE count' = count /\ lastLevel' = lastLevel
        BY <4>2 DEF TypeOK
      <4>3. Tracker!RecordSuccess(j) \/ (count' = count /\ lastLevel' = lastLevel)
        BY <2>3 DEF Success
      <4> QED
        BY <4>1, <4>2, <4>3
    <3>2. failing' \subseteq Job /\ slipped' \subseteq Job
      BY <2>3 DEF Success, TypeOK
    <3> QED
      BY <2>3, <3>1, <3>2 DEF Success, TypeOK
  <2>9. ASSUME NEW j \in Job, ResetNotifier(j) PROVE TypeOK'
    BY <2>9 DEF ResetNotifier, TypeOK
  <2>10. ASSUME NEW j \in Job, NEW ok \in BOOLEAN, Unheard(j, ok) PROVE TypeOK'
    <3>1. outage' \in [Job -> Nat]
      BY <2>10 DEF Unheard, TypeOK
    <3>2. slipped' \subseteq Job
      BY <2>10 DEF Unheard, TypeOK
    <3> QED
      BY <2>10, <3>1, <3>2 DEF Unheard, TypeOK
  <2>4. ASSUME NEW j \in Job, SendPlain(j) PROVE TypeOK'
    <3>1. <<Plain, j>> \in Name
      BY DEF Name
    <3> QED
      BY <2>4, <3>1, SendTyping DEF SendPlain, feedVars, TypeOK, Alert
  <2>5. ASSUME NEW j \in Job, ResetLimit(j) PROVE TypeOK'
    <3>1. timestamps' = [timestamps EXCEPT ![<<Plain, j>>] = <<>>]
      BY <2>5 DEF ResetLimit, Limiter!Reset
    <3>2. <<>> \in Seq(Nat) /\ Len(<<>>) = 0
      OBVIOUS
    <3>3. Len(log) \in Nat
      BY DEF TypeOK
    <3>4. since' \in [Name -> Nat]
      BY <2>5, <3>3 DEF ResetLimit, TypeOK
    <3>5. /\ timestamps' \in [Name -> Seq(Nat)]
          /\ \A n \in Name : Len(timestamps'[n]) <= MaxAlerts
      <4>1. <<Plain, j>> \in Name /\ Len(<<>>) <= MaxAlerts
        BY <3>2 DEF Name
      <4> QED
        BY <3>1, <3>2, <4>1, SetWindow
    <3> QED
      BY <2>5, <3>4, <3>5 DEF ResetLimit, feedVars, TypeOK
  <2>6. ASSUME NEW j \in Job, Remaining(j) PROVE TypeOK'
    <3>1. <<Plain, j>> \in Name
      BY DEF Name
    <3>2. timestamps[<<Plain, j>>] \in Seq(Nat) /\ Len(timestamps[<<Plain, j>>]) <= MaxAlerts
      BY <3>1 DEF TypeOK
    <3>3. /\ Limiter!Evict(<<Plain, j>>) \in Seq(Nat)
          /\ Len(Limiter!Evict(<<Plain, j>>)) <= MaxAlerts
      BY <3>2, EvictProperties
    <3>4. timestamps' = [timestamps EXCEPT ![<<Plain, j>>] = Limiter!Evict(<<Plain, j>>)]
      BY <2>6 DEF Remaining, Limiter!Decline
    <3>5. /\ timestamps' \in [Name -> Seq(Nat)]
          /\ \A n \in Name : Len(timestamps'[n]) <= MaxAlerts
      BY <3>1, <3>3, <3>4, SetWindow
    <3> QED
      BY <2>6, <3>5 DEF Remaining, feedVars, TypeOK
  <2>7. CASE AdvanceClock
    BY <2>7 DEF AdvanceClock, feedVars, TypeOK
  <2>8. CASE UNCHANGED vars
    BY <2>8 DEF vars, feedVars, TypeOK
  <2> QED
    BY <2>1, <2>2, <2>3, <2>4, <2>5, <2>6, <2>7, <2>8, <2>9, <2>10 DEF Next
<1> QED
  BY <1>1, <1>2, PTL DEF Spec

-----------------------------------------------------------------------------
(* The window of a name holds the times of the alerts of that name that     *)
(* were let through since its last reset, in the order of the log; what it  *)
(* no longer holds is out of the window for good, because time only grows.  *)
LogOrdered ==
    /\ \A i \in DOMAIN log : log[i].at <= now
    /\ \A i, j \in DOMAIN log : i <= j => log[i].at <= log[j].at

SinceReset(n) == {i \in Abstract!Through(n) : i > since[n]}

(* f leads from the slots of window w to the alerts that took them.         *)
Fits(f, w, n) ==
    /\ f \in [1..Len(w) -> SinceReset(n)]
    /\ \A k \in 1..Len(w) : log[f[k]].at = w[k]
    /\ \A j, k \in 1..Len(w) : j < k => f[j] < f[k]
    /\ \A i \in SinceReset(n) :
          (\E k \in 1..Len(w) : f[k] = i) \/ log[i].at < now - Window

LimiterInv ==
    /\ LogOrdered
    /\ \A n \in Name : since[n] <= Len(log)
    /\ \A n \in Name : \E f : Fits(f, timestamps[n], n)

(* An eviction drops exactly the slots of alerts that are no longer recent. *)
LEMMA EvictFits ==
  ASSUME TypeOK, LogOrdered, NEW n \in Name, NEW f, Fits(f, timestamps[n], n)
  PROVE  \E g : /\ Fits(g, Limiter!Evict(n), n)
                /\ \A k \in 1..Len(Limiter!Evict(n)) : g[k] \in Abstract!Recent(n)
<1> DEFINE ts == timestamps[n]
           w == Limiter!Evict(n)
<1>1. ts \in Seq(Nat) /\ Len(ts) \in Nat /\ now \in Nat /\ Window \in Nat
  BY ConstantsAssumption DEF TypeOK, ConstantsAssumption
<1>2. PICK r \in 0..Len(ts) :
            /\ w \in Seq(Nat)
            /\ Len(w) = Len(ts) - r
            /\ \A k \in 1..(Len(ts) - r) : w[k] = ts[r + k]
            /\ \A k \in 1..r : ts[k] < now - Window
            /\ r < Len(ts) => ~(ts[r + 1] < now - Window)
  BY <1>1, EvictProperties
<1> DEFINE m == Len(w)
           g == [k \in 1..m |-> f[r + k]]
<1>3. m \in Nat /\ m = Len(ts) - r /\ \A k \in 1..m : r + k \in 1..Len(ts)
  BY <1>1, <1>2
<1>4. \A k \in 1..Len(ts) :
          /\ f[k] \in DOMAIN log /\ log[f[k]].at = ts[k] /\ f[k] \in Nat /\ ts[k] \in Nat
          /\ f[k] \in SinceReset(n)
  <2>1. DOMAIN log \subseteq Nat
    BY DEF TypeOK
  <2> QED
    BY <1>1, <2>1, SMTT(30) DEF Fits, SinceReset, Abstract!Through
<1> HIDE DEF w
<1>5. \A k \in 1..m : g[k] \in Abstract!Recent(n)
  <2> TAKE k \in 1..m
  <2>1. r + k \in 1..Len(ts) /\ r + 1 \in 1..Len(ts) /\ r + 1 <= r + k /\ r < Len(ts)
    BY <1>1, <1>3
  <2>2. f[r + 1] <= f[r + k]
    <3>1. CASE k = 1
      BY <1>4, <2>1, <3>1
    <3>2. CASE r + 1 < r + k
      BY <1>4, <2>1, <3>2 DEF Fits
    <3> QED
      BY <2>1, <3>1, <3>2
  <2>3. log[f[r + 1]].at <= log[f[r + k]].at
    BY <1>4, <2>1, <2>2 DEF LogOrdered
  <2>4. /\ ts[r + 1] \in Nat /\ log[f[r + 1]].at = ts[r + 1]
        /\ ts[r + k] \in Nat /\ log[f[r + k]].at = ts[r + k]
    BY <1>4, <2>1
  <2>5. ~(ts[r + 1] < now - Window)
    BY <1>2, <2>1
  <2> DEFINE a == ts[r + 1]
             b == ts[r + k]
  <2>6. b >= now - Window
    <3>1. a \in Nat /\ b \in Nat /\ ~(a < now - Window) /\ a <= b
      BY <2>3, <2>4, <2>5
    <3> HIDE DEF a, b
    <3> QED
      BY <1>1, <3>1
  <2> QED
    BY <1>4, <2>1, <2>4, <2>6 DEF SinceReset, Abstract!Recent
<1>6. g \in [1..m -> SinceReset(n)]
  BY <1>3, <1>4
<1>7. \A k \in 1..m : log[g[k]].at = w[k]
  BY <1>2, <1>3, <1>4
<1>8. \A j, k \in 1..m : j < k => g[j] < g[k]
  BY <1>3 DEF Fits
<1>9. ASSUME NEW i \in SinceReset(n), ~(log[i].at < now - Window)
      PROVE  \E k \in 1..m : g[k] = i
  <2>1. PICK k \in 1..Len(ts) : f[k] = i
    BY <1>9 DEF Fits
  <2>2. k \notin 1..r
    BY <1>2, <1>4, <1>9, <2>1
  <2>3. k - r \in 1..m /\ r + (k - r) = k
    BY <1>1, <1>3, <2>2
  <2> QED
    BY <2>1, <2>3
<1> HIDE DEF g
<1>10. Fits(g, w, n)
  BY <1>6, <1>7, <1>8, <1>9 DEF Fits
<1> QED
  BY <1>5, <1>10 DEF w

(* So the size of what is left is the number of recent alerts of the log:   *)
(* the limiter and the log agree on who may pass.                           *)
LEMMA EvictCounts ==
  ASSUME TypeOK, LimiterInv, NEW n \in Name
  PROVE  /\ IsFiniteSet(Abstract!Recent(n))
         /\ Cardinality(Abstract!Recent(n)) = Len(Limiter!Evict(n))
<1> DEFINE w == Limiter!Evict(n)
           m == Len(w)
<1>1. PICK g : /\ Fits(g, w, n)
               /\ \A k \in 1..m : g[k] \in Abstract!Recent(n)
  BY EvictFits DEF LimiterInv
<1>2. m \in Nat
  <2>1. timestamps[n] \in Seq(Nat)
    BY DEF TypeOK
  <2> QED
    BY <2>1, EvictProperties
<1> HIDE DEF w
<1>3. g \in [1..m -> Abstract!Recent(n)]
  BY <1>1 DEF Fits
<1>4. \A k \in 1..m : g[k] \in Nat
  <2>1. DOMAIN log \subseteq Nat
    BY DEF TypeOK
  <2> QED
    BY <1>1, <2>1 DEF Abstract!Recent, Abstract!Through
<1>5. \A j, k \in 1..m : g[j] = g[k] => j = k
  BY <1>1, <1>2, <1>4 DEF Fits
<1>6. ASSUME NEW i \in Abstract!Recent(n) PROVE \E k \in 1..m : g[k] = i
  <2>1. i \in SinceReset(n) /\ i \in DOMAIN log /\ log[i].at >= now - Window
    BY DEF Abstract!Recent, Abstract!Through, SinceReset
  <2>2. log[i] \in Alert /\ now \in Nat /\ Window \in Nat
    <3>1. log \in Seq(Alert)
      BY DEF TypeOK, Alert
    <3> QED
      BY <2>1, <3>1, ConstantsAssumption DEF TypeOK, ConstantsAssumption
  <2>3. ~(log[i].at < now - Window)
    BY <2>1, <2>2 DEF Alert
  <2> QED
    BY <1>1, <2>1, <2>3 DEF Fits
<1> HIDE DEF m
<1>7. g \in Bijection(1..m, Abstract!Recent(n))
  BY <1>3, <1>5, <1>6 DEF Bijection, Injection, Surjection, IsInjective
<1>8. IsFiniteSet(1..m) /\ Cardinality(1..m) = m
  BY <1>2, FS_Interval
<1>9. ExistsBijection(1..m, Abstract!Recent(n))
  BY <1>7 DEF ExistsBijection
<1>10. IsFiniteSet(Abstract!Recent(n)) /\ Cardinality(Abstract!Recent(n)) = m
  BY <1>8, <1>9, FS_Bijection
<1> QED
  BY <1>10 DEF m, w

(* An alert added to the log counts for its own name only, and only if it   *)
(* was let through.                                                         *)
LEMMA LogGrows ==
  ASSUME TypeOK, LimiterInv, NEW a \in Alert, a.at = now,
         log' = Append(log, a), now' = now, since' = since
  PROVE  /\ LogOrdered'
         /\ \A m \in Name : since'[m] <= Len(log')
         /\ \A i \in DOMAIN log : log'[i] = log[i]
         /\ \A m \in Name : SinceReset(m)' =
               IF a.name = m /\ a.fate # "suppressed"
               THEN SinceReset(m) \cup {Len(log) + 1} ELSE SinceReset(m)
         /\ log'[Len(log) + 1] = a
         /\ DOMAIN log = 1..Len(log) /\ DOMAIN log' = 1..(Len(log) + 1)
<1>1. log \in Seq(Alert) /\ Len(log) \in Nat /\ DOMAIN log = 1..Len(log)
  BY DEF TypeOK, Alert
<1>2. /\ Len(log') = Len(log) + 1 /\ DOMAIN log' = 1..(Len(log) + 1)
      /\ log'[Len(log) + 1] = a
      /\ \A i \in 1..Len(log) : log'[i] = log[i]
  BY <1>1
<1>3. \A m \in Name : since[m] \in Nat /\ since[m] <= Len(log)
  BY DEF TypeOK, LimiterInv
<1>4. \A i \in DOMAIN log' : i \in DOMAIN log \/ i = Len(log) + 1
  BY <1>1, <1>2
<1>5. \A i \in DOMAIN log : i \in DOMAIN log' /\ i # Len(log) + 1
  BY <1>1, <1>2
<1>6. \A m \in Name : since'[m] <= Len(log')
  BY <1>1, <1>2, <1>3
<1>7. LogOrdered'
  <2>1. now \in Nat
    BY DEF TypeOK
  <2>2. ASSUME NEW i \in DOMAIN log' PROVE log'[i].at <= now'
    BY <1>1, <1>2, <1>4, <2>1 DEF LimiterInv, LogOrdered
  <2>3. ASSUME NEW i \in DOMAIN log', NEW j \in DOMAIN log', i <= j
        PROVE  log'[i].at <= log'[j].at
    <3>1. CASE j \in DOMAIN log
      <4>1. i \in DOMAIN log
        BY <1>1, <1>2, <2>3, <3>1
      <4> QED
        BY <1>1, <1>2, <2>3, <3>1, <4>1 DEF LimiterInv, LogOrdered
    <3>2. CASE j = Len(log) + 1
      BY <1>2, <2>2, <3>2
    <3> QED
      BY <1>4, <3>1, <3>2
  <2> QED
    BY <2>2, <2>3 DEF LogOrdered
<1>8. ASSUME NEW m \in Name
      PROVE  SinceReset(m)' = IF a.name = m /\ a.fate # "suppressed"
                              THEN SinceReset(m) \cup {Len(log) + 1} ELSE SinceReset(m)
  <2>1. Len(log) + 1 > since[m]
    BY <1>1, <1>3
  <2> QED
    BY <1>1, <1>2, <1>4, <1>5, <2>1 DEF SinceReset, Abstract!Through
<1> QED
  BY <1>1, <1>2, <1>6, <1>7, <1>8

(* An alert held back leaves every window as fitting as it was.             *)
LEMMA DeclineFits ==
  ASSUME TypeOK, LimiterInv, NEW n \in Name, Limiter!Decline(n),
         now' = now, NEW m \in Name, SinceReset(m)' = SinceReset(m),
         \A i \in DOMAIN log : log'[i] = log[i]
  PROVE  \E f : Fits(f, timestamps[m], m)'
<1>1. timestamps' = [timestamps EXCEPT ![n] = Limiter!Evict(n)] /\ timestamps \in [Name -> Seq(Nat)]
  BY DEF Limiter!Decline, TypeOK
<1>2. \E f : Fits(f, timestamps'[m], m)
  <2>1. CASE m = n
    <3>1. timestamps'[m] = Limiter!Evict(n)
      BY <1>1, <2>1
    <3> QED
      BY <2>1, <3>1, EvictFits DEF LimiterInv
  <2>2. CASE m # n
    BY <1>1, <2>2 DEF LimiterInv
  <2> QED
    BY <2>1, <2>2
<1>3. PICK f : Fits(f, timestamps'[m], m)
  BY <1>2
<1>4. \A i \in SinceReset(m) : log'[i] = log[i]
  BY DEF SinceReset, Abstract!Through
<1>5. Fits(f, timestamps[m], m)'
  BY <1>3, <1>4 DEF Fits
<1> QED
  BY <1>5

(* An alert let through takes the last slot of its window.                  *)
LEMMA AdmitFits ==
  ASSUME TypeOK, LimiterInv, NEW n \in Name, NEW fate \in {"delivered", "lost"},
         Limiter!Admit(n), now' = now, since' = since,
         log' = Append(log, [name |-> n, at |-> now, fate |-> fate])
  PROVE  LimiterInv'
<1> DEFINE a == [name |-> n, at |-> now, fate |-> fate]
           w == Limiter!Evict(n)
           l == Len(log) + 1
           k0 == Len(w) + 1
<1>1. a \in Alert /\ a.at = now /\ a.name = n /\ a.fate # "suppressed"
  BY DEF Alert, TypeOK
<1>2. /\ LogOrdered'
      /\ \A m \in Name : since'[m] <= Len(log')
      /\ \A i \in DOMAIN log : log'[i] = log[i]
      /\ \A m \in Name : SinceReset(m)' =
               IF a.name = m /\ a.fate # "suppressed"
               THEN SinceReset(m) \cup {l} ELSE SinceReset(m)
      /\ log'[l] = a
      /\ DOMAIN log = 1..Len(log)
  <2> HIDE DEF a
  <2> QED
    BY <1>1, LogGrows DEF a
<1>3. timestamps' = [timestamps EXCEPT ![n] = Append(w, now)] /\ timestamps \in [Name -> Seq(Nat)]
  BY DEF Limiter!Admit, TypeOK
<1>4. \A m \in Name : \A i \in SinceReset(m) : log'[i] = log[i] /\ i \in 1..Len(log)
  BY <1>2 DEF SinceReset, Abstract!Through
<1>5. ASSUME NEW m \in Name, m # n PROVE \E f : Fits(f, timestamps[m], m)'
  <2>1. PICK f : Fits(f, timestamps[m], m)
    BY DEF LimiterInv
  <2>2. timestamps'[m] = timestamps[m] /\ SinceReset(m)' = SinceReset(m)
    BY <1>1, <1>2, <1>3, <1>5
  <2>3. Fits(f, timestamps[m], m)'
    BY <1>4, <2>1, <2>2 DEF Fits
  <2> QED
    BY <2>3
<1>6. \E f : Fits(f, timestamps[n], n)'
  <2>1. PICK g : Fits(g, w, n)
    BY EvictFits DEF LimiterInv
  <2>2. w \in Seq(Nat) /\ now \in Nat /\ Len(log) \in Nat
    <3>1. timestamps[n] \in Seq(Nat)
      BY DEF TypeOK
    <3>2. w \in Seq(Nat)
      BY <3>1, EvictProperties
    <3> QED
      BY <3>2 DEF TypeOK
  <2> HIDE DEF w
  <2> DEFINE u == Append(w, now)
             hh == [k \in 1..k0 |-> IF k = k0 THEN l ELSE g[k]]
  <2>0. PICK h : h = hh
    OBVIOUS
  <2>3. /\ Len(u) = k0 /\ u[k0] = now /\ \A k \in 1..Len(w) : u[k] = w[k]
        /\ k0 \in 1..k0 /\ 1..Len(w) \subseteq 1..k0
        /\ \A k \in 1..k0 : k = k0 \/ k \in 1..Len(w)
        /\ \A j, k \in 1..k0 : j < k => j \in 1..Len(w)
    BY <2>2
  <2>4. /\ h[k0] = l /\ \A k \in 1..Len(w) : h[k] = g[k]
        /\ h = [k \in 1..k0 |-> h[k]]
    BY <2>0, <2>2
  <2>5. timestamps'[n] = u /\ SinceReset(n)' = SinceReset(n) \cup {l}
    BY <1>1, <1>2, <1>3 DEF w
  <2> HIDE DEF u, k0
  <2>6. \A k \in 1..k0 : h[k] \in SinceReset(n)' /\ log'[h[k]].at = u[k]
    <3>1. h[k0] \in SinceReset(n)' /\ log'[h[k0]].at = u[k0]
      BY <1>1, <1>2, <2>3, <2>4, <2>5
    <3>2. ASSUME NEW k \in 1..Len(w) PROVE h[k] \in SinceReset(n)' /\ log'[h[k]].at = u[k]
      <4>1. g[k] \in SinceReset(n) /\ log[g[k]].at = w[k]
        BY <2>1 DEF Fits
      <4>2. h[k] = g[k] /\ u[k] = w[k]
        BY <2>3, <2>4
      <4>3. log'[g[k]] = log[g[k]]
        BY <1>4, <4>1
      <4> QED
        BY <2>5, <4>1, <4>2, <4>3
    <3> QED
      BY <2>3, <3>1, <3>2
  <2>7. h \in [1..k0 -> SinceReset(n)']
    BY <2>4, <2>6
  <2> HIDE DEF l
  <2>8. ASSUME NEW j \in 1..k0, NEW k \in 1..k0, j < k PROVE h[j] < h[k]
    <3>1. j \in 1..Len(w) /\ h[j] = g[j] /\ g[j] \in SinceReset(n)
      BY <2>1, <2>3, <2>4, <2>8 DEF Fits
    <3>2. CASE k = k0
      BY <1>4, <2>2, <2>4, <3>1, <3>2 DEF l
    <3>3. CASE k \in 1..Len(w)
      BY <2>1, <2>4, <2>8, <3>1, <3>3 DEF Fits
    <3> QED
      BY <2>3, <3>2, <3>3
  <2>9. ASSUME NEW i \in SinceReset(n)'
        PROVE  (\E k \in 1..k0 : h[k] = i) \/ log'[i].at < now' - Window
    <3>1. CASE i = l
      BY <2>3, <2>4, <3>1
    <3>2. CASE i \in SinceReset(n)
      <4>1. (\E k \in 1..Len(w) : g[k] = i) \/ log[i].at < now - Window
        BY <2>1, <3>2 DEF Fits
      <4> QED
        BY <1>4, <2>3, <2>4, <3>2, <4>1
    <3> QED
      BY <2>5, <2>9, <3>1, <3>2
  <2>10. Fits(h, timestamps[n], n)'
    <3>1. Len(timestamps'[n]) = k0
      BY <2>3, <2>5
    <3>2. \A k \in 1..Len(timestamps'[n]) : log'[h[k]].at = timestamps'[n][k]
      BY <2>5, <2>6, <3>1
    <3>3. h \in [1..Len(timestamps'[n]) -> SinceReset(n)']
      BY <2>7, <3>1
    <3>4. \A j, k \in 1..Len(timestamps'[n]) : j < k => h[j] < h[k]
      BY <2>8, <3>1
    <3>5. \A i \in SinceReset(n)' :
              (\E k \in 1..Len(timestamps'[n]) : h[k] = i) \/ log'[i].at < now' - Window
      BY <2>9, <3>1
    <3> QED
      BY <3>2, <3>3, <3>4, <3>5 DEF Fits
  <2> QED
    BY <2>10
<1> QED
  BY <1>2, <1>5, <1>6 DEF LimiterInv

(* The sizes SlidingWindow speaks of are those of the library's lemmas.     *)
LEMMA SameCardinality == \A S : Abstract!Cardinality(S) = Cardinality(S)
  BY DEF Abstract!Cardinality, Cardinality

(* An alert offered to the window is an alert offered to the log            *)
(* (RateLimitedAlerter.send).                                               *)
LEMMA SendStep ==
  ASSUME TypeOK, LimiterInv, NEW n \in Name, Send(n), now' = now, since' = since
  PROVE  LimiterInv' /\ Abstract!Next
<1>1. PICK fate \in IF Limiter!IsAllowed(n) THEN {"delivered", "lost"} ELSE {"suppressed"} :
        /\ IF fate = "suppressed" THEN Limiter!Decline(n) ELSE Limiter!Admit(n)
        /\ log' = Append(log, [name |-> n, at |-> now, fate |-> fate])
  BY DEF Send
<1> DEFINE a == [name |-> n, at |-> now, fate |-> fate]
<1>2. a \in Alert /\ a.at = now /\ a.name = n /\ a.fate = fate
  BY DEF Alert, TypeOK
<1>3. LimiterInv'
  <2>1. CASE fate = "suppressed"
    <3>1. /\ LogOrdered'
          /\ \A m \in Name : since'[m] <= Len(log')
          /\ \A i \in DOMAIN log : log'[i] = log[i]
          /\ \A m \in Name : SinceReset(m)' = SinceReset(m)
      <4> HIDE DEF a
      <4> QED
        BY <1>1, <1>2, <2>1, LogGrows DEF a
    <3>2. \A m \in Name : \E f : Fits(f, timestamps[m], m)'
      BY <1>1, <2>1, <3>1, DeclineFits
    <3> QED
      BY <3>1, <3>2 DEF LimiterInv
  <2>2. CASE fate # "suppressed"
    <3>1. fate \in {"delivered", "lost"} /\ Limiter!Admit(n)
      BY <1>1, <2>2
    <3> QED
      BY <1>1, <3>1, AdmitFits
  <2> QED
    BY <2>1, <2>2
<1>4. Abstract!Offer(n, fate)
  <2>1. fate = "suppressed" <=> ~(Len(Limiter!Evict(n)) < MaxAlerts)
    BY <1>1 DEF Limiter!IsAllowed
  <2>2. Len(Limiter!Evict(n)) \in Nat /\ MaxAlerts \in Nat
    <3>1. timestamps[n] \in Seq(Nat)
      BY DEF TypeOK
    <3> QED
      BY <3>1, EvictProperties, ConstantsAssumption DEF ConstantsAssumption
  <2>3. fate = "suppressed" <=> Cardinality(Abstract!Recent(n)) >= MaxAlerts
    BY <2>1, <2>2, EvictCounts
  <2> QED
    <3>1. log' = Append(log, [name |-> n, at |-> now, fate |-> fate])
      BY <1>1
    <3>2. UNCHANGED <<now, since>>
      OBVIOUS
    <3> QED
      BY <2>3, <3>1, <3>2, SameCardinality DEF Abstract!Offer
<1>5. fate \in {"delivered", "lost", "suppressed"}
  BY <1>1
<1> QED
  BY <1>3, <1>4, <1>5 DEF Abstract!Next

(* Everything else the chain does: a reset empties a window, a query evicts *)
(* from one, and time moves on.                                             *)
LEMMA QuietStep ==
  ASSUME TypeOK, LimiterInv, UNCHANGED <<now, timestamps, log, since>>
  PROVE  LimiterInv'
<1>1. ASSUME NEW n \in Name PROVE \E f : Fits(f, timestamps[n], n)'
  <2>1. PICK f : Fits(f, timestamps[n], n)
    BY DEF LimiterInv
  <2>2. SinceReset(n)' = SinceReset(n)
    BY DEF SinceReset, Abstract!Through
  <2>3. Fits(f, timestamps[n], n)'
    BY <2>1, <2>2 DEF Fits
  <2> QED
    BY <2>3
<1>2. LogOrdered' /\ \A n \in Name : since'[n] <= Len(log')
  BY DEF LimiterInv, LogOrdered
<1> QED
  BY <1>1, <1>2 DEF LimiterInv

(* remaining() evicts and nobody can tell (RateLimiter.remaining).          *)
LEMMA RemainingStep ==
  ASSUME TypeOK, LimiterInv, NEW j \in Job, Remaining(j)
  PROVE  LimiterInv' /\ UNCHANGED Abstract!vars
<1>1. <<Plain, j>> \in Name /\ Limiter!Decline(<<Plain, j>>) /\ UNCHANGED <<now, log, since>>
  BY DEF Remaining, Name
<1>2. \A n \in Name : SinceReset(n)' = SinceReset(n)
  BY <1>1 DEF SinceReset, Abstract!Through
<1>3. \A n \in Name : \E f : Fits(f, timestamps[n], n)'
  BY <1>1, <1>2, DeclineFits
<1>4. LogOrdered' /\ \A n \in Name : since'[n] <= Len(log')
  BY <1>1 DEF LimiterInv, LogOrdered
<1> QED
  BY <1>1, <1>3, <1>4 DEF LimiterInv, Abstract!vars

(* reset() forgets the alerts before it (RateLimiter.reset).                *)
LEMMA ResetStep ==
  ASSUME TypeOK, LimiterInv, NEW j \in Job, ResetLimit(j)
  PROVE  LimiterInv' /\ Abstract!Next
<1> DEFINE p == <<Plain, j>>
<1>1. p \in Name
  BY DEF Name
<1>2. /\ timestamps' = [timestamps EXCEPT ![p] = <<>>]
      /\ since' = [since EXCEPT ![p] = Len(log)]
      /\ UNCHANGED <<now, log>>
  BY DEF ResetLimit, Limiter!Reset
<1> HIDE DEF p
<1>3. /\ timestamps \in [Name -> Seq(Nat)] /\ since \in [Name -> Nat]
      /\ Len(log) \in Nat /\ DOMAIN log = 1..Len(log)
  BY DEF TypeOK
<1>4. ASSUME NEW n \in Name, n # p PROVE \E f : Fits(f, timestamps[n], n)'
  <2>1. PICK f : Fits(f, timestamps[n], n)
    BY DEF LimiterInv
  <2>2. timestamps'[n] = timestamps[n] /\ since'[n] = since[n]
    BY <1>2, <1>3, <1>4
  <2>3. SinceReset(n)' = SinceReset(n)
    BY <1>2, <2>2 DEF SinceReset, Abstract!Through
  <2>4. Fits(f, timestamps[n], n)'
    BY <1>2, <2>1, <2>2, <2>3 DEF Fits
  <2> QED
    BY <2>4
<1>5. \E f : Fits(f, timestamps[p], p)'
  <2>1. timestamps'[p] = <<>> /\ since'[p] = Len(log)
    BY <1>1, <1>2, <1>3
  <2>2. SinceReset(p)' = {}
    BY <1>2, <1>3, <2>1 DEF SinceReset, Abstract!Through
  <2>3. PICK f : f = [k \in {} |-> 0]
    OBVIOUS
  <2>4. Len(timestamps'[p]) = 0 /\ 1..Len(timestamps'[p]) = {}
    BY <2>1
  <2>5. f \in [{} -> {}]
    BY <2>3
  <2>6. Fits(f, timestamps[p], p)'
    BY <2>2, <2>4, <2>5 DEF Fits
  <2> QED
    BY <2>6
<1>6. \A n \in Name : since'[n] <= Len(log')
  BY <1>2, <1>3 DEF LimiterInv
<1>7. LogOrdered'
  BY <1>2 DEF LimiterInv, LogOrdered
<1>8. Abstract!Reset(p)
  BY <1>2 DEF Abstract!Reset
<1> QED
  BY <1>1, <1>4, <1>5, <1>6, <1>7, <1>8 DEF LimiterInv, Abstract!Next

(* Time passes: what the window holds was recent, and still counts as it    *)
(* did or is too old.                                                       *)
LEMMA ClockStep ==
  ASSUME TypeOK, LimiterInv, AdvanceClock
  PROVE  LimiterInv' /\ Abstract!Next
<1>1. /\ now \in Nat /\ now' = now + 1 /\ UNCHANGED <<timestamps, log, since>>
      /\ Window \in Nat /\ log \in Seq(Alert)
  BY ConstantsAssumption DEF TypeOK, AdvanceClock, Alert, ConstantsAssumption
<1>2. \A i \in DOMAIN log : log[i].at \in Nat
  <2>1. \A i \in DOMAIN log : log[i] \in Alert
    BY <1>1
  <2> QED
    BY <2>1 DEF Alert
<1>3. LogOrdered'
  BY <1>1, <1>2 DEF LimiterInv, LogOrdered
<1>4. ASSUME NEW n \in Name PROVE \E f : Fits(f, timestamps[n], n)'
  <2>1. PICK f : Fits(f, timestamps[n], n)
    BY DEF LimiterInv
  <2>2. SinceReset(n)' = SinceReset(n) /\ SinceReset(n) \subseteq DOMAIN log
    BY <1>1 DEF SinceReset, Abstract!Through
  <2>3. \A i \in SinceReset(n) : log[i].at < now - Window => log[i].at < now' - Window
    BY <1>1, <1>2, <2>2
  <2>4. Fits(f, timestamps[n], n)'
    BY <1>1, <2>1, <2>2, <2>3 DEF Fits
  <2> QED
    BY <2>4
<1>5. Abstract!AdvanceClock
  BY <1>1 DEF Abstract!AdvanceClock
<1> QED
  BY <1>1, <1>3, <1>4, <1>5 DEF LimiterInv, Abstract!Next

(* Every step of the chain is a step of the abstract limiter or leaves it   *)
(* alone, and keeps the windows and the log together.                       *)
LEMMA LimiterStep ==
  ASSUME TypeOK, LimiterInv, [Next]_vars
  PROVE  LimiterInv' /\ [Abstract!Next]_Abstract!vars
<1>1. ASSUME NEW j \in Job, FailureShown(j) PROVE LimiterInv' /\ Abstract!Next
  <2>1. <<Tracker!LevelFor(count[j] + 1), j>> \in Name
    BY LevelForProperties DEF Name, TypeOK
  <2> QED
    BY <1>1, <2>1, SendStep DEF FailureShown
<1>2. ASSUME NEW j \in Job, FailureHeldBack(j) PROVE LimiterInv' /\ UNCHANGED Abstract!vars
  BY <1>2, QuietStep DEF FailureHeldBack, Abstract!vars
<1>3. ASSUME NEW j \in Job, Success(j) PROVE LimiterInv' /\ UNCHANGED Abstract!vars
  <2>1. UNCHANGED <<now, timestamps, log, since>>
    BY <1>3 DEF Success
  <2> QED
    BY <2>1, QuietStep DEF Abstract!vars
<1>4. ASSUME NEW j \in Job, SendPlain(j) PROVE LimiterInv' /\ Abstract!Next
  <2>1. <<Plain, j>> \in Name
    BY DEF Name
  <2> QED
    BY <1>4, <2>1, SendStep DEF SendPlain
<1>5. CASE UNCHANGED vars
  BY <1>5, QuietStep DEF vars, Abstract!vars
<1>6. ASSUME NEW j \in Job, ResetNotifier(j) \/ (\E ok \in BOOLEAN : Unheard(j, ok))
      PROVE  LimiterInv' /\ UNCHANGED Abstract!vars
  <2>1. UNCHANGED <<now, timestamps, log, since>>
    BY <1>6 DEF ResetNotifier, Unheard
  <2> QED
    BY <2>1, QuietStep DEF Abstract!vars
<1> QED
  BY <1>1, <1>2, <1>3, <1>4, <1>5, <1>6, ResetStep, RemainingStep, ClockStep DEF Next

(* Empty windows hold what an empty log asks for.                           *)
LEMMA LimiterInit == Init => LimiterInv /\ Abstract!Init
<1> SUFFICES ASSUME Init PROVE LimiterInv /\ Abstract!Init
  OBVIOUS
<1>1. log = <<>> /\ now = 0 /\ since = [n \in Name |-> 0] /\ timestamps = [n \in Name |-> <<>>]
  BY DEF Init
<1>2. DOMAIN log = {} /\ Len(log) = 0 /\ Len(<<>>) = 0 /\ 1..0 = {}
  BY <1>1
<1>3. ASSUME NEW n \in Name PROVE \E f : Fits(f, timestamps[n], n)
  <2>1. timestamps[n] = <<>> /\ Len(timestamps[n]) = 0
    BY <1>1, <1>2
  <2>2. SinceReset(n) = {}
    BY <1>2 DEF SinceReset, Abstract!Through
  <2>3. PICK f : f = [k \in {} |-> 0]
    OBVIOUS
  <2>4. f \in [{} -> {}]
    BY <2>3
  <2>5. Fits(f, timestamps[n], n)
    BY <1>2, <2>1, <2>2, <2>4 DEF Fits
  <2> QED
    BY <2>5
<1>4. LogOrdered /\ \A n \in Name : since[n] <= Len(log)
  BY <1>1, <1>2 DEF LogOrdered
<1> QED
  BY <1>1, <1>3, <1>4 DEF LimiterInv, Abstract!Init

(* The inductive invariant of the refinement holds: every window holds the  *)
(* recent alerts of its log, in their order, for any names, limit and       *)
(* window (RateLimiter, ratelimit.py:19-61).                                *)
THEOREM LimiterInvariance == Spec => []LimiterInv
<1>1. TypeOK /\ LimiterInv /\ [Next]_vars => LimiterInv'
  BY LimiterStep
<1> QED
  BY <1>1, LimiterInit, Typing, PTL DEF Spec

(* The limiter implements the sliding window: it lets an alert through      *)
(* exactly when those let through within the last Window are fewer than     *)
(* MaxAlerts, however evictions, resets and the clock interleave            *)
(* (ratelimit.py:49-61).                                                    *)
THEOREM SlidingWindowRefinement == Spec => ImplementsSlidingWindow
<1>1. TypeOK /\ LimiterInv /\ [Next]_vars => [Abstract!Next]_Abstract!vars
  BY LimiterStep
<1>2. Init => Abstract!Init
  BY LimiterInit
<1> QED
  BY <1>1, <1>2, Typing, LimiterInvariance, PTL DEF Spec, ImplementsSlidingWindow, Abstract!Spec

-----------------------------------------------------------------------------
(* The budget of a window follows from the abstract limiter: the alert that *)
(* would be one too many in a stretch finds all the others of it recent.    *)
Stretch(n, i) == {k \in Abstract!Through(n) : k >= i /\ log[k].at - log[i].at <= Window}

(* A stretch of the log is a finite set of positions.                       *)
LEMMA StretchFinite ==
  ASSUME TypeOK, NEW n, NEW i
  PROVE  IsFiniteSet(Stretch(n, i)) /\ Cardinality(Stretch(n, i)) \in Nat
<1>1. Stretch(n, i) \in SUBSET (1..Len(log)) /\ Len(log) \in Nat
  BY DEF Stretch, Abstract!Through, TypeOK
<1>2. IsFiniteSet(1..Len(log))
  BY <1>1, FS_Interval
<1> QED
  BY <1>1, <1>2, FS_Subset, FS_CardinalityType

(* An alert that the sliding window lets through ends no stretch with more  *)
(* than MaxAlerts alerts.                                                   *)
LEMMA OfferKeepsBudget ==
  ASSUME TypeOK, LimiterInv, WindowBudget, NEW o \in Name,
         NEW fate \in {"delivered", "lost", "suppressed"}, Abstract!Offer(o, fate),
         NEW n \in Name, NEW i \in Abstract!Through(n)', i > since'[n]
  PROVE  Cardinality(Stretch(n, i)') <= MaxAlerts
<1> DEFINE l == Len(log) + 1
           a == [name |-> o, at |-> now, fate |-> fate]
<1>1. /\ log \in Seq(Alert) /\ Len(log) \in Nat /\ DOMAIN log = 1..Len(log)
      /\ now \in Nat /\ Window \in Nat /\ MaxAlerts \in Nat \ {0}
      /\ a \in Alert /\ a.at = now /\ a.name = o /\ a.fate = fate
  BY ConstantsAssumption DEF TypeOK, Alert, ConstantsAssumption
<1>2. log' = Append(log, a) /\ since' = since
  BY DEF Abstract!Offer
<1>3. /\ DOMAIN log' = 1..l /\ log'[l] = a
      /\ \A k \in 1..Len(log) : log'[k] = log[k]
      /\ \A k \in 1..l : k \in 1..Len(log) \/ k = l
      /\ l \notin 1..Len(log)
  <2> HIDE DEF a
  <2> QED
    BY <1>1, <1>2
<1> HIDE DEF a, l
<1>4. Abstract!Through(n)' =
          IF o = n /\ fate # "suppressed"
          THEN Abstract!Through(n) \cup {l} ELSE Abstract!Through(n)
  <2>1. \A k \in 1..Len(log) : k \in 1..l
    BY <1>1 DEF l
  <2>2. l \in 1..l
    BY <1>1 DEF l
  <2> QED
    BY <1>1, <1>3, <2>1, <2>2 DEF Abstract!Through
<1>5. \A k \in 1..Len(log) : log[k].at \in Nat
  <2>1. \A k \in 1..Len(log) : log[k] \in Alert
    BY <1>1
  <2> QED
    BY <2>1 DEF Alert
<1>6. CASE i = l
  <2>1. \A k \in 1..Len(log) : ~(k >= l)
    BY <1>1 DEF l
  <2>2. Stretch(n, i)' \subseteq {l}
    BY <1>1, <1>3, <1>6, <2>1 DEF Stretch, Abstract!Through
  <2>3. Cardinality(Stretch(n, i)') <= 1
    <3>1. IsFiniteSet({l}) /\ Cardinality({l}) = 1
      BY FS_Singleton
    <3> QED
      BY <2>2, <3>1, FS_Subset
  <2>4. Cardinality(Stretch(n, i)') \in Nat
    BY <2>2, FS_Singleton, FS_Subset, FS_CardinalityType
  <2> QED
    BY <1>1, <2>3, <2>4
<1>7. CASE i # l
  <2>1. i \in Abstract!Through(n) /\ i \in 1..Len(log) /\ i > since[n]
    BY <1>1, <1>2, <1>4, <1>7 DEF Abstract!Through
  <2>2. Cardinality(Stretch(n, i)) <= MaxAlerts
    BY <2>1 DEF WindowBudget, Stretch
  <2>3. \A k \in Abstract!Through(n) : k \in 1..Len(log) /\ log'[k] = log[k]
    BY <1>1, <1>3 DEF Abstract!Through
  <2>4. log'[i] = log[i]
    BY <1>3, <2>1
  <2>5. CASE Stretch(n, i)' \subseteq Stretch(n, i)
    <3>1. /\ Cardinality(Stretch(n, i)') <= Cardinality(Stretch(n, i))
          /\ Cardinality(Stretch(n, i)') \in Nat /\ Cardinality(Stretch(n, i)) \in Nat
      BY <2>5, StretchFinite, FS_Subset, FS_CardinalityType
    <3> QED
      BY <1>1, <2>2, <3>1
  <2>6. CASE o = n /\ fate # "suppressed" /\ log'[l].at - log'[i].at <= Window
    <3>1. now - log[i].at <= Window
      BY <1>1, <1>3, <2>4, <2>6
    <3>2. Stretch(n, i) \subseteq Abstract!Recent(n)
      <4> SUFFICES ASSUME NEW k \in Stretch(n, i) PROVE k \in Abstract!Recent(n)
        OBVIOUS
      <4>1. k \in Abstract!Through(n) /\ k >= i /\ k \in 1..Len(log)
        BY <2>3 DEF Stretch
      <4>2. log[i].at <= log[k].at /\ log[i].at \in Nat /\ log[k].at \in Nat
        BY <1>1, <1>5, <2>1, <4>1 DEF LimiterInv, LogOrdered
      <4>3. log[k].at >= now - Window
        <5> DEFINE x == log[i].at
                   y == log[k].at
        <5>1. x \in Nat /\ y \in Nat /\ x <= y /\ now - x <= Window
          BY <3>1, <4>2
        <5> HIDE DEF x, y
        <5>2. y >= now - Window
          BY <1>1, <5>1
        <5> QED
          BY <5>2 DEF y
      <4>4. k > since[n]
        BY <1>1, <2>1, <4>1 DEF TypeOK
      <4> QED
        BY <4>1, <4>3, <4>4 DEF Abstract!Recent
    <3>3. ~(Cardinality(Abstract!Recent(n)) >= MaxAlerts)
      BY <2>6, SameCardinality DEF Abstract!Offer
    <3>4. IsFiniteSet(Abstract!Recent(n)) /\ Cardinality(Abstract!Recent(n)) \in Nat
      BY EvictCounts, FS_CardinalityType
    <3>5. Cardinality(Stretch(n, i)) < MaxAlerts /\ Cardinality(Stretch(n, i)) \in Nat
      <4>1. Cardinality(Stretch(n, i)) <= Cardinality(Abstract!Recent(n))
        BY <3>2, <3>4, FS_Subset
      <4> QED
        BY <1>1, <3>3, <3>4, <4>1, StretchFinite
    <3>6. Stretch(n, i)' \subseteq Stretch(n, i) \cup {l}
      BY <1>4, <2>3, <2>4 DEF Stretch
    <3>7. /\ IsFiniteSet(Stretch(n, i) \cup {l})
          /\ Cardinality(Stretch(n, i) \cup {l}) <= Cardinality(Stretch(n, i)) + 1
      <4> DEFINE S == Stretch(n, i)
      <4>1. IsFiniteSet(S) /\ Cardinality(S) \in Nat
        BY StretchFinite
      <4> HIDE DEF S
      <4>2. /\ IsFiniteSet(S \cup {l})
            /\ Cardinality(S \cup {l}) = IF l \in S THEN Cardinality(S) ELSE Cardinality(S) + 1
        BY <4>1, FS_AddElement
      <4> QED
        BY <4>1, <4>2 DEF S
    <3>8. /\ Cardinality(Stretch(n, i)') <= Cardinality(Stretch(n, i) \cup {l})
          /\ Cardinality(Stretch(n, i)') \in Nat
          /\ Cardinality(Stretch(n, i) \cup {l}) \in Nat
      BY <3>6, <3>7, FS_Subset, FS_CardinalityType
    <3> QED
      BY <1>1, <3>5, <3>7, <3>8
  <2>7. CASE ~(o = n /\ fate # "suppressed" /\ log'[l].at - log'[i].at <= Window)
    <3>1. Stretch(n, i)' \subseteq Stretch(n, i)
      BY <1>4, <2>3, <2>4, <2>7 DEF Stretch
    <3> QED
      BY <2>5, <3>1
  <2> QED
    BY <2>6, <2>7
<1> QED
  BY <1>6, <1>7

(* No stretch of Window has more than MaxAlerts alerts of one name let      *)
(* through, wherever it lies, unless reset in between (ratelimit.py:49-61). *)
THEOREM WindowBudgetHolds == Spec => []WindowBudget
<1>1. Init => WindowBudget
  BY DEF Init, WindowBudget, Abstract!Through
<1>2. TypeOK /\ LimiterInv /\ WindowBudget /\ [Abstract!Next]_Abstract!vars => WindowBudget'
  <2> SUFFICES ASSUME TypeOK, LimiterInv, WindowBudget, [Abstract!Next]_Abstract!vars,
                      NEW n \in Name, NEW i \in Abstract!Through(n)', i > since'[n]
               PROVE  Cardinality(Stretch(n, i)') <= MaxAlerts
    BY DEF WindowBudget, Stretch
  <2>1. ASSUME NEW o \in Name, NEW fate \in {"delivered", "lost", "suppressed"},
               Abstract!Offer(o, fate)
        PROVE  Cardinality(Stretch(n, i)') <= MaxAlerts
    BY <2>1, OfferKeepsBudget
  <2>2. ASSUME log' = log, i > since[n]
        PROVE  Cardinality(Stretch(n, i)') <= MaxAlerts
    <3>1. Stretch(n, i)' = Stretch(n, i) /\ i \in Abstract!Through(n)
      BY <2>2 DEF Stretch, Abstract!Through
    <3> QED
      BY <2>2, <3>1 DEF WindowBudget, Stretch
  <2>3. ASSUME NEW p \in Name, Abstract!Reset(p)
        PROVE  Cardinality(Stretch(n, i)') <= MaxAlerts
    <3>1. log' = log /\ since' = [since EXCEPT ![p] = Len(log)] /\ since \in [Name -> Nat]
      BY <2>3 DEF Abstract!Reset, TypeOK
    <3>2. i \in 1..Len(log) /\ Len(log) \in Nat
      BY <3>1 DEF Abstract!Through, TypeOK
    <3>3. n # p /\ since'[n] = since[n]
      BY <3>1, <3>2
    <3> QED
      BY <2>2, <3>1, <3>3
  <2>4. CASE Abstract!AdvanceClock
    BY <2>2, <2>4 DEF Abstract!AdvanceClock
  <2>5. CASE UNCHANGED Abstract!vars
    BY <2>2, <2>5 DEF Abstract!vars
  <2> QED
    BY <2>1, <2>3, <2>4, <2>5 DEF Abstract!Next
<1> QED
  BY <1>1, <1>2, Typing, LimiterInvariance, SlidingWindowRefinement, PTL
  DEF Spec, ImplementsSlidingWindow, Abstract!Spec

-----------------------------------------------------------------------------
(* As long as recoveries are reported and no success slipped past, the      *)
(* tracker never counts more failures than there were since the last        *)
(* success, and the notifier takes every job it has counted any of for      *)
(* failing, so that it reports the next success.  The tracker never names a *)
(* level those it counted have not reached.                                 *)
CountIsEarned ==
    /\ NotifyOnRecovery =>
         \A j \in Job \ slipped : count[j] <= outage[j] /\ (count[j] > 0 => j \in failing)
    /\ \A j \in Job : lastLevel[j] \in Level => After[lastLevel[j]] <= count[j]

(* Either the default level is not one of the policy's levels, or it is not *)
(* used: one failure reaches some level.                                    *)
DefaultIsEarned == DefaultLevel \in Level => \E l \in Level : After[l] <= 1

(* The level recorded with a failure is the one its count has reached.      *)
LEMMA RecordFailureEarned ==
  ASSUME TypeOK, DefaultIsEarned, NEW n \in Nat \ {0}
  PROVE  Tracker!LevelFor(n) \in Level => After[Tracker!LevelFor(n)] <= n
<1>1. CASE Tracker!Reached(n) = {}
  <2>1. Tracker!LevelFor(n) = DefaultLevel
    BY <1>1 DEF Tracker!LevelFor
  <2>2. \A l \in Level : ~(After[l] <= 1)
    BY <1>1, ConstantsAssumption DEF Tracker!Reached, ConstantsAssumption
  <2> QED
    BY <2>1, <2>2 DEF DefaultIsEarned
<1>2. CASE Tracker!Reached(n) # {}
  BY <1>2, LevelForProperties DEF Tracker!Reached
<1> QED
  BY <1>1, <1>2

(* No alert carries a level its consecutive failures have not reached, when *)
(* the pipeline feeds the tracker, its notifier reports recoveries and is   *)
(* neither reset in the middle of an outage nor misses the end of one, and  *)
(* a level is reached at the first failure, as with the levels of           *)
(* build_escalating_alerter, or the default is no level                     *)
(* (job_escalation.py:19-25, 46-58, notifier.py:47-54).                     *)
THEOREM LevelIsEarnedHolds ==
  ASSUME Upstream = "pipeline", DefaultIsEarned
  PROVE  Spec => []LevelIsEarned
<1>1. Init => CountIsEarned
  BY ConstantsAssumption DEF ConstantsAssumption, Init, CountIsEarned
<1>2. TypeOK /\ CountIsEarned /\ [Next]_vars => CountIsEarned'
  <2> SUFFICES ASSUME TypeOK, CountIsEarned, [Next]_vars PROVE CountIsEarned'
    OBVIOUS
  <2>0. /\ count \in [Job -> Nat] /\ outage \in [Job -> Nat]
        /\ lastLevel \in [Job -> Level \cup {DefaultLevel, None}]
        /\ None \notin Level
    BY ConstantsAssumption DEF TypeOK, ConstantsAssumption
  <2>1. ASSUME NEW j \in Job, FailureShown(j) PROVE CountIsEarned'
    <3>1. /\ count' = [count EXCEPT ![j] = @ + 1]
          /\ lastLevel' = [lastLevel EXCEPT ![j] = Tracker!LevelFor(count[j] + 1)]
          /\ outage' = [outage EXCEPT ![j] = @ + 1]
          /\ failing' = failing \cup {j} /\ slipped' = slipped
      BY <2>1 DEF FailureShown, NoteFailure, Tracker!RecordFailure
    <3>2. /\ count[j] + 1 \in Nat \ {0}
          /\ Tracker!LevelFor(count[j] + 1) \in Level =>
                After[Tracker!LevelFor(count[j] + 1)] <= count[j] + 1
      BY <2>0, RecordFailureEarned
    <3> QED
      BY <2>0, <3>1, <3>2 DEF CountIsEarned
  <2>2. ASSUME NEW j \in Job, FailureHeldBack(j) PROVE CountIsEarned'
    BY <2>0, <2>2 DEF FailureHeldBack, NoteFailure, CountIsEarned
  <2>3. ASSUME NEW j \in Job, Success(j) PROVE CountIsEarned'
    <3>1. outage' = [outage EXCEPT ![j] = 0] /\ failing' = failing \ {j}
      BY <2>3 DEF Success
    <3>2. CASE j \in failing /\ NotifyOnRecovery
      <4>1. /\ count' = [count EXCEPT ![j] = 0]
            /\ lastLevel' = [lastLevel EXCEPT ![j] = None]
            /\ slipped' = slipped \ {j}
        BY <2>3, <3>2 DEF Success, Tracker!RecordSuccess
      <4> QED
        BY <2>0, <3>1, <4>1 DEF CountIsEarned
    <3>3. CASE ~(j \in failing /\ NotifyOnRecovery)
      <4>1. UNCHANGED <<count, lastLevel, slipped>>
        BY <2>3, <3>3 DEF Success
      <4> QED
        BY <2>0, <3>1, <3>3, <4>1 DEF CountIsEarned
    <3> QED
      BY <3>2, <3>3
  <2>4. ASSUME NEW j \in Job, ResetNotifier(j) PROVE CountIsEarned'
    BY <2>0, <2>4 DEF ResetNotifier, CountIsEarned
  <2>5. ASSUME NEW j \in Job, NEW ok \in BOOLEAN, Unheard(j, ok) PROVE CountIsEarned'
    <3>1. UNCHANGED <<count, lastLevel, failing>>
      BY <2>5 DEF Unheard
    <3>2. CASE ok
      <4>1. /\ outage' = [outage EXCEPT ![j] = 0]
            /\ slipped' = slipped \cup (failing \cap {j})
        BY <2>5, <3>2 DEF Unheard
      <4> QED
        BY <2>0, <3>1, <4>1 DEF CountIsEarned
    <3>3. CASE ~ok
      <4>1. outage' = [outage EXCEPT ![j] = @ + 1] /\ slipped' = slipped
        BY <2>5, <3>3 DEF Unheard
      <4> QED
        BY <2>0, <3>1, <4>1 DEF CountIsEarned
    <3> QED
      BY <3>2, <3>3
  <2>6. CASE UNCHANGED <<count, lastLevel, feedVars>>
    BY <2>6 DEF CountIsEarned, feedVars
  <2> QED
    BY <2>1, <2>2, <2>3, <2>4, <2>5, <2>6
    DEF Next, SendPlain, ResetLimit, Remaining, AdvanceClock, vars
<1>3. TypeOK /\ CountIsEarned => LevelIsEarned
  <2> SUFFICES ASSUME TypeOK, CountIsEarned, NotifyOnRecovery, NEW j \in Job \ slipped,
                      lastLevel[j] \in Level
               PROVE  After[lastLevel[j]] <= outage[j]
    BY DEF LevelIsEarned
  <2>1. /\ After[lastLevel[j]] \in Nat /\ count[j] \in Nat /\ outage[j] \in Nat
    BY ConstantsAssumption DEF TypeOK, ConstantsAssumption
  <2> QED
    BY <2>1 DEF CountIsEarned
<1> QED
  BY <1>1, <1>2, <1>3, Typing, PTL DEF Spec
=============================================================================
