--------------------------- MODULE Execution_proofs ---------------------------
(* Proofs about Execution, for any number of threads and jobs, any limits,  *)
(* and however calls, failures and timeouts interleave:                     *)
(*  - the slots of the concurrency guard are neither lost nor multiplied,   *)
(*    and no more threads run a job than its limit allows (SlotInv);        *)
(*  - a job waits once, in the heap or in the tick that drained it, unless  *)
(*    an exception dropped it (CallInv, with the queue's QueueInv);         *)
(*  - the trace store has the newest traces, and its list and dictionary    *)
(*    stay in step unless calls of record() meet (TraceInv);                *)
(*  - a job whose runs do not overlap keeps to its quota (QuotaInv).        *)
EXTENDS Execution, Subsequences_proofs, FiniteSetTheorems

(* Where the job of a thread has a semaphore.                               *)
Served == Held \cup {"get"}

Has(t, j) == job[t] = j /\ pc[t] \in Held

Typing ==
    /\ DOMAIN pc = Thread /\ DOMAIN job = Thread
    /\ slots \in [Job -> Nat \cup {NoSem}]
    /\ leaked \in [Job -> Nat]
    /\ raced \in [Job -> Nat]

(* What the slots of a job come to, and the most there can be of them.      *)
Found(j) == slots[j] + Cardinality(Inside(j)) + leaked[j]
Room(j) == Guard!Cap(j) * (1 + raced[j])
Balanced(j) == Found(j) >= Guard!Cap(j) /\ Found(j) <= Room(j)

(* The slots of a job: the inductive part is that a thread only gets to     *)
(* where it needs a semaphore when there is one, and that a semaphore that  *)
(* was not made yet has lost nothing and was not raced for.                 *)
SlotInv ==
    /\ Typing
    /\ \A t \in Thread : job[t] \in Job /\ pc[t] \in Served => slots[job[t]] # NoSem
    /\ \A j \in Job : slots[j] = NoSem => leaked[j] = 0 /\ raced[j] = 0
    /\ \A j \in Job : slots[j] # NoSem => Balanced(j)

-----------------------------------------------------------------------------
(* The semaphore of a job has at least one slot (max_concurrent, or 1).     *)
LEMMA CapFact == ASSUME NEW j \in Job PROVE Guard!Cap(j) \in Nat \ {0}
BY ConstantsAssumption DEF ConstantsAssumption, Guard!Cap

(* The threads that have a slot of a job are a finite set.                  *)
LEMMA InsideFinite ==
  ASSUME NEW j \in Job
  PROVE  IsFiniteSet(Inside(j)) /\ Cardinality(Inside(j)) \in Nat
<1>1. IsFiniteSet(Thread)
  BY ConstantsAssumption, FS_AddElement DEF ConstantsAssumption, Thread
<1>2. Inside(j) \subseteq Thread
  BY DEF Inside
<1> QED
  BY <1>1, <1>2, FS_Subset, FS_CardinalityType

(* There is room for that many, and for as many again after each race.      *)
LEMMA RoomFact ==
  ASSUME NEW j \in Job, raced[j] \in Nat
  PROVE  Room(j) \in Nat /\ Guard!Cap(j) <= Room(j)
<1> DEFINE c == Guard!Cap(j)
           r == raced[j]
<1>1. c \in Nat /\ r \in Nat
  BY CapFact
<1>2. Room(j) = c * (1 + r)
  BY DEF Room
<1> HIDE DEF c, r
<1>3. c * (1 + r) = c + c * r /\ c * r \in Nat
  BY <1>1
<1>4. c + c * r \in Nat /\ c <= c + c * r
  BY <1>1, <1>3
<1> QED
  BY <1>2, <1>3, <1>4 DEF c

(* Each race for the semaphore makes room for as many again.                *)
LEMMA RoomGrows ==
  ASSUME NEW j \in Job, raced[j] \in Nat, raced'[j] = raced[j] + 1
  PROVE  Room(j)' = Room(j) + Guard!Cap(j)
<1> DEFINE c == Guard!Cap(j)
           r == raced[j]
<1>1. c \in Nat /\ r \in Nat
  BY CapFact
<1>2. Room(j) = c * (1 + r) /\ Room(j)' = c * (1 + (r + 1))
  BY DEF Room, Guard!Cap
<1> HIDE DEF c, r
<1>3. c * (1 + (r + 1)) = c * (1 + r) + c
  BY <1>1
<1> QED
  BY <1>2, <1>3 DEF c

(* SlotsReturn, said with these names.                                      *)
LEMMA ReturnIsBalanced ==
  ASSUME Typing
  PROVE  SlotsReturn <=> \A j \in Job : slots[j] # NoSem => Balanced(j)
<1> SUFFICES ASSUME NEW j \in Job, slots[j] # NoSem
             PROVE  Found(j) \in Guard!Cap(j) .. Guard!Cap(j) * (1 + raced[j]) <=> Balanced(j)
  BY DEF SlotsReturn, Found
<1>1. Found(j) \in Int
  BY InsideFinite DEF Typing, Found
<1>2. Room(j) \in Int /\ Guard!Cap(j) \in Int
  BY RoomFact, CapFact DEF Typing
<1>3. Found(j) \in Guard!Cap(j) .. Room(j) <=> Balanced(j)
  BY <1>1, <1>2 DEF Balanced
<1> QED
  BY <1>3 DEF Room

(* What it is to have a slot of a job.                                      *)
LEMMA InsideHas ==
  ASSUME NEW j \in Job
  PROVE  Inside(j) = {t \in Thread : Has(t, j)}
BY DEF Inside, Has, Held

(* And to have one after a step.                                            *)
LEMMA InsideHasNext ==
  ASSUME NEW j \in Job
  PROVE  Inside(j)' = {t \in Thread : Has(t, j)'}
BY DEF Inside, Has, Held

(* How the threads with a slot change when one thread moves.                *)
Others(t) == \A u \in Thread \ {t} : pc'[u] = pc[u] /\ job'[u] = job[u]

(* A step in which no thread enters or leaves keeps the number of those     *)
(* inside.                                                                  *)
LEMMA SameInside ==
  ASSUME NEW j \in Job, NEW t \in Thread, Others(t), Has(t, j)' <=> Has(t, j)
  PROVE  Inside(j)' = Inside(j)
<1>1. ASSUME NEW u \in Thread PROVE Has(u, j)' <=> Has(u, j)
  <2>1. CASE u = t
    BY <2>1
  <2>2. CASE u # t
    BY <2>2 DEF Others, Has
  <2> QED
    BY <2>1, <2>2
<1> QED
  BY <1>1, InsideHas, InsideHasNext

(* A thread that comes to have a slot is one more.                          *)
LEMMA OneMoreInside ==
  ASSUME NEW j \in Job, NEW t \in Thread, Others(t), ~Has(t, j), Has(t, j)'
  PROVE  Cardinality(Inside(j))' = Cardinality(Inside(j)) + 1
<1>1. t \notin Inside(j) /\ Inside(j)' = Inside(j) \cup {t}
  BY InsideHas, InsideHasNext DEF Others, Has
<1>2. IsFiniteSet(Inside(j))
  BY InsideFinite
<1>3. Cardinality(Inside(j) \cup {t}) = Cardinality(Inside(j)) + 1
  BY <1>1, <1>2, FS_AddElement
<1> QED
  BY <1>1, <1>3

(* A thread that loses its slot is one less.                                *)
LEMMA OneLessInside ==
  ASSUME NEW j \in Job, NEW t \in Thread, Others(t), Has(t, j), ~Has(t, j)'
  PROVE  Cardinality(Inside(j))' = Cardinality(Inside(j)) - 1
<1>1. t \in Inside(j) /\ Inside(j)' = Inside(j) \ {t}
  BY InsideHas, InsideHasNext DEF Others, Has
<1>2. IsFiniteSet(Inside(j))
  BY InsideFinite
<1>3. Cardinality(Inside(j) \ {t}) = Cardinality(Inside(j)) - 1
  BY <1>1, <1>2, FS_RemoveElement
<1> QED
  BY <1>1, <1>3

-----------------------------------------------------------------------------
(* What the steps come to, as far as slots are concerned.                   *)
Domains == DOMAIN pc' = Thread /\ DOMAIN job' = Thread

Neutral(t) ==
    /\ Domains /\ Others(t)
    /\ UNCHANGED <<guardVars, leaked>>
    /\ \A j \in Job : Has(t, j)' <=> Has(t, j)
    /\ job'[t] \in Job /\ pc'[t] \in Served => slots[job'[t]] # NoSem

Makes(t) ==
    /\ Domains /\ Others(t)
    /\ pc[t] = "create" /\ pc'[t] = "get" /\ job'[t] = job[t]
    /\ Guard!Create(job[t]) /\ UNCHANGED leaked

Takes(t) ==
    /\ Domains /\ Others(t)
    /\ pc[t] = "get" /\ pc'[t] = "held" /\ job'[t] = job[t]
    /\ Guard!Free(job[t]) /\ Guard!Take(job[t]) /\ UNCHANGED leaked

Gives(t) ==
    /\ Domains /\ Others(t)
    /\ pc[t] \in Held /\ pc'[t] \notin Served
    /\ Guard!Release(job[t]) /\ UNCHANGED leaked

Leaks(t) ==
    /\ Domains /\ Others(t)
    /\ pc[t] \in Held /\ pc'[t] \notin Served
    /\ leaked' = [leaked EXCEPT ![job[t]] = @ + 1]
    /\ UNCHANGED guardVars

(* A step that moves no thread into or out of a slot keeps the invariant.   *)
LEMMA NeutralKeeps ==
  ASSUME SlotInv, NEW t \in Thread, Neutral(t)
  PROVE  SlotInv'
<1>1. \A j \in Job : Inside(j)' = Inside(j)
  BY SameInside DEF Neutral
<1>2. UNCHANGED <<slots, raced, leaked>>
  BY DEF Neutral, guardVars
<1>3. \A j \in Job : slots'[j] # NoSem => Balanced(j)'
  BY <1>1, <1>2 DEF SlotInv, Balanced, Found, Room, Guard!Cap
<1>4. ASSUME NEW u \in Thread, job'[u] \in Job, pc'[u] \in Served PROVE slots'[job'[u]] # NoSem
  BY <1>2, <1>4 DEF Neutral, Others, SlotInv
<1>5. Typing'
  BY <1>2 DEF Neutral, Domains, SlotInv, Typing
<1> QED
  BY <1>2, <1>3, <1>4, <1>5 DEF SlotInv

(* Creating a semaphore keeps it: it has all its slots, or others raced for *)
(* it (ConcurrencyGuard._semaphore_for).                                    *)
LEMMA MakesKeeps ==
  ASSUME SlotInv, NEW t \in Thread, Makes(t)
  PROVE  SlotInv'
<1> DEFINE i == job[t]
<1>1. slots' = [slots EXCEPT ![i] = Guard!Cap(i)] /\ leaked' = leaked
  BY DEF Makes, Guard!Create
<1>2. raced' = IF slots[i] = NoSem THEN raced ELSE [raced EXCEPT ![i] = @ + 1]
  BY DEF Makes, Guard!Create, Guard!Missing
<1>3. Typing'
  <2>1. raced' \in [Job -> Nat]
    <3>1. raced \in [Job -> Nat]
      BY DEF SlotInv, Typing
    <3>2. CASE slots[i] = NoSem
      BY <1>2, <3>1, <3>2
    <3>3. CASE slots[i] # NoSem
      <4> HIDE DEF i
      <4>1. raced' = [raced EXCEPT ![i] = @ + 1]
        BY <1>2, <3>3
      <4>2. ASSUME NEW j \in Job PROVE raced'[j] \in Nat
        <5>1. raced'[j] = IF j = i THEN raced[j] + 1 ELSE raced[j]
          BY <3>1, <4>1
        <5>2. raced[j] \in Nat /\ raced[j] + 1 \in Nat
          BY <3>1
        <5> QED
          BY <5>1, <5>2
      <4> QED
        BY <3>1, <4>1, <4>2
    <3> QED
      BY <3>2, <3>3
  <2> QED
    BY <1>1, <2>1, CapFact DEF Makes, Domains, SlotInv, Typing
<1>4. \A j \in Job : Inside(j)' = Inside(j)
  <2>1. \A j \in Job : Has(t, j)' <=> Has(t, j)
    BY DEF Makes, Has, Held
  <2> QED
    BY <2>1, SameInside DEF Makes
<1>5. ASSUME NEW u \in Thread, job'[u] \in Job, pc'[u] \in Served PROVE slots'[job'[u]] # NoSem
  <2>1. job'[u] = job[u] /\ (u # t => pc[u] \in Served)
    BY <1>5 DEF Makes, Others
  <2>2. CASE job[u] = i
    <3>1. slots'[i] = Guard!Cap(i) /\ i \in Job
      BY <1>1, <1>5, <2>1, <2>2 DEF SlotInv, Typing
    <3> QED
      BY <2>1, <2>2, <3>1, CapFact, ConstantsAssumption DEF ConstantsAssumption
  <2>3. CASE job[u] # i
    BY <1>1, <1>5, <2>1, <2>3 DEF SlotInv, Typing
  <2> QED
    BY <2>2, <2>3
<1>6. ASSUME NEW j \in Job, slots'[j] = NoSem PROVE leaked'[j] = 0 /\ raced'[j] = 0
  <2>1. j # i
    BY <1>1, <1>6, CapFact, ConstantsAssumption DEF ConstantsAssumption, SlotInv, Typing
  <2>2. slots[j] = NoSem
    BY <1>1, <1>6, <2>1 DEF SlotInv, Typing
  <2> QED
    BY <1>1, <1>2, <2>1, <2>2 DEF SlotInv
<1>7. ASSUME NEW j \in Job, slots'[j] # NoSem
      PROVE  Balanced(j)'
  <2>1. Cardinality(Inside(j)) \in Nat /\ leaked[j] \in Nat /\ Guard!Cap(j) \in Nat /\ raced[j] \in Nat
    BY InsideFinite, CapFact DEF SlotInv, Typing
  <2>2. CASE j # i
    <3>1. raced'[j] = raced[j] /\ slots'[j] = slots[j]
      BY <1>1, <1>2, <2>2 DEF SlotInv, Typing
    <3>2. Found(j)' = Found(j) /\ Room(j)' = Room(j)
      BY <1>1, <1>4, <3>1 DEF Found, Room, Guard!Cap
    <3> QED
      BY <1>7, <3>1, <3>2 DEF SlotInv, Balanced, Guard!Cap
  <2>3. CASE j = i /\ slots[j] # NoSem
    <3>1. slots'[j] = Guard!Cap(j) /\ raced'[j] = raced[j] + 1 /\ slots[j] \in Nat
      BY <1>1, <1>2, <2>3 DEF SlotInv, Typing
    <3>2. Found(j)' = Guard!Cap(j) + Cardinality(Inside(j)) + leaked[j]
      BY <1>1, <1>4, <3>1 DEF Found
    <3>3. Room(j)' = Room(j) + Guard!Cap(j) /\ Room(j) \in Nat
      BY <2>1, <3>1, RoomGrows, RoomFact
    <3>4. slots[j] + Cardinality(Inside(j)) + leaked[j] <= Room(j)
      BY <2>3 DEF SlotInv, Balanced, Found
    <3>5. Guard!Cap(j)' = Guard!Cap(j)
      BY DEF Guard!Cap
    <3> QED
      BY <2>1, <3>1, <3>2, <3>3, <3>4, <3>5 DEF Balanced
  <2>4. CASE j = i /\ slots[j] = NoSem
    <3>1. slots'[j] = Guard!Cap(j) /\ leaked'[j] = 0
      BY <1>1, <2>4 DEF SlotInv, Typing
    <3>2. \A u \in Thread : ~Has(u, j)
      BY <2>4 DEF SlotInv, Has, Served
    <3>3. Inside(j) = {}
      BY <3>2, InsideHas
    <3>4. Cardinality(Inside(j))' = 0
      BY <1>4, <3>3, FS_EmptySet
    <3>5. Found(j)' = Guard!Cap(j)
      BY <2>1, <3>1, <3>4 DEF Found
    <3>6. raced' = raced /\ Guard!Cap(j)' = Guard!Cap(j)
      BY <1>2, <2>4 DEF Guard!Cap
    <3>7. Room(j)' = Room(j)
      BY <3>6 DEF Room
    <3> QED
      BY <2>1, <3>5, <3>6, <3>7, RoomFact DEF Balanced
  <2> QED
    BY <2>2, <2>3, <2>4
<1> QED
  BY <1>3, <1>5, <1>6, <1>7 DEF SlotInv

(* Taking a free slot keeps it: one slot less is free, one thread more      *)
(* inside.                                                                  *)
LEMMA TakesKeeps ==
  ASSUME SlotInv, NEW t \in Thread, Takes(t)
  PROVE  SlotInv'
<1> DEFINE i == job[t]
<1>1. slots' = [slots EXCEPT ![i] = @ - 1] /\ leaked' = leaked /\ raced' = raced
  BY DEF Takes, Guard!Take
<1>2. slots[i] > 0 /\ (i \in Job => slots[i] # NoSem)
  BY DEF Takes, Guard!Free, SlotInv, Served
<1>3. ASSUME i \in Job PROVE slots'[i] = slots[i] - 1 /\ slots'[i] \in Nat /\ slots'[i] # NoSem
  BY <1>1, <1>2, <1>3, ConstantsAssumption DEF ConstantsAssumption, SlotInv, Typing
<1>4. ASSUME NEW j \in Job, j # i PROVE slots'[j] = slots[j]
  BY <1>1, <1>4 DEF SlotInv, Typing
<1>5. Typing'
  BY <1>1, <1>3, <1>4 DEF Takes, Domains, SlotInv, Typing
<1>6. ASSUME NEW u \in Thread, job'[u] \in Job, pc'[u] \in Served PROVE slots'[job'[u]] # NoSem
  <2>1. job'[u] = job[u] /\ (u # t => pc[u] \in Served)
    BY <1>6 DEF Takes, Others
  <2>2. CASE job[u] = i
    BY <1>3, <1>6, <2>1, <2>2
  <2>3. CASE job[u] # i
    BY <1>4, <1>6, <2>1, <2>3 DEF SlotInv
  <2> QED
    BY <2>2, <2>3
<1>7. ASSUME NEW j \in Job, slots'[j] = NoSem PROVE leaked'[j] = 0 /\ raced'[j] = 0
  BY <1>1, <1>3, <1>4, <1>7 DEF SlotInv
<1>8. ASSUME NEW j \in Job, slots'[j] # NoSem
      PROVE  Balanced(j)'
  <2>1. Cardinality(Inside(j)) \in Nat /\ leaked[j] \in Nat /\ Guard!Cap(j) \in Nat
    BY InsideFinite, CapFact DEF SlotInv, Typing
  <2>2. CASE j # i
    <3>1. Has(t, j)' <=> Has(t, j)
      BY <2>2 DEF Takes, Has
    <3>2. Inside(j)' = Inside(j)
      BY <3>1, SameInside DEF Takes
    <3> QED
      BY <1>1, <1>4, <1>8, <2>2, <3>2 DEF SlotInv, Balanced, Found, Room, Guard!Cap
  <2>3. CASE j = i
    <3>1. ~Has(t, j) /\ Has(t, j)'
      BY <2>3 DEF Takes, Has, Held
    <3>2. Cardinality(Inside(j))' = Cardinality(Inside(j)) + 1
      BY <3>1, OneMoreInside DEF Takes
    <3>3. slots[j] \in Nat /\ slots[j] # NoSem /\ slots'[j] = slots[j] - 1
      BY <1>2, <1>3, <2>3 DEF SlotInv, Typing
    <3>4. Balanced(j)
      BY <3>3 DEF SlotInv
    <3> HIDE DEF i
    <3>5. Found(j)' = Found(j)
      BY <1>1, <2>1, <3>2, <3>3 DEF Found
    <3>6. Room(j)' = Room(j) /\ Guard!Cap(j)' = Guard!Cap(j)
      BY <1>1 DEF Room, Guard!Cap
    <3> QED
      BY <3>4, <3>5, <3>6 DEF Balanced
  <2> QED
    BY <2>2, <2>3
<1> QED
  BY <1>5, <1>6, <1>7, <1>8 DEF SlotInv

(* Giving the slot back keeps it: one thread less is inside, one slot more  *)
(* free.                                                                    *)
LEMMA GivesKeeps ==
  ASSUME SlotInv, NEW t \in Thread, Gives(t)
  PROVE  SlotInv'
<1> DEFINE i == job[t]
<1>1. slots' = [slots EXCEPT ![i] = @ + 1] /\ leaked' = leaked /\ raced' = raced
  BY DEF Gives, Guard!Release
<1>2. i \in Job => slots[i] # NoSem
  BY DEF Gives, SlotInv, Served
<1>3. ASSUME i \in Job PROVE slots'[i] = slots[i] + 1 /\ slots'[i] \in Nat /\ slots'[i] # NoSem
  BY <1>1, <1>2, <1>3, ConstantsAssumption DEF ConstantsAssumption, SlotInv, Typing
<1>4. ASSUME NEW j \in Job, j # i PROVE slots'[j] = slots[j]
  BY <1>1, <1>4 DEF SlotInv, Typing
<1>5. Typing'
  BY <1>1, <1>3, <1>4 DEF Gives, Domains, SlotInv, Typing
<1>6. ASSUME NEW u \in Thread, job'[u] \in Job, pc'[u] \in Served PROVE slots'[job'[u]] # NoSem
  <2>1. u # t /\ job'[u] = job[u] /\ pc[u] \in Served
    BY <1>6 DEF Gives, Others
  <2> QED
    BY <1>3, <1>4, <1>6, <2>1 DEF SlotInv
<1>7. ASSUME NEW j \in Job, slots'[j] = NoSem PROVE leaked'[j] = 0 /\ raced'[j] = 0
  BY <1>1, <1>3, <1>4, <1>7 DEF SlotInv
<1>8. ASSUME NEW j \in Job, slots'[j] # NoSem
      PROVE  Balanced(j)'
  <2>1. Cardinality(Inside(j)) \in Nat /\ leaked[j] \in Nat /\ Guard!Cap(j) \in Nat
    BY InsideFinite, CapFact DEF SlotInv, Typing
  <2>0. ~Has(t, j)'
    BY DEF Gives, Has, Held, Served
  <2>2. CASE j # i
    <3>1. ~Has(t, j)
      BY <2>2 DEF Has
    <3>2. Inside(j)' = Inside(j)
      BY <2>0, <3>1, SameInside DEF Gives
    <3> QED
      BY <1>1, <1>4, <1>8, <2>2, <3>2 DEF SlotInv, Balanced, Found, Room, Guard!Cap
  <2>3. CASE j = i
    <3>1. Has(t, j)
      BY <2>3 DEF Gives, Has
    <3>2. Cardinality(Inside(j))' = Cardinality(Inside(j)) - 1
      BY <2>0, <3>1, OneLessInside DEF Gives
    <3>3. slots[j] \in Nat /\ slots[j] # NoSem /\ slots'[j] = slots[j] + 1
      BY <1>2, <1>3, <2>3 DEF SlotInv, Typing
    <3>4. Balanced(j)
      BY <3>3 DEF SlotInv
    <3> HIDE DEF i
    <3>5. Found(j)' = Found(j)
      BY <1>1, <2>1, <3>2, <3>3 DEF Found
    <3>6. Room(j)' = Room(j) /\ Guard!Cap(j)' = Guard!Cap(j)
      BY <1>1 DEF Room, Guard!Cap
    <3> QED
      BY <3>4, <3>5, <3>6 DEF Balanced
  <2> QED
    BY <2>2, <2>3
<1> QED
  BY <1>5, <1>6, <1>7, <1>8 DEF SlotInv

(* And so does losing it to an exception: one thread less is inside, one    *)
(* slot more is known to be lost.                                           *)
LEMMA LeaksKeeps ==
  ASSUME SlotInv, NEW t \in Thread, Leaks(t)
  PROVE  SlotInv'
<1> DEFINE i == job[t]
<1>1. slots' = slots /\ raced' = raced /\ leaked' = [leaked EXCEPT ![i] = @ + 1]
  BY DEF Leaks, guardVars
<1>2. i \in Job => slots[i] # NoSem
  BY DEF Leaks, SlotInv, Served
<1>3. ASSUME NEW j \in Job PROVE leaked'[j] = IF j = i THEN leaked[j] + 1 ELSE leaked[j]
  BY <1>1, <1>3 DEF SlotInv, Typing
<1>4. Typing'
  <2>1. leaked' \in [Job -> Nat]
    <3>1. leaked \in [Job -> Nat]
      BY DEF SlotInv, Typing
    <3>2. \A j \in Job : leaked'[j] \in Nat
      BY <1>3, <3>1
    <3> HIDE DEF i
    <3> QED
      BY <1>1, <3>1, <3>2
  <2> QED
    BY <1>1, <2>1 DEF Leaks, Domains, SlotInv, Typing
<1>5. ASSUME NEW u \in Thread, job'[u] \in Job, pc'[u] \in Served PROVE slots'[job'[u]] # NoSem
  <2>1. u # t /\ job'[u] = job[u] /\ pc[u] \in Served
    BY <1>5 DEF Leaks, Others
  <2> QED
    BY <1>1, <1>5, <2>1 DEF SlotInv
<1>6. ASSUME NEW j \in Job, slots'[j] = NoSem PROVE leaked'[j] = 0 /\ raced'[j] = 0
  BY <1>1, <1>2, <1>3, <1>6 DEF SlotInv
<1>7. ASSUME NEW j \in Job, slots'[j] # NoSem
      PROVE  Balanced(j)'
  <2>1. Cardinality(Inside(j)) \in Nat /\ leaked[j] \in Nat /\ Guard!Cap(j) \in Nat
    BY InsideFinite, CapFact DEF SlotInv, Typing
  <2>2. slots[j] \in Nat /\ slots[j] # NoSem /\ slots'[j] = slots[j]
    BY <1>1, <1>7 DEF SlotInv, Typing
  <2>3. Balanced(j)
    BY <2>2 DEF SlotInv
  <2>4. ~Has(t, j)'
    BY DEF Leaks, Has, Held, Served
  <2>5. CASE j # i
    <3>1. ~Has(t, j)
      BY <2>5 DEF Has
    <3>2. Inside(j)' = Inside(j)
      BY <2>4, <3>1, SameInside DEF Leaks
    <3> QED
      BY <1>1, <1>3, <2>2, <2>3, <2>5, <3>2 DEF Balanced, Found, Room, Guard!Cap
  <2>6. CASE j = i
    <3>1. Has(t, j)
      BY <2>6 DEF Leaks, Has
    <3>2. Cardinality(Inside(j))' = Cardinality(Inside(j)) - 1
      BY <2>4, <3>1, OneLessInside DEF Leaks
    <3>3. leaked'[j] = leaked[j] + 1
      BY <1>3, <2>6
    <3> HIDE DEF i
    <3>4. Found(j)' = Found(j)
      BY <2>1, <2>2, <3>2, <3>3 DEF Found
    <3>5. Room(j)' = Room(j) /\ Guard!Cap(j)' = Guard!Cap(j)
      BY <1>1 DEF Room, Guard!Cap
    <3> QED
      BY <2>3, <3>4, <3>5 DEF Balanced
  <2> QED
    BY <2>5, <2>6
<1> QED
  BY <1>4, <1>5, <1>6, <1>7 DEF SlotInv

-----------------------------------------------------------------------------
(* Every action is a step of one of these kinds.                            *)
LEMMA GotoFact ==
  ASSUME Typing, NEW t \in Thread, NEW label, Goto(t, label)
  PROVE  DOMAIN pc' = Thread /\ pc'[t] = label /\ \A u \in Thread \ {t} : pc'[u] = pc[u]
BY DEF Typing, Goto

(* A thread moves and keeps its job, between two places without a slot or   *)
(* two places with one.                                                     *)
LEMMA MoveIsNeutral ==
  ASSUME SlotInv, NEW t \in Thread, NEW label, Goto(t, label), job' = job,
         UNCHANGED <<guardVars, leaked>>,
         (pc[t] \in Held) <=> (label \in Held),
         label # "get"
  PROVE  SlotInv'
<1>1. Typing
  BY DEF SlotInv
<1>2. Domains /\ Others(t) /\ pc'[t] = label
  BY <1>1, GotoFact DEF Domains, Others, Typing
<1>3. \A j \in Job : Has(t, j)' <=> Has(t, j)
  BY <1>2 DEF Has
<1>4. job'[t] \in Job /\ pc'[t] \in Served => slots[job'[t]] # NoSem
  BY <1>2 DEF SlotInv, Served
<1> QED
  BY <1>2, <1>3, <1>4, NeutralKeeps DEF Neutral

(* A thread takes up or puts down a job where it has no slot.               *)
LEMMA ChangeIsNeutral ==
  ASSUME SlotInv, NEW t \in Thread, NEW label, NEW j, Goto(t, label),
         job' = [job EXCEPT ![t] = j],
         UNCHANGED <<guardVars, leaked>>,
         pc[t] \notin Held, label \notin Served
  PROVE  SlotInv'
<1>1. Typing
  BY DEF SlotInv
<1>2. Domains /\ Others(t) /\ pc'[t] = label
  BY <1>1, GotoFact DEF Domains, Others, Typing
<1>3. \A i \in Job : Has(t, i)' <=> Has(t, i)
  BY <1>2 DEF Has, Served
<1> QED
  BY <1>2, <1>3, NeutralKeeps DEF Neutral

(* A step that moves no thread at all is neutral.                           *)
LEMMA StillIsNeutral ==
  ASSUME SlotInv, UNCHANGED <<pc, job, slots, raced, leaked>>
  PROVE  SlotInv'
<1>1. Daemon \in Thread
  BY DEF Thread
<1>2. Domains /\ Others(Daemon) /\ UNCHANGED <<guardVars, leaked>>
  BY DEF Domains, Others, SlotInv, Typing, guardVars
<1>3. \A j \in Job : Has(Daemon, j)' <=> Has(Daemon, j)
  BY DEF Has
<1>4. job'[Daemon] \in Job /\ pc'[Daemon] \in Served => slots[job'[Daemon]] # NoSem
  BY <1>1 DEF SlotInv
<1> QED
  BY <1>1, <1>2, <1>3, <1>4, NeutralKeeps DEF Neutral

(* Entering run() is neutral: no thread is inside before the semaphore is   *)
(* looked for.                                                              *)
LEMMA EnterKeeps ==
  ASSUME SlotInv, NEW t \in Thread, NEW j, Enter(t, j), pc[t] \in {"idle", "next"},
         UNCHANGED <<guardVars, leaked>>
  PROVE  SlotInv'
<1>1. job' = [job EXCEPT ![t] = j] /\ pc[t] \notin Held
  BY DEF Enter, Held
<1>2. PICK label \in {"check", "look"} : Goto(t, label)
  BY DEF Enter
<1>3. label \notin Served
  BY <1>2 DEF Served, Held
<1> QED
  BY <1>1, <1>2, <1>3, ChangeIsNeutral

(* The end of run(), from where the thread has no slot.                     *)
LEMMA LeaveKeeps ==
  ASSUME SlotInv, NEW t \in Thread, Return(t) \/ Raise(t), pc[t] \notin Held,
         UNCHANGED <<guardVars, leaked>>
  PROVE  SlotInv'
<1>1. job' = [job EXCEPT ![t] = NoJob]
  BY DEF Return, Raise, Forget
<1>2. PICK label \in {"idle", "requeue"} : Goto(t, label)
  BY DEF Return, Raise
<1>3. label \notin Served
  BY <1>2 DEF Served, Held
<1> QED
  BY <1>1, <1>2, <1>3, ChangeIsNeutral

(* A call that raises leaves its thread idle, or the dispatcher out of its  *)
(* tick.                                                                    *)
LEMMA RaiseMoves ==
  ASSUME SlotInv, NEW t \in Thread, Raise(t)
  PROVE  Domains /\ Others(t) /\ pc'[t] \notin Served
<1>1. Typing /\ Goto(t, "idle") /\ job' = [job EXCEPT ![t] = NoJob]
  BY DEF SlotInv, Raise, Forget
<1>2. DOMAIN pc' = Thread /\ pc'[t] = "idle" /\ \A u \in Thread \ {t} : pc'[u] = pc[u]
  BY <1>1, GotoFact
<1>3. "idle" \notin Served
  BY DEF Served, Held
<1> QED
  BY <1>1, <1>2, <1>3 DEF Domains, Others, Typing

(* The dispatcher's loop keeps the invariant (JobDispatcher.tick).          *)
LEMMA LoopKeeps == ASSUME SlotInv, Loop PROVE SlotInv'
<1>1. Daemon \in Thread
  BY DEF Thread
<1>2. CASE StartTick
  <2>1. pc[Daemon] \notin Held /\ "next" \notin Held /\ Goto(Daemon, "next") /\ job' = job
    BY <1>2 DEF StartTick, callVars, Held
  <2>2. UNCHANGED <<guardVars, leaked>>
    BY <1>2 DEF StartTick
  <2> QED
    BY <1>1, <2>1, <2>2, MoveIsNeutral
<1>3. CASE RunNext
  <2>1. Enter(Daemon, Head(due).job) /\ pc[Daemon] = "next" /\ UNCHANGED <<guardVars, leaked>>
    BY <1>3 DEF RunNext
  <2> QED
    BY <1>1, <2>1, EnterKeeps
<1>4. CASE Requeue
  <2>1. PICK label \in {"next", "idle"} : Goto(Daemon, label)
    BY <1>4 DEF Requeue
  <2>2. pc[Daemon] \notin Held /\ label \notin Held /\ label # "get" /\ job' = job
    BY <1>4, <2>1 DEF Requeue, callVars, Held
  <2>3. UNCHANGED <<guardVars, leaked>>
    BY <1>4 DEF Requeue
  <2> QED
    BY <1>1, <2>1, <2>2, <2>3, MoveIsNeutral
<1>5. CASE EndTick
  <2>1. pc[Daemon] \notin Held /\ "idle" \notin Held /\ Goto(Daemon, "idle") /\ job' = job
    BY <1>5 DEF EndTick, callVars, Held
  <2>2. UNCHANGED <<guardVars, leaked>>
    BY <1>5 DEF EndTick
  <2> QED
    BY <1>1, <2>1, <2>2, MoveIsNeutral
<1> QED
  BY <1>2, <1>3, <1>4, <1>5 DEF Loop

(* Steps of a thread that does not touch the guard.                         *)
LEMMA OuterStepKeeps ==
  ASSUME SlotInv, NEW t \in Thread, CheckQuota(t) \/ RecordRun(t) \/ TryAgain(t)
  PROVE  SlotInv'
<1>1. pc[t] \notin Held /\ UNCHANGED <<guardVars, leaked>>
  BY DEF CheckQuota, RecordRun, TryAgain, Held
<1>2. Return(t) \/ (Goto(t, "look") /\ job' = job)
  BY DEF CheckQuota, RecordRun, TryAgain
<1>3. CASE Return(t)
  BY <1>1, <1>3, LeaveKeeps
<1>4. CASE Goto(t, "look") /\ job' = job
  <2>1. "look" \notin Held
    BY DEF Held
  <2> QED
    BY <1>1, <1>4, <2>1, MoveIsNeutral
<1> QED
  BY <1>2, <1>3, <1>4

RunStep(t) == Start(t) \/ Finish(t) \/ CancelTimer(t)
RecordStep(t) ==
    ListTrace(t) \/ StoreTrace(t) \/ LookForOldest(t) \/ PopOldest(t) \/ DropOldest(t)

(* So do the steps of a thread within the executors that touch no           *)
(* semaphore.                                                               *)
LEMMA InnerStepKeeps ==
  ASSUME SlotInv, NEW t \in Thread, RunStep(t) \/ RecordStep(t)
  PROVE  SlotInv'
<1>1. pc[t] \in Held /\ job' = job /\ UNCHANGED <<guardVars, leaked>>
  BY DEF RunStep, RecordStep, Start, Finish, CancelTimer, ListTrace, StoreTrace, LookForOldest,
         PopOldest, DropOldest, Held, Recording, callVars
<1>2. PICK label \in {"run", "timer", "trace", "release", "store", "evict", "pop", "drop"} :
        Goto(t, label)
  BY DEF RunStep, RecordStep, Start, Finish, CancelTimer, ListTrace, StoreTrace, LookForOldest,
         PopOldest, DropOldest
<1>3. label \in Held /\ label # "get"
  BY <1>2 DEF Held, Recording
<1> QED
  BY <1>1, <1>2, <1>3, MoveIsNeutral

(* _semaphore_for: a thread goes on once its job has a semaphore.           *)
LEMMA LookKeeps ==
  ASSUME SlotInv, NEW t \in Thread, Look(t)
  PROVE  SlotInv'
<1>1. pc[t] \notin Held /\ job' = job /\ UNCHANGED <<guardVars, leaked>>
  BY DEF Look, Held, callVars
<1>2. CASE Guard!Missing(job[t])
  <2>1. Goto(t, "create") /\ "create" \notin Held
    BY <1>2 DEF Look, Held
  <2> QED
    BY <1>1, <2>1, MoveIsNeutral
<1>3. CASE ~Guard!Missing(job[t])
  <2>1. Goto(t, "get") /\ Typing
    BY <1>3 DEF Look, SlotInv
  <2>2. Domains /\ Others(t) /\ pc'[t] = "get" /\ "get" \notin Held
    BY <1>1, <2>1, GotoFact DEF Domains, Others, Typing, Held
  <2>3. \A j \in Job : Has(t, j)' <=> Has(t, j)
    BY <1>1, <2>2 DEF Has
  <2>4. slots[job'[t]] # NoSem
    BY <1>1, <1>3 DEF Guard!Missing
  <2> QED
    BY <1>1, <2>2, <2>3, <2>4, NeutralKeeps DEF Neutral
<1> QED
  BY <1>2, <1>3

(* So does creating the semaphore.                                          *)
LEMMA CreateKeeps ==
  ASSUME SlotInv, NEW t \in Thread, Create(t)
  PROVE  SlotInv'
<1>1. Typing /\ Goto(t, "get") /\ job' = job /\ pc[t] = "create"
  BY DEF SlotInv, Create, callVars
<1>2. Domains /\ Others(t) /\ pc'[t] = "get"
  BY <1>1, GotoFact DEF Domains, Others, Typing
<1>3. Guard!Create(job[t]) /\ UNCHANGED leaked
  BY DEF Create
<1> QED
  BY <1>1, <1>2, <1>3, MakesKeeps DEF Makes

(* So does trying to get a slot, had or refused (ConcurrentExecutor.run).   *)
LEMMA AcquireKeeps ==
  ASSUME SlotInv, NEW t \in Thread, Acquire(t)
  PROVE  SlotInv'
<1>1. pc[t] = "get" /\ UNCHANGED leaked /\ Typing
  BY DEF Acquire, SlotInv
<1>2. CASE Guard!Free(job[t])
  <2>1. Goto(t, "held") /\ job' = job /\ Guard!Take(job[t])
    BY <1>2 DEF Acquire, callVars
  <2>2. Domains /\ Others(t) /\ pc'[t] = "held"
    BY <1>1, <2>1, GotoFact DEF Domains, Others, Typing
  <2> QED
    BY <1>1, <1>2, <2>1, <2>2, TakesKeeps DEF Takes
<1>3. CASE ~Guard!Free(job[t])
  <2>1. Raise(t) /\ UNCHANGED guardVars
    BY <1>3 DEF Acquire, Guard!Idle, guardVars
  <2>2. pc[t] \notin Held
    BY <1>1 DEF Held
  <2> QED
    BY <1>1, <2>1, <2>2, LeaveKeeps
<1> QED
  BY <1>2, <1>3

(* So does the finally clause.                                              *)
LEMMA GiveBackKeeps ==
  ASSUME SlotInv, NEW t \in Thread, GiveBack(t)
  PROVE  SlotInv'
<1>1. pc[t] \in Held /\ UNCHANGED leaked /\ Typing /\ Guard!Release(job[t])
  BY DEF GiveBack, SlotInv, Held
<1>2. CASE Raise(t)
  BY <1>1, <1>2, RaiseMoves, GivesKeeps DEF Gives
<1>3. CASE Goto(t, "back") /\ job' = job
  <2>1. Domains /\ Others(t) /\ pc'[t] = "back" /\ "back" \notin Served
    BY <1>1, <1>3, GotoFact DEF Domains, Others, Typing, Served, Held
  <2> QED
    BY <1>1, <2>1, GivesKeeps DEF Gives
<1> QED
  BY <1>2, <1>3 DEF GiveBack, callVars

(* A timeout inside the with block: the slot is given back later.           *)
LEMMA UnwindKeeps ==
  ASSUME SlotInv, NEW t \in Thread, Unwind(t), pc[t] \in Held, UNCHANGED leaked
  PROVE  SlotInv'
<1>1. Goto(t, "release") /\ job' = job /\ UNCHANGED <<guardVars, leaked>>
  BY DEF Unwind
<1>2. "release" \in Held
  BY DEF Held
<1> QED
  BY <1>1, <1>2, MoveIsNeutral

(* So does an exception of a timer, wherever it lands (enforce_timeout).    *)
LEMMA LandKeeps ==
  ASSUME SlotInv, NEW t \in Worker, Land(t)
  PROVE  SlotInv'
<1>0. t \in Thread
  BY DEF Thread
<1>1. CASE pc[t] \in {"run", "timer", "trace"} \cup Recording /\ Unwind(t) /\ UNCHANGED leaked
  <2>1. pc[t] \in Held
    BY <1>1 DEF Held, Recording
  <2> QED
    BY <1>0, <1>1, <2>1, UnwindKeeps
<1>2. CASE /\ pc[t] \in {"held", "release"} /\ Raise(t) /\ Guard!Idle
           /\ leaked' = [leaked EXCEPT ![job[t]] = @ + 1]
  <2>1. pc[t] \in Held /\ UNCHANGED guardVars
    BY <1>2 DEF Held, Guard!Idle, guardVars
  <2> QED
    BY <1>0, <1>2, <2>1, RaiseMoves, LeaksKeeps DEF Leaks
<1>3. CASE /\ pc[t] \in {"check", "look", "create", "get", "back"} /\ Raise(t) /\ Guard!Idle
           /\ UNCHANGED leaked
  <2>1. pc[t] \notin Held /\ UNCHANGED guardVars
    BY <1>3 DEF Held, Guard!Idle, guardVars
  <2> QED
    BY <1>0, <1>3, <2>1, LeaveKeeps
<1>4. CASE UNCHANGED <<pc, guardVars, leaked, callVars>>
  BY <1>4, StillIsNeutral DEF guardVars, callVars
<1> QED
  BY <1>1, <1>2, <1>3, <1>4 DEF Land

-----------------------------------------------------------------------------
(* It holds before anything was run.                                        *)
LEMMA InitInv == Init => SlotInv
<1> SUFFICES ASSUME Init PROVE SlotInv
  OBVIOUS
<1>1. slots = [j \in Job |-> NoSem] /\ raced = [j \in Job |-> 0] /\ leaked = [j \in Job |-> 0]
  BY DEF Init, Guard!Init
<1>2. pc = [t \in Thread |-> "idle"] /\ DOMAIN job = Thread
  BY DEF Init
<1>3. Typing
  BY <1>1, <1>2 DEF Typing
<1>4. \A t \in Thread : pc[t] \notin Served
  BY <1>2 DEF Served, Held
<1>5. \A j \in Job : slots[j] = NoSem
  BY <1>1
<1> QED
  BY <1>1, <1>3, <1>4, <1>5 DEF SlotInv

(* Every step keeps it.                                                     *)
LEMMA NextInv == SlotInv /\ [Next]_vars => SlotInv'
<1> SUFFICES ASSUME SlotInv, [Next]_vars PROVE SlotInv'
  OBVIOUS
<1>1. CASE Loop
  BY <1>1, LoopKeeps
<1>2. ASSUME NEW t \in Thread, Step(t) PROVE SlotInv'
  BY <1>2, OuterStepKeeps, InnerStepKeeps, LookKeeps, CreateKeeps, AcquireKeeps, GiveBackKeeps
  DEF Step, RunStep, RecordStep
<1>3. ASSUME NEW t \in Worker, NEW j \in Job, Call(t, j) PROVE SlotInv'
  <2>1. t \in Thread /\ pc[t] = "idle" /\ Enter(t, j) /\ UNCHANGED <<guardVars, leaked>>
    BY <1>3 DEF Call, Thread
  <2> QED
    BY <2>1, EnterKeeps
<1>4. CASE Alarm
  <2>1. Daemon \in Thread /\ pc[Daemon] \in Held /\ Unwind(Daemon) /\ UNCHANGED leaked
    BY <1>4 DEF Alarm, Held, Thread
  <2> QED
    BY <2>1, UnwindKeeps
<1>5. ASSUME NEW t \in Worker, TimerFires(t) PROVE SlotInv'
  BY <1>5, StillIsNeutral DEF TimerFires, guardVars, callVars
<1>6. ASSUME NEW t \in Worker, Land(t) PROVE SlotInv'
  BY <1>6, LandKeeps
<1>7. ASSUME NEW j \in Job, Remaining(j) PROVE SlotInv'
  BY <1>7, StillIsNeutral DEF Remaining, guardVars, callVars
<1>8. CASE AdvanceClock
  BY <1>8, StillIsNeutral DEF AdvanceClock, guardVars, callVars
<1>9. CASE UNCHANGED vars
  BY <1>9, StillIsNeutral DEF vars, guardVars, callVars
<1> QED
  BY <1>1, <1>2, <1>3, <1>4, <1>5, <1>6, <1>7, <1>8, <1>9 DEF Next

(* The inductive invariant of the semaphores: a thread gets to where it     *)
(* needs one only when its job has one, and every slot is free, in use or   *)
(* known to be lost (job_concurrency.py, concurrent_executor.py:24-38).     *)
THEOREM SlotInvHolds == Spec => []SlotInv
BY InitInv, NextInv, PTL DEF Spec

(* Every slot comes back, for any threads, jobs and limits, whatever else   *)
(* the calls do: retry, be refused, fail or time out                        *)
(* (concurrent_executor.py:35-38).                                          *)
THEOREM SlotsReturnHolds == Spec => []SlotsReturn
<1>1. SlotInv => SlotsReturn
  BY ReturnIsBalanced DEF SlotInv
<1> QED
  BY <1>1, SlotInvHolds, PTL

(* No more threads run a job than its limit allows, and than as many again  *)
(* for each time its semaphore was created over another                     *)
(* (job_concurrency.py:40-53): the slots in use are those that were made,   *)
(* less the free ones and the lost ones.                                    *)
THEOREM LimitKeptHolds == Spec => []LimitKept
<1>1. SlotInv => LimitKept
  <2> SUFFICES ASSUME SlotInv, NEW j \in Job PROVE Cardinality(Inside(j)) <= Room(j)
    BY DEF LimitKept, Room
  <2>1. Cardinality(Inside(j)) \in Nat /\ leaked[j] \in Nat /\ Room(j) \in Nat
    BY InsideFinite, RoomFact DEF SlotInv, Typing
  <2>2. CASE slots[j] = NoSem
    <3>1. \A u \in Thread : ~Has(u, j)
      BY <2>2 DEF SlotInv, Has, Served
    <3>2. Inside(j) = {}
      BY <3>1, InsideHas
    <3> QED
      BY <2>1, <3>2, FS_EmptySet
  <2>3. CASE slots[j] # NoSem
    <3>1. slots[j] \in Nat
      BY <2>3 DEF SlotInv, Typing
    <3>2. slots[j] + Cardinality(Inside(j)) + leaked[j] <= Room(j)
      BY <2>3 DEF SlotInv, Balanced, Found
    <3> QED
      BY <2>1, <3>1, <3>2
  <2> QED
    BY <2>2, <2>3
<1> QED
  BY <1>1, SlotInvHolds, PTL

-----------------------------------------------------------------------------
(* The queue.  An entry is put in where it keeps the order of times.        *)
LEMMA InsertProperties ==
  ASSUME NEW E, NEW s \in Seq(E), NEW e \in E, NEW i \in 1..(Len(s) + 1)
  PROVE  LET t == Queue!InsertAt(s, i, e)
         IN  /\ t \in Seq(E) /\ Len(t) = Len(s) + 1
             /\ \A k \in 1..(i - 1) : t[k] = s[k]
             /\ t[i] = e
             /\ \A k \in i..Len(s) : t[k + 1] = s[k]
<1> DEFINE a == SubSeq(s, 1, i - 1)
           b == SubSeq(s, i, Len(s))
<1>1. i \in Nat /\ 1 <= i /\ i <= Len(s) + 1 /\ Len(s) \in Nat
  OBVIOUS
<1>2. /\ a \in Seq(E) /\ Len(a) = i - 1
      /\ \A k \in 1..(i - 1) : a[k] = s[k]
  <2>1. 1 \in Int /\ i - 1 \in Int /\ \A k \in 1..(i - 1) : s[k] \in E
    BY <1>1
  <2>2. /\ a \in Seq(E)
        /\ Len(a) = IF 1 <= i - 1 THEN i - 1 - 1 + 1 ELSE 0
        /\ \A k \in 1..(i - 1 - 1 + 1) : a[k] = s[1 + k - 1]
    BY <2>1, SubSeqProperties
  <2> HIDE DEF a
  <2> QED
    BY <1>1, <2>2
<1>3. /\ b \in Seq(E) /\ Len(b) = Len(s) - i + 1
      /\ \A k \in i..Len(s) : b[k - i + 1] = s[k]
  <2>1. Len(s) \in Int /\ i \in Int /\ \A k \in i..Len(s) : s[k] \in E
    BY <1>1
  <2>2. /\ b \in Seq(E)
        /\ Len(b) = IF i <= Len(s) THEN Len(s) - i + 1 ELSE 0
        /\ \A k \in 1..(Len(s) - i + 1) : b[k] = s[i + k - 1]
    BY <2>1, SubSeqProperties
  <2> HIDE DEF b
  <2>3. ASSUME NEW k \in i..Len(s) PROVE b[k - i + 1] = s[k]
    <3>1. k - i + 1 \in 1..(Len(s) - i + 1) /\ i + (k - i + 1) - 1 = k
      BY <1>1
    <3> QED
      BY <2>2, <3>1
  <2> QED
    BY <1>1, <2>2, <2>3
<1>4. <<e>> \in Seq(E) /\ Len(<<e>>) = 1 /\ <<e>>[1] = e
  OBVIOUS
<1> HIDE DEF a, b
<1> DEFINE c == a \o <<e>>
           t == c \o b
<1>5. /\ c \in Seq(E) /\ Len(c) = i /\ c[i] = e
      /\ \A k \in 1..(i - 1) : c[k] = s[k]
  <2>1. /\ c \in Seq(E) /\ Len(c) = Len(a) + 1
        /\ \A k \in 1..(Len(a) + 1) : c[k] = IF k <= Len(a) THEN a[k] ELSE <<e>>[k - Len(a)]
    BY <1>2, <1>4, ConcatProperties
  <2> HIDE DEF c
  <2>2. c[i] = <<e>>[1]
    BY <1>1, <1>2, <2>1
  <2> QED
    BY <1>1, <1>2, <1>4, <2>1, <2>2
<1> HIDE DEF c
<1>6. /\ t \in Seq(E) /\ Len(t) = Len(c) + Len(b)
      /\ \A k \in 1..(Len(c) + Len(b)) : t[k] = IF k <= Len(c) THEN c[k] ELSE b[k - Len(c)]
  BY <1>3, <1>5, ConcatProperties
<1> HIDE DEF t
<1>7. /\ Len(t) = Len(s) + 1 /\ t[i] = e
      /\ \A k \in 1..(i - 1) : t[k] = s[k]
  BY <1>1, <1>3, <1>5, <1>6
<1>8. ASSUME NEW k \in i..Len(s) PROVE t[k + 1] = s[k]
  <2>1. k + 1 \in 1..(Len(c) + Len(b)) /\ ~(k + 1 <= Len(c)) /\ k + 1 - Len(c) = k - i + 1
    BY <1>1, <1>3, <1>5
  <2> QED
    BY <1>3, <1>6, <2>1
<1>9. Queue!InsertAt(s, i, e) = t
  BY DEF Queue!InsertAt, t, c, a, b
<1> QED
  BY <1>6, <1>7, <1>8, <1>9

(* The next occurrence of a job is a time, and later.                       *)
LEMMA NextRunLater ==
  ASSUME NEW j \in Job, NEW t \in Nat
  PROVE  Queue!NextRun(j, t) \in Nat /\ Queue!NextRun(j, t) > t
<1>1. Period[j] \in Nat /\ Period[j] > 0
  BY ConstantsAssumption DEF ConstantsAssumption
<1>2. \A p \in Nat : p > 0 => (t \div p + 1) * p \in Nat /\ (t \div p + 1) * p > t
  OBVIOUS
<1> QED
  BY <1>1, <1>2 DEF Queue!NextRun

(* Where a call is, and where it is while the tick has jobs to do.          *)
Running == {"check", "look", "create", "get", "held", "run", "timer", "trace", "store", "evict",
            "pop", "drop", "release", "back"}
Ticking == Running \cup {"requeue"}

Holds(q, j) == \E k \in DOMAIN q : q[k].job = j
Distinct(q) == \A k, l \in DOMAIN q : q[k].job = q[l].job => k = l
Ordered(q) == \A k \in 1..(Len(q) - 1) : q[k].at <= q[k + 1].at

QueueTyping ==
    /\ heap \in Seq(Queue!Entry) /\ due \in Seq(Queue!Entry)
    /\ tickNow \in Nat /\ dropped \subseteq Job /\ now \in Nat
    /\ Ordered(heap)

(* A job waits at most once in each of the two lists and never in both, and *)
(* is in none only after an exception; what waits is later than the tick.   *)
QueueInv ==
    /\ QueueTyping
    /\ Distinct(heap) /\ Distinct(due)
    /\ \A j \in Job : /\ ~(Holds(heap, j) /\ Holds(due, j))
                      /\ Holds(heap, j) \/ Holds(due, j) <=> j \notin dropped
    /\ \A k \in DOMAIN heap : heap[k].at > tickNow
    /\ pc[Daemon] = "idle" => due = <<>>
    /\ pc[Daemon] \in Ticking => due # <<>>

(* An ordered sequence is ordered at any distance.                          *)
LEMMA OrderedFar ==
  ASSUME NEW q \in Seq(Queue!Entry), Ordered(q)
  PROVE  \A k, l \in 1..Len(q) : k <= l => q[k].at <= q[l].at
<1> DEFINE T == {d \in Nat : \A k \in 1..Len(q) : k + d <= Len(q) => q[k].at <= q[k + d].at}
<1>0. ASSUME NEW k \in 1..Len(q) PROVE q[k].at \in Nat
  <2>1. q[k] \in Queue!Entry
    OBVIOUS
  <2> QED
    BY <2>1 DEF Queue!Entry
<1>1. 0 \in T
  BY <1>0
<1>2. ASSUME NEW d \in T PROVE d + 1 \in T
  <2>1. ASSUME NEW k \in 1..Len(q), k + (d + 1) <= Len(q) PROVE q[k].at <= q[k + (d + 1)].at
    <3>1. k + d \in 1..(Len(q) - 1) /\ k + d \in 1..Len(q) /\ (k + d) + 1 = k + (d + 1)
          /\ k + (d + 1) \in 1..Len(q) /\ k + d <= Len(q)
      BY <2>1
    <3>2. q[k].at <= q[k + d].at
      BY <3>1
    <3>3. q[k + d].at <= q[(k + d) + 1].at
      BY <3>1 DEF Ordered
    <3>4. q[k].at \in Nat /\ q[k + d].at \in Nat /\ q[k + (d + 1)].at \in Nat
      BY <1>0, <3>1
    <3> QED
      BY <3>1, <3>2, <3>3, <3>4
  <2> QED
    BY <2>1
<1>3. T = Nat
  <2> HIDE DEF T
  <2>1. T \in SUBSET Nat
    BY DEF T
  <2> QED
    BY <1>1, <1>2, <2>1, Induction
<1>4. ASSUME NEW k \in 1..Len(q), NEW l \in 1..Len(q), k <= l PROVE q[k].at <= q[l].at
  <2>1. l - k \in Nat /\ k + (l - k) = l /\ l <= Len(q)
    BY <1>4
  <2>2. l - k \in T
    <3> HIDE DEF T
    <3> QED
      BY <1>3, <2>1
  <2> QED
    BY <2>1, <2>2
<1> QED
  BY <1>4

(* drain_due() divides the queue between it and the tick.                   *)
LEMMA DrainKeeps ==
  ASSUME QueueInv, due = <<>>, Queue!Drain, pc'[Daemon] = "next", UNCHANGED now
  PROVE  QueueInv'
<1> DEFINE Due == {e \in Queue!Entry : e.at <= now}
<1>1. /\ heap \in Seq(Queue!Entry) /\ now \in Nat /\ Ordered(heap) /\ Distinct(heap)
      /\ Len(heap) \in Nat
  BY DEF QueueInv, QueueTyping
<1>2. due' = TakeWhile(heap, Due) /\ heap' = DropWhile(heap, Due)
  BY DEF Queue!Drain, Queue!TakeWhile, Queue!DropWhile, Queue!RunLength,
         TakeWhile, DropWhile, RunLength
<1>3. tickNow' = now /\ dropped' = dropped /\ now' = now
  BY DEF Queue!Drain
<1>4. PICK r \in 0..Len(heap) :
            /\ due' \in Seq(Queue!Entry) /\ Len(due') = r
            /\ \A k \in 1..r : due'[k] = heap[k]
            /\ heap' \in Seq(Queue!Entry) /\ Len(heap') = Len(heap) - r
            /\ \A k \in 1..(Len(heap) - r) : heap'[k] = heap[r + k]
            /\ \A k \in 1..r : heap[k] \in Due
            /\ r < Len(heap) => heap[r + 1] \notin Due
  <2> DEFINE taken == TakeWhile(heap, Due)
             left == DropWhile(heap, Due)
  <2> HIDE DEF Due
  <2>1. heap \in Seq(Queue!Entry)
    BY <1>1
  <2>2. PICK r \in 0..Len(heap) :
            /\ taken \in Seq(Queue!Entry) /\ Len(taken) = r
            /\ \A k \in 1..r : taken[k] = heap[k]
            /\ left \in Seq(Queue!Entry) /\ Len(left) = Len(heap) - r
            /\ \A k \in 1..(Len(heap) - r) : left[k] = heap[r + k]
            /\ \A k \in 1..r : heap[k] \in Due
            /\ r < Len(heap) => heap[r + 1] \notin Due
    BY <2>1, SplitProperties, Zenon
  <2>3. due' = taken /\ heap' = left
    BY <1>2
  <2> HIDE DEF taken, left
  <2> QED
    BY <2>2, <2>3
<1>5. \A k \in 1..Len(heap) : heap[k] \in Queue!Entry
  BY <1>1
<1>6. r < Len(heap) => heap[r + 1].at > now
  <2>1. r < Len(heap) => heap[r + 1] \in Queue!Entry
    BY <1>1, <1>5
  <2>2. r < Len(heap) => heap[r + 1].at \in Nat
    BY <2>1 DEF Queue!Entry
  <2> QED
    BY <1>1, <1>4, <2>1, <2>2
<1> HIDE DEF Due
<1>7. /\ DOMAIN heap = 1..Len(heap) /\ DOMAIN heap' = 1..(Len(heap) - r)
      /\ DOMAIN due' = 1..r
  BY <1>1, <1>4
<1>8. \A k \in 1..(Len(heap) - r) : r + k \in 1..Len(heap)
  BY <1>1
<1>9. \A k \in 1..r : k \in 1..Len(heap)
  BY <1>1
<1>10. Ordered(heap)'
  <2> SUFFICES ASSUME NEW k \in 1..(Len(heap') - 1) PROVE heap'[k].at <= heap'[k + 1].at
    BY DEF Ordered
  <2>1. /\ k \in 1..(Len(heap) - r) /\ k + 1 \in 1..(Len(heap) - r)
        /\ r + k \in 1..(Len(heap) - 1) /\ r + (k + 1) = (r + k) + 1
    BY <1>1, <1>4
  <2> QED
    BY <1>1, <1>4, <2>1 DEF Ordered
<1>11. QueueTyping'
  BY <1>3, <1>4, <1>10 DEF QueueInv, QueueTyping
<1>12. Distinct(heap)'
  <2> SUFFICES ASSUME NEW k \in DOMAIN heap', NEW l \in DOMAIN heap',
                      heap'[k].job = heap'[l].job
               PROVE  k = l
    BY DEF Distinct
  <2>1. heap[r + k].job = heap[r + l].job /\ r + k \in DOMAIN heap /\ r + l \in DOMAIN heap
    BY <1>4, <1>7, <1>8
  <2>2. r + k = r + l
    BY <1>1, <2>1 DEF Distinct
  <2> QED
    BY <1>4, <1>7, <2>2
<1>13. Distinct(due)'
  <2> SUFFICES ASSUME NEW k \in DOMAIN due', NEW l \in DOMAIN due', due'[k].job = due'[l].job
               PROVE  k = l
    BY DEF Distinct
  <2>1. heap[k].job = heap[l].job /\ k \in DOMAIN heap /\ l \in DOMAIN heap
    BY <1>4, <1>7, <1>9
  <2> QED
    BY <1>1, <2>1 DEF Distinct
<1>14. ASSUME NEW j \in Job
       PROVE  /\ ~(Holds(heap', j) /\ Holds(due', j))
              /\ Holds(heap', j) \/ Holds(due', j) <=> j \notin dropped'
  <2>1. ASSUME NEW k \in DOMAIN heap', NEW l \in DOMAIN due', heap'[k].job = j, due'[l].job = j
        PROVE  FALSE
    <3>1. heap[r + k].job = heap[l].job /\ r + k \in DOMAIN heap /\ l \in DOMAIN heap
      BY <1>4, <1>7, <1>8, <1>9, <2>1
    <3>2. r + k = l
      BY <1>1, <3>1 DEF Distinct
    <3> QED
      BY <1>4, <1>7, <3>2
  <2>2. Holds(heap', j) => Holds(heap, j)
    <3> SUFFICES ASSUME NEW k \in 1..(Len(heap) - r), heap'[k].job = j
                 PROVE  \E l \in 1..Len(heap) : heap[l].job = j
      BY <1>7 DEF Holds
    <3>1. r + k \in 1..Len(heap) /\ heap'[k] = heap[r + k]
      BY <1>4, <1>8
    <3> QED
      BY <3>1
  <2>3. Holds(due', j) => Holds(heap, j)
    BY <1>4, <1>7, <1>9 DEF Holds
  <2>4. ASSUME NEW k \in DOMAIN heap, heap[k].job = j PROVE Holds(heap', j) \/ Holds(due', j)
    <3>1. CASE k <= r
      <4>1. k \in 1..r
        BY <1>1, <1>7, <3>1
      <4> QED
        BY <1>4, <1>7, <2>4, <4>1 DEF Holds
    <3>2. CASE ~(k <= r)
      <4>1. k - r \in 1..(Len(heap) - r) /\ r + (k - r) = k
        BY <1>1, <1>7, <3>2
      <4> QED
        BY <1>4, <1>7, <2>4, <4>1 DEF Holds
    <3> QED
      BY <3>1, <3>2
  <2>5. ~Holds(due, j)
    BY DEF Holds
  <2>6. Holds(heap, j) <=> j \notin dropped
    BY <2>5 DEF QueueInv
  <2> QED
    BY <1>3, <2>1, <2>2, <2>3, <2>4, <2>6 DEF Holds
<1>15. ASSUME NEW k \in DOMAIN heap' PROVE heap'[k].at > tickNow'
  <2>1. /\ heap'[k] = heap[r + k] /\ r < Len(heap)
        /\ r + 1 \in 1..Len(heap) /\ r + k \in 1..Len(heap) /\ r + 1 <= r + k
    BY <1>1, <1>4, <1>7, <1>8
  <2>2. heap[r + 1].at <= heap[r + k].at
    BY <1>1, <2>1, OrderedFar
  <2>3. heap[r + 1] \in Queue!Entry /\ heap[r + k] \in Queue!Entry
    BY <1>5, <2>1
  <2>4. heap[r + 1].at \in Nat /\ heap[r + k].at \in Nat
    BY <2>3 DEF Queue!Entry
  <2> QED
    BY <1>1, <1>3, <1>6, <2>1, <2>2, <2>4
<1>16. pc'[Daemon] # "idle" /\ pc'[Daemon] \notin Ticking
  BY DEF Ticking, Running
<1> QED
  BY <1>11, <1>12, <1>13, <1>14, <1>15, <1>16 DEF QueueInv

(* What is left of the tick after its first job.                            *)
LEMMA TailFacts ==
  ASSUME NEW q \in Seq(Queue!Entry), q # <<>>, Distinct(q)
  PROVE  /\ Tail(q) \in Seq(Queue!Entry) /\ Distinct(Tail(q))
         /\ Head(q) \in Queue!Entry
         /\ \A j : Holds(q, j) <=> j = Head(q).job \/ Holds(Tail(q), j)
         /\ ~Holds(Tail(q), Head(q).job)
<1> DEFINE u == Tail(q)
<1>1. /\ Head(q) \in Queue!Entry /\ Head(q) = q[1] /\ u \in Seq(Queue!Entry)
      /\ Len(u) = Len(q) - 1
      /\ \A k \in 1..Len(u) : u[k] = q[k + 1]
      /\ Len(q) \in Nat /\ Len(q) > 0
  BY HeadTailProperties, LenProperties, EmptySeq
<1>2. DOMAIN q = 1..Len(q) /\ DOMAIN u = 1..(Len(q) - 1)
  BY <1>1
<1>3. \A k \in 1..(Len(q) - 1) : k + 1 \in 1..Len(q) /\ k + 1 # 1 /\ u[k] = q[k + 1]
  BY <1>1
<1>4. 1 \in 1..Len(q)
  BY <1>1
<1> HIDE DEF u
<1>5. Distinct(u)
  <2> SUFFICES ASSUME NEW k \in DOMAIN u, NEW l \in DOMAIN u, u[k].job = u[l].job
               PROVE  k = l
    BY DEF Distinct
  <2>1. k + 1 = l + 1
    BY <1>2, <1>3 DEF Distinct
  <2> QED
    BY <1>2, <2>1
<1>6. ASSUME NEW k \in DOMAIN u, u[k].job = q[1].job PROVE FALSE
  BY <1>2, <1>3, <1>4, <1>6, SMTT(30) DEF Distinct
<1>7. ASSUME NEW j PROVE Holds(q, j) <=> j = q[1].job \/ Holds(u, j)
  <2>1. ASSUME NEW k \in 1..Len(q), q[k].job = j PROVE j = q[1].job \/ Holds(u, j)
    <3>1. CASE k = 1
      BY <2>1, <3>1
    <3>2. CASE k # 1
      <4>1. k - 1 \in 1..(Len(q) - 1) /\ (k - 1) + 1 = k
        BY <1>1, <3>2
      <4>2. u[k - 1].job = j /\ k - 1 \in DOMAIN u
        BY <1>2, <1>3, <2>1, <4>1
      <4> QED
        BY <4>2 DEF Holds
    <3> QED
      BY <3>1, <3>2
  <2>2. Holds(u, j) => Holds(q, j)
    BY <1>2, <1>3 DEF Holds
  <2>3. j = q[1].job => Holds(q, j)
    BY <1>2, <1>4 DEF Holds
  <2> QED
    BY <1>2, <2>1, <2>2, <2>3 DEF Holds
<1>8. ~Holds(u, q[1].job)
  BY <1>6 DEF Holds
<1> QED
  BY <1>1, <1>5, <1>7, <1>8 DEF u

(* The job that was run is queued for its next occurrence after the tick.   *)
LEMMA RequeueKeeps ==
  ASSUME QueueInv, pc[Daemon] = "requeue", Queue!Requeue, pc'[Daemon] = "next", UNCHANGED now
  PROVE  QueueInv'
<1> DEFINE j0 == Head(due).job
           at0 == Queue!NextRun(j0, tickNow)
           e == [job |-> j0, at |-> at0]
<1>1. /\ heap \in Seq(Queue!Entry) /\ due \in Seq(Queue!Entry) /\ tickNow \in Nat
      /\ Ordered(heap) /\ Distinct(heap) /\ Distinct(due) /\ due # <<>>
  BY DEF QueueInv, QueueTyping, Ticking
<1>2. /\ Tail(due) \in Seq(Queue!Entry) /\ Distinct(Tail(due))
      /\ Head(due) \in Queue!Entry
      /\ \A j : Holds(due, j) <=> j = j0 \/ Holds(Tail(due), j)
      /\ ~Holds(Tail(due), j0)
  BY <1>1, TailFacts
<1>3. j0 \in Job
  BY <1>2 DEF Queue!Entry
<1>4. at0 \in Nat /\ at0 > tickNow
  BY <1>1, <1>3, NextRunLater
<1>5. /\ due' = Tail(due) /\ tickNow' = tickNow /\ dropped' = dropped
      /\ Queue!Push(j0, at0)
  BY DEF Queue!Requeue
<1> HIDE DEF j0, at0
<1>6. e \in Queue!Entry /\ e.job = j0 /\ e.at = at0
  BY <1>3, <1>4 DEF Queue!Entry
<1>7. PICK i \in Queue!Places(heap, e) : heap' = Queue!InsertAt(heap, i, e)
  BY <1>5 DEF Queue!Push
<1> HIDE DEF e
<1>8. /\ i \in 1..(Len(heap) + 1)
      /\ \A k \in 1..(i - 1) : heap[k].at <= at0
      /\ \A k \in i..Len(heap) : at0 <= heap[k].at
  BY <1>6 DEF Queue!Places
<1>9. /\ heap' \in Seq(Queue!Entry) /\ Len(heap') = Len(heap) + 1
      /\ \A k \in 1..(i - 1) : heap'[k] = heap[k]
      /\ heap'[i] = e
      /\ \A k \in i..Len(heap) : heap'[k + 1] = heap[k]
  BY <1>1, <1>6, <1>7, <1>8, InsertProperties, SMTT(30)
<1>10. Len(heap) \in Nat /\ DOMAIN heap = 1..Len(heap) /\ DOMAIN heap' = 1..(Len(heap) + 1)
       /\ i \in Nat /\ 1 <= i /\ i <= Len(heap) + 1
  BY <1>1, <1>8, <1>9
(* Where an entry other than the new one was.                               *)
<1> DEFINE was(k) == IF k < i THEN k ELSE k - 1
<1>11. ASSUME NEW k \in DOMAIN heap', k # i
       PROVE  was(k) \in DOMAIN heap /\ heap'[k] = heap[was(k)] /\ was(k) \in Nat
  <2>1. CASE k < i
    BY <1>9, <1>10, <2>1
  <2>2. CASE ~(k < i)
    <3>1. k - 1 \in i..Len(heap) /\ (k - 1) + 1 = k
      BY <1>10, <1>11, <2>2
    <3> QED
      BY <1>9, <1>10, <2>2, <3>1
  <2> QED
    BY <2>1, <2>2
<1>12. ASSUME NEW k \in DOMAIN heap', NEW l \in DOMAIN heap', k # i, l # i, was(k) = was(l)
       PROVE  k = l
  BY <1>10, <1>12
<1>13. \A k \in DOMAIN heap : \E l \in DOMAIN heap' : l # i /\ heap'[l] = heap[k]
  <2> TAKE k \in DOMAIN heap
  <2>1. CASE k < i
    <3>1. k \in DOMAIN heap' /\ k # i /\ heap'[k] = heap[k]
      BY <1>9, <1>10, <2>1
    <3> QED
      BY <3>1
  <2>2. CASE ~(k < i)
    <3>1. k + 1 \in DOMAIN heap' /\ k + 1 # i /\ heap'[k + 1] = heap[k]
      BY <1>9, <1>10, <2>2
    <3> QED
      BY <3>1
  <2> QED
    BY <2>1, <2>2
<1>14. i \in DOMAIN heap'
  BY <1>10
<1>15. ~Holds(heap, j0)
  BY <1>2, <1>3 DEF QueueInv
<1>16. Distinct(heap)'
  <2> SUFFICES ASSUME NEW k \in DOMAIN heap', NEW l \in DOMAIN heap',
                      heap'[k].job = heap'[l].job
               PROVE  k = l
    BY DEF Distinct
  <2> HIDE DEF was
  <2>1. CASE k # i /\ l # i
    <3>1. was(k) = was(l)
      BY <1>1, <1>11, <2>1 DEF Distinct
    <3> QED
      BY <1>12, <2>1, <3>1
  <2>2. CASE k = i /\ l # i
    BY <1>6, <1>9, <1>11, <1>15, <2>2 DEF Holds
  <2>3. CASE k # i /\ l = i
    BY <1>6, <1>9, <1>11, <1>15, <2>3 DEF Holds
  <2> QED
    BY <2>1, <2>2, <2>3
<1>17. ASSUME NEW j PROVE Holds(heap', j) <=> j = j0 \/ Holds(heap, j)
  <2> HIDE DEF was
  <2>1. Holds(heap', j) => j = j0 \/ Holds(heap, j)
    BY <1>6, <1>9, <1>11 DEF Holds
  <2>2. Holds(heap, j) => Holds(heap', j)
    BY <1>13 DEF Holds
  <2>3. Holds(heap', j0)
    BY <1>6, <1>9, <1>14 DEF Holds
  <2> QED
    BY <2>1, <2>2, <2>3
<1>18. ASSUME NEW j \in Job
       PROVE  /\ ~(Holds(heap', j) /\ Holds(due', j))
              /\ Holds(heap', j) \/ Holds(due', j) <=> j \notin dropped'
  BY <1>2, <1>3, <1>5, <1>17 DEF QueueInv
<1>19. \A k \in DOMAIN heap' : heap'[k].at > tickNow'
  <2> TAKE k \in DOMAIN heap'
  <2> HIDE DEF was
  <2>1. CASE k = i
    BY <1>4, <1>5, <1>6, <1>9, <2>1
  <2>2. CASE k # i
    BY <1>5, <1>11, <2>2 DEF QueueInv
  <2> QED
    BY <2>1, <2>2
<1>20. Ordered(heap)'
  <2> SUFFICES ASSUME NEW k \in 1..(Len(heap') - 1) PROVE heap'[k].at <= heap'[k + 1].at
    BY DEF Ordered
  <2>1. k \in Nat /\ 1 <= k /\ k <= Len(heap)
    BY <1>9, <1>10
  <2>2. CASE k + 1 < i
    <3>1. /\ k \in 1..(Len(heap) - 1) /\ k \in 1..(i - 1) /\ k + 1 \in 1..(i - 1)
      BY <1>10, <2>1, <2>2
    <3> QED
      BY <1>1, <1>9, <3>1 DEF Ordered
  <2>3. CASE k + 1 = i
    <3>1. k \in 1..(i - 1) /\ heap'[k + 1] = e
      BY <1>9, <1>10, <2>1, <2>3
    <3> QED
      BY <1>6, <1>8, <1>9, <3>1
  <2>4. CASE k = i
    <3>1. k \in i..Len(heap) /\ heap'[k] = e
      BY <1>9, <1>10, <2>1, <2>4
    <3> QED
      BY <1>6, <1>8, <1>9, <3>1
  <2>5. CASE k > i
    <3>1. /\ k - 1 \in i..Len(heap) /\ k \in i..Len(heap) /\ (k - 1) + 1 = k
          /\ k - 1 \in 1..(Len(heap) - 1)
      BY <1>10, <2>1, <2>5
    <3>2. heap[k - 1].at <= heap[(k - 1) + 1].at
      BY <1>1, <3>1 DEF Ordered
    <3> QED
      BY <1>9, <3>1, <3>2
  <2> QED
    BY <1>10, <2>1, <2>2, <2>3, <2>4, <2>5
<1>21. QueueTyping'
  BY <1>2, <1>5, <1>9, <1>20 DEF QueueInv, QueueTyping
<1>22. pc'[Daemon] # "idle" /\ pc'[Daemon] \notin Ticking
  BY DEF Ticking, Running
<1> QED
  BY <1>2, <1>5, <1>16, <1>18, <1>19, <1>21, <1>22 DEF QueueInv

(* An exception drops the jobs of the tick.                                 *)
LEMMA AbandonKeeps ==
  ASSUME QueueInv, Queue!Abandon, pc'[Daemon] \notin Ticking, UNCHANGED now
  PROVE  QueueInv'
<1>1. /\ due \in Seq(Queue!Entry) /\ due' = <<>> /\ heap' = heap /\ tickNow' = tickNow
      /\ dropped' = dropped \cup {due[k].job : k \in DOMAIN due}
  BY DEF QueueInv, QueueTyping, Queue!Abandon
<1>2. ASSUME NEW k \in DOMAIN due PROVE due[k].job \in Job
  <2>1. due[k] \in Queue!Entry
    BY <1>1
  <2> QED
    BY <2>1 DEF Queue!Entry
<1>3. DOMAIN due' = {} /\ due' \in Seq(Queue!Entry)
  BY <1>1
<1>4. QueueTyping'
  BY <1>1, <1>2, <1>3 DEF QueueInv, QueueTyping
<1>5. Distinct(due)' /\ Distinct(heap)'
  BY <1>1, <1>3 DEF QueueInv, Distinct
<1>6. \A j \in Job : j \in dropped' <=> j \in dropped \/ Holds(due, j)
  BY <1>1 DEF Holds
<1>7. ASSUME NEW j \in Job
      PROVE  /\ ~(Holds(heap', j) /\ Holds(due', j))
             /\ Holds(heap', j) \/ Holds(due', j) <=> j \notin dropped'
  <2>1. ~Holds(due', j) /\ (Holds(heap', j) <=> Holds(heap, j))
    BY <1>1, <1>3 DEF Holds
  <2> QED
    BY <1>6, <2>1 DEF QueueInv
<1> QED
  BY <1>1, <1>4, <1>5, <1>7 DEF QueueInv

(* Steps that leave the queue alone.                                        *)
LEMMA IdleKeeps ==
  ASSUME QueueInv, Queue!Idle, now' \in Nat,
         pc'[Daemon] = "idle" => due = <<>>,
         pc'[Daemon] \in Ticking => due # <<>>
  PROVE  QueueInv'
<1>1. UNCHANGED <<heap, due, tickNow, dropped>>
  BY DEF Queue!Idle
<1> QED
  BY <1>1 DEF QueueInv, QueueTyping, Ordered, Distinct, Holds

(* The same numbers are counted in the queue.                               *)
LEMMA QueueCounts == \A S : Queue!Cardinality(S) = Cardinality(S)
  BY DEF Queue!Cardinality, Cardinality

(* seed() puts every job in: as many entries as jobs, so each of them once. *)
LEMMA QueueInit == Init => QueueInv
<1> SUFFICES ASSUME Init PROVE QueueInv
  OBVIOUS
<1> DEFINE n == Cardinality(Job)
           first == {[job |-> j, at |-> Queue!NextRun(j, 0)] : j \in Job}
<1>1. IsFiniteSet(Job) /\ n \in Nat
  BY ConstantsAssumption, FS_CardinalityType DEF ConstantsAssumption
<1>2. /\ heap \in {q \in [1..n -> first] : Queue!Seeded(q)}
      /\ due = <<>> /\ tickNow = 0 /\ dropped = {} /\ now = 0
  BY QueueCounts DEF Init, Queue!Init
<1>3. \A j \in Job : Queue!NextRun(j, 0) \in Nat /\ Queue!NextRun(j, 0) > 0
  BY NextRunLater
<1>4. \A x \in first : x \in Queue!Entry /\ x.job \in Job /\ x.at > 0
  BY <1>3 DEF Queue!Entry
<1> HIDE DEF first
<1>5. heap \in [1..n -> first] /\ Queue!Seeded(heap)
  BY <1>2
<1> HIDE DEF n
<1>6. /\ heap \in Seq(Queue!Entry) /\ Len(heap) = n /\ DOMAIN heap = 1..n
      /\ \A k \in 1..n : heap[k].job \in Job /\ heap[k].at > 0
  <2>1. heap \in [1..n -> Queue!Entry]
    BY <1>4, <1>5
  <2> QED
    BY <1>1, <1>4, <1>5, <2>1
<1>7. Ordered(heap) /\ \A j \in Job : \E k \in 1..n : heap[k].job = j
  <2>1. Ordered(heap)
    BY <1>5, <1>6 DEF Queue!Seeded, Ordered
  <2>2. ASSUME NEW j \in Job PROVE \E k \in 1..n : heap[k].job = j
    <3>1. PICK k \in DOMAIN heap : heap[k] = [job |-> j, at |-> Queue!NextRun(j, 0)]
      BY <1>5 DEF Queue!Seeded
    <3> QED
      BY <1>6, <3>1
  <2> QED
    BY <2>1, <2>2
<1>8. Distinct(heap)
  <2> DEFINE f == [k \in 1..n |-> heap[k].job]
  <2>1. f \in Surjection(1..n, Job)
    BY <1>6, <1>7 DEF Surjection
  <2>2. IsFiniteSet(1..n) /\ Cardinality(1..n) = Cardinality(Job)
    <3>1. 1 \in Int /\ n \in Int
      BY <1>1
    <3>2. IsFiniteSet(1..n) /\ Cardinality(1..n) = IF 1 > n THEN 0 ELSE n - 1 + 1
      BY <3>1, FS_Interval
    <3> QED
      BY <1>1, <3>2 DEF n
  <2> HIDE DEF f
  <2>3. f \in Injection(1..n, Job)
    BY <2>1, <2>2, FS_SurjSameCardinalityImpliesInj
  <2>4. \A k, l \in 1..n : f[k] = f[l] => k = l
    BY <2>3 DEF Injection, IsInjective
  <2> QED
    BY <1>6, <2>4 DEF Distinct, f
<1>9. due \in Seq(Queue!Entry) /\ DOMAIN due = {}
  BY <1>2
<1>10. Distinct(due) /\ \A j \in Job : ~Holds(due, j) /\ Holds(heap, j)
  BY <1>6, <1>7, <1>9 DEF Distinct, Holds
<1>11. pc[Daemon] = "idle"
  BY DEF Init, Thread
<1>12. QueueTyping
  BY <1>2, <1>6, <1>7, <1>9 DEF QueueTyping
<1>13. \A k \in DOMAIN heap : heap[k].at > tickNow
  BY <1>2, <1>6
<1>14. pc[Daemon] \notin Ticking
  BY <1>11 DEF Ticking, Running
<1> QED
  BY <1>2, <1>8, <1>10, <1>11, <1>12, <1>13, <1>14 DEF QueueInv

(* What it is for a job to wait at most once in a list.                     *)
LEMMA CountOfDistinct ==
  ASSUME NEW q, Distinct(q), NEW j
  PROVE  Cardinality({k \in DOMAIN q : q[k].job = j}) = IF Holds(q, j) THEN 1 ELSE 0
<1> DEFINE S == {k \in DOMAIN q : q[k].job = j}
<1>1. CASE Holds(q, j)
  <2>1. PICK k \in DOMAIN q : q[k].job = j
    BY <1>1 DEF Holds
  <2>2. S = {k}
    BY <2>1 DEF Distinct
  <2> QED
    BY <1>1, <2>2, FS_Singleton
<1>2. CASE ~Holds(q, j)
  <2>1. S = {}
    BY <1>2 DEF Holds
  <2> QED
    BY <1>2, <2>1, FS_EmptySet
<1> QED
  BY <1>1, <1>2

(* A job that waits in one place waits once, and one that no exception      *)
(* dropped waits somewhere.                                                 *)
LEMMA QueuedOnceFollows == QueueInv => QueuedOnce
<1> SUFFICES ASSUME QueueInv PROVE QueuedOnce
  OBVIOUS
<1>1. ASSUME NEW j \in Job PROVE Queue!Copies(j) = IF j \in dropped THEN 0 ELSE 1
  <2>1. /\ Cardinality({k \in DOMAIN heap : heap[k].job = j}) = IF Holds(heap, j) THEN 1 ELSE 0
        /\ Cardinality({k \in DOMAIN due : due[k].job = j}) = IF Holds(due, j) THEN 1 ELSE 0
    BY CountOfDistinct DEF QueueInv
  <2>2. Queue!Copies(j) = Cardinality({k \in DOMAIN heap : heap[k].job = j})
                            + Cardinality({k \in DOMAIN due : due[k].job = j})
    BY QueueCounts DEF Queue!Copies
  <2>3. /\ ~(Holds(heap, j) /\ Holds(due, j))
        /\ Holds(heap, j) \/ Holds(due, j) <=> j \notin dropped
    BY DEF QueueInv
  <2> QED
    BY <2>1, <2>2, <2>3
<1>2. \A k \in DOMAIN heap : heap[k].at > tickNow
  BY DEF QueueInv
<1> QED
  BY <1>1, <1>2 DEF QueuedOnce

-----------------------------------------------------------------------------
(* Where the threads are: a thread has a job exactly while it runs one, and *)
(* only the dispatcher's is ever between two jobs.                          *)
Places ==
    /\ pc \in [Thread -> Running \cup {"idle", "next", "requeue"}]
    /\ job \in [Thread -> Job \cup {NoJob}]
    /\ \A t \in Thread : job[t] \in Job <=> pc[t] \in Running
    /\ \A t \in Worker : pc[t] \notin {"next", "requeue"}

(* And what they carry.                                                     *)
Data ==
    /\ now \in Nat /\ outer \in {"quota", "retry"}
    /\ timestamps \in [Job -> Seq(Nat)] /\ won \in [Job -> Seq(Nat)]
    /\ began \in [Thread -> Nat] /\ attempt \in [Thread -> Nat]
    /\ kept \in [Thread -> Seq(Nat)]
    /\ outcome \in [Thread -> {"ok", "failed", "raised"}]
    /\ pending \subseteq Worker
    /\ calls \in Nat
    /\ overlap \subseteq Job /\ raced \in [Job -> Nat]

CallInv == Places /\ Data /\ QueueInv

(* A thread goes on with its job.                                           *)
LEMMA MoveShape ==
  ASSUME Places, QueueInv, NEW t \in Thread, NEW label \in Running, pc[t] \in Running,
         Goto(t, label), job' = job, Queue!Idle, now' \in Nat
  PROVE  Places' /\ QueueInv'
<1>1. Places'
  BY DEF Places, Goto, Running
<1>2. pc'[Daemon] = pc[Daemon] \/ (pc[Daemon] \in Ticking /\ pc'[Daemon] \in Running)
  BY DEF Places, Goto, Thread, Ticking
<1>3. QueueInv'
  <2>1. pc'[Daemon] = "idle" => due = <<>>
    BY <1>2 DEF QueueInv, Running
  <2>2. pc'[Daemon] \in Ticking => due # <<>>
    BY <1>2 DEF QueueInv
  <2> QED
    BY <2>1, <2>2, IdleKeeps
<1> QED
  BY <1>1, <1>3

(* A call begins.                                                           *)
LEMMA EnterShape ==
  ASSUME Places, QueueInv, NEW t \in Thread, NEW j \in Job, Enter(t, j),
         (pc[t] = "idle" /\ t # Daemon) \/ (pc[t] = "next" /\ due # <<>>),
         Queue!Idle, now' \in Nat
  PROVE  Places' /\ QueueInv'
<1>1. PICK label \in {"check", "look"} : Goto(t, label)
  BY DEF Enter
<1>2. job' = [job EXCEPT ![t] = j]
  BY DEF Enter
<1>3. Places'
  BY <1>1, <1>2, ConstantsAssumption DEF Places, Goto, Running, ConstantsAssumption
<1>4. pc'[Daemon] = pc[Daemon] \/ (due # <<>> /\ pc'[Daemon] \in Running)
  BY <1>1 DEF Places, Goto, Thread, Running
<1>5. QueueInv'
  <2>1. pc'[Daemon] = "idle" => due = <<>>
    BY <1>4 DEF QueueInv, Running
  <2>2. pc'[Daemon] \in Ticking => due # <<>>
    BY <1>4 DEF QueueInv
  <2> QED
    BY <2>1, <2>2, IdleKeeps
<1> QED
  BY <1>3, <1>5

(* And ends, with a result or an exception.                                 *)
LEMMA LeaveShape ==
  ASSUME Places, QueueInv, NEW t \in Thread, pc[t] \in Running,
         Return(t) \/ Raise(t), now' = now
  PROVE  Places' /\ QueueInv'
<1>1. PICK label \in {"idle", "requeue"} :
         /\ Goto(t, label)
         /\ \/ t # Daemon /\ label = "idle" /\ Queue!Idle
            \/ t = Daemon /\ label = "requeue" /\ Queue!Idle
            \/ t = Daemon /\ label = "idle" /\ Queue!Abandon
  <2>1. CASE Return(t)
    BY <2>1 DEF Return
  <2>2. CASE Raise(t)
    BY <2>2 DEF Raise
  <2> QED
    BY <2>1, <2>2
<1>2. job' = [job EXCEPT ![t] = NoJob]
  BY DEF Return, Raise, Forget
<1>3. NoJob \notin Job /\ Daemon \notin Worker /\ Worker \subseteq Thread
  BY ConstantsAssumption DEF ConstantsAssumption, Thread
<1>4. Places'
  BY <1>1, <1>2, <1>3 DEF Places, Goto, Running
<1>5. now' \in Nat
  BY DEF QueueInv, QueueTyping
<1>6. CASE Queue!Idle /\ (t # Daemon \/ label = "requeue")
  <2>1. pc'[Daemon] = pc[Daemon] \/ (pc[Daemon] \in Ticking /\ pc'[Daemon] = "requeue")
    BY <1>1, <1>6 DEF Places, Goto, Thread, Ticking
  <2>2. pc'[Daemon] = "idle" => due = <<>>
    BY <2>1 DEF QueueInv
  <2>3. pc'[Daemon] \in Ticking => due # <<>>
    BY <2>1 DEF QueueInv
  <2> QED
    BY <1>4, <1>5, <1>6, <2>2, <2>3, IdleKeeps
<1>7. CASE t = Daemon /\ label = "idle" /\ Queue!Abandon
  <2>1. pc'[Daemon] \notin Ticking
    BY <1>1, <1>7 DEF Places, Goto, Ticking, Running
  <2> QED
    BY <1>4, <1>7, <2>1, AbandonKeeps
<1> QED
  BY <1>1, <1>6, <1>7

(* Or nothing of it changes.                                                *)
LEMMA StillShape ==
  ASSUME Places, QueueInv, UNCHANGED <<pc, job>>, Queue!Idle, now' \in Nat
  PROVE  Places' /\ QueueInv'
<1>1. Places'
  BY DEF Places
<1>2. QueueInv'
  <2>1. /\ pc'[Daemon] = "idle" => due = <<>>
        /\ pc'[Daemon] \in Ticking => due # <<>>
    BY DEF QueueInv
  <2> QED
    BY <2>1, IdleKeeps
<1> QED
  BY <1>1, <1>2

(* The dispatcher between two calls (JobDispatcher.tick).                   *)
LEMMA LoopShape ==
  ASSUME Places, QueueInv, StartTick \/ Requeue \/ EndTick
  PROVE  Places' /\ QueueInv'
<1>1. Daemon \in Thread /\ Daemon \notin Worker /\ Worker \subseteq Thread
  BY ConstantsAssumption DEF ConstantsAssumption, Thread
<1>2. job' = job /\ now' = now /\ now \in Nat
  BY DEF StartTick, Requeue, EndTick, callVars, QueueInv, QueueTyping
<1>3. \A label \in {"next", "idle"} :
        Goto(Daemon, label) /\ pc[Daemon] \notin Running => Places' /\ pc'[Daemon] = label
  BY <1>1, <1>2 DEF Places, Goto, Running
<1>4. pc[Daemon] \notin Running
  BY DEF StartTick, Requeue, EndTick, Running
<1>5. CASE StartTick
  <2>1. Queue!Drain /\ Goto(Daemon, "next") /\ due = <<>>
    BY <1>5 DEF StartTick, QueueInv
  <2> QED
    BY <1>2, <1>3, <1>4, <2>1, DrainKeeps
<1>6. CASE Requeue /\ Queue!Requeue /\ Goto(Daemon, "next")
  <2>1. pc[Daemon] = "requeue"
    BY <1>6 DEF Requeue
  <2> QED
    BY <1>2, <1>3, <1>4, <1>6, <2>1, RequeueKeeps
<1>7. CASE Requeue /\ Queue!Abandon /\ Goto(Daemon, "idle")
  <2>1. "idle" \notin Ticking
    BY DEF Ticking, Running
  <2> QED
    BY <1>2, <1>3, <1>4, <1>7, <2>1, AbandonKeeps
<1>8. CASE EndTick
  <2>1. Goto(Daemon, "idle") /\ due = <<>> /\ Queue!Idle
    BY <1>8 DEF EndTick, dispatcherVars, Queue!Idle
  <2>2. "idle" \notin Ticking
    BY DEF Ticking, Running
  <2> QED
    BY <1>2, <1>3, <1>4, <2>1, <2>2, IdleKeeps
<1> QED
  BY <1>5, <1>6, <1>7, <1>8 DEF Requeue

(* The times of a job left by an eviction, some of those there were.        *)
LEMMA EvictFacts ==
  ASSUME NEW j \in Job, timestamps[j] \in Seq(Nat)
  PROVE  /\ Tracker!Evict(j) \in Seq(Nat)
         /\ \E p : Picks(p, Tracker!Evict(j), timestamps[j], {t \in Nat : t >= now - Window})
<1> DEFINE Fresh == {t \in Nat : t >= now - Window}
           ts == timestamps[j]
<1>1. Tracker!Evict(j) = Only(ts, Fresh)
  BY Zenon DEF Tracker!Evict, Tracker!Only, Only
<1> HIDE DEF Fresh
<1>2. Only(ts, Fresh) \in Seq(Nat) /\ \E p : Picks(p, Only(ts, Fresh), ts, Fresh)
  BY OnlyProperties
<1> QED
  BY <1>1, <1>2 DEF Fresh

(* What a thread carries stays well typed when a call begins.               *)
LEMMA EnterData ==
  ASSUME Data, NEW t \in Thread, NEW j \in Job, Enter(t, j),
         UNCHANGED <<now, raced, timestamps, outer, pending>>
  PROVE  Data'
<1>1. Tracker!Evict(j) \in Seq(Nat) /\ <<>> \in Seq(Nat)
  BY EvictFacts, EmptySeq DEF Data
<1>2. began' \in [Thread -> Nat] /\ attempt' \in [Thread -> Nat]
  <2>1. began' = [began EXCEPT ![t] = now] \/ began' = began
    BY DEF Enter
  <2>2. attempt' = [attempt EXCEPT ![t] = 1] \/ attempt' = attempt
    BY DEF Enter
  <2> QED
    <3>1. now \in Nat /\ began \in [Thread -> Nat] /\ attempt \in [Thread -> Nat]
      BY DEF Data
    <3>2. began' \in [Thread -> Nat]
      BY <2>1, <3>1
    <3>3. attempt' \in [Thread -> Nat]
      BY <2>2, <3>1
    <3> QED
      BY <3>2, <3>3
<1>3. kept' \in [Thread -> Seq(Nat)]
  <2>1. \/ kept' = kept
        \/ kept' = [kept EXCEPT ![t] = Tracker!Evict(j)]
        \/ kept' = [kept EXCEPT ![t] = <<>>]
    BY DEF Enter
  <2> QED
    BY <1>1, <2>1 DEF Data
<1>4. calls' \in Nat /\ overlap' \subseteq Job
  BY DEF Enter, Data
<1> QED
  BY <1>2, <1>3, <1>4 DEF Enter, Data

(* And when it ends.                                                        *)
LEMMA ForgetData ==
  ASSUME Data, NEW t \in Thread, Forget(t),
         UNCHANGED <<now, raced, outer>>, pending' \subseteq Worker,
         timestamps' \in [Job -> Seq(Nat)], won' \in [Job -> Seq(Nat)]
  PROVE  Data'
<1>1. <<>> \in Seq(Nat)
  BY EmptySeq
<1> QED
  BY <1>1 DEF Forget, Data

(* A quota's bookkeeping.                                                   *)
LEMMA SetTimes ==
  ASSUME NEW f \in [Job -> Seq(Nat)], NEW j, NEW s \in Seq(Nat)
  PROVE  [f EXCEPT ![j] = s] \in [Job -> Seq(Nat)]
OBVIOUS

(* And one more time of a job.                                              *)
LEMMA AddTime ==
  ASSUME NEW f \in [Job -> Seq(Nat)], NEW j, NEW n \in Nat
  PROVE  [f EXCEPT ![j] = Append(@, n)] \in [Job -> Seq(Nat)]
<1>1. CASE j \in Job
  <2>1. f[j] \in Seq(Nat)
    BY <1>1
  <2>2. Append(f[j], n) \in Seq(Nat)
    BY <2>1, AppendProperties
  <2> QED
    BY <2>2
<1>2. CASE j \notin Job
  BY <1>2
<1> QED
  BY <1>1, <1>2

(* What the steps of record() leave alone.                                  *)
LEMMA RecordMoves ==
  ASSUME NEW t \in Thread, RecordStep(t)
  PROVE  /\ pc[t] \in {"trace", "store", "evict", "pop", "drop"}
         /\ \E label \in {"store", "evict", "pop", "drop", "release"} : Goto(t, label)
         /\ outcome' = outcome \/ outcome' = [outcome EXCEPT ![t] = "raised"]
         /\ UNCHANGED <<now, outer, pending, timestamps, dispatcherVars, guardVars, leaked,
                        job, began, kept, attempt, calls, overlap, won>>
BY DEF RecordStep, ListTrace, StoreTrace, LookForOldest, PopOldest, DropOldest, End, callVars

(* Every step of a thread keeps the invariant.                              *)
LEMMA StepKeepsCalls ==
  ASSUME CallInv, NEW t \in Thread, Step(t)
  PROVE  CallInv'
<1> USE DEF CallInv
<1>0. /\ now' = now /\ now \in Nat /\ UNCHANGED <<outer, pending>> /\ pc[t] \in Running
      /\ kept[t] \in Seq(Nat) /\ began[t] \in Nat /\ <<>> \in Seq(Nat)
  BY EmptySeq DEF Step, CheckQuota, RecordRun, TryAgain, Look, Create, Acquire, GiveBack,
            Start, Finish, CancelTimer, ListTrace, StoreTrace, LookForOldest, PopOldest,
            DropOldest, Data, Running
<1>1. CASE CheckQuota(t)
  <2>1. timestamps' \in [Job -> Seq(Nat)]
    BY <1>0, <1>1, SetTimes DEF CheckQuota, Tracker!Store, Data
  <2>2. CASE Return(t) /\ UNCHANGED won
    <3>1. Forget(t) /\ raced' = raced
      BY <1>1, <2>2 DEF Return, CheckQuota, guardVars
    <3>2. Data'
      BY <1>0, <2>1, <2>2, <3>1, ForgetData DEF Data
    <3> QED
      BY <1>0, <2>2, <3>2, LeaveShape
  <2>3. CASE ~Tracker!Exceeded(job[t], kept[t])
    <3>1. /\ Goto(t, "look") /\ kept' = [kept EXCEPT ![t] = <<>>] /\ Queue!Idle
          /\ UNCHANGED <<job, began, attempt, outcome, calls, overlap, won, raced>>
      BY <1>1, <2>3 DEF CheckQuota, guardVars
    <3>2. Data'
      BY <1>0, <2>1, <3>1 DEF Data
    <3>3. "look" \in Running
      BY DEF Running
    <3> QED
      BY <1>0, <3>1, <3>2, <3>3, MoveShape
  <2> QED
    BY <1>1, <2>2, <2>3 DEF CheckQuota
<1>2. CASE RecordRun(t)
  <2>1. timestamps' \in [Job -> Seq(Nat)] /\ won' \in [Job -> Seq(Nat)]
    <3>1. CASE outcome[t] = "ok"
      <4>1. /\ timestamps' = [timestamps EXCEPT ![job[t]] = Append(@, began[t])]
            /\ won' = [won EXCEPT ![job[t]] = Append(@, began[t])]
        BY <1>2, <3>1 DEF RecordRun, Tracker!Record
      <4> QED
        BY <1>0, <4>1, AddTime DEF Data
    <3>2. CASE outcome[t] # "ok"
      BY <1>2, <3>2 DEF RecordRun, Data
    <3> QED
      BY <3>1, <3>2
  <2>2. Return(t) /\ Forget(t) /\ raced' = raced
    BY <1>2 DEF Return, RecordRun, guardVars
  <2>3. Data'
    BY <1>0, <2>1, <2>2, ForgetData DEF Data
  <2> QED
    BY <1>0, <2>2, <2>3, LeaveShape
<1>3. CASE TryAgain(t)
  <2>1. timestamps' = timestamps /\ won' = won /\ raced' = raced
    BY <1>3 DEF TryAgain, guardVars
  <2>2. CASE Return(t)
    <3>1. Data'
      BY <1>0, <2>1, <2>2, ForgetData DEF Data, Return
    <3> QED
      BY <1>0, <2>2, <3>1, LeaveShape
  <2>3. CASE ~(outcome[t] = "ok" \/ attempt[t] >= MaxAttempts)
    <3>1. /\ Goto(t, "look") /\ attempt' = [attempt EXCEPT ![t] = @ + 1] /\ Queue!Idle
          /\ UNCHANGED <<job, began, kept, outcome, calls, overlap, won>>
      BY <1>3, <2>3 DEF TryAgain
    <3>2. Data'
      BY <1>0, <2>1, <3>1 DEF Data
    <3>3. "look" \in Running
      BY DEF Running
    <3> QED
      BY <1>0, <3>1, <3>2, <3>3, MoveShape
  <2> QED
    BY <1>3, <2>2, <2>3 DEF TryAgain
<1>4. ASSUME NEW label \in Running, Goto(t, label), job' = job, Queue!Idle, UNCHANGED callVars,
             timestamps' = timestamps, raced' \in [Job -> Nat]
      PROVE  CallInv'
  <2>1. Data'
    BY <1>0, <1>4 DEF Data, callVars
  <2> QED
    BY <1>0, <1>4, <2>1, MoveShape
<1>5. CASE Look(t) \/ Start(t) \/ CancelTimer(t)
  <2>1. PICK label \in {"create", "get", "run", "trace"} : Goto(t, label)
    BY <1>5 DEF Look, Start, CancelTimer
  <2>2. Queue!Idle /\ UNCHANGED callVars /\ timestamps' = timestamps /\ raced' = raced
    BY <1>5 DEF Look, Start, CancelTimer, Queue!Idle, dispatcherVars, guardVars
  <2>3. label \in Running /\ raced' \in [Job -> Nat] /\ job' = job
    BY <2>1, <2>2 DEF Running, Data, callVars
  <2> QED
    BY <1>4, <2>1, <2>2, <2>3
<1>6. CASE Create(t)
  <2>1. Goto(t, "get") /\ Queue!Idle /\ UNCHANGED callVars /\ timestamps' = timestamps /\ job' = job
    BY <1>6 DEF Create, Queue!Idle, dispatcherVars, callVars
  <2>2. job[t] \in Job
    BY <1>0 DEF Places
  <2>3. "get" \in Running /\ raced' \in [Job -> Nat]
    BY <1>6, <2>2 DEF Running, Data, Create, Guard!Create
  <2> QED
    BY <1>4, <2>1, <2>3
<1>7. CASE Acquire(t)
  <2>1. timestamps' = timestamps /\ raced' = raced
    BY <1>7 DEF Acquire, Guard!Take, Guard!Idle
  <2>2. CASE Guard!Free(job[t])
    <3>1. Goto(t, "held") /\ Queue!Idle /\ UNCHANGED callVars /\ job' = job
      BY <1>7, <2>2 DEF Acquire, callVars
    <3>2. "held" \in Running /\ raced' \in [Job -> Nat]
      BY <2>1 DEF Running, Data
    <3> QED
      BY <1>4, <2>1, <3>1, <3>2
  <2>3. CASE Raise(t) /\ UNCHANGED won
    <3>1. Data'
      BY <1>0, <2>1, <2>3, ForgetData DEF Data, Raise
    <3> QED
      BY <1>0, <2>3, <3>1, LeaveShape
  <2> QED
    BY <1>7, <2>2, <2>3 DEF Acquire
<1>8. CASE GiveBack(t)
  <2>1. timestamps' = timestamps /\ raced' = raced
    BY <1>8 DEF GiveBack, Guard!Release
  <2>2. CASE Goto(t, "back") /\ Queue!Idle /\ UNCHANGED callVars
    <3>1. "back" \in Running /\ raced' \in [Job -> Nat] /\ job' = job
      BY <2>1, <2>2 DEF Running, Data, callVars
    <3> QED
      BY <1>4, <2>1, <2>2, <3>1
  <2>3. CASE Raise(t) /\ UNCHANGED won
    <3>1. Data'
      BY <1>0, <2>1, <2>3, ForgetData DEF Data, Raise
    <3> QED
      BY <1>0, <2>3, <3>1, LeaveShape
  <2> QED
    BY <1>8, <2>2, <2>3 DEF GiveBack
<1>9. CASE Finish(t)
  <2>1. Goto(t, "timer") /\ Queue!Idle /\ job' = job /\ "timer" \in Running
    BY <1>9 DEF Finish, Queue!Idle, dispatcherVars, Running
  <2>2. Data'
    BY <1>0, <1>9 DEF Data, Finish, End, guardVars
  <2> QED
    BY <1>0, <2>1, <2>2, MoveShape
<1>10. CASE RecordStep(t)
  <2>1. PICK label \in {"store", "evict", "pop", "drop", "release"} : Goto(t, label)
    BY <1>10, RecordMoves
  <2>2. /\ Queue!Idle /\ job' = job /\ UNCHANGED <<timestamps, raced, began, kept, attempt, calls, overlap, won>>
        /\ outcome' \in [Thread -> {"ok", "failed", "raised"}]
    BY <1>10, RecordMoves DEF Data, Queue!Idle, dispatcherVars, guardVars
  <2>3. Data'
    BY <1>0, <2>2 DEF Data
  <2>4. label \in Running
    BY DEF Running
  <2> QED
    BY <1>0, <2>1, <2>2, <2>3, <2>4, MoveShape
<1> QED
  BY <1>1, <1>2, <1>3, <1>5, <1>6, <1>7, <1>8, <1>9, <1>10 DEF Step, RecordStep

(* So does an exception inside the with block.                              *)
LEMMA UnwindCalls ==
  ASSUME CallInv, NEW t \in Thread, Unwind(t), pc[t] \in Running,
         UNCHANGED <<now, timestamps, outer>>, pending' \subseteq Worker
  PROVE  CallInv'
<1>1. /\ Goto(t, "release") /\ Queue!Idle /\ job' = job /\ now' \in Nat
      /\ "release" \in Running
  BY DEF Unwind, Queue!Idle, dispatcherVars, Running, CallInv, Data
<1>2. Data'
  BY DEF Unwind, End, guardVars, CallInv, Data
<1> QED
  BY <1>1, <1>2, MoveShape DEF CallInv

(* And one that lands, wherever it does.                                    *)
LEMMA LandCalls ==
  ASSUME CallInv, NEW t \in Worker, Land(t)
  PROVE  CallInv'
<1>1. /\ t \in Thread /\ UNCHANGED <<now, timestamps, outer>> /\ pending' \subseteq Worker
      /\ now' \in Nat
  BY DEF Land, Thread, CallInv, Data
<1>2. CASE pc[t] \in {"run", "timer", "trace"} \cup Recording /\ Unwind(t)
  <2>1. pc[t] \in Running
    BY <1>2 DEF Running, Recording
  <2> QED
    BY <1>1, <1>2, <2>1, UnwindCalls
<1>3. CASE /\ pc[t] \in {"held", "release", "check", "look", "create", "get", "back"}
           /\ Raise(t) /\ Guard!Idle /\ UNCHANGED won
  <2>1. pc[t] \in Running
    BY <1>3 DEF Running
  <2>2. Data'
    BY <1>1, <1>3, ForgetData DEF CallInv, Data, Raise, Guard!Idle
  <2> QED
    BY <1>1, <1>3, <2>1, <2>2, LeaveShape DEF CallInv
<1>4. CASE UNCHANGED <<pc, dispatcherVars, guardVars, leaked, callVars>>
  <2>1. Data' /\ UNCHANGED <<pc, job>> /\ Queue!Idle
    BY <1>1, <1>4 DEF CallInv, Data, guardVars, callVars, Queue!Idle, dispatcherVars
  <2> QED
    BY <1>1, <2>1, StillShape DEF CallInv
<1> QED
  BY <1>2, <1>3, <1>4 DEF Land

(* Every step keeps the invariant of the calls.                             *)
LEMMA NextCalls == CallInv /\ [Next]_vars => CallInv'
<1> SUFFICES ASSUME CallInv, [Next]_vars PROVE CallInv'
  OBVIOUS
<1> USE DEF CallInv
<1>1. CASE StartTick \/ Requeue \/ EndTick
  <2>1. Data'
    BY <1>1 DEF StartTick, Requeue, EndTick, Data, guardVars, callVars
  <2> QED
    BY <1>1, <2>1, LoopShape
<1>2. CASE RunNext
  <2>1. /\ Enter(Daemon, Head(due).job) /\ pc[Daemon] = "next" /\ due # <<>> /\ Queue!Idle
        /\ UNCHANGED <<now, raced, timestamps, outer, pending>>
    BY <1>2 DEF RunNext, guardVars
  <2>2. Head(due).job \in Job /\ Daemon \in Thread
    <3>1. Head(due) \in Queue!Entry
      BY <2>1 DEF QueueInv, QueueTyping
    <3> QED
      BY <3>1 DEF Queue!Entry, Thread
  <2>3. Data' /\ now' \in Nat
    BY <2>1, <2>2, EnterData DEF Data
  <2> QED
    BY <2>1, <2>2, <2>3, EnterShape
<1>3. ASSUME NEW t \in Thread, Step(t) PROVE CallInv'
  BY <1>3, StepKeepsCalls
<1>4. ASSUME NEW t \in Worker, NEW j \in Job, Call(t, j) PROVE CallInv'
  <2>1. /\ Enter(t, j) /\ pc[t] = "idle" /\ t # Daemon /\ t \in Thread /\ Queue!Idle
        /\ UNCHANGED <<now, raced, timestamps, outer, pending>>
    BY <1>4, ConstantsAssumption
    DEF Call, guardVars, dispatcherVars, Queue!Idle, Thread, ConstantsAssumption
  <2>2. Data' /\ now' \in Nat
    BY <2>1, EnterData DEF Data
  <2>3. (pc[t] = "idle" /\ t # Daemon) \/ (pc[t] = "next" /\ due # <<>>)
    BY <2>1
  <2>4. Places' /\ QueueInv'
    BY <2>1, <2>2, <2>3, EnterShape
  <2> QED
    BY <2>2, <2>4
<1>5. CASE Alarm
  <2>1. /\ Daemon \in Thread /\ Unwind(Daemon) /\ pc[Daemon] \in Running
        /\ UNCHANGED <<now, timestamps, outer>> /\ pending' \subseteq Worker
    BY <1>5 DEF Alarm, Thread, Running, Data
  <2> QED
    BY <2>1, UnwindCalls
<1>6. ASSUME NEW t \in Worker, TimerFires(t) PROVE CallInv'
  <2>1. /\ Data' /\ UNCHANGED <<pc, job>> /\ Queue!Idle /\ now' \in Nat
    BY <1>6 DEF TimerFires, Data, guardVars, callVars, Queue!Idle, dispatcherVars
  <2> QED
    BY <2>1, StillShape
<1>7. ASSUME NEW t \in Worker, Land(t) PROVE CallInv'
  BY <1>7, LandCalls
<1>8. ASSUME NEW j \in Job, Remaining(j) PROVE CallInv'
  <2>1. Tracker!Evict(j) \in Seq(Nat)
    BY EvictFacts DEF Data
  <2>2. timestamps' \in [Job -> Seq(Nat)]
    BY <1>8, <2>1 DEF Remaining, Tracker!Store, Data
  <2>3. /\ Data' /\ UNCHANGED <<pc, job>> /\ Queue!Idle /\ now' \in Nat
    BY <1>8, <2>2 DEF Remaining, Data, guardVars, callVars, Queue!Idle, dispatcherVars
  <2> QED
    BY <2>3, StillShape
<1>9. CASE AdvanceClock
  <2>1. /\ Data' /\ UNCHANGED <<pc, job>> /\ Queue!Idle /\ now' \in Nat
    BY <1>9 DEF AdvanceClock, Data, guardVars, callVars, Queue!Idle, dispatcherVars
  <2> QED
    BY <2>1, StillShape
<1>10. CASE UNCHANGED vars
  <2>1. /\ Data' /\ UNCHANGED <<pc, job>> /\ Queue!Idle /\ now' \in Nat
    BY <1>10 DEF vars, Data, guardVars, callVars, Queue!Idle, dispatcherVars
  <2> QED
    BY <2>1, StillShape
<1> QED
  BY <1>1, <1>2, <1>3, <1>4, <1>5, <1>6, <1>7, <1>8, <1>9, <1>10 DEF Next, Loop

(* It holds at first.                                                       *)
LEMMA InitCalls == Init => CallInv
<1> SUFFICES ASSUME Init PROVE CallInv
  OBVIOUS
<1>1. <<>> \in Seq(Nat)
  BY EmptySeq
<1>2. Data
  BY <1>1 DEF Init, Data, Tracker!Init, Guard!Init
<1>3. Places
  <2>1. pc = [t \in Thread |-> "idle"] /\ job = [t \in Thread |-> NoJob] /\ Worker \subseteq Thread
    BY DEF Init, Thread
  <2>2. \A t \in Thread : job[t] \notin Job /\ pc[t] \notin Running
    BY <2>1, ConstantsAssumption DEF Running, ConstantsAssumption
  <2>3. pc \in [Thread -> Running \cup {"idle", "next", "requeue"}]
    BY <2>1
  <2> QED
    BY <2>1, <2>2, <2>3 DEF Places
<1> QED
  BY <1>2, <1>3, QueueInit DEF CallInv

(* The invariant of the calls: where each thread is in run(), what it carries*)
(* there (job_dispatcher.py:41-54, job_runner.py, job_timeout.py), and what *)
(* waits in the queue (job_queue.py:32-58).                                 *)
THEOREM CallInvHolds == Spec => []CallInv
BY InitCalls, NextCalls, PTL DEF Spec

(* A job waits exactly once, in the heap or in the tick that drained it,    *)
(* unless an exception left tick() before the job was requeued              *)
(* (JobDispatcher.tick, job_dispatcher.py:41-54).                           *)
THEOREM QueuedOnceHolds == Spec => []QueuedOnce
<1>1. CallInv => QueuedOnce
  BY QueuedOnceFollows DEF CallInv
<1> QED
  BY <1>1, CallInvHolds, PTL

-----------------------------------------------------------------------------
(* The trace store.  How many traces it should have, and the ids it lists.  *)
Fill(r) == IF r < MaxTraces THEN r ELSE MaxTraces
Low == recorded - Len(order)
Listed == (Low + 1) .. recorded

TraceTypes ==
    /\ order \in Seq(Nat) /\ recorded \in Nat
    /\ traces \subseteq Nat /\ carried \in [Thread -> Nat]
    /\ met \in BOOLEAN /\ torn \in BOOLEAN

(* The list is a stretch of ids up to the last; an id that is being dropped *)
(* has left it.                                                             *)
InOrder ==
    /\ Len(order) <= recorded
    /\ \A k \in 1..Len(order) : order[k] = Low + k
    /\ \A t \in Thread : pc[t] = "drop" => carried[t] <= Low

(* What holds until an exception leaves a call of record().                 *)
Findable(i) == i \in traces \/ \E t \in Thread : pc[t] = "store" /\ carried[t] = i
Untorn ==
    /\ Len(order) <= MaxTraces + Cardinality(Recorders)
    /\ \A i \in Listed : Findable(i)

(* What holds as long as, besides, no two calls have met: where the one     *)
(* that is under way has got to.                                            *)
Progress(t) ==
    /\ Len(order) >= Fill(recorded)
    /\ pc[t] = "store" => Len(order) > 0 /\ carried[t] = recorded /\ traces = Listed \ {recorded}
    /\ pc[t] \in {"evict", "pop"} => traces = Listed
    /\ pc[t] = "pop" => Len(order) > MaxTraces
    /\ pc[t] = "drop" => carried[t] = Low /\ traces = Listed \cup {Low}

Unmet ==
    /\ \A t, u \in Recorders : t = u
    /\ \A t \in Recorders : Progress(t)
    /\ Recorders = {} => Len(order) = Fill(recorded) /\ traces = Listed

TraceInv ==
    /\ TraceTypes /\ InOrder
    /\ ~torn => Untorn
    /\ ~torn /\ ~met => Unmet

(* How full the store should be.                                            *)
LEMMA FillFacts ==
  ASSUME NEW r \in Nat
  PROVE  /\ Fill(r) \in Nat /\ Fill(r) <= r /\ Fill(r) <= MaxTraces
         /\ Fill(r + 1) <= Fill(r) + 1
         /\ \A n \in Nat : n >= Fill(r) /\ n <= r /\ n <= MaxTraces => n = Fill(r)
BY ConstantsAssumption DEF ConstantsAssumption, Fill

(* The threads that record are a finite set, and how it changes.            *)
LEMMA RecordersFinite == IsFiniteSet(Recorders) /\ Cardinality(Recorders) \in Nat
<1>1. IsFiniteSet(Thread)
  BY ConstantsAssumption, FS_AddElement DEF ConstantsAssumption, Thread
<1>2. Recorders \subseteq Thread
  BY DEF Recorders
<1> QED
  BY <1>1, <1>2, FS_Subset, FS_CardinalityType

(* What the move of one thread does to them.                                *)
LEMMA RecordersMove ==
  ASSUME Places, NEW t \in Thread, NEW label, Goto(t, label)
  PROVE  /\ pc'[t] = label /\ \A u \in Thread \ {t} : pc'[u] = pc[u]
         /\ pc[t] \in Recording <=> t \in Recorders
         /\ label \in Recording => Recorders' = Recorders \cup {t}
         /\ label \notin Recording => Recorders' = Recorders \ {t}
<1>1. pc'[t] = label /\ \A u \in Thread \ {t} : pc'[u] = pc[u]
  BY DEF Places, Goto
<1>2. \A u : u \in Recorders' <=> u \in Thread /\ pc'[u] \in Recording
  BY DEF Recorders
<1>3. \A u : u \in Recorders <=> u \in Thread /\ pc[u] \in Recording
  BY DEF Recorders
<1> QED
  BY <1>1, <1>2, <1>3

(* A step outside record() leaves the store alone.                          *)
LEMMA AsideTraces ==
  ASSUME TraceInv, UNCHANGED traceVars,
         \A u \in Thread : pc[u] \in Recording \/ pc'[u] \in Recording => pc'[u] = pc[u]
  PROVE  TraceInv'
<1>1. UNCHANGED <<order, traces, carried, recorded, met, torn>>
  BY DEF traceVars
<1>2. \A u \in Thread, l \in Recording : pc'[u] = l <=> pc[u] = l
  OBVIOUS
<1>3. Recorders' = Recorders
  BY <1>2 DEF Recorders
<1>4. {"store", "evict", "pop", "drop"} = Recording
  BY DEF Recording
<1>5. TraceTypes' /\ Listed' = Listed /\ Low' = Low
  BY <1>1 DEF TraceInv, TraceTypes, Listed, Low
<1>6. InOrder'
  BY <1>1, <1>2, <1>4, <1>5 DEF TraceInv, InOrder
<1>7. ASSUME Untorn PROVE Untorn'
  BY <1>1, <1>2, <1>3, <1>4, <1>5, <1>7 DEF Untorn, Findable
<1>8. ASSUME Unmet PROVE Unmet'
  <2>1. ASSUME NEW t \in Recorders PROVE Progress(t)'
    <3>1. t \in Thread /\ Progress(t)
      BY <1>8, <2>1 DEF Unmet, Recorders
    <3> QED
      BY <1>1, <1>2, <1>4, <1>5, <3>1 DEF Progress
  <2> QED
    BY <1>1, <1>3, <1>5, <1>8, <2>1 DEF Unmet
<1> QED
  BY <1>1, <1>5, <1>6, <1>7, <1>8 DEF TraceInv

(* In particular the move of a thread that is outside before and after.     *)
LEMMA MoveAside ==
  ASSUME Places, TraceInv, UNCHANGED traceVars, NEW t \in Thread, NEW label, Goto(t, label),
         pc[t] \notin Recording, label \notin Recording
  PROVE  TraceInv'
<1>1. \A u \in Thread : pc[u] \in Recording \/ pc'[u] \in Recording => pc'[u] = pc[u]
  BY RecordersMove
<1> QED
  BY <1>1, AsideTraces

(* record() lists its id: the list grows by one, and so do the calls.       *)
LEMMA ListKeeps ==
  ASSUME Places, TraceInv, NEW t \in Thread, ListTrace(t)
  PROVE  TraceInv'
<1>1. /\ pc[t] = "trace" /\ Goto(t, "store")
      /\ recorded' = recorded + 1 /\ order' = Append(order, recorded + 1)
      /\ carried' = [carried EXCEPT ![t] = recorded + 1]
      /\ met' = (met \/ ~(Recorders = {})) /\ traces' = traces /\ torn' = torn
  BY DEF ListTrace, Traces!List
<1>2. /\ t \notin Recorders /\ Recorders' = Recorders \cup {t}
      /\ pc'[t] = "store" /\ \A u \in Thread \ {t} : pc'[u] = pc[u]
  BY <1>1, RecordersMove DEF Recording
<1>3. /\ order \in Seq(Nat) /\ recorded \in Nat /\ carried \in [Thread -> Nat]
      /\ Len(order) \in Nat /\ Len(order) <= recorded
  BY DEF TraceInv, TraceTypes, InOrder
<1>4. /\ order' \in Seq(Nat) /\ Len(order') = Len(order) + 1 /\ order'[Len(order) + 1] = recorded + 1
      /\ \A k \in 1..Len(order) : order'[k] = order[k]
  BY <1>1, <1>3, AppendProperties
<1>5. carried'[t] = recorded + 1 /\ \A u \in Thread \ {t} : carried'[u] = carried[u]
  BY <1>1, <1>3
<1>6. TraceTypes'
  BY <1>1, <1>3, <1>4 DEF TraceInv, TraceTypes
<1>7. Low' = Low /\ Low \in Nat
  BY <1>1, <1>3, <1>4 DEF Low
<1>8. Listed' = Listed \cup {recorded + 1} /\ Low + 1 <= recorded + 1
  <2>1. Low <= recorded
    BY <1>3 DEF Low
  <2> QED
    BY <1>1, <1>3, <1>7, <2>1 DEF Listed
<1>9. InOrder'
  <2>1. Len(order') <= recorded'
    BY <1>1, <1>3, <1>4
  <2>2. ASSUME NEW k \in 1..Len(order') PROVE order'[k] = Low + k
    <3>1. CASE k \in 1..Len(order)
      BY <1>4, <3>1 DEF TraceInv, InOrder
    <3>2. CASE k = Len(order) + 1
      BY <1>3, <1>4, <3>2 DEF Low
    <3> QED
      BY <1>3, <1>4, <3>1, <3>2
  <2>3. ASSUME NEW u \in Thread, pc'[u] = "drop" PROVE carried'[u] <= Low
    <3>1. u # t /\ pc[u] = "drop"
      BY <1>2, <2>3
    <3> QED
      BY <1>5, <3>1 DEF TraceInv, InOrder
  <2> QED
    BY <1>7, <2>1, <2>2, <2>3 DEF InOrder
<1>10. ASSUME Untorn PROVE Untorn'
  <2>1. Cardinality(Recorders)' = Cardinality(Recorders) + 1
    BY <1>2, RecordersFinite, FS_AddElement
  <2>2. Len(order') <= MaxTraces + Cardinality(Recorders)'
    BY <1>3, <1>4, <1>10, <2>1, RecordersFinite, ConstantsAssumption DEF Untorn, ConstantsAssumption
  <2>3. ASSUME NEW i \in Listed' PROVE Findable(i)'
    <3>1. CASE i = recorded + 1
      BY <1>2, <1>5, <3>1 DEF Findable
    <3>2. CASE i \in Listed /\ i \in traces
      BY <1>1, <3>2 DEF Findable
    <3>3. CASE i \in Listed /\ i \notin traces
      <4>1. PICK u \in Thread : pc[u] = "store" /\ carried[u] = i
        BY <1>10, <3>3 DEF Untorn, Findable
      <4>2. u # t
        BY <1>1, <4>1
      <4> QED
        BY <1>2, <1>5, <4>1, <4>2 DEF Findable
    <3> QED
      BY <1>8, <3>1, <3>2, <3>3
  <2> QED
    BY <2>2, <2>3 DEF Untorn
<1>11. ASSUME Unmet, Recorders = {} PROVE Unmet'
  <2>1. Recorders' = {t}
    BY <1>2, <1>11
  <2>2. Len(order) = Fill(recorded) /\ traces = Listed
    BY <1>11 DEF Unmet
  <2>3. Len(order') >= Fill(recorded') /\ Len(order') > 0
    BY <1>1, <1>3, <1>4, <2>2, FillFacts
  <2>4. recorded + 1 \notin Listed
    BY <1>3, <1>7 DEF Listed
  <2>5. traces' = Listed' \ {recorded'}
    BY <1>1, <1>8, <2>2, <2>4
  <2>6. Progress(t)'
    BY <1>1, <1>2, <1>5, <2>3, <2>5 DEF Progress
  <2> QED
    BY <2>1, <2>6 DEF Unmet
<1> QED
  BY <1>1, <1>6, <1>9, <1>10, <1>11 DEF TraceInv

(* It stores the trace: what was about to be found can be.                  *)
LEMMA StoreKeeps ==
  ASSUME Places, TraceInv, NEW t \in Thread, StoreTrace(t)
  PROVE  TraceInv'
<1>1. /\ pc[t] = "store" /\ Goto(t, "evict") /\ traces' = traces \cup {carried[t]}
      /\ carried' = [carried EXCEPT ![t] = 0] /\ UNCHANGED <<order, recorded, met, torn>>
  BY DEF StoreTrace, Traces!Store
<1>2. /\ t \in Recorders /\ Recorders' = Recorders
      /\ pc'[t] = "evict" /\ \A u \in Thread \ {t} : pc'[u] = pc[u]
  BY <1>1, RecordersMove DEF Recording
<1>3. carried \in [Thread -> Nat] /\ TraceTypes'
  BY <1>1 DEF TraceInv, TraceTypes
<1>4. Low' = Low /\ Listed' = Listed
  BY <1>1 DEF Low, Listed
<1>5. InOrder'
  <2>1. ASSUME NEW u \in Thread, pc'[u] = "drop" PROVE carried'[u] <= Low
    <3>1. u # t /\ pc[u] = "drop" /\ carried'[u] = carried[u]
      BY <1>1, <1>2, <1>3, <2>1
    <3> QED
      BY <3>1 DEF TraceInv, InOrder
  <2> QED
    BY <1>1, <1>4, <2>1 DEF TraceInv, InOrder
<1>6. ASSUME Untorn PROVE Untorn'
  <2>1. ASSUME NEW i \in Listed PROVE Findable(i)'
    <3>1. CASE i \in traces
      BY <1>1, <3>1 DEF Findable
    <3>2. CASE i \notin traces
      <4>1. PICK u \in Thread : pc[u] = "store" /\ carried[u] = i
        BY <1>6, <2>1, <3>2 DEF Untorn, Findable
      <4>2. CASE u = t
        BY <1>1, <4>1, <4>2 DEF Findable
      <4>3. CASE u # t
        BY <1>1, <1>2, <1>3, <4>1, <4>3 DEF Findable
      <4> QED
        BY <4>2, <4>3
    <3> QED
      BY <3>1, <3>2
  <2> QED
    BY <1>1, <1>2, <1>4, <1>6, <2>1 DEF Untorn
<1>7. ASSUME Unmet PROVE Unmet'
  <2>1. Recorders = {t} /\ Progress(t)
    BY <1>2, <1>7 DEF Unmet
  <2>2. traces' = Listed
    <3>1. traces = Listed \ {recorded} /\ carried[t] = recorded /\ Len(order) > 0
      BY <1>1, <2>1 DEF Progress
    <3>2. recorded \in Listed
      BY <3>1 DEF TraceInv, TraceTypes, InOrder, Listed, Low
    <3> QED
      BY <1>1, <3>1, <3>2
  <2>3. Progress(t)'
    BY <1>1, <1>2, <1>4, <2>1, <2>2 DEF Progress
  <2> QED
    BY <1>2, <2>1, <2>3 DEF Unmet
<1> QED
  BY <1>1, <1>3, <1>5, <1>6, <1>7 DEF TraceInv

(* It goes on to drop the oldest, or is done when there are few enough.     *)
LEMMA LookKeepsTraces ==
  ASSUME Places, TraceInv, NEW t \in Thread, LookForOldest(t)
  PROVE  TraceInv'
<1>1. pc[t] = "evict" /\ UNCHANGED <<order, traces, carried, recorded, met, torn>>
  BY DEF LookForOldest, traceVars
<1>2. TraceTypes' /\ Low' = Low /\ Listed' = Listed
  BY <1>1 DEF TraceInv, TraceTypes, Low, Listed
<1>3. PICK label \in {"pop", "release"} :
        /\ Goto(t, label)
        /\ label = "pop" => Len(order) > MaxTraces
        /\ label = "release" => ~(Len(order) > MaxTraces)
  BY DEF LookForOldest, Traces!TooMany
<1>4. t \in Recorders /\ pc'[t] = label /\ \A u \in Thread \ {t} : pc'[u] = pc[u]
  BY <1>1, <1>3, RecordersMove DEF Recording
<1>5. InOrder'
  <2>1. \A u \in Thread : pc'[u] = "drop" => pc[u] = "drop"
    BY <1>4
  <2> QED
    BY <1>1, <1>2, <2>1 DEF TraceInv, InOrder
<1>6. ASSUME NEW i \in Listed, Findable(i) PROVE Findable(i)'
  BY <1>1, <1>4, <1>6 DEF Findable
<1>7. Len(order) \in Nat /\ MaxTraces \in Nat /\ recorded \in Nat /\ Len(order) <= recorded
  BY ConstantsAssumption DEF TraceInv, TraceTypes, InOrder, ConstantsAssumption
<1>8. CASE label = "pop"
  <2>1. Recorders' = Recorders
    BY <1>3, <1>4, <1>8, RecordersMove DEF Recording
  <2>2. ASSUME Untorn PROVE Untorn'
    BY <1>1, <1>2, <1>6, <2>1, <2>2 DEF Untorn
  <2>3. ASSUME Unmet PROVE Unmet'
    <3>1. Recorders = {t} /\ Progress(t)
      BY <1>4, <2>3 DEF Unmet
    <3>2. Progress(t)'
      BY <1>1, <1>2, <1>3, <1>4, <1>8, <3>1 DEF Progress
    <3> QED
      BY <2>1, <3>1, <3>2 DEF Unmet
  <2> QED
    BY <1>1, <1>2, <1>5, <2>2, <2>3 DEF TraceInv
<1>9. CASE label = "release"
  <2>1. Recorders' = Recorders \ {t}
    BY <1>3, <1>9, RecordersMove DEF Recording
  <2>2. Len(order) <= MaxTraces
    BY <1>3, <1>7, <1>9
  <2>3. ASSUME Untorn PROVE Untorn'
    <3>1. Cardinality(Recorders)' \in Nat
      BY <2>1, RecordersFinite, FS_RemoveElement, FS_CardinalityType
    <3>2. Len(order) <= MaxTraces + Cardinality(Recorders)'
      BY <1>7, <2>2, <3>1
    <3> QED
      BY <1>1, <1>2, <1>6, <2>3, <3>2 DEF Untorn
  <2>4. ASSUME Unmet PROVE Unmet'
    <3>1. Recorders = {t} /\ Progress(t)
      BY <1>4, <2>4 DEF Unmet
    <3>2. Recorders' = {}
      BY <2>1, <3>1
    <3>3. Len(order) >= Fill(recorded) /\ traces = Listed
      BY <1>1, <3>1 DEF Progress
    <3>4. Len(order) = Fill(recorded)
      BY <1>7, <2>2, <3>3, FillFacts
    <3> QED
      BY <1>1, <1>2, <3>2, <3>3, <3>4 DEF Unmet, Fill
  <2> QED
    BY <1>1, <1>2, <1>5, <2>3, <2>4 DEF TraceInv
<1> QED
  BY <1>8, <1>9

(* It takes the oldest off the list, or finds that others have taken all.   *)
LEMMA PopKeeps ==
  ASSUME Places, TraceInv, NEW t \in Thread, PopOldest(t)
  PROVE  TraceInv'
<1>1. pc[t] = "pop" /\ t \in Recorders
  BY DEF PopOldest, Recorders, Recording
<1>2. /\ order \in Seq(Nat) /\ recorded \in Nat /\ carried \in [Thread -> Nat] /\ traces \subseteq Nat
      /\ Len(order) \in Nat /\ Len(order) <= recorded /\ MaxTraces \in Nat
      /\ \A k \in 1..Len(order) : order[k] = Low + k
      /\ \A u \in Thread : pc[u] = "drop" => carried[u] <= Low
  BY ConstantsAssumption DEF TraceInv, TraceTypes, InOrder, ConstantsAssumption
<1>3. CASE order = <<>>
  <2>1. Goto(t, "release") /\ UNCHANGED <<order, traces, carried, recorded, met, torn>>
    BY <1>3 DEF PopOldest, traceVars
  <2>2. /\ Recorders' = Recorders \ {t}
        /\ pc'[t] = "release" /\ \A u \in Thread \ {t} : pc'[u] = pc[u]
    BY <2>1, RecordersMove DEF Recording
  <2>3. TraceTypes' /\ Low' = Low /\ Listed' = Listed
    BY <2>1 DEF TraceInv, TraceTypes, Low, Listed
  <2>4. InOrder'
    <3>1. \A u \in Thread : pc'[u] = "drop" => pc[u] = "drop"
      BY <2>2
    <3> QED
      BY <2>1, <2>3, <3>1 DEF TraceInv, InOrder
  <2>5. Len(order) = 0
    BY <1>3
  <2>6. ASSUME Untorn PROVE Untorn'
    <3>1. Cardinality(Recorders)' \in Nat
      BY <2>2, RecordersFinite, FS_RemoveElement, FS_CardinalityType
    <3>2. Len(order) <= MaxTraces + Cardinality(Recorders)'
      BY <1>2, <2>5, <3>1
    <3>3. ASSUME NEW i \in Listed, Findable(i) PROVE Findable(i)'
      BY <1>1, <2>1, <2>2, <3>3 DEF Findable
    <3> QED
      BY <2>1, <2>3, <2>6, <3>2, <3>3 DEF Untorn
  <2>7. ASSUME Unmet PROVE FALSE
    <3>1. Len(order) > MaxTraces
      BY <1>1, <2>7 DEF Unmet, Progress
    <3> QED
      BY <1>2, <2>5, <3>1
  <2> QED
    BY <2>1, <2>3, <2>4, <2>6, <2>7 DEF TraceInv
<1>4. CASE order # <<>>
  <2>1. /\ Goto(t, "drop") /\ order' = Tail(order) /\ carried' = [carried EXCEPT ![t] = Head(order)]
        /\ UNCHANGED <<traces, recorded, met, torn>>
    BY <1>4 DEF PopOldest, Traces!Pop
  <2>2. /\ Recorders' = Recorders
        /\ pc'[t] = "drop" /\ \A u \in Thread \ {t} : pc'[u] = pc[u]
    BY <1>1, <2>1, RecordersMove DEF Recording
  <2>3. /\ Len(order) >= 1 /\ Head(order) = Low + 1 /\ Head(order) \in Nat
        /\ order' \in Seq(Nat) /\ Len(order') = Len(order) - 1
        /\ \A k \in 1..Len(order') : order'[k] = order[k + 1]
    <3>1. Len(order) >= 1 /\ Head(order) = order[1] /\ order[1] \in Nat
      BY <1>2, <1>4
    <3>2. /\ order' \in Seq(Nat) /\ Len(order') = Len(order) - 1
          /\ \A k \in 1..Len(order') : order'[k] = order[k + 1]
      BY <1>2, <1>4, <2>1, HeadTailProperties
    <3> QED
      BY <1>2, <3>1, <3>2
  <2>4. Low' = Low + 1 /\ Low \in Nat
    BY <1>2, <2>1, <2>3 DEF Low
  <2>5. Listed = Listed' \cup {Low + 1} /\ Low' \notin Listed'
    <3>1. Low + 1 <= recorded
      BY <1>2, <2>3 DEF Low
    <3> QED
      BY <1>2, <2>1, <2>4, <3>1 DEF Listed
  <2>6. carried'[t] = Low' /\ \A u \in Thread \ {t} : carried'[u] = carried[u]
    BY <1>2, <2>1, <2>3, <2>4
  <2>7. TraceTypes'
    BY <1>2, <2>1, <2>3 DEF TraceInv, TraceTypes
  <2>8. InOrder'
    <3>1. Len(order') <= recorded'
      BY <1>2, <2>1, <2>3
    <3>2. ASSUME NEW k \in 1..Len(order') PROVE order'[k] = Low' + k
      <4>1. k \in Nat /\ k + 1 \in 1..Len(order)
        BY <1>2, <2>3
      <4>2. order'[k] = Low + (k + 1)
        BY <1>2, <2>3, <4>1
      <4> QED
        BY <2>4, <4>1, <4>2
    <3>3. ASSUME NEW u \in Thread, pc'[u] = "drop" PROVE carried'[u] <= Low'
      <4>1. CASE u = t
        BY <2>4, <2>6, <4>1
      <4>2. CASE u # t
        <5>1. carried[u] \in Nat /\ carried[u] <= Low /\ carried'[u] = carried[u]
          BY <1>2, <2>2, <2>6, <3>3, <4>2
        <5> QED
          BY <2>4, <5>1
      <4> QED
        BY <4>1, <4>2
    <3> QED
      BY <3>1, <3>2, <3>3 DEF InOrder
  <2>9. ASSUME Untorn PROVE Untorn'
    <3>1. Len(order') <= MaxTraces + Cardinality(Recorders)'
      BY <1>2, <2>2, <2>3, <2>9, RecordersFinite DEF Untorn
    <3>2. ASSUME NEW i \in Listed' PROVE Findable(i)'
      <4>1. CASE i \in traces
        BY <2>1, <4>1 DEF Findable
      <4>2. CASE i \notin traces
        <5>1. PICK u \in Thread : pc[u] = "store" /\ carried[u] = i
          BY <2>5, <2>9, <3>2, <4>2 DEF Untorn, Findable
        <5>2. u # t
          BY <1>1, <5>1
        <5> QED
          BY <2>2, <2>6, <5>1, <5>2 DEF Findable
      <4> QED
        BY <4>1, <4>2
    <3> QED
      BY <3>1, <3>2 DEF Untorn
  <2>10. ASSUME Unmet PROVE Unmet'
    <3>1. Recorders = {t} /\ Progress(t)
      BY <1>1, <2>10 DEF Unmet
    <3>2. Len(order) > MaxTraces /\ traces = Listed
      BY <1>1, <3>1 DEF Progress
    <3>3. Len(order') >= Fill(recorded')
      <4>1. Fill(recorded) \in Nat /\ Fill(recorded) <= MaxTraces
        BY <1>2, FillFacts
      <4>2. Len(order) - 1 >= Fill(recorded)
        BY <1>2, <3>2, <4>1
      <4> QED
        BY <2>1, <2>3, <4>2
    <3>4. traces' = Listed' \cup {Low'}
      BY <2>1, <2>4, <2>5, <3>2
    <3>5. Progress(t)'
      BY <2>2, <2>6, <3>3, <3>4 DEF Progress
    <3> QED
      BY <2>2, <3>1, <3>5 DEF Unmet
  <2> QED
    BY <2>1, <2>7, <2>8, <2>9, <2>10 DEF TraceInv
<1> QED
  BY <1>3, <1>4

(* It drops the trace it took off the list, and no other.                   *)
LEMMA DropKeeps ==
  ASSUME Places, TraceInv, NEW t \in Thread, DropOldest(t)
  PROVE  TraceInv'
<1>1. /\ pc[t] = "drop" /\ Goto(t, "evict") /\ traces' = traces \ {carried[t]}
      /\ carried' = [carried EXCEPT ![t] = 0] /\ UNCHANGED <<order, recorded, met, torn>>
  BY DEF DropOldest, Traces!Drop
<1>2. /\ t \in Recorders /\ Recorders' = Recorders
      /\ pc'[t] = "evict" /\ \A u \in Thread \ {t} : pc'[u] = pc[u]
  BY <1>1, RecordersMove DEF Recording
<1>3. carried \in [Thread -> Nat] /\ TraceTypes' /\ carried[t] <= Low /\ Low \in Int /\ recorded \in Nat
  <2>1. carried[t] <= Low
    BY <1>1 DEF TraceInv, InOrder
  <2>2. order \in Seq(Nat) /\ recorded \in Nat /\ carried \in [Thread -> Nat]
    BY DEF TraceInv, TraceTypes
  <2>3. Low \in Int
    BY <2>2 DEF Low
  <2>4. carried' \in [Thread -> Nat] /\ traces' \subseteq Nat
    BY <1>1, <2>2 DEF TraceInv, TraceTypes
  <2> QED
    BY <1>1, <2>1, <2>2, <2>3, <2>4 DEF TraceInv, TraceTypes
<1>4. Low' = Low /\ Listed' = Listed
  BY <1>1 DEF Low, Listed
<1>5. carried[t] \notin Listed /\ Low \notin Listed
  BY <1>3 DEF Listed
<1>6. InOrder'
  <2>1. ASSUME NEW u \in Thread, pc'[u] = "drop" PROVE carried'[u] <= Low
    <3>1. u # t /\ pc[u] = "drop" /\ carried'[u] = carried[u]
      BY <1>1, <1>2, <1>3, <2>1
    <3> QED
      BY <3>1 DEF TraceInv, InOrder
  <2> QED
    BY <1>1, <1>4, <2>1 DEF TraceInv, InOrder
<1>7. ASSUME Untorn PROVE Untorn'
  <2>1. ASSUME NEW i \in Listed PROVE Findable(i)'
    <3>1. CASE i \in traces
      BY <1>1, <1>5, <3>1 DEF Findable
    <3>2. CASE i \notin traces
      <4>1. PICK u \in Thread : pc[u] = "store" /\ carried[u] = i
        BY <1>7, <2>1, <3>2 DEF Untorn, Findable
      <4>2. u # t
        BY <1>1, <4>1
      <4> QED
        BY <1>1, <1>2, <1>3, <4>1, <4>2 DEF Findable
    <3> QED
      BY <3>1, <3>2
  <2> QED
    BY <1>1, <1>2, <1>4, <1>7, <2>1 DEF Untorn
<1>8. ASSUME Unmet PROVE Unmet'
  <2>1. Recorders = {t} /\ Progress(t)
    BY <1>2, <1>8 DEF Unmet
  <2>2. traces' = Listed
    <3>1. traces = Listed \cup {Low} /\ carried[t] = Low
      BY <1>1, <2>1 DEF Progress
    <3> QED
      BY <1>1, <1>5, <3>1
  <2>3. Progress(t)'
    BY <1>1, <1>2, <1>4, <2>1, <2>2 DEF Progress
  <2> QED
    BY <1>2, <2>1, <2>3 DEF Unmet
<1> QED
  BY <1>1, <1>3, <1>6, <1>7, <1>8 DEF TraceInv

(* An exception leaves record(): the list stays in order.                   *)
LEMMA LeaveKeepsTraces ==
  ASSUME Places, TraceInv, NEW t \in Thread, Traces!Leave(t), Goto(t, "release")
  PROVE  TraceInv'
<1>1. /\ carried' = [carried EXCEPT ![t] = 0] /\ torn' = TRUE
      /\ UNCHANGED <<order, traces, recorded, met>>
  BY DEF Traces!Leave
<1>2. TraceTypes' /\ Low' = Low /\ carried \in [Thread -> Nat]
  BY <1>1 DEF TraceInv, TraceTypes, Low
<1>3. pc'[t] = "release" /\ \A u \in Thread \ {t} : pc'[u] = pc[u]
  BY RecordersMove
<1>4. ASSUME NEW u \in Thread, pc'[u] = "drop" PROVE carried'[u] <= Low
  <2>1. u # t /\ pc[u] = "drop" /\ carried'[u] = carried[u]
    BY <1>1, <1>2, <1>3, <1>4
  <2> QED
    BY <2>1 DEF TraceInv, InOrder
<1>5. InOrder'
  BY <1>1, <1>2, <1>4 DEF TraceInv, InOrder
<1> QED
  BY <1>1, <1>2, <1>5 DEF TraceInv

(* Every step of a thread inside run() keeps the store as it should be.     *)
LEMMA StepKeepsTraces ==
  ASSUME Places, TraceInv, NEW t \in Thread, Step(t)
  PROVE  TraceInv'
<1>1. CASE RecordStep(t)
  BY <1>1, ListKeeps, StoreKeeps, LookKeepsTraces, PopKeeps, DropKeeps DEF RecordStep
<1>2. CASE ~RecordStep(t)
  <2>1. UNCHANGED traceVars /\ pc[t] \notin Recording
    BY <1>2 DEF Step, RecordStep, CheckQuota, RecordRun, TryAgain, Look, Create, Acquire, GiveBack,
                Start, Finish, CancelTimer, Recording
  <2>2. \E label : label \notin Recording /\ Goto(t, label)
    BY <1>2 DEF Step, RecordStep, CheckQuota, RecordRun, TryAgain, Look, Create, Acquire, GiveBack,
                Start, Finish, CancelTimer, Return, Raise, Recording
  <2> QED
    BY <2>1, <2>2, MoveAside
<1> QED
  BY <1>1, <1>2

(* And so does every other step.                                            *)
LEMMA NextTraces == CallInv /\ TraceInv /\ [Next]_vars => TraceInv'
<1> SUFFICES ASSUME Places, TraceInv, [Next]_vars PROVE TraceInv'
  BY DEF CallInv
<1>1. ASSUME UNCHANGED <<pc, traceVars>> PROVE TraceInv'
  BY <1>1, AsideTraces
<1>2. ASSUME NEW t \in Thread, NEW label, Goto(t, label), UNCHANGED traceVars,
             pc[t] \notin Recording, label \notin Recording
      PROVE  TraceInv'
  BY <1>2, MoveAside
<1>3. Daemon \in Thread /\ Worker \subseteq Thread
  BY DEF Thread
<1>4. CASE Loop
  <2>1. UNCHANGED traceVars /\ pc[Daemon] \notin Recording
    BY <1>4 DEF Loop, StartTick, RunNext, Requeue, EndTick, Recording
  <2>2. \E label : label \notin Recording /\ Goto(Daemon, label)
    BY <1>4 DEF Loop, StartTick, RunNext, Requeue, EndTick, Enter, Recording
  <2> QED
    BY <1>2, <1>3, <2>1, <2>2
<1>5. ASSUME NEW t \in Thread, Step(t) PROVE TraceInv'
  BY <1>5, StepKeepsTraces
<1>6. ASSUME NEW t \in Worker, NEW j \in Job, Call(t, j) PROVE TraceInv'
  <2>1. UNCHANGED traceVars /\ pc[t] \notin Recording
    BY <1>6 DEF Call, Recording
  <2>2. \E label : label \notin Recording /\ Goto(t, label)
    BY <1>6 DEF Call, Enter, Recording
  <2> QED
    BY <1>2, <1>3, <2>1, <2>2
<1>7. CASE Alarm
  <2>1. /\ UNCHANGED traceVars /\ pc[Daemon] \notin Recording
        /\ Goto(Daemon, "release") /\ "release" \notin Recording
    BY <1>7 DEF Alarm, Unwind, Recording
  <2> QED
    BY <1>2, <1>3, <2>1
<1>8. ASSUME NEW t \in Worker, Land(t) PROVE TraceInv'
  <2>1. CASE pc[t] \in {"run", "timer", "trace"} /\ Unwind(t) /\ UNCHANGED traceVars
    <3>1. pc[t] \notin Recording /\ Goto(t, "release") /\ "release" \notin Recording
      BY <2>1 DEF Unwind, Recording
    <3> QED
      BY <1>2, <1>3, <2>1, <3>1
  <2>2. CASE Unwind(t) /\ Traces!Leave(t)
    BY <1>3, <2>2, LeaveKeepsTraces DEF Unwind
  <2>3. CASE /\ pc[t] \in {"held", "release", "check", "look", "create", "get", "back"}
             /\ Raise(t) /\ UNCHANGED traceVars
    <3>1. pc[t] \notin Recording
      BY <2>3 DEF Recording
    <3>2. \E label : label \notin Recording /\ Goto(t, label)
      BY <2>3 DEF Raise, Recording
    <3> QED
      BY <1>2, <1>3, <2>3, <3>1, <3>2
  <2>4. CASE UNCHANGED <<pc, traceVars>>
    BY <1>1, <2>4
  <2> QED
    BY <1>8, <2>1, <2>2, <2>3, <2>4 DEF Land
<1>9. CASE \/ \E t \in Worker : TimerFires(t)
           \/ \E j \in Job : Remaining(j)
           \/ AdvanceClock \/ UNCHANGED vars
  <2>1. UNCHANGED <<pc, traceVars>>
    BY <1>9 DEF TimerFires, Remaining, AdvanceClock, vars
  <2> QED
    BY <1>1, <2>1
<1> QED
  BY <1>4, <1>5, <1>6, <1>7, <1>8, <1>9 DEF Next

(* The invariant of the trace store, with where each call of record() has   *)
(* got to: the list is a stretch of ids up to the last, an id that is being *)
(* dropped has left it, and while calls neither meet nor are left by an     *)
(* exception the dictionary differs from it by the one trace that is being  *)
(* stored or dropped (job_tracing.py:66-72).                                *)
THEOREM TraceInvHolds == Spec => []TraceInv
<1>1. Init => TraceInv
  <2> SUFFICES ASSUME Init PROVE TraceInv
    OBVIOUS
  <2>1. /\ recorded = 0 /\ order = <<>> /\ traces = {} /\ carried = [t \in Thread |-> 0]
        /\ met = FALSE /\ torn = FALSE
    BY DEF Init, Traces!Init
  <2>2. Len(order) = 0 /\ Low = 0 /\ Listed = {} /\ order \in Seq(Nat)
    <3>1. order = <<>> /\ Len(order) = 0 /\ order \in Seq(Nat)
      BY <2>1, EmptySeq
    <3>2. Low = 0
      <4>1. Low = 0 - 0
        BY <2>1, <3>1, Zenon DEF Low
      <4> QED
        BY <4>1
    <3> QED
      BY <2>1, <3>1, <3>2 DEF Listed
  <2>3. Recorders = {} /\ \A t \in Thread : pc[t] = "idle"
    BY DEF Init, Recorders, Recording
  <2>4. Fill(0) = 0 /\ MaxTraces \in Nat
    BY ConstantsAssumption DEF Fill, ConstantsAssumption
  <2>5. TraceTypes /\ InOrder
    <3>1. carried \in [Thread -> Nat]
      BY <2>1
    <3>2. TraceTypes
      BY <2>1, <2>2, <3>1 DEF TraceTypes
    <3>3. InOrder
      BY <2>1, <2>2, <2>3 DEF InOrder
    <3> QED
      BY <3>2, <3>3
  <2>6. Untorn
    BY <2>2, <2>4, RecordersFinite DEF Untorn
  <2>7. Unmet
    BY <2>1, <2>2, <2>3, <2>4 DEF Unmet
  <2> QED
    BY <2>5, <2>6, <2>7 DEF TraceInv
<1> QED
  BY <1>1, NextTraces, CallInvHolds, PTL DEF Spec

(* TraceStore.record keeps the newest traces in their order, for any number *)
(* of threads that interleave anywhere in it; its list is too long by no    *)
(* more than the calls under way, and what it lists can be found; and list  *)
(* and dictionary are in step between calls that have not met               *)
(* (job_tracing.py:66-72).                                                  *)
THEOREM TracesAreNewestHolds == Spec => []TracesAreNewest
<1>1. TraceInv => TracesAreNewest
  <2> SUFFICES ASSUME TraceInv PROVE TracesAreNewest
    OBVIOUS
  <2>1. /\ order \in Seq(Nat) /\ recorded \in Nat /\ Len(order) \in Nat
        /\ Len(order) <= recorded /\ DOMAIN order = 1..Len(order)
        /\ \A k \in 1..Len(order) : order[k] = recorded - Len(order) + k
    BY DEF TraceInv, TraceTypes, InOrder, Low
  <2>2. Listed = {order[k] : k \in DOMAIN order}
    <3>1. ASSUME NEW k \in 1..Len(order) PROVE order[k] \in Listed
      BY <2>1 DEF Listed, Low
    <3>2. ASSUME NEW i \in Listed PROVE \E k \in 1..Len(order) : i = order[k]
      <4>1. i - Low \in 1..Len(order) /\ i = recorded - Len(order) + (i - Low)
        BY <2>1 DEF Listed, Low
      <4> QED
        BY <2>1, <4>1
    <3> QED
      BY <2>1, <3>1, <3>2
  <2>3. ASSUME ~torn
        PROVE  /\ Len(order) <= MaxTraces + Cardinality(Recorders)
               /\ \A k \in DOMAIN order :
                    order[k] \in traces \/ \E t \in Thread : pc[t] = "store" /\ carried[t] = order[k]
    BY <2>2, <2>3 DEF TraceInv, Untorn, Findable
  <2>4. ASSUME ~torn, ~met, Recorders = {}
        PROVE  /\ Len(order) = IF recorded < MaxTraces THEN recorded ELSE MaxTraces
               /\ traces = {order[k] : k \in DOMAIN order}
    BY <2>2, <2>4 DEF TraceInv, Unmet, Fill
  <2> QED
    BY <2>1, <2>3, <2>4 DEF TracesAreNewest
<1> QED
  BY <1>1, TraceInvHolds, PTL

(* Every variable has its type, from the invariants of the calls, the slots *)
(* and the traces.                                                          *)
THEOREM TypeOKHolds == Spec => []TypeOK
<1>1. CallInv /\ SlotInv /\ TraceInv => TypeOK
  <2> SUFFICES ASSUME CallInv, SlotInv, TraceInv PROVE TypeOK
    OBVIOUS
  <2>1. TraceTypes
    BY DEF TraceInv
  <2>2. slots \in [Job -> Nat \cup {NoSem}] /\ leaked \in [Job -> Nat]
    BY DEF SlotInv, Typing
  <2>3. /\ heap \in Seq(Queue!Entry) /\ due \in Seq(Queue!Entry) /\ tickNow \in Nat
        /\ dropped \subseteq Job
        /\ \A k \in 1 .. Len(heap) - 1 : heap[k].at <= heap[k + 1].at
    BY DEF CallInv, QueueInv, QueueTyping, Ordered
  <2>4. pc \in [Thread -> {"idle", "next", "requeue", "check", "look", "create", "get",
                           "held", "run", "timer", "trace", "store", "evict", "pop", "drop",
               "release", "back"}]
    <3>1. Running \cup {"idle", "next", "requeue"}
            = {"idle", "next", "requeue", "check", "look", "create", "get",
               "held", "run", "timer", "trace", "store", "evict", "pop", "drop",
               "release", "back"}
      BY DEF Running
    <3> QED
      BY <3>1 DEF CallInv, Places
  <2>5. job \in [Thread -> Job \cup {NoJob}]
    BY DEF CallInv, Places
  <2>6. Data
    BY DEF CallInv
  <2> QED
    BY <2>1, <2>2, <2>3, <2>4, <2>5, <2>6 DEF TypeOK, Data, TraceTypes
<1> QED
  BY <1>1, CallInvHolds, SlotInvHolds, TraceInvHolds, PTL

-----------------------------------------------------------------------------
(* The quota.  A list w of the tracker covers the runs v of a job from the  *)
(* time c on: f leads from its entries to runs, and to all of those.        *)
Covers(f, w, v, c) ==
    /\ f \in [1..Len(w) -> 1..Len(v)]
    /\ \A k \in 1..Len(w) : w[k] = v[f[k]]
    /\ \A i \in 1..Len(v) : v[i] >= c => \E k \in 1..Len(w) : f[k] = i

Covered(w, v, c) == \E f : Covers(f, w, v, c)

(* The runs from a time on; and the budget, of a list of runs.              *)
Since(v, c) == {k \in 1..Len(v) : v[k] >= c}
Stretch(v, i) == {k \in 1..Len(v) : v[k] \in v[i] .. v[i] + Window}
Within(v, m) == \A i \in 1..Len(v) : Cardinality(Stretch(v, i)) <= m

(* What is covered from a time on is covered from any later time on.        *)
LEMMA CoversLater ==
  ASSUME NEW w, NEW v \in Seq(Nat), NEW c \in Int, NEW d \in Int, c <= d, Covered(w, v, c)
  PROVE  Covered(w, v, d)
<1>1. PICK f : Covers(f, w, v, c)
  BY DEF Covered
<1>2. \A i \in 1..Len(v) : v[i] \in Nat
  OBVIOUS
<1>3. \A i \in 1..Len(v) : v[i] >= d => v[i] >= c
  BY <1>2
<1>4. Covers(f, w, v, d)
  BY <1>1, <1>3 DEF Covers
<1> QED
  BY <1>4 DEF Covered

(* An eviction loses nothing that is recent.                                *)
LEMMA CoversEvicted ==
  ASSUME NEW w \in Seq(Nat), NEW v \in Seq(Nat), NEW u \in Seq(Nat), NEW c \in Int,
         Covered(w, v, c), NEW p, Picks(p, u, w, {t \in Nat : t >= c})
  PROVE  Covered(u, v, c)
<1> DEFINE Fresh == {t \in Nat : t >= c}
<1>1. PICK f : Covers(f, w, v, c)
  BY DEF Covered
<1>2. /\ p \in [1..Len(u) -> 1..Len(w)]
      /\ \A k \in 1..Len(u) : u[k] = w[p[k]]
      /\ \A i \in 1..Len(w) : w[i] \in Fresh => \E k \in 1..Len(u) : p[k] = i
  BY DEF Picks
<1>3. \A i \in 1..Len(v) : v[i] \in Nat
  OBVIOUS
<1> DEFINE g == [k \in 1..Len(u) |-> f[p[k]]]
<1>4. g \in [1..Len(u) -> 1..Len(v)] /\ \A k \in 1..Len(u) : u[k] = v[g[k]]
  BY <1>1, <1>2 DEF Covers
<1>5. ASSUME NEW i \in 1..Len(v), v[i] >= c PROVE \E k \in 1..Len(u) : g[k] = i
  <2>1. PICK l \in 1..Len(w) : f[l] = i
    BY <1>1, <1>5 DEF Covers
  <2>2. w[l] = v[i]
    BY <1>1, <2>1 DEF Covers
  <2>3. w[l] \in Fresh
    BY <1>3, <1>5, <2>2
  <2>4. PICK k \in 1..Len(u) : p[k] = l
    BY <1>2, <2>3
  <2> QED
    BY <2>1, <2>4
<1>6. Covers(g, u, v, c)
  BY <1>4, <1>5 DEF Covers
<1> QED
  BY <1>6 DEF Covered

(* A run is added to both.                                                  *)
LEMMA CoversAppend ==
  ASSUME NEW w \in Seq(Nat), NEW v \in Seq(Nat), NEW x \in Nat, NEW c \in Int,
         Covered(w, v, c)
  PROVE  Covered(Append(w, x), Append(v, x), c)
<1>1. PICK f : Covers(f, w, v, c)
  BY DEF Covered
<1> DEFINE m == Len(w) + 1
           n == Len(v) + 1
           w2 == Append(w, x)
           v2 == Append(v, x)
           g == [k \in 1..m |-> IF k = m THEN n ELSE f[k]]
<1>2. /\ Len(w2) = m /\ w2[m] = x /\ \A k \in 1..Len(w) : w2[k] = w[k]
      /\ Len(v2) = n /\ v2[n] = x /\ \A k \in 1..Len(v) : v2[k] = v[k]
      /\ Len(w) \in Nat /\ Len(v) \in Nat
  OBVIOUS
<1>3. /\ \A k \in 1..m : k = m \/ k \in 1..Len(w)
      /\ \A k \in 1..n : k = n \/ k \in 1..Len(v)
      /\ m \in 1..m /\ n \in 1..n /\ 1..Len(w) \subseteq 1..m /\ 1..Len(v) \subseteq 1..n
      /\ m \notin 1..Len(w)
  BY <1>2
<1>4. g[m] = n /\ \A k \in 1..Len(w) : g[k] = f[k]
  BY <1>3
<1> HIDE DEF w2, v2
<1>5. \A k \in 1..Len(w) : f[k] \in 1..Len(v) /\ w[k] = v[f[k]]
  BY <1>1 DEF Covers
<1>6. ASSUME NEW k \in 1..m PROVE g[k] \in 1..n /\ w2[k] = v2[g[k]]
  <2> HIDE DEF g, m, n
  <2>1. CASE k = m
    BY <1>2, <1>3, <1>4, <2>1
  <2>2. CASE k \in 1..Len(w)
    <3>1. g[k] = f[k] /\ f[k] \in 1..Len(v) /\ f[k] \in 1..n
      BY <1>3, <1>4, <1>5, <2>2
    <3>2. v2[f[k]] = v[f[k]] /\ w2[k] = w[k]
      BY <1>2, <2>2, <3>1
    <3> QED
      BY <1>5, <2>2, <3>1, <3>2
  <2> QED
    BY <1>3, <2>1, <2>2
<1>7. g \in [1..m -> 1..n]
  BY <1>6
<1> HIDE DEF g
<1>8. ASSUME NEW i \in 1..n, v2[i] >= c PROVE \E k \in 1..m : g[k] = i
  <2>1. CASE i = n
    BY <1>3, <1>4, <2>1
  <2>2. CASE i \in 1..Len(v)
    <3>1. PICK k \in 1..Len(w) : f[k] = i
      BY <1>1, <1>2, <1>8, <2>2 DEF Covers
    <3> QED
      BY <1>3, <1>4, <3>1
  <2> QED
    BY <1>3, <2>1, <2>2
<1>9. Covers(g, w2, v2, c)
  BY <1>2, <1>6, <1>7, <1>8 DEF Covers
<1> QED
  BY <1>9 DEF Covered, w2, v2

(* A list that covers the recent runs is at least as long as they are many. *)
LEMMA CoversCount ==
  ASSUME NEW w \in Seq(Nat), NEW v \in Seq(Nat), NEW c \in Int, Covered(w, v, c)
  PROVE  Cardinality(Since(v, c)) <= Len(w)
<1>1. PICK f : Covers(f, w, v, c)
  BY DEF Covered
<1> DEFINE D == {k \in 1..Len(w) : f[k] \in Since(v, c)}
           g == [k \in D |-> f[k]]
<1>2. g \in Surjection(D, Since(v, c))
  <2>1. g \in [D -> Since(v, c)]
    OBVIOUS
  <2>2. ASSUME NEW i \in Since(v, c) PROVE \E k \in D : g[k] = i
    <3>1. PICK k \in 1..Len(w) : f[k] = i
      BY <1>1 DEF Covers, Since
    <3> QED
      BY <3>1
  <2> HIDE DEF g, D
  <2> QED
    BY <2>1, <2>2 DEF Surjection
<1>3. IsFiniteSet(1..Len(w)) /\ Cardinality(1..Len(w)) = Len(w) /\ Len(w) \in Nat
  <2>1. 1 \in Int /\ Len(w) \in Int /\ Len(w) \in Nat
    OBVIOUS
  <2>2. IsFiniteSet(1..Len(w)) /\ Cardinality(1..Len(w)) = IF 1 > Len(w) THEN 0 ELSE Len(w) - 1 + 1
    BY <2>1, FS_Interval
  <2> QED
    BY <2>1, <2>2
<1>4. IsFiniteSet(D) /\ Cardinality(D) <= Len(w)
  <2>1. D \in SUBSET (1..Len(w))
    OBVIOUS
  <2> HIDE DEF D
  <2> QED
    BY <1>3, <2>1, FS_Subset
<1> HIDE DEF D, g
<1>5. /\ IsFiniteSet(Since(v, c))
      /\ Cardinality(Since(v, c)) <= Cardinality(D)
  BY <1>2, <1>4, FS_Surjection
<1>6. Cardinality(Since(v, c)) \in Nat /\ Cardinality(D) \in Nat
  BY <1>4, <1>5, FS_CardinalityType
<1> QED
  BY <1>3, <1>4, <1>5, <1>6

(* Parts of a list of runs are finite.                                      *)
LEMMA PartFinite ==
  ASSUME NEW v \in Seq(Nat), NEW S \in SUBSET (1..Len(v))
  PROVE  IsFiniteSet(S) /\ Cardinality(S) \in Nat
<1>1. 1 \in Int /\ Len(v) \in Int
  OBVIOUS
<1>2. IsFiniteSet(1..Len(v))
  BY <1>1, FS_Interval
<1> QED
  BY <1>2, FS_Subset, FS_CardinalityType

(* A run whose recent ones are fewer than the budget keeps to it: whatever  *)
(* stretch it falls into has only recent runs in it.                        *)
LEMMA WithinAppend ==
  ASSUME NEW v \in Seq(Nat), NEW x \in Nat, NEW m \in Nat,
         Within(v, m), Cardinality(Since(v, x - Window)) < m
  PROVE  Within(Append(v, x), m)
<1> DEFINE n == Len(v) + 1
           u == Append(v, x)
           R == Since(v, x - Window)
<1>1. /\ Len(u) = n /\ u[n] = x /\ \A k \in 1..Len(v) : u[k] = v[k] /\ v[k] \in Nat
      /\ Len(v) \in Nat /\ n \in 1..n /\ n \notin 1..Len(v)
      /\ \A k \in 1..n : k = n \/ k \in 1..Len(v)
      /\ 1..Len(v) \subseteq 1..n
  OBVIOUS
<1>2. Window \in Nat
  BY ConstantsAssumption DEF ConstantsAssumption
<1> HIDE DEF u, n
<1>3. R \in SUBSET (1..Len(v))
  BY DEF Since
<1>4. IsFiniteSet(R) /\ Cardinality(R) \in Nat /\ n \notin R
  BY <1>1, <1>3, PartFinite
<1>5. IsFiniteSet(R \cup {n}) /\ Cardinality(R \cup {n}) = Cardinality(R) + 1
  BY <1>4, FS_AddElement
<1>6. Cardinality(R) < m
  OBVIOUS
<1>7. ASSUME NEW S, S \subseteq R \cup {n} PROVE Cardinality(S) <= m
  <2>1. IsFiniteSet(S) /\ Cardinality(S) <= Cardinality(R \cup {n})
    BY <1>5, <1>7, FS_Subset
  <2>2. Cardinality(S) \in Nat
    BY <2>1, FS_CardinalityType
  <2> HIDE DEF R
  <2> QED
    BY <1>4, <1>5, <1>6, <2>1, <2>2
<1>8. ASSUME NEW i \in 1..n PROVE Cardinality(Stretch(u, i)) <= m
  <2>1. CASE i = n
    <3>1. ASSUME NEW k \in Stretch(u, i) PROVE k \in R \cup {n}
      <4>1. k \in 1..n /\ u[k] \in x .. x + Window
        BY <1>1, <2>1 DEF Stretch
      <4>2. CASE k = n
        BY <4>2
      <4>3. CASE k \in 1..Len(v)
        <5>1. v[k] >= x - Window
          BY <1>1, <1>2, <4>1, <4>3
        <5> QED
          BY <4>3, <5>1 DEF Since
      <4> QED
        BY <1>1, <4>1, <4>2, <4>3
    <3> QED
      BY <1>7, <3>1
  <2>2. CASE i \in 1..Len(v) /\ x \in v[i] .. v[i] + Window
    <3>1. ASSUME NEW k \in Stretch(u, i) PROVE k \in R \cup {n}
      <4>1. k \in 1..n /\ u[k] \in v[i] .. v[i] + Window
        BY <1>1, <2>2 DEF Stretch
      <4>2. CASE k = n
        BY <4>2
      <4>3. CASE k \in 1..Len(v)
        <5>1. v[k] \in Nat /\ v[i] \in Nat /\ v[k] >= v[i] /\ x <= v[i] + Window
          BY <1>1, <1>2, <2>2, <4>1, <4>3
        <5>2. v[k] >= x - Window
          BY <1>2, <5>1
        <5> QED
          BY <4>3, <5>2 DEF Since
      <4> QED
        BY <1>1, <4>1, <4>2, <4>3
    <3> QED
      BY <1>7, <3>1
  <2>3. CASE i \in 1..Len(v) /\ x \notin v[i] .. v[i] + Window
    <3>1. Stretch(u, i) = Stretch(v, i)
      <4>1. ASSUME NEW k PROVE k \in Stretch(u, i) <=> k \in Stretch(v, i)
        BY <1>1, <2>3 DEF Stretch
      <4> QED
        BY <4>1
    <3> QED
      BY <2>3, <3>1 DEF Within
  <2> QED
    BY <1>1, <2>1, <2>2, <2>3
<1> QED
  BY <1>1, <1>8 DEF Within, u

(* A job that was never run twice at once: its thread, once the check has   *)
(* passed, knows the recent runs to be fewer than the budget; until then    *)
(* what it has read of the tracker covers them.                             *)
Checked(t, j) ==
    IF pc[t] = "check" THEN Covered(kept[t], won[j], began[t] - Window)
                       ELSE Cardinality(Since(won[j], began[t] - Window)) < MaxRuns[j]

Counted(j) ==
    /\ Covered(timestamps[j], won[j], now - Window)
    /\ Within(won[j], MaxRuns[j])
    /\ \A t, u \in Busy(j) : t = u
    /\ outer = "quota" => \A t \in Busy(j) : Checked(t, j)

Unhurried == \A t \in Thread : began[t] <= now

(* Only under a quota is there a check.                                     *)
ChecksAreQuotas == \A t \in Thread : pc[t] = "check" => outer = "quota"

QuotaInv == Unhurried /\ ChecksAreQuotas /\ \A j \in Job \ overlap : MaxRuns[j] > 0 => Counted(j)

(* A step that nobody begins a call for job j in, nor is checked in.        *)
Quiet(j) ==
    \A t \in Thread : t \in Busy(j)' =>
        /\ t \in Busy(j) /\ began'[t] = began[t]
        /\ pc'[t] = "check" <=> pc[t] = "check"
        /\ pc'[t] = "check" => kept'[t] = kept[t]

(* Such a step keeps the count of the job.                                  *)
LEMMA QuietKeeps ==
  ASSUME NEW j \in Job, Counted(j), Quiet(j), won'[j] = won[j], outer' = outer,
         Covered(timestamps'[j], won[j], now' - Window)
  PROVE  Counted(j)'
<1>1. Covered(timestamps[j], won[j], now - Window)' /\ Within(won[j], MaxRuns[j])'
  BY DEF Counted
<1>2. \A t \in Busy(j)' : t \in Thread
  BY DEF Busy
<1>3. \A t, u \in Busy(j)' : t = u
  BY <1>2 DEF Quiet, Counted
<1>4. ASSUME outer' = "quota", NEW t \in Busy(j)' PROVE Checked(t, j)'
  BY <1>2, <1>4 DEF Quiet, Counted, Checked
<1> QED
  BY <1>1, <1>3, <1>4 DEF Counted

(* The clock does not disturb what the tracker covers.                      *)
LEMMA ClockCovers ==
  ASSUME Data, NEW j \in Job, Covered(timestamps[j], won[j], now - Window),
         now' \in Nat, now <= now', timestamps'[j] = timestamps[j]
  PROVE  Covered(timestamps'[j], won[j], now' - Window)
<1>1. won[j] \in Seq(Nat) /\ now \in Nat /\ Window \in Nat
  BY ConstantsAssumption DEF Data, ConstantsAssumption
<1>2. \A m, n \in Nat : m <= n => m - Window \in Int /\ n - Window \in Int /\ m - Window <= n - Window
  BY <1>1
<1>3. now - Window \in Int /\ now' - Window \in Int /\ now - Window <= now' - Window
  BY <1>1, <1>2
<1> QED
  BY <1>1, <1>3, CoversLater

(* Which threads are busy with a job.                                       *)
LEMMA BusyFacts ==
  ASSUME Places, NEW j \in Job, NEW t
  PROVE  t \in Busy(j) <=> t \in Thread /\ job[t] = j
BY DEF Busy, Places, Running

(* And which will be.                                                       *)
LEMMA NextBusyFacts ==
  ASSUME Places', NEW j \in Job, NEW t
  PROVE  t \in Busy(j)' <=> t \in Thread /\ job'[t] = j
BY DEF Busy, Places, Running

(* What is quiet about the steps of a thread.                               *)
LEMMA MoveQuiet ==
  ASSUME Places, Places', NEW t \in Thread, NEW label, Goto(t, label),
         pc[t] = "check" => job[t] \notin Job,
         label # "check",
         UNCHANGED <<job, began, kept>>, NEW j \in Job
  PROVE  Quiet(j)
<1>1. ASSUME NEW u \in Thread, u \in Busy(j)'
      PROVE  /\ u \in Busy(j) /\ began'[u] = began[u]
             /\ pc'[u] = "check" <=> pc[u] = "check"
             /\ pc'[u] = "check" => kept'[u] = kept[u]
  <2>1. job'[u] = j /\ job[u] = j /\ u \in Busy(j)
    BY <1>1, BusyFacts, NextBusyFacts
  <2>2. pc'[u] = "check" <=> pc[u] = "check"
    BY <2>1 DEF Goto, Places
  <2> QED
    BY <2>1, <2>2
<1> QED
  BY <1>1 DEF Quiet

(* A call that ends is quiet,                                               *)
LEMMA LeaveQuiet ==
  ASSUME Places, Places', Data, NEW t \in Thread, Return(t) \/ Raise(t), NEW j \in Job
  PROVE  Quiet(j)
<1>1. PICK label : Goto(t, label)
  BY DEF Return, Raise
<1>2. /\ job' = [job EXCEPT ![t] = NoJob]
      /\ began' = [began EXCEPT ![t] = 0]
      /\ kept' = [kept EXCEPT ![t] = <<>>]
  BY DEF Return, Raise, Forget
<1>3. NoJob \notin Job
  BY ConstantsAssumption DEF ConstantsAssumption
<1>4. ASSUME NEW u \in Thread, u \in Busy(j)'
      PROVE  /\ u \in Busy(j) /\ began'[u] = began[u]
             /\ pc'[u] = "check" <=> pc[u] = "check"
             /\ pc'[u] = "check" => kept'[u] = kept[u]
  <2>1. job'[u] = j /\ u # t
    BY <1>2, <1>3, <1>4, NextBusyFacts DEF Places
  <2>2. pc'[u] = pc[u] /\ began'[u] = began[u] /\ kept'[u] = kept[u] /\ job[u] = j
    BY <1>1, <1>2, <2>1 DEF Goto, Places, Data
  <2> QED
    BY <2>2, BusyFacts
<1> QED
  BY <1>4 DEF Quiet

(* a call that begins is, to the other jobs,                                *)
LEMMA EnterQuiet ==
  ASSUME Places, Places', Data, NEW t \in Thread, NEW i \in Job, Enter(t, i),
         NEW j \in Job, i # j
  PROVE  Quiet(j)
<1>1. PICK label : Goto(t, label)
  BY DEF Enter
<1>2. job' = [job EXCEPT ![t] = i]
  BY DEF Enter
<1>3. /\ began' = began \/ began' = [began EXCEPT ![t] = now]
      /\ \E k : kept' = kept \/ kept' = [kept EXCEPT ![t] = k]
  BY DEF Enter
<1>4. ASSUME NEW u \in Thread, u \in Busy(j)'
      PROVE  /\ u \in Busy(j) /\ began'[u] = began[u]
             /\ pc'[u] = "check" <=> pc[u] = "check"
             /\ pc'[u] = "check" => kept'[u] = kept[u]
  <2>1. job'[u] = j /\ u # t
    BY <1>2, <1>4, NextBusyFacts DEF Places
  <2>2. pc'[u] = pc[u] /\ began'[u] = began[u] /\ kept'[u] = kept[u] /\ job[u] = j
    BY <1>1, <1>2, <1>3, <2>1 DEF Goto, Places, Data
  <2> QED
    BY <2>2, BusyFacts
<1> QED
  BY <1>4 DEF Quiet

(* and so is a step in which no thread moves.                               *)
LEMMA StillQuiet ==
  ASSUME UNCHANGED <<pc, job, began, kept>>, NEW j \in Job
  PROVE  Quiet(j)
BY DEF Quiet, Busy

(* run() begins: what it reads of the tracker covers the recent runs.       *)
LEMMA EnterCounted ==
  ASSUME Places, Places', Data, NEW t \in Thread, NEW j \in Job, Enter(t, j),
         Counted(j), j \notin overlap', MaxRuns[j] > 0,
         UNCHANGED <<now, outer, timestamps>>
  PROVE  Counted(j)'
<1>1. /\ Busy(j) = {} /\ won' = won /\ job' = [job EXCEPT ![t] = j]
  BY DEF Enter
<1>2. Busy(j)' = {t}
  <2>1. ASSUME NEW u PROVE u \in Busy(j)' <=> u = t
    <3>1. u \in Thread /\ job[u] = j => u \in Busy(j)
      BY BusyFacts
    <3>2. u \in Busy(j)' <=> u \in Thread /\ job'[u] = j
      BY NextBusyFacts
    <3> QED
      BY <1>1, <3>1, <3>2 DEF Places
  <2> QED
    BY <2>1
<1>3. ASSUME outer = "quota" PROVE Checked(t, j)'
  <2>1. /\ began' = [began EXCEPT ![t] = now]
        /\ kept' = [kept EXCEPT ![t] = Tracker!Evict(j)]
        /\ Goto(t, "check")
    BY <1>3 DEF Enter, Tracker!Limited
  <2>2. pc'[t] = "check" /\ began'[t] = now /\ kept'[t] = Tracker!Evict(j)
    BY <2>1 DEF Goto, Places, Data
  <2>3. /\ timestamps[j] \in Seq(Nat) /\ won[j] \in Seq(Nat) /\ now - Window \in Int
    BY ConstantsAssumption DEF Data, ConstantsAssumption
  <2>4. /\ Tracker!Evict(j) \in Seq(Nat)
        /\ \E p : Picks(p, Tracker!Evict(j), timestamps[j], {x \in Nat : x >= now - Window})
    BY <2>3, EvictFacts
  <2>5. Covered(Tracker!Evict(j), won[j], now - Window)
    BY <2>3, <2>4, CoversEvicted DEF Counted
  <2> QED
    BY <1>1, <2>2, <2>5 DEF Checked
<1>4. Covered(timestamps[j], won[j], now - Window)' /\ Within(won[j], MaxRuns[j])'
  BY <1>1 DEF Counted
<1>5. \A u, v \in Busy(j)' : u = v
  BY <1>2
<1>6. outer' = "quota" => \A u \in Busy(j)' : Checked(u, j)'
  BY <1>2, <1>3
<1> QED
  BY <1>4, <1>5, <1>6 DEF Counted

(* check() stores what it has read, and refuses a run that is too many.     *)
LEMMA CheckCounted ==
  ASSUME Places, Places', Data, Unhurried, ChecksAreQuotas, NEW t \in Thread, CheckQuota(t),
         NEW j \in Job, job[t] = j, Counted(j), MaxRuns[j] > 0
  PROVE  Counted(j)'
<1>1. /\ pc[t] = "check" /\ timestamps' = [timestamps EXCEPT ![j] = kept[t]]
      /\ UNCHANGED <<now, outer, won>>
  BY DEF CheckQuota, Tracker!Store
<1>2. t \in Busy(j) /\ Busy(j) = {t}
  BY BusyFacts DEF Counted, Busy
<1>3. /\ kept[t] \in Seq(Nat) /\ won[j] \in Seq(Nat) /\ now \in Nat /\ began[t] \in Nat
      /\ Window \in Nat /\ began[t] <= now
  BY ConstantsAssumption DEF Data, ConstantsAssumption, Unhurried
<1>4. /\ began[t] - Window \in Int /\ now - Window \in Int
      /\ began[t] - Window <= now - Window
  BY <1>3
<1>5. timestamps'[j] = kept[t]
  BY <1>1 DEF Data
<1>6. CASE outer = "quota"
  <2>1. Covered(kept[t], won[j], began[t] - Window)
    BY <1>1, <1>2, <1>6 DEF Counted, Checked
  <2>2. Covered(kept[t], won[j], now - Window)
    BY <1>3, <1>4, <2>1, CoversLater
  <2>3. CASE Return(t)
    <3>1. Quiet(j)
      BY <2>3, LeaveQuiet
    <3> QED
      BY <1>1, <1>5, <2>2, <3>1, QuietKeeps
  <2>4. CASE ~Tracker!Exceeded(j, kept[t])
    <3>1. Goto(t, "look") /\ job' = job /\ began' = began
      BY <2>4 DEF CheckQuota
    <3>2. Busy(j)' = {t} /\ pc'[t] = "look"
      <4>1. \A u : u \in Busy(j)' <=> u \in Busy(j)
        BY <3>1, BusyFacts, NextBusyFacts
      <4> QED
        BY <1>2, <3>1, <4>1 DEF Goto, Places
    <3>3. Cardinality(Since(won[j], began[t] - Window)) <= Len(kept[t])
      BY <1>3, <1>4, <2>1, CoversCount
    <3>4. Len(kept[t]) < MaxRuns[j]
      <4>1. MaxRuns[j] \in Nat /\ Len(kept[t]) \in Nat
        BY <1>3, ConstantsAssumption DEF ConstantsAssumption
      <4> QED
        BY <2>4, <4>1 DEF Tracker!Exceeded
    <3>5. Cardinality(Since(won[j], began[t] - Window)) < MaxRuns[j]
      <4>1. MaxRuns[j] \in Nat /\ Len(kept[t]) \in Nat
        BY <1>3, ConstantsAssumption DEF ConstantsAssumption
      <4>2. Since(won[j], began[t] - Window) \in SUBSET (1..Len(won[j]))
        BY DEF Since
      <4>3. Cardinality(Since(won[j], began[t] - Window)) \in Nat
        BY <1>3, <4>2, PartFinite
      <4> QED
        BY <3>3, <3>4, <4>1, <4>3
    <3>6. Checked(t, j)'
      BY <1>1, <3>1, <3>2, <3>5 DEF Checked
    <3>7. Covered(timestamps[j], won[j], now - Window)' /\ Within(won[j], MaxRuns[j])'
      BY <1>1, <1>5, <2>2 DEF Counted
    <3>8. /\ \A u, v \in Busy(j)' : u = v
          /\ \A u \in Busy(j)' : Checked(u, j)'
      BY <3>2, <3>6
    <3> QED
      BY <3>7, <3>8 DEF Counted
  <2> QED
    BY <2>3, <2>4 DEF CheckQuota
<1> QED
  BY <1>1, <1>6 DEF ChecksAreQuotas

(* record() adds the run to what is counted: fewer than the budget were     *)
(* recent when it was checked, and nothing was recorded since.              *)
LEMMA RecordCounted ==
  ASSUME Places, Places', Data, Unhurried, NEW t \in Thread, RecordRun(t),
         NEW j \in Job, job[t] = j, Counted(j), MaxRuns[j] > 0
  PROVE  Counted(j)'
<1>1. Return(t) /\ UNCHANGED <<now, outer>> /\ outer = "quota" /\ pc[t] = "back"
  BY DEF RecordRun
<1>2. Quiet(j)
  BY <1>1, LeaveQuiet
<1>3. CASE outcome[t] # "ok"
  <2>1. timestamps'[j] = timestamps[j] /\ won'[j] = won[j]
    BY <1>3 DEF RecordRun
  <2> QED
    BY <1>1, <1>2, <2>1, QuietKeeps DEF Counted
<1>4. CASE outcome[t] = "ok"
  <2> DEFINE x == began[t]
  <2>1. /\ timestamps'[j] = Append(timestamps[j], x)
        /\ won'[j] = Append(won[j], x)
    BY <1>4 DEF RecordRun, Tracker!Record, Data
  <2>2. /\ timestamps[j] \in Seq(Nat) /\ won[j] \in Seq(Nat) /\ x \in Nat
        /\ MaxRuns[j] \in Nat /\ now - Window \in Int
    BY ConstantsAssumption DEF Data, ConstantsAssumption
  <2>3. Covered(timestamps'[j], won'[j], now - Window)
    BY <2>1, <2>2, CoversAppend DEF Counted
  <2>4. Cardinality(Since(won[j], x - Window)) < MaxRuns[j]
    <3>1. t \in Busy(j)
      BY BusyFacts
    <3> QED
      BY <1>1, <3>1 DEF Counted, Checked
  <2>5. Within(won'[j], MaxRuns[j])
    BY <2>1, <2>2, <2>4, WithinAppend DEF Counted
  <2>6. Busy(j)' = {}
    <3>1. job' = [job EXCEPT ![t] = NoJob] /\ NoJob \notin Job
      BY <1>1, ConstantsAssumption DEF Return, Forget, ConstantsAssumption
    <3>2. \A u : u \in Thread /\ job'[u] = j => u \in Busy(j) /\ u # t
      BY <3>1, BusyFacts DEF Places
    <3>3. Busy(j) = {t}
      BY BusyFacts DEF Counted
    <3> QED
      BY <3>2, <3>3, NextBusyFacts
  <2>7. Covered(timestamps[j], won[j], now - Window)' /\ Within(won[j], MaxRuns[j])'
    BY <1>1, <2>3, <2>5
  <2>8. /\ \A u, v \in Busy(j)' : u = v
        /\ \A u \in Busy(j)' : Checked(u, j)'
    BY <2>6
  <2> QED
    BY <2>7, <2>8 DEF Counted
<1> QED
  BY <1>3, <1>4

(* remaining() evicts, and what is recent stays.                            *)
LEMMA RemainingCounted ==
  ASSUME Data, NEW i \in Job, Remaining(i), NEW j \in Job, Counted(j)
  PROVE  Counted(j)'
<1>1. /\ UNCHANGED <<now, outer, won, pc, job, began, kept>>
      /\ timestamps' = [timestamps EXCEPT ![i] = Tracker!Evict(i)]
  BY DEF Remaining, Tracker!Store, callVars
<1>2. Quiet(j)
  BY <1>1, StillQuiet
<1>3. timestamps[j] \in Seq(Nat) /\ won[j] \in Seq(Nat) /\ now - Window \in Int
  BY ConstantsAssumption DEF Data, ConstantsAssumption
<1>4. Covered(timestamps'[j], won[j], now - Window)
  <2>1. CASE i = j
    <3>1. timestamps'[j] = Tracker!Evict(j)
      BY <1>1, <2>1 DEF Data
    <3>2. /\ Tracker!Evict(j) \in Seq(Nat)
          /\ \E p : Picks(p, Tracker!Evict(j), timestamps[j], {x \in Nat : x >= now - Window})
      BY <1>3, EvictFacts
    <3>3. Covered(Tracker!Evict(j), won[j], now - Window)
      BY <1>3, <3>2, CoversEvicted DEF Counted
    <3> QED
      BY <3>1, <3>3
  <2>2. CASE i # j
    <3>1. timestamps'[j] = timestamps[j]
      BY <1>1, <2>2 DEF Data
    <3> QED
      BY <3>1 DEF Counted
  <2> QED
    BY <2>1, <2>2
<1> QED
  BY <1>1, <1>2, <1>4, QuietKeeps

(* Every other step is quiet, and leaves tracker and record alone.          *)
LEMMA AsideCounted ==
  ASSUME Data, NEW j \in Job, Counted(j), Quiet(j), UNCHANGED outer,
         now' \in Nat, now <= now', timestamps'[j] = timestamps[j], won'[j] = won[j]
  PROVE  Counted(j)'
<1>1. Covered(timestamps'[j], won[j], now' - Window)
  BY ClockCovers DEF Counted
<1> QED
  BY <1>1, QuietKeeps

(* Every step of a thread inside run() keeps the count.                     *)
LEMMA StepCounted ==
  ASSUME CallInv, CallInv', Unhurried, ChecksAreQuotas, NEW t \in Thread, Step(t),
         NEW j \in Job, Counted(j), MaxRuns[j] > 0
  PROVE  Counted(j)'
<1>1. Places /\ Places' /\ Data /\ now' = now /\ now' \in Nat /\ now <= now' /\ outer' = outer
  <2>1. now' = now /\ outer' = outer
    BY DEF Step, CheckQuota, RecordRun, TryAgain, Look, Create, Acquire, GiveBack,
           Start, Finish, CancelTimer, ListTrace, StoreTrace,
           LookForOldest, PopOldest, DropOldest
  <2>2. Places /\ Places' /\ Data /\ now \in Nat
    BY DEF CallInv, Data
  <2> QED
    BY <2>1, <2>2
<1>2. CASE (CheckQuota(t) \/ RecordRun(t)) /\ job[t] = j
  BY <1>1, <1>2, CheckCounted, RecordCounted
<1>3. ASSUME (CheckQuota(t) \/ RecordRun(t)) /\ job[t] # j
      PROVE  Quiet(j) /\ timestamps'[j] = timestamps[j] /\ won'[j] = won[j]
  <2>1. job[t] # j
    BY <1>3
  <2>2. timestamps'[j] = timestamps[j] /\ won'[j] = won[j]
    BY <1>1, <1>3 DEF CheckQuota, RecordRun, Tracker!Store, Tracker!Record, Data
  <2>3. CASE Return(t)
    BY <1>1, <2>2, <2>3, LeaveQuiet
  <2>4. CASE /\ Goto(t, "look") /\ UNCHANGED <<job, began>>
             /\ kept' = [kept EXCEPT ![t] = <<>>]
    <3>1. ASSUME NEW u \in Thread, u \in Busy(j)'
          PROVE  /\ u \in Busy(j) /\ began'[u] = began[u]
                 /\ pc'[u] = "check" <=> pc[u] = "check"
                 /\ pc'[u] = "check" => kept'[u] = kept[u]
      <4>1. job'[u] = j
        BY <1>1, <3>1, NextBusyFacts
      <4>2. job[u] = j /\ u # t /\ u \in Busy(j)
        BY <1>1, <2>1, <2>4, <4>1, BusyFacts
      <4> QED
        BY <1>1, <2>4, <4>2 DEF Goto, Places, Data
    <3> QED
      BY <2>2, <3>1 DEF Quiet
  <2> QED
    BY <1>3, <2>3, <2>4 DEF CheckQuota, RecordRun
<1>4. ASSUME TryAgain(t) \/ Look(t) \/ Create(t) \/ Acquire(t) \/ GiveBack(t)
               \/ Start(t) \/ Finish(t) \/ CancelTimer(t) \/ RecordStep(t)
      PROVE  Quiet(j) /\ timestamps'[j] = timestamps[j] /\ won'[j] = won[j]
  <2>1. timestamps' = timestamps /\ won' = won /\ pc[t] # "check"
    BY <1>4, RecordMoves DEF TryAgain, Look, Create, Acquire, GiveBack, Start, Finish, CancelTimer,
                callVars
  <2>2. CASE Return(t) \/ Raise(t)
    BY <1>1, <2>1, <2>2, LeaveQuiet
  <2>3. ASSUME ~(Return(t) \/ Raise(t))
        PROVE  /\ \E label : label # "check" /\ Goto(t, label)
               /\ UNCHANGED <<job, began, kept>>
    <3>1. CASE TryAgain(t)
      BY <2>3, <3>1 DEF TryAgain
    <3>2. CASE Look(t) \/ Create(t) \/ Start(t) \/ CancelTimer(t)
      BY <3>2 DEF Look, Create, Start, CancelTimer, callVars
    <3>5. CASE RecordStep(t)
      BY <3>5, RecordMoves
    <3>3. CASE Acquire(t) \/ GiveBack(t)
      BY <2>3, <3>3 DEF Acquire, GiveBack, callVars
    <3>4. CASE Finish(t)
      BY <3>4 DEF Finish
    <3> QED
      BY <1>4, <3>1, <3>2, <3>3, <3>4, <3>5
  <2> QED
    BY <1>1, <2>1, <2>2, <2>3, MoveQuiet
<1> QED
  BY <1>1, <1>2, <1>3, <1>4, AsideCounted DEF Step, RecordStep

(* So does an exception, wherever it lands.                                 *)
LEMMA LandCounted ==
  ASSUME CallInv, CallInv', NEW t \in Worker, Land(t), NEW j \in Job, Counted(j)
  PROVE  Counted(j)'
<1>1. /\ Places /\ Places' /\ Data /\ now' = now /\ now' \in Nat /\ now <= now' /\ outer' = outer
      /\ t \in Thread /\ timestamps' = timestamps
  BY DEF CallInv, Data, Land, Thread
<1>2. CASE pc[t] \in {"run", "timer", "trace"} \cup Recording /\ Unwind(t)
  <2>1. /\ Goto(t, "release") /\ UNCHANGED <<job, began, kept>> /\ won' = won
        /\ pc[t] # "check"
    BY <1>2 DEF Unwind, Recording
  <2>2. Quiet(j)
    BY <1>1, <2>1, MoveQuiet
  <2> QED
    BY <1>1, <2>1, <2>2, AsideCounted
<1>3. CASE Raise(t) /\ won' = won
  <2>1. Quiet(j)
    BY <1>1, <1>3, LeaveQuiet
  <2> QED
    BY <1>1, <1>3, <2>1, AsideCounted
<1>4. CASE UNCHANGED <<pc, dispatcherVars, guardVars, leaked, callVars>>
  <2>1. Quiet(j) /\ won' = won
    BY <1>4, StillQuiet DEF callVars
  <2> QED
    BY <1>1, <2>1, AsideCounted
<1> QED
  BY <1>2, <1>3, <1>4 DEF Land

(* A run is never dated later than the clock.                               *)
LEMMA DatesKept ==
  ASSUME CallInv, Unhurried, ChecksAreQuotas, [Next]_vars
  PROVE  Unhurried' /\ ChecksAreQuotas'
<1>1. /\ now \in Nat /\ began \in [Thread -> Nat] /\ pc \in [Thread -> Running \cup {"idle", "next", "requeue"}]
  BY DEF CallInv, Data, Places
<1>2. ASSUME NEW t \in Thread, now' = now, outer' = outer,
             \/ began' = began \/ began' = [began EXCEPT ![t] = now]
             \/ began' = [began EXCEPT ![t] = 0],
             NEW label, Goto(t, label), label = "check" => outer = "quota"
      PROVE  Unhurried' /\ ChecksAreQuotas'
  <2>1. \A u \in Thread : began'[u] <= now
    BY <1>1, <1>2 DEF Unhurried
  <2>2. \A u \in Thread : pc'[u] = "check" => outer = "quota"
    BY <1>1, <1>2 DEF Goto, ChecksAreQuotas
  <2> QED
    BY <1>2, <2>1, <2>2 DEF Unhurried, ChecksAreQuotas
<1>3. ASSUME now' = now \/ now' = now + 1, UNCHANGED <<outer, pc, began>>
      PROVE  Unhurried' /\ ChecksAreQuotas'
  <2>1. \A u \in Thread : began[u] \in Nat /\ began[u] <= now
    BY <1>1 DEF Unhurried
  <2>2. \A u \in Thread : began[u] <= now'
    BY <1>1, <1>3, <2>1
  <2> QED
    BY <1>3, <2>2 DEF Unhurried, ChecksAreQuotas
<1>4. ASSUME NEW t \in Thread, Return(t) \/ Raise(t), now' = now, outer' = outer
      PROVE  Unhurried' /\ ChecksAreQuotas'
  <2>1. PICK label \in {"idle", "requeue"} : Goto(t, label)
    BY <1>4 DEF Return, Raise
  <2>2. began' = [began EXCEPT ![t] = 0]
    BY <1>4 DEF Return, Raise, Forget
  <2> QED
    BY <1>2, <1>4, <2>1, <2>2
<1>5. ASSUME NEW t \in Thread, NEW j, Enter(t, j), now' = now, outer' = outer
      PROVE  Unhurried' /\ ChecksAreQuotas'
  <2>1. PICK label \in {"check", "look"} : Goto(t, label) /\ (label = "check" => outer = "quota")
    BY <1>5 DEF Enter
  <2>2. began' = [began EXCEPT ![t] = now] \/ began' = began
    BY <1>5 DEF Enter
  <2> QED
    BY <1>2, <1>5, <2>1, <2>2
<1>6. ASSUME NEW t \in Thread, Unwind(t), now' = now, outer' = outer
      PROVE  Unhurried' /\ ChecksAreQuotas'
  <2>1. Goto(t, "release") /\ began' = began
    BY <1>6 DEF Unwind
  <2> QED
    BY <1>2, <1>6, <2>1
<1>7. Daemon \in Thread /\ Worker \subseteq Thread
  BY DEF Thread
<1>8. CASE StartTick \/ Requeue \/ EndTick
  <2>1. PICK label \in {"next", "idle"} : Goto(Daemon, label)
    BY <1>8 DEF StartTick, Requeue, EndTick
  <2>2. now' = now /\ outer' = outer /\ began' = began
    BY <1>8 DEF StartTick, Requeue, EndTick, callVars
  <2> QED
    BY <1>2, <1>7, <2>1, <2>2
<1>9. CASE RunNext
  BY <1>5, <1>7, <1>9 DEF RunNext
<1>10. ASSUME NEW t \in Thread, Step(t) PROVE Unhurried' /\ ChecksAreQuotas'
  <2>1. now' = now /\ outer' = outer
    BY <1>10 DEF Step, CheckQuota, RecordRun, TryAgain, Look, Create, Acquire, GiveBack,
           Start, Finish, CancelTimer, ListTrace, StoreTrace,
           LookForOldest, PopOldest, DropOldest
  <2>2. CASE Return(t) \/ Raise(t)
    BY <1>4, <2>1, <2>2
  <2>3. CASE ~(Return(t) \/ Raise(t))
    <3>1. CASE CheckQuota(t) \/ TryAgain(t)
      <4>1. Goto(t, "look") /\ began' = began
        BY <2>3, <3>1 DEF CheckQuota, TryAgain
      <4> QED
        BY <1>2, <2>1, <4>1
    <3>2. CASE Look(t) \/ Create(t) \/ Start(t) \/ CancelTimer(t) \/ Finish(t)
      <4>1. PICK label \in {"create", "get", "run", "trace", "timer"} : Goto(t, label)
        BY <3>2 DEF Look, Create, Start, CancelTimer, Finish
      <4>2. began' = began
        BY <3>2 DEF Look, Create, Start, CancelTimer, Finish, callVars
      <4> QED
        BY <1>2, <2>1, <4>1, <4>2
    <3>5. CASE RecordStep(t)
      <4>1. PICK label \in {"store", "evict", "pop", "drop", "release"} : Goto(t, label)
        BY <3>5, RecordMoves
      <4>2. began' = began
        BY <3>5, RecordMoves
      <4> QED
        BY <1>2, <2>1, <4>1, <4>2
    <3>3. CASE Acquire(t) \/ GiveBack(t)
      <4>1. PICK label \in {"held", "back"} : Goto(t, label)
        BY <2>3, <3>3 DEF Acquire, GiveBack
      <4>2. began' = began
        BY <2>3, <3>3 DEF Acquire, GiveBack, callVars
      <4> QED
        BY <1>2, <2>1, <4>1, <4>2
    <3>4. CASE RecordRun(t)
      BY <2>3, <3>4 DEF RecordRun
    <3> QED
      BY <1>10, <3>1, <3>2, <3>3, <3>4, <3>5 DEF Step, RecordStep
  <2> QED
    BY <2>2, <2>3
<1>11. ASSUME NEW t \in Worker, NEW j \in Job, Call(t, j) PROVE Unhurried' /\ ChecksAreQuotas'
  BY <1>5, <1>7, <1>11 DEF Call
<1>12. CASE Alarm
  BY <1>6, <1>7, <1>12 DEF Alarm
<1>13. ASSUME NEW t \in Worker, Land(t) PROVE Unhurried' /\ ChecksAreQuotas'
  <2>1. now' = now /\ outer' = outer /\ t \in Thread
    BY <1>7, <1>13 DEF Land
  <2>2. CASE UNCHANGED <<pc, dispatcherVars, guardVars, leaked, callVars>>
    BY <1>3, <2>1, <2>2 DEF callVars
  <2> QED
    BY <1>4, <1>6, <1>13, <2>1, <2>2 DEF Land
<1>14. CASE \/ \E t \in Worker : TimerFires(t)
            \/ \E j \in Job : Remaining(j)
            \/ AdvanceClock \/ UNCHANGED vars
  <2>1. (now' = now \/ now' = now + 1) /\ UNCHANGED <<outer, pc, began>>
    BY <1>14 DEF TimerFires, Remaining, AdvanceClock, vars, callVars
  <2> QED
    BY <1>3, <2>1
<1> QED
  BY <1>8, <1>9, <1>10, <1>11, <1>12, <1>13, <1>14 DEF Next, Loop

(* Every step keeps the invariant of the quota.                             *)
LEMMA NextQuota == CallInv /\ CallInv' /\ QuotaInv /\ [Next]_vars => QuotaInv'
<1> SUFFICES ASSUME CallInv, CallInv', QuotaInv, [Next]_vars PROVE QuotaInv'
  OBVIOUS
<1>1. Unhurried /\ ChecksAreQuotas /\ Unhurried' /\ ChecksAreQuotas'
  BY DatesKept DEF QuotaInv
<1>2. overlap \subseteq overlap'
  <2>1. CASE UNCHANGED overlap
    BY <2>1
  <2>2. ASSUME NEW t, NEW j, Enter(t, j) PROVE overlap \subseteq overlap'
    BY <2>2 DEF Enter
  <2>3. ASSUME NEW t \in Thread, Step(t) PROVE UNCHANGED overlap
    BY <2>3 DEF Step, CheckQuota, RecordRun, TryAgain, Look, Create, Acquire, GiveBack,
           Start, Finish, CancelTimer, ListTrace, StoreTrace,
           LookForOldest, PopOldest, DropOldest, Return, Raise, Forget, callVars
  <2>4. CASE Loop
    BY <2>1, <2>2, <2>4 DEF Loop, StartTick, RunNext, Requeue, EndTick, callVars
  <2>5. ASSUME NEW t \in Worker, Land(t) PROVE UNCHANGED overlap
    BY <2>5 DEF Land, Unwind, Raise, Forget, callVars
  <2> QED
    BY <2>1, <2>2, <2>3, <2>4, <2>5
    DEF Next, Call, Alarm, Unwind, TimerFires, Remaining, AdvanceClock, vars, callVars
<1>3. ASSUME NEW j \in Job \ overlap', MaxRuns[j] > 0 PROVE Counted(j)'
  <2>1. j \in Job /\ Counted(j)
    BY <1>2, <1>3 DEF QuotaInv
  <2>2. Places /\ Places' /\ Data /\ now \in Nat
    BY DEF CallInv, Data
  <2>3. ASSUME NEW t \in Thread, NEW i \in Job, Enter(t, i),
               UNCHANGED <<now, outer, timestamps>>
        PROVE  Counted(j)'
    <3>1. CASE i = j
      BY <1>3, <2>1, <2>2, <2>3, <3>1, EnterCounted
    <3>2. CASE i # j
      <4>1. Quiet(j) /\ won' = won
        BY <2>1, <2>2, <2>3, <3>2, EnterQuiet DEF Enter
      <4> QED
        BY <2>1, <2>2, <2>3, <4>1, AsideCounted
    <3> QED
      BY <3>1, <3>2
  <2>4. CASE StartTick \/ Requeue \/ EndTick
    <3>1. PICK label \in {"next", "idle"} : Goto(Daemon, label)
      BY <2>4 DEF StartTick, Requeue, EndTick
    <3>2. /\ UNCHANGED <<now, outer, job, began, kept, timestamps, won>>
          /\ pc[Daemon] # "check" /\ Daemon \in Thread
      BY <2>4 DEF StartTick, Requeue, EndTick, callVars, Thread
    <3>3. Quiet(j)
      BY <2>1, <2>2, <3>1, <3>2, MoveQuiet
    <3> QED
      BY <2>1, <2>2, <3>2, <3>3, AsideCounted
  <2>5. CASE RunNext
    <3>1. Head(due) \in Queue!Entry
      BY <2>5 DEF RunNext, CallInv, QueueInv, QueueTyping
    <3>2. Head(due).job \in Job /\ Daemon \in Thread
      BY <3>1 DEF Queue!Entry, Thread
    <3> QED
      BY <2>3, <2>5, <3>2 DEF RunNext
  <2>6. ASSUME NEW t \in Thread, Step(t) PROVE Counted(j)'
    BY <1>1, <1>3, <2>1, <2>6, StepCounted
  <2>7. ASSUME NEW t \in Worker, NEW i \in Job, Call(t, i) PROVE Counted(j)'
    BY <2>3, <2>7 DEF Call, Thread
  <2>8. CASE Alarm
    <3>1. /\ Goto(Daemon, "release") /\ pc[Daemon] # "check" /\ Daemon \in Thread
          /\ UNCHANGED <<now, outer, job, began, kept, timestamps, won>>
      BY <2>8 DEF Alarm, Unwind, Thread
    <3>2. Quiet(j)
      BY <2>1, <2>2, <3>1, MoveQuiet
    <3> QED
      BY <2>1, <2>2, <3>1, <3>2, AsideCounted
  <2>9. ASSUME NEW t \in Worker, Land(t) PROVE Counted(j)'
    BY <2>1, <2>9, LandCounted
  <2>10. ASSUME NEW i \in Job, Remaining(i) PROVE Counted(j)'
    BY <2>1, <2>2, <2>10, RemainingCounted
  <2>11. CASE (\E t \in Worker : TimerFires(t)) \/ AdvanceClock \/ UNCHANGED vars
    <3>1. /\ UNCHANGED <<outer, pc, job, began, kept, timestamps, won>>
          /\ now' = now \/ now' = now + 1
      BY <2>11 DEF TimerFires, AdvanceClock, vars, callVars
    <3>2. Quiet(j)
      BY <2>1, <3>1, StillQuiet
    <3>3. now' \in Nat /\ now <= now'
      BY <2>2, <3>1
    <3> QED
      BY <2>1, <2>2, <3>1, <3>2, <3>3, AsideCounted
  <2> QED
    BY <2>4, <2>5, <2>6, <2>7, <2>8, <2>9, <2>10, <2>11 DEF Next, Loop
<1> QED
  BY <1>1, <1>3 DEF QuotaInv

(* It holds at first.                                                       *)
LEMMA InitQuota == Init => QuotaInv
<1> SUFFICES ASSUME Init PROVE QuotaInv
  OBVIOUS
<1>1. Unhurried /\ ChecksAreQuotas
  BY DEF Init, Unhurried, ChecksAreQuotas
<1>2. ASSUME NEW j \in Job PROVE Counted(j)
  <2>1. timestamps[j] = <<>> /\ won[j] = <<>> /\ Busy(j) = {}
    BY DEF Init, Tracker!Init, Busy
  <2>2. Covers([k \in 1..0 |-> 0], <<>>, <<>>, now - Window)
    BY DEF Covers
  <2>3. Within(<<>>, MaxRuns[j])
    BY DEF Within
  <2> QED
    BY <2>1, <2>2, <2>3 DEF Counted, Covered
<1> QED
  BY <1>1, <1>2 DEF QuotaInv

(* The invariant of the quota: the tracker covers every run in the window,  *)
(* and a thread that passed check() knows those to be fewer than max_runs   *)
(* (job_quota.py:72-88).                                                    *)
THEOREM QuotaInvHolds == Spec => []QuotaInv
<1>1. CallInv' /\ CallInv /\ QuotaInv /\ [Next]_vars => QuotaInv'
  BY NextQuota
<1> QED
  BY <1>1, InitQuota, CallInvHolds, PTL DEF Spec

(* A job with a quota whose runs never overlapped starts at most max_runs of*)
(* them in any stretch of window seconds: eviction at check() forgets no run*)
(* that still counts (QuotaTracker, job_quota.py:72-100).  That the runs do *)
(* not overlap is needed: check() and record() are two steps.               *)
THEOREM QuotaBudgetHolds == Spec => []QuotaBudget
<1>1. CallInv /\ QuotaInv => QuotaBudget
  <2> SUFFICES ASSUME CallInv, QuotaInv, NEW j \in Job \ overlap, MaxRuns[j] > 0,
                      NEW i \in DOMAIN won[j]
               PROVE  Cardinality({k \in DOMAIN won[j] :
                          won[j][k] \in won[j][i] .. won[j][i] + Window}) <= MaxRuns[j]
    BY DEF QuotaBudget
  <2>1. won[j] \in Seq(Nat)
    BY DEF CallInv, Data
  <2>2. DOMAIN won[j] = 1..Len(won[j])
    BY <2>1
  <2> QED
    BY <2>2 DEF QuotaInv, Counted, Within, Stretch
<1> QED
  BY <1>1, CallInvHolds, QuotaInvHolds, PTL

=============================================================================
