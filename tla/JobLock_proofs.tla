--------------------------- MODULE JobLock_proofs ---------------------------
(* Proofs about JobLock for every set of processes, every relation          *)
(* CanSignal and every number of crashes.                                   *)
EXTENDS JobLock, TLAPS

(* The lock starts free and every process outside acquire().                *)
LEMMA InitTyping == Init => TypeOK
<1> SUFFICES ASSUME Init PROVE TypeOK
  OBVIOUS
<1>1. crashes \in 0..MaxCrashes
  BY ConstantsAssumption DEF ConstantsAssumption, Init
<1>2. reused \in BOOLEAN /\ contended \in BOOLEAN
  BY Zenon DEF Init
<1>3. file \in Proc \cup {NoFile, Empty} /\ orphans \subseteq Proc
  BY DEF Init
<1>4. /\ pc \in [Proc -> {"idle", "check", "unlink", "open", "write", "running", "dead"}]
      /\ seen \in [Proc -> Proc \cup {NoFile}]
  BY DEF Init
<1> QED
  BY <1>1, <1>2, <1>3, <1>4 DEF TypeOK

(* The state of the lock is well typed in every reachable state (JobLock of *)
(* job_lock.py and the locals of its acquire()).                            *)
THEOREM Typing == Spec => []TypeOK
<1> USE ConstantsAssumption DEF ConstantsAssumption
<1>1. Init => TypeOK
  BY InitTyping
<1>2. TypeOK /\ [Next]_vars => TypeOK'
  <2> SUFFICES ASSUME TypeOK, [Next]_vars
               PROVE  TypeOK'
    OBVIOUS
  <2> USE DEF TypeOK, Goto, RemoveFile
  <2>1. ASSUME NEW p \in Proc, Read(p), Track PROVE TypeOK'
    BY <2>1 DEF Read, ReadPid, Track
  <2>2. ASSUME NEW p \in Proc, Refuse(p), Track PROVE TypeOK'
    BY <2>2 DEF Refuse, Track
  <2>3. ASSUME NEW p \in Proc, Condemn(p), Track PROVE TypeOK'
    BY <2>3 DEF Condemn, Track
  <2>4. ASSUME NEW p \in Proc, UnlinkStale(p), Track PROVE TypeOK'
    BY <2>4 DEF UnlinkStale, Track
  <2>5. ASSUME NEW p \in Proc, Open(p), Track PROVE TypeOK'
    BY <2>5 DEF Open, Track
  <2>6. ASSUME NEW p \in Proc, Write(p), Track PROVE TypeOK'
    BY <2>6 DEF Write, Track
  <2>7. ASSUME NEW p \in Proc, Release(p), Track PROVE TypeOK'
    BY <2>7 DEF Release, Track
  <2>8. ASSUME NEW p \in Proc, WriteFails(p), Track PROVE TypeOK'
    BY <2>8 DEF WriteFails, Track
  <2>9. ASSUME NEW p \in Proc, Crash(p), Track PROVE TypeOK'
    BY <2>9 DEF Crash, Track
  <2>10. ASSUME NEW p \in Proc, ReusePid(p), Track PROVE TypeOK'
    BY <2>10 DEF ReusePid, Track
  <2>11. CASE UNCHANGED vars
    BY <2>11 DEF vars
  <2> QED
    BY <2>1, <2>2, <2>3, <2>4, <2>5, <2>6, <2>7, <2>8, <2>9, <2>10, <2>11
    DEF Next, Step, Fault
<1> QED
  BY <1>1, <1>2, PTL DEF Spec

-----------------------------------------------------------------------------
(* The inductive invariant.  While attempts have not overlapped, at most    *)
(* one process is inside acquire(); what it opened is still the lock file;  *)
(* and a holder is named by the file, so that the process inside acquire()  *)
(* can only be about to be refused.  Mutual exclusion is not inductive      *)
(* alone: it needs to know what the process that has not yet written read.  *)
Exclusive ==
    /\ \A p, q \in Window : p = q
    /\ \A w \in Window : pc[w] = "write" => w \notin orphans
    /\ \A h \in Holders :
          /\ file = h
          /\ \A w \in Window : pc[w] = "check" /\ seen[w] = h

LockInv == TypeOK /\ (OneUser /\ ~contended => Exclusive)

(* What Track remembers: a step that ends with contended FALSE either began *)
(* so, or ends with nobody using the lock; and it ends with one process at  *)
(* most inside acquire().                                                   *)
LEMMA TrackLemma ==
  ASSUME Track, ~contended'
  PROVE  /\ ~contended \/ (Window' = {} /\ Holders' = {})
         /\ \A p, q \in Window' : p = q
  BY DEF Track

(* Every step of a process, and every fault, keeps Exclusive while attempts *)
(* do not overlap (JobLock.acquire and release).                            *)
LEMMA ExclusiveStep ==
  ASSUME TypeOK, OneUser, Exclusive, NEW p \in Proc, Step(p) \/ Fault(p), Track, ~contended'
  PROVE  Exclusive'
<1> USE ConstantsAssumption DEF ConstantsAssumption, TypeOK, Goto
<1>0. \A x, y \in Window' : x = y
  BY TrackLemma
<1>1. CASE Read(p)
  BY <1>0, <1>1 DEF Exclusive, Read, ReadPid, Window, Holders
<1>2. CASE Refuse(p)
  BY <1>0, <1>2 DEF Exclusive, Refuse, Window, Holders
<1>3. CASE Condemn(p)
  <2>1. p \in Window /\ ~PidRunning(p, seen[p])
    BY <1>3 DEF Condemn, Window
  <2>2. \A h \in Holders : seen[p] = h /\ PidRunning(p, h)
    BY <2>1 DEF Exclusive, PidRunning, OneUser, Holders, Alive
  <2>3. Holders = {}
    BY <2>1, <2>2
  <2> QED
    BY <1>0, <1>3, <2>3 DEF Exclusive, Condemn, Window, Holders
<1>4. CASE UnlinkStale(p)
  BY <1>0, <1>4 DEF Exclusive, UnlinkStale, RemoveFile, Window, Holders
<1>5. CASE Open(p)
  BY <1>0, <1>5 DEF Exclusive, Open, Window, Holders
<1>6. CASE Write(p)
  <2>1. p \in Window /\ p \notin orphans /\ Holders = {} /\ \A w \in Window : w = p
    BY <1>6 DEF Exclusive, Write, Window, Holders
  <2>2. Holders' = {p} /\ Window' = {} /\ file' = p
    BY <1>6, <2>1 DEF Write, Window, Holders
  <2> QED
    BY <2>2 DEF Exclusive
<1>7. CASE Release(p)
  <2>1. Holders = {p} /\ \A w \in Window : pc[w] = "check"
    BY <1>7 DEF Exclusive, Release, Holders
  <2>2. Holders' = {} /\ \A w \in Window' : pc'[w] = "check"
    BY <1>7, <2>1 DEF Release, Window, Holders
  <2> QED
    BY <1>0, <2>2 DEF Exclusive
<1>8. CASE WriteFails(p)
  BY <1>0, <1>8 DEF Exclusive, WriteFails, Window, Holders
<1>9. CASE Crash(p)
  BY <1>0, <1>9 DEF Exclusive, Crash, Window, Holders
<1>10. CASE ReusePid(p)
  BY <1>0, <1>10 DEF Exclusive, ReusePid, Window, Holders
<1> QED
  BY <1>1, <1>2, <1>3, <1>4, <1>5, <1>6, <1>7, <1>8, <1>9, <1>10 DEF Step, Fault

(* The inductive invariant holds in every reachable state.                  *)
THEOREM Invariance == Spec => []LockInv
<1>1. Init => LockInv
  <2> SUFFICES ASSUME Init PROVE Exclusive /\ TypeOK
    BY DEF LockInv
  <2>1. Window = {} /\ Holders = {}
    BY DEF Init, Window, Holders
  <2>2. TypeOK
    BY InitTyping
  <2> QED
    BY <2>1, <2>2 DEF Exclusive
<1>2. TypeOK /\ TypeOK' /\ LockInv /\ [Next]_vars => LockInv'
  <2> SUFFICES ASSUME TypeOK, TypeOK', LockInv, [Next]_vars, OneUser, ~contended'
               PROVE  Exclusive'
    BY DEF LockInv, OneUser
  <2>1. ASSUME NEW p \in Proc, Step(p) \/ Fault(p), Track
        PROVE  Exclusive'
    <3>1. CASE contended
      <4>1. Window' = {} /\ Holders' = {}
        BY <2>1, <3>1, TrackLemma
      <4> QED
        BY <4>1 DEF Exclusive
    <3>2. CASE ~contended
      <4>1. Exclusive
        BY <3>2 DEF LockInv
      <4> QED
        BY <2>1, <4>1, ExclusiveStep
    <3> QED
      BY <3>1, <3>2
  <2>2. CASE UNCHANGED vars
    BY <2>2 DEF vars, LockInv, Exclusive, Window, Holders
  <2> QED
    BY <2>1, <2>2 DEF Next
<1> QED
  BY <1>1, <1>2, Typing, PTL DEF Spec

(* One user's processes whose attempts to take the lock do not overlap      *)
(* never run the job at the same time (JobRunner.run under JobLock).        *)
THEOREM MutualExclusionHolds == Spec => []MutualExclusion
<1>1. LockInv => MutualExclusion
  BY DEF LockInv, Exclusive, MutualExclusion
<1> QED
  BY <1>1, Invariance, PTL

(* And the lock file names the holder for as long as it holds the lock.     *)
THEOREM HolderIsNamedHolds == Spec => []HolderIsNamed
<1>1. LockInv => HolderIsNamed
  BY DEF LockInv, Exclusive, HolderIsNamed
<1> QED
  BY <1>1, Invariance, PTL

-----------------------------------------------------------------------------
(* Every step of a process, and every fault, leaves a lock file that names  *)
(* a live process only while that process runs the job: the pid is written  *)
(* on the way into the run, it is removed on the way out, and only a reused *)
(* pid brings a dead process back (JobLock.acquire and release).            *)
LEMMA NoAbandonedLockStep ==
  ASSUME TypeOK, NoAbandonedLock, NEW p \in Proc, Step(p) \/ Fault(p)
  PROVE  NoAbandonedLock'
<1> USE ConstantsAssumption
    DEF ConstantsAssumption, TypeOK, Goto, NoAbandonedLock, Holders, Alive
<1>1. CASE Read(p)
  BY <1>1 DEF Read, ReadPid
<1>2. CASE Refuse(p)
  BY <1>2 DEF Refuse
<1>3. CASE Condemn(p)
  BY <1>3 DEF Condemn
<1>4. CASE UnlinkStale(p)
  BY <1>4 DEF UnlinkStale, RemoveFile
<1>5. CASE Open(p)
  BY <1>5 DEF Open
<1>6. CASE Write(p)
  BY <1>6 DEF Write
<1>7. CASE Release(p)
  BY <1>7 DEF Release, RemoveFile
<1>8. CASE WriteFails(p)
  BY <1>8 DEF WriteFails
<1>9. CASE Crash(p)
  BY <1>9 DEF Crash
<1>10. CASE ReusePid(p)
  BY <1>10 DEF ReusePid
<1> QED
  BY <1>1, <1>2, <1>3, <1>4, <1>5, <1>6, <1>7, <1>8, <1>9, <1>10 DEF Step, Fault

(* Unless a pid was reused, a lock file that names a live process is that   *)
(* of a running job, also when attempts to take the lock overlap (JobLock). *)
THEOREM NoAbandonedLockHolds == Spec => []NoAbandonedLock
<1>1. Init => NoAbandonedLock
  BY ConstantsAssumption DEF ConstantsAssumption, Init, NoAbandonedLock
<1>2. TypeOK /\ NoAbandonedLock /\ [Next]_vars => NoAbandonedLock'
  <2> SUFFICES ASSUME TypeOK, NoAbandonedLock, [Next]_vars
               PROVE  NoAbandonedLock'
    OBVIOUS
  <2>1. CASE Next
    BY <2>1, NoAbandonedLockStep DEF Next
  <2>2. CASE UNCHANGED vars
    BY <2>2 DEF vars, NoAbandonedLock, Holders, Alive
  <2> QED
    BY <2>1, <2>2
<1> QED
  BY <1>1, <1>2, Typing, PTL DEF Spec
=============================================================================
