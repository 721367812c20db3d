------------------------------ MODULE JobLock ------------------------------
(* The pid-file lock of src/cronwatch/job_lock.py for ONE job name, and the *)
(* processes that take it through JobRunner.run (job_runner.py:38-52).      *)
(*                                                                          *)
(* Every system call acquire() and release() make on the lock file is a     *)
(* step of its own, because between any two of them another process may     *)
(* run: read_text, kill(pid, 0), unlink, the open of write_text (which      *)
(* truncates or creates), its write, and the unlink of release().           *)
(* A process is identified with its pid.  Pids are taken to have the same   *)
(* number of digits, so one write over another leaves the later pid.        *)
EXTENDS Naturals

CONSTANTS
    Proc,        \* the pids of the processes that run this job
    CanSignal,   \* <<p, q>>: p may signal q (same user, or p is privileged)
    NoFile,      \* the lock file does not exist
    Empty,       \* the lock file exists and holds no pid yet
    MaxCrashes   \* bound: how many processes die without releasing

ASSUME ConstantsAssumption ==
    /\ CanSignal \subseteq Proc \X Proc
    /\ NoFile \notin Proc
    /\ Empty \notin Proc
    /\ NoFile # Empty
    /\ MaxCrashes \in Nat

VARIABLES
    file,       \* what the path <lock_dir>/<job>.lock leads to
    pc,         \* where each process is in JobRunner.run; "running": it holds the lock
    seen,       \* the local variable existing_pid of acquire(); NoFile stands for None
    orphans,    \* processes whose open lock file was unlinked before they wrote to it
    crashes,    \* number of deaths so far
    reused,     \* history: a dead process's pid was given to a new process
    contended   \* history: two acquire() calls overlapped since the lock was last quiet

vars == <<file, pc, seen, orphans, crashes, reused, contended>>

Alive(p) == pc[p] # "dead"

(* Processes inside acquire(), past the read and before the pid is written. *)
Window == {p \in Proc : pc[p] \in {"check", "unlink", "open", "write"}}

(* _held is TRUE: the job runs between acquire() and release().             *)
Holders == {p \in Proc : pc[p] = "running"}

(* _read_pid() on a file that exists and was just created or truncated      *)
(* raises ValueError and returns None, as it does for a missing file.       *)
UnguardedReadPid == file
ReadPid == IF file \in Proc THEN file ELSE NoFile

(* os.kill(pid, 0) as _pid_running reads it: PermissionError, raised for a  *)
(* live process of another user, counts as "not running".                   *)
AnyPidRunning(p, pid) == TRUE
PidRunning(p, pid) == Alive(pid) /\ <<p, pid>> \in CanSignal

(* The history variable contended: no more than a name for the behaviours   *)
(* in which two attempts overlap; it forgets once nobody uses the lock.     *)
Track ==
    contended' =
        /\ Window' \cup Holders' # {}
        /\ contended \/ \E p, q \in Window' : p # q

(* unlink(missing_ok=True), by name: it removes whatever file is there now, *)
(* and whoever has that file open goes on writing to a file nobody sees.    *)
RemoveFile ==
    /\ file' = NoFile
    /\ orphans' = orphans \cup {q \in Proc : pc[q] = "write"}

Goto(p, label) == pc' = [pc EXCEPT ![p] = label]

TypeOK ==
    /\ file \in Proc \cup {NoFile, Empty}
    /\ pc \in [Proc -> {"idle", "check", "unlink", "open", "write", "running", "dead"}]
    /\ seen \in [Proc -> Proc \cup {NoFile}]
    /\ orphans \subseteq Proc
    /\ crashes \in 0..MaxCrashes
    /\ reused \in BOOLEAN
    /\ contended \in BOOLEAN

Init ==
    /\ file = NoFile
    /\ pc = [p \in Proc |-> "idle"]
    /\ seen = [p \in Proc |-> NoFile]
    /\ orphans = {}
    /\ crashes = 0
    /\ reused = FALSE
    /\ contended = FALSE

-----------------------------------------------------------------------------
(* acquire() *)

Read(p) ==
    /\ pc[p] = "idle"
    /\ seen' = [seen EXCEPT ![p] = ReadPid]
    /\ Goto(p, IF ReadPid = NoFile THEN "open" ELSE "check")
    /\ UNCHANGED <<file, orphans, crashes, reused>>

(* A caller whose cleanup forgets that it never got the lock.               *)
RefuseAndUnlink(p) ==
    /\ pc[p] = "check"
    /\ PidRunning(p, seen[p])
    /\ Goto(p, "idle")
    /\ RemoveFile
    /\ UNCHANGED <<seen, crashes, reused>>

(* LockAcquisitionError; JobRunner.run returns a skipped result.            *)
Refuse(p) ==
    /\ pc[p] = "check"
    /\ PidRunning(p, seen[p])
    /\ Goto(p, "idle")
    /\ UNCHANGED <<file, seen, orphans, crashes, reused>>

Condemn(p) ==
    /\ pc[p] = "check"
    /\ ~PidRunning(p, seen[p])
    /\ Goto(p, "unlink")
    /\ UNCHANGED <<file, seen, orphans, crashes, reused>>

UnlinkStale(p) ==
    /\ pc[p] = "unlink"
    /\ RemoveFile
    /\ Goto(p, "open")
    /\ UNCHANGED <<seen, crashes, reused>>

Open(p) ==
    /\ pc[p] = "open"
    /\ file' = Empty
    /\ orphans' = orphans \ {p}
    /\ Goto(p, "write")
    /\ UNCHANGED <<seen, crashes, reused>>

Write(p) ==
    /\ pc[p] = "write"
    /\ file' = IF p \in orphans THEN file ELSE p
    /\ Goto(p, "running")
    /\ UNCHANGED <<seen, orphans, crashes, reused>>

(* The write fails (disk full): the OSError leaves acquire() and            *)
(* JobRunner.run, and the truncated file stays behind.                      *)
WriteFails(p) ==
    /\ pc[p] = "write"
    /\ Goto(p, "idle")
    /\ UNCHANGED <<file, seen, orphans, crashes, reused>>

-----------------------------------------------------------------------------
(* release(), which JobRunner.run calls whether or not the job raised *)

ReleaseKeepingFile(p) ==
    /\ pc[p] = "running"
    /\ Goto(p, "idle")
    /\ UNCHANGED <<file, seen, orphans, crashes, reused>>

Release(p) ==
    /\ pc[p] = "running"
    /\ RemoveFile
    /\ Goto(p, "idle")
    /\ UNCHANGED <<seen, crashes, reused>>

-----------------------------------------------------------------------------
(* The operating system *)

Crash(p) ==
    /\ Alive(p)
    /\ crashes < MaxCrashes
    /\ crashes' = crashes + 1
    /\ Goto(p, "dead")
    /\ UNCHANGED <<file, seen, orphans, reused>>

(* A new process, also one that runs this job, is given a dead one's pid.   *)
ReusePid(p) ==
    /\ pc[p] = "dead"
    /\ reused' = TRUE
    /\ Goto(p, "idle")
    /\ UNCHANGED <<file, seen, orphans, crashes>>

Step(p) ==
    \/ Read(p)
    \/ Refuse(p)
    \/ Condemn(p)
    \/ UnlinkStale(p)
    \/ Open(p)
    \/ Write(p)
    \/ Release(p)

Fault(p) == WriteFails(p) \/ Crash(p) \/ ReusePid(p)

Next == \E p \in Proc : (Step(p) \/ Fault(p)) /\ Track

Spec == Init /\ [][Next]_vars

(* A live daemon keeps polling (Scheduler.run_forever) and its jobs end.    *)
FairSpec == Spec /\ \A p \in Proc : WF_vars(Step(p) /\ Track)

-----------------------------------------------------------------------------
(* Properties *)

OneUser == CanSignal = Proc \X Proc

(* With one user, while no two acquire() calls have overlapped since the    *)
(* lock was last quiet, at most one process runs the job, whatever crashes, *)
(* pid reuses and failed writes happened before (JobRunner.run).            *)
MutualExclusion ==
    OneUser /\ ~contended => \A p, q \in Holders : p = q

(* Why: the holder's pid stays in the file for as long as it holds, so any  *)
(* later attempt has read that pid and can only be refused.                 *)
HolderIsNamed ==
    OneUser /\ ~contended =>
        \A h \in Holders :
            /\ file = h
            /\ \A w \in Window : pc[w] = "check" /\ seen[w] = h

(* Unless a pid was reused, the pid of a live process is in the lock file   *)
(* only while that process runs the job, even after overlapping attempts:   *)
(* a lock is never left behind by a process that is still there to block.   *)
NoAbandonedLock ==
    ~reused => \A p \in Proc : file = p /\ Alive(p) => p \in Holders

(* job_lock.py:19 - "Stale locks (process no longer running) are            *)
(* automatically cleared": a dead process's pid does not stay in the file.  *)
StaleLockCleared ==
    \A p \in Proc : (file = p /\ ~Alive(p)) ~> (file # p \/ Alive(p))

(* job_lock.py:1 - "Prevent concurrent execution of the same cron job".     *)
NoConcurrentExecution == \A p, q \in Holders : p = q

(* job_lock.py:19 and :81 - only the lock of a process that is no longer    *)
(* running is cleared.                                                      *)
OnlyDeadLocksCleared ==
    ~reused => \A p \in Proc : pc[p] = "unlink" => ~Alive(seen[p])
=============================================================================
