----------------------------- MODULE Files_proofs -----------------------------
(* Proofs about the files, for any processes, jobs, values and numbers of   *)
(* calls, entries and faults: the typing of the stores, that only a fault   *)
(* in the middle of a write, or saves that overlap, leave a file that       *)
(* cannot be read, and that a store implements an AtomicStore; the typing   *)
(* of the history and its archive, and that archiving neither loses nor     *)
(* doubles an entry.                                                        *)
EXTENDS Files, SequenceTheorems, TLAPS

(* What a call of AtomicStore does to a table, if removed are the jobs      *)
(* somebody asked to be removed.                                            *)
ChangeOf(old, new, removed) ==
    \/ \E j \in Job, v \in Value :
           new = [old EXCEPT ![j] = IF kind \in Lists THEN Append(@, v) ELSE <<v>>]
    \/ \E j \in removed : new = [old EXCEPT ![j] = <<>>]
    \/ \E over \in SUBSET {j \in Job : Over(old[j])} :
           new = [j \in Job |-> IF j \in over THEN <<>> ELSE old[j]]

(* Every call that saves comes down to this: a table that is well typed is  *)
(* worked out from the one the process goes by, and the save begins.        *)
Call(p) ==
    \E table \in Table, gone \in SUBSET Job :
        /\ CanStart(p) /\ Save(p, table) /\ asked' = asked \cup gone
        /\ ChangeOf(Known(p), table, asked \cup gone)

(* And every process, to this.                                              *)
ProcessStep(p) ==
    \/ Call(p)
    \/ Open(p, FileOrNothing)
    \/ TruncateFile(p) \/ TruncateTmp(p) \/ Write(p) \/ Replace(p)
    \/ WriteFails(p) \/ Die(p)

-----------------------------------------------------------------------------
(* Facts about tables: no mark of a file is one, and the changes the calls  *)
(* make to a table give a table.                                            *)
LEMMA TableFacts ==
    /\ NoEntries \in Table
    /\ Empty \notin Table /\ Garbage \notin Table /\ NoFile \notin Table
    /\ NoFile # Empty /\ NoFile # Garbage
<1>1. <<>> \in Seq(Value)
  BY EmptySeq
<1>2. NoEntries \in Table
  BY <1>1 DEF NoEntries, Table
<1> QED
  BY <1>2, StoreAssumption DEF StoreAssumption, Table

(* Setting the one value of a job gives a table.                            *)
LEMMA EntrySet ==
  ASSUME NEW table \in Table, NEW j \in Job, NEW v \in Value
  PROVE  [table EXCEPT ![j] = <<v>>] \in Table
<1>1. <<v>> \in Seq(Value)
  OBVIOUS
<1> QED
  BY <1>1 DEF Table

(* So does adding a value to those of a job.                                *)
LEMMA EntryAdded ==
  ASSUME NEW table \in Table, NEW j \in Job, NEW v \in Value
  PROVE  [table EXCEPT ![j] = Append(@, v)] \in Table
<1>1. table[j] \in Seq(Value)
  BY DEF Table
<1>2. Append(table[j], v) \in Seq(Value)
  BY <1>1, AppendProperties
<1> QED
  BY <1>2 DEF Table

(* And so does dropping what a job has.                                     *)
LEMMA EntryDropped ==
  ASSUME NEW table \in Table, NEW j \in Job
  PROVE  [table EXCEPT ![j] = <<>>] \in Table
<1>1. <<>> \in Seq(Value)
  BY EmptySeq
<1> QED
  BY <1>1 DEF Table

(* A call goes by a table: the copy of the process, or a file it could read.*)
LEMMA KnownIsTable ==
  ASSUME TypeOK, NEW p \in Process, CanStart(p)
  PROVE  Known(p) \in Table
BY DEF TypeOK, CanStart, Known, Readable, Unreadable

(* What the stores other than PauseStore open is a table.                   *)
LEMMA FileOrNothingIsTable ==
  ASSUME TypeOK
  PROVE  FileOrNothing \in Table
BY TableFacts DEF TypeOK, FileOrNothing, Readable, Unreadable

-----------------------------------------------------------------------------
(* The operations that set, add or drop an entry are calls.                 *)
LEMMA SetEntryCalls ==
  ASSUME TypeOK, NEW p \in Process, NEW j \in Job, NEW v \in Value, SetEntry(p, j, v),
         kind \notin Lists
  PROVE  Call(p)
<1> DEFINE new == [Known(p) EXCEPT ![j] = <<v>>]
<1>1. CanStart(p) /\ Save(p, new) /\ asked' = asked \cup {}
  BY DEF SetEntry
<1>2. new \in Table
  BY <1>1, KnownIsTable, EntrySet
<1>3. ChangeOf(Known(p), new, asked \cup {})
  BY DEF ChangeOf
<1> HIDE DEF new
<1> QED
  BY <1>1, <1>2, <1>3 DEF Call

(* So is adding an entry, in the stores that keep lists.                    *)
LEMMA AddEntryCalls ==
  ASSUME TypeOK, NEW p \in Process, NEW j \in Job, NEW v \in Value, AddEntry(p, j, v),
         kind \in Lists
  PROVE  Call(p)
<1> DEFINE new == [Known(p) EXCEPT ![j] = Append(@, v)]
<1>1. CanStart(p) /\ Save(p, new) /\ asked' = asked \cup {}
  BY DEF AddEntry
<1>2. new \in Table
  BY <1>1, KnownIsTable, EntryAdded
<1>3. ChangeOf(Known(p), new, asked \cup {})
  BY DEF ChangeOf
<1> HIDE DEF new
<1> QED
  BY <1>1, <1>2, <1>3 DEF Call

(* And dropping those of a job.                                             *)
LEMMA DropEntryCalls ==
  ASSUME TypeOK, NEW p \in Process, NEW j \in Job, DropEntry(p, j)
  PROVE  Call(p)
<1> DEFINE new == [Known(p) EXCEPT ![j] = <<>>]
<1>1. CanStart(p) /\ Save(p, new) /\ asked' = asked \cup {j}
  BY DEF DropEntry
<1>2. new \in Table
  BY <1>1, KnownIsTable, EntryDropped
<1>3. ChangeOf(Known(p), new, asked \cup {j})
  BY DEF ChangeOf
<1> HIDE DEF new
<1> QED
  BY <1>1, <1>2, <1>3 DEF Call

(* PauseStore.is_paused drops what is over.                                 *)
LEMMA ExpireCalls ==
  ASSUME TypeOK, NEW p \in Process, NEW j \in Job, IsPausedExpires(p, j)
  PROVE  Call(p)
<1> DEFINE old == copy[p]
           new == [old EXCEPT ![j] = <<>>]
<1>1. /\ CanStart(p) /\ Save(p, new) /\ asked' = asked \cup {}
      /\ Over(old[j]) /\ Known(p) = old
  BY DEF IsPausedExpires, Known, Cached
<1>2. old \in Table /\ new \in Table
  BY EntryDropped DEF TypeOK
<1> HIDE DEF old
<1>3. new = [i \in Job |-> IF i \in {j} THEN <<>> ELSE old[i]]
  BY <1>2 DEF Table
<1>4. {j} \in SUBSET {i \in Job : Over(old[i])}
  BY <1>1
<1> HIDE DEF new
<1>5. ChangeOf(Known(p), new, asked \cup {})
  BY <1>1, <1>3, <1>4 DEF ChangeOf
<1> QED
  BY <1>1, <1>2, <1>5 DEF Call

(* SuppressionStore.purge_expired drops all of it.                          *)
LEMMA PurgeCalls ==
  ASSUME TypeOK, NEW p \in Process, PurgeExpired(p)
  PROVE  Call(p)
<1> DEFINE over == {j \in Job : Over(file[j])}
           purged == [j \in Job |-> IF Over(file[j]) THEN <<>> ELSE file[j]]
<1>1. CanStart(p) /\ Save(p, purged) /\ asked' = asked \cup {}
  BY DEF PurgeExpired
<1>2. file \in Table /\ Known(p) = file
  BY <1>1, KnownIsTable DEF PurgeExpired, Known, Cached
<1>3. purged \in Table
  <2>1. ASSUME NEW j \in Job PROVE (IF Over(file[j]) THEN <<>> ELSE file[j]) \in Seq(Value)
    <3>1. file[j] \in Seq(Value)
      BY <1>2 DEF Table
    <3>2. <<>> \in Seq(Value)
      BY EmptySeq
    <3> QED
      BY <3>1, <3>2
  <2> QED
    BY <2>1 DEF Table
<1>4. purged = [j \in Job |-> IF j \in over THEN <<>> ELSE file[j]]
  OBVIOUS
<1>5. over \in SUBSET {j \in Job : Over(file[j])}
  OBVIOUS
<1> HIDE DEF purged, over
<1>6. ChangeOf(Known(p), purged, asked \cup {})
  BY <1>2, <1>4, <1>5 DEF ChangeOf
<1> QED
  BY <1>1, <1>3, <1>6 DEF Call

(* A step of the stores is a step of one process.                           *)
LEMMA StepsAreProcessSteps ==
  ASSUME TypeOK, Step
  PROVE  \E p \in Process : ProcessStep(p)
<1>1. PICK p \in Process :
        \/ OpenPauses(p) \/ OpenChecksums(p) \/ OpenSnapshots(p) \/ OpenProfiles(p)
        \/ \E j \in Job :
               \/ \E v \in Value :
                      \/ Pause(p, j, v) \/ Mute(p, j, v) \/ Suppress(p, j, v)
                      \/ RecordSnapshot(p, j, v) \/ RecordDigest(p, j, v)
                      \/ RecordChange(p, j, v) \/ RecordSample(p, j, v)
               \/ Resume(p, j) \/ IsPausedExpires(p, j) \/ Unmute(p, j) \/ Release(p, j)
               \/ ClearSnapshot(p, j) \/ ClearSamples(p, j)
        \/ PurgeExpired(p)
        \/ TruncateFile(p) \/ TruncateTmp(p) \/ Write(p) \/ Replace(p)
        \/ WriteFails(p) \/ Die(p)
  BY DEF Step
<1>2. ASSUME NEW j \in Job, NEW v \in Value,
             \/ Pause(p, j, v) \/ Mute(p, j, v) \/ Suppress(p, j, v)
             \/ RecordSnapshot(p, j, v) \/ RecordDigest(p, j, v)
             \/ RecordChange(p, j, v) \/ RecordSample(p, j, v)
      PROVE  Call(p)
  BY <1>2, SetEntryCalls, AddEntryCalls
  DEF Pause, Mute, Suppress, RecordSnapshot, RecordDigest, RecordChange, RecordSample, Lists
<1>3. ASSUME NEW j \in Job,
             \/ Resume(p, j) \/ IsPausedExpires(p, j) \/ Unmute(p, j) \/ Release(p, j)
             \/ ClearSnapshot(p, j) \/ ClearSamples(p, j)
      PROVE  Call(p)
  BY <1>3, DropEntryCalls, ExpireCalls
  DEF Resume, Unmute, Release, ClearSnapshot, ClearSamples
<1>4. ASSUME OpenPauses(p) \/ OpenChecksums(p) \/ OpenSnapshots(p) \/ OpenProfiles(p)
      PROVE  Open(p, FileOrNothing)
  BY <1>4 DEF OpenPauses, OpenChecksums, OpenSnapshots, OpenProfiles, FileOrNothing
<1> QED
  BY <1>1, <1>2, <1>3, <1>4, PurgeCalls DEF ProcessStep

-----------------------------------------------------------------------------
(* The state of the stores is well typed in every reachable state           *)
(* (job_pause.py, job_mute.py, job_suppression.py, job_snapshot.py,         *)
(* job_checksum.py, job_changelog.py, job_profiling.py).                    *)
LEMMA InitTyping == Init => TypeOK
BY TableFacts DEF Init, TypeOK

(* A step of one process leaves files and copies well typed.                *)
LEMMA ProcessTyping ==
  ASSUME TypeOK, NEW p \in Process, ProcessStep(p), now' = now
  PROVE  TypeOK'
<1> USE DEF TypeOK
<1>1. ASSUME NEW table \in Table, NEW gone \in SUBSET Job,
             Save(p, table), asked' = asked \cup gone
      PROVE  TypeOK'
  BY <1>1 DEF Save
<1>2. CASE Open(p, FileOrNothing)
  BY <1>2, FileOrNothingIsTable DEF Open, Writing
<1>3. CASE TruncateFile(p)
  BY <1>3 DEF TruncateFile, Outdates, Unreadable
<1>4. CASE TruncateTmp(p)
  BY <1>4 DEF TruncateTmp, Unreadable
<1>5. CASE Write(p)
  BY <1>5 DEF Write, Overwrite, Unreadable
<1>6. CASE Replace(p)
  <2>1. CASE tmp = NoFile
    BY <1>6, <2>1 DEF Replace
  <2>2. CASE tmp # NoFile
    BY <1>6, <2>2 DEF Replace, Outdates
  <2> QED
    BY <2>1, <2>2
<1>7. CASE WriteFails(p)
  BY <1>7 DEF WriteFails, CutsFile
<1>8. CASE Die(p)
  BY <1>8, TableFacts DEF Die, CutsFile
<1> QED
  BY <1>1, <1>2, <1>3, <1>4, <1>5, <1>6, <1>7, <1>8 DEF ProcessStep, Call

(* So does every step, faults and crashes included.                         *)
LEMMA NextTyping == TypeOK /\ [Next]_vars => TypeOK'
<1> SUFFICES ASSUME TypeOK, [Next]_vars PROVE TypeOK'
  OBVIOUS
<1>1. CASE Step /\ UNCHANGED now
  BY <1>1, StepsAreProcessSteps, ProcessTyping
<1>2. CASE AdvanceClock
  BY <1>2 DEF AdvanceClock, TypeOK, storeVars
<1>3. CASE UNCHANGED vars
  BY <1>3 DEF TypeOK, vars, storeVars
<1> QED
  BY <1>1, <1>2, <1>3 DEF Next

(* The seven stores, their files and the copies of any number of processes  *)
(* are well typed (job_pause.py, job_mute.py and the like).                 *)
THEOREM Typing == Spec => []TypeOK
BY InitTyping, NextTyping, PTL DEF Spec

-----------------------------------------------------------------------------
(* The inductive invariant.  As long as no two saves overlapped, one        *)
(* process at most is saving, so that what it opened is still empty when it *)
(* writes, and the snapshot's temporary file is whole when it replaces the  *)
(* snapshots.                                                               *)
Busy == {"save", "write", "replace"}

OneSaves == \A p, q \in Process : pc[p] \in Busy /\ pc[q] \in Busy => p = q

SnapshotsWhole ==
    /\ Readable
    /\ \A p \in Process : pc[p] = "write" => handle[p] = "tmp" /\ tmp = Empty
    /\ \A p \in Process : pc[p] = "replace" => tmp \notin Unreadable

FileWhole ==
    /\ \A p \in Process : pc[p] = "write" => handle[p] = "file" /\ file = Empty
    /\ "torn" \in mishaps \/ Writing # {} \/ Readable

StoreInv ==
    /\ TypeOK
    /\ \A p \in Process : pc[p] = "replace" => kind = "snapshot"
    /\ "overlap" \notin mishaps =>
           OneSaves /\ (IF kind = "snapshot" THEN SnapshotsWhole ELSE FileWhole)

(* The invariant of the saves holds when no process has begun one.          *)
LEMMA InitInv == Init => StoreInv
<1> SUFFICES ASSUME Init PROVE StoreInv
  OBVIOUS
<1>1. \A p \in Process : pc[p] \notin Busy
  BY DEF Init, Busy
<1>2. Readable
  BY TableFacts DEF Init, Readable, Unreadable
<1> QED
  BY <1>1, <1>2, InitTyping DEF StoreInv, OneSaves, SnapshotsWhole, FileWhole, Busy

(* A step of one process keeps it.                                          *)
LEMMA ProcessInv ==
  ASSUME StoreInv, NEW p \in Process, ProcessStep(p), TypeOK'
  PROVE  StoreInv'
<1> USE TableFacts DEF StoreInv, TypeOK, OneSaves, SnapshotsWhole, FileWhole, Busy,
                       Readable, Unreadable, Writing
<1>1. ASSUME NEW table \in Table, CanStart(p), Save(p, table) PROVE StoreInv'
  <2>1. "overlap" \notin mishaps' =>
            "overlap" \notin mishaps /\ \A q \in Process \ {p} : pc[q] \notin Busy
    BY <1>1 DEF Save
  <2>2. "torn" \in mishaps => "torn" \in mishaps'
    BY <1>1 DEF Save
  <2> QED
    BY <1>1, <2>1, <2>2 DEF Save, CanStart
<1>2. CASE Open(p, FileOrNothing)
  BY <1>2 DEF Open
<1>3. CASE TruncateFile(p)
  BY <1>3 DEF TruncateFile
<1>4. CASE TruncateTmp(p)
  BY <1>4 DEF TruncateTmp
<1>5. CASE Write(p)
  BY <1>5 DEF Write, Overwrite
<1>6. CASE Replace(p)
  BY <1>6 DEF Replace
<1>7. CASE WriteFails(p)
  BY <1>7 DEF WriteFails, CutsFile
<1>8. CASE Die(p)
  BY <1>8 DEF Die, CutsFile
<1> QED
  BY <1>1, <1>2, <1>3, <1>4, <1>5, <1>6, <1>7, <1>8 DEF ProcessStep, Call

(* Every step keeps it.                                                     *)
LEMMA NextInv == StoreInv /\ [Next]_vars => StoreInv'
<1> SUFFICES ASSUME StoreInv, [Next]_vars PROVE StoreInv'
  OBVIOUS
<1>1. TypeOK'
  BY NextTyping DEF StoreInv
<1>2. CASE Step
  BY <1>1, <1>2, StepsAreProcessSteps, ProcessInv DEF StoreInv
<1>3. CASE UNCHANGED storeVars
  BY <1>1, <1>3 DEF storeVars, StoreInv, OneSaves, SnapshotsWhole, FileWhole, Readable, Writing
<1> QED
  BY <1>2, <1>3 DEF Next, AdvanceClock, vars

(* The invariant holds in every reachable state.                            *)
THEOREM StoreInvHolds == Spec => []StoreInv
BY InitInv, NextInv, PTL DEF Spec

(* And so a file that cannot be read is only left by a fault in the middle  *)
(* of a write or by saves that overlap, and the snapshot file not even by a *)
(* fault (job_snapshot.py:76-80, job_pause.py:61-71, job_mute.py:64-67).    *)
THEOREM ReadableUnlessTornHolds == Spec => []ReadableUnlessTorn
<1>1. StoreInv => ReadableUnlessTorn
  BY DEF StoreInv, ReadableUnlessTorn, SnapshotsWhole, FileWhole, Readable
<1> QED
  BY <1>1, StoreInvHolds, PTL
-----------------------------------------------------------------------------
(* The stores implement AtomicStore *)

(* What the refinement rests on.  As long as nothing went wrong: what an    *)
(* idle process has in memory is the table, unless it is marked outdated;   *)
(* and the table that a process is about to put in the place of the shared  *)
(* one, which it does on opening the file, or replacing it, is one change   *)
(* of it away.                                                              *)
Pends(p) == pc[p] = "save" \/ (kind = "snapshot" /\ pc[p] \in Busy)

InMemory(p) ==
    /\ pc[p] \in Busy => p \notin outdated
    /\ kind \in Cached /\ pc[p] = "idle" /\ p \notin outdated => copy[p] = Current
    /\ Pends(p) => ChangeOf(Current, copy[p], asked)
    /\ pc[p] = "replace" => tmp = copy[p]

MemoryInv == mishaps = {} => \A p \in Process : InMemory(p)

(* What is over stays over (is_expired, is_active).                         *)
LEMMA OverGrows ==
  ASSUME now \in Nat, now' \in Nat, now <= now', kind' = kind,
         NEW CONSTANT list \in Seq(Value), Over(list)
  PROVE  Over(list)'
<1>1. list # <<>> /\ list[1] \in Value
  BY DEF Over
<1>2. list[1] \in Nat \/ list[1] = Forever
  BY <1>1, StoreAssumption DEF StoreAssumption
<1>3. CASE kind = "pause"
  BY <1>2, <1>3 DEF Over, PauseExpired
<1>4. CASE kind = "mute"
  BY <1>2, <1>4 DEF Over, MuteActive
<1>5. CASE kind = "suppression"
  BY <1>2, <1>5 DEF Over, SuppressionActive
<1>6. CASE kind \notin {"pause", "mute", "suppression"}
  BY <1>6 DEF Over
<1> QED
  BY <1>3, <1>4, <1>5, <1>6

(* And so a change that waits to be made remains one.                       *)
LEMMA ChangeKept ==
  ASSUME now \in Nat, now' \in Nat, now <= now', kind' = kind,
         NEW CONSTANT old \in Table, NEW CONSTANT new,
         NEW CONSTANT removed, NEW CONSTANT more, removed \subseteq more,
         ChangeOf(old, new, removed)
  PROVE  ChangeOf(old, new, more)'
<1>1. ASSUME NEW j \in Job, NEW v \in Value,
             new = [old EXCEPT ![j] = IF kind \in Lists THEN Append(@, v) ELSE <<v>>]
      PROVE  ChangeOf(old, new, more)'
  BY <1>1 DEF ChangeOf, Lists
<1>2. ASSUME NEW j \in removed, new = [old EXCEPT ![j] = <<>>]
      PROVE  ChangeOf(old, new, more)'
  BY <1>2 DEF ChangeOf
<1>3. ASSUME NEW over \in SUBSET {j \in Job : Over(old[j])},
             new = [j \in Job |-> IF j \in over THEN <<>> ELSE old[j]]
      PROVE  ChangeOf(old, new, more)'
  <2>1. ASSUME NEW j \in Job, Over(old[j]) PROVE Over(old[j])'
    <3>1. PICK list \in Seq(Value) : list = old[j]
      BY DEF Table
    <3> QED
      BY <2>1, <3>1, OverGrows
  <2>2. over \in SUBSET {j \in Job : Over(old[j])'}
    BY <2>1
  <2> QED
    BY <1>3, <2>2 DEF ChangeOf
<1> QED
  BY <1>1, <1>2, <1>3 DEF ChangeOf

(* The table the processes share: what the one that writes has in memory,   *)
(* or the file.                                                             *)
CurrentIs ==
    /\ Current \in Table
    /\ kind = "snapshot" \/ Writing = {} => Current = FileOrNothing
    /\ Readable => FileOrNothing = file
    /\ \A p \in Process : "overlap" \notin mishaps /\ kind # "snapshot" /\ pc[p] = "write"
                            => Current = copy[p]

(* What the invariant of the saves says of the table that a reader would    *)
(* find.                                                                    *)
LEMMA CurrentFacts == StoreInv => CurrentIs
<1> SUFFICES ASSUME StoreInv PROVE CurrentIs
  OBVIOUS
<1>1. FileOrNothing \in Table
  BY FileOrNothingIsTable DEF StoreInv
<1>2. kind = "snapshot" \/ Writing = {} => Current = FileOrNothing
  BY DEF Current
<1>3. ASSUME kind # "snapshot", Writing # {}
      PROVE  \E p \in Writing : Current = copy[p]
  BY <1>3 DEF Current
<1>4. ASSUME NEW p \in Process, "overlap" \notin mishaps, kind # "snapshot", pc[p] = "write"
      PROVE  Current = copy[p]
  <2>1. p \in Writing
    BY <1>4 DEF Writing
  <2>2. PICK q \in Writing : Current = copy[q]
    BY <1>3, <1>4, <2>1
  <2>3. q = p
    BY <1>4, <2>1, <2>2 DEF StoreInv, OneSaves, Writing, Busy
  <2> QED
    BY <2>2, <2>3
<1>5. Current \in Table
  BY <1>1, <1>2, <1>3 DEF StoreInv, TypeOK, Writing
<1> QED
  BY <1>2, <1>4, <1>5 DEF CurrentIs, FileOrNothing

(* In the next state too.                                                   *)
LEMMA NextCurrentFacts == StoreInv' => CurrentIs'
BY CurrentFacts, PTL

(* What holds of a process keeps holding when the table and what it has of  *)
(* it stay.                                                                 *)
LEMMA MemoryKept ==
  ASSUME StoreInv, now' \in Nat, now <= now', kind' = kind, Current' = Current,
         asked \subseteq asked', NEW q \in Process, InMemory(q),
         pc'[q] = pc[q], copy'[q] = copy[q],
         q \in outdated => q \in outdated', pc[q] \in Busy => q \notin outdated',
         pc[q] = "replace" => tmp' = tmp
  PROVE  InMemory(q)'
<1>1. Current \in Table /\ now \in Nat
  BY CurrentFacts DEF CurrentIs, StoreInv, TypeOK
<1>2. Pends(q) => ChangeOf(Current, copy[q], asked)'
  <2>1. SUFFICES ASSUME Pends(q) PROVE ChangeOf(Current, copy[q], asked)'
    BY DEF Pends
  <2>2. PICK old \in Table : old = Current
    BY <1>1
  <2>3. PICK new : new = copy[q]
    OBVIOUS
  <2>4. PICK removed : removed = asked
    OBVIOUS
  <2>5. PICK more : more = asked'
    OBVIOUS
  <2>6. ChangeOf(old, new, removed)
    BY <2>1, <2>2, <2>3, <2>4 DEF InMemory
  <2>7. ChangeOf(old, new, more)'
    BY <1>1, <2>4, <2>5, <2>6, ChangeKept
  <2> QED
    BY <2>2, <2>3, <2>5, <2>7
<1> QED
  BY <1>2 DEF InMemory, Pends

(* What a step of a store does to the table, if nothing goes wrong: it      *)
(* leaves it or makes one of the changes of AtomicStore, and the memory of  *)
(* the processes stays right.                                               *)
Implements == (Current' = Current \/ ChangeOf(Current, Current', asked)) /\ MemoryInv'

(* A call works out a change of the table, of which nobody sees anything    *)
(* yet.                                                                     *)
LEMMA CallImplements ==
  ASSUME StoreInv, StoreInv', MemoryInv, NEW p \in Process, Call(p), now' = now,
         mishaps = {}, mishaps' = {}
  PROVE  Implements
<1>1. PICK table \in Table, gone \in SUBSET Job :
        /\ CanStart(p) /\ Save(p, table) /\ asked' = asked \cup gone
        /\ ChangeOf(Known(p), table, asked \cup gone)
  BY DEF Call
<1>2. /\ \A q \in Process \ {p} : pc[q] \notin Busy
      /\ p \notin outdated
  BY <1>1 DEF Save, Busy
<1>3. /\ pc[p] = "idle" /\ (kind \in Cached \/ Readable)
      /\ copy' = [copy EXCEPT ![p] = table] /\ pc' = [pc EXCEPT ![p] = "save"]
      /\ UNCHANGED <<kind, file, tmp, handle, outdated>>
  BY <1>1 DEF Save, CanStart
<1>4. Writing = {} /\ Writing' = {}
  BY <1>2, <1>3 DEF Writing, Busy, StoreInv, TypeOK
<1>5. Current = FileOrNothing /\ Current' = Current
  BY <1>3, <1>4 DEF Current, FileOrNothing, Readable, Writing
<1>6. Known(p) = Current
  BY <1>2, <1>3, <1>5 DEF Known, MemoryInv, InMemory, FileOrNothing
<1>7. InMemory(p)'
  <2>1. /\ pc'[p] = "save" /\ copy'[p] = table /\ p \notin outdated'
        /\ Current' \in Table
    <3>1. Current \in Table
      BY CurrentFacts DEF CurrentIs
    <3> QED
      BY <1>2, <1>3, <1>5, <3>1 DEF StoreInv, TypeOK
  <2>2. PICK old \in Table : old = Current'
    BY <2>1
  <2>3. PICK more : more = asked'
    OBVIOUS
  <2>4. ChangeOf(old, table, more)
    BY <1>1, <1>5, <1>6, <2>2, <2>3
  <2>5. ChangeOf(old, table, more)'
    BY <1>3, <2>4, ChangeKept DEF StoreInv, TypeOK
  <2> QED
    BY <2>1, <2>2, <2>3, <2>5 DEF InMemory, Pends
<1>8. ASSUME NEW q \in Process, q # p PROVE InMemory(q)'
  <2>1. pc'[q] = pc[q] /\ copy'[q] = copy[q]
    BY <1>3, <1>8 DEF StoreInv, TypeOK
  <2> QED
    BY <1>1, <1>2, <1>3, <1>5, <1>8, <2>1, MemoryKept DEF MemoryInv, StoreInv, TypeOK
<1> QED
  BY <1>5, <1>7, <1>8 DEF Implements, MemoryInv

(* A store object reads the file.                                           *)
LEMMA OpenImplements ==
  ASSUME StoreInv, StoreInv', MemoryInv, NEW p \in Process, Open(p, FileOrNothing), now' = now,
         mishaps = {}, mishaps' = {}
  PROVE  Implements
<1>1. /\ pc[p] = "closed" /\ pc' = [pc EXCEPT ![p] = "idle"]
      /\ copy' = [copy EXCEPT ![p] = FileOrNothing]
      /\ outdated' = IF Writing = {} THEN outdated \ {p} ELSE outdated \cup {p}
      /\ UNCHANGED <<kind, file, tmp, handle, asked>>
  BY DEF Open
<1>2. Writing' = Writing /\ FileOrNothing' = FileOrNothing
  BY <1>1 DEF Writing, FileOrNothing, Readable, StoreInv, TypeOK
<1>3. Current' = Current
  <2>1. CASE kind # "snapshot" /\ Writing # {}
    <3>1. PICK q \in Process : pc[q] = "write"
      BY <2>1 DEF Writing
    <3>2. pc'[q] = "write" /\ copy'[q] = copy[q]
      BY <1>1, <3>1 DEF StoreInv, TypeOK
    <3>3. Current = copy[q]
      BY <2>1, <3>1, CurrentFacts DEF CurrentIs
    <3>4. Current' = copy'[q]
      BY <1>1, <2>1, <3>2, NextCurrentFacts DEF CurrentIs
    <3> QED
      BY <3>2, <3>3, <3>4
  <2>2. CASE kind = "snapshot" \/ Writing = {}
    BY <1>1, <1>2, <2>2 DEF Current
  <2> QED
    BY <2>1, <2>2
<1>4. InMemory(p)'
  <2>1. pc'[p] = "idle" /\ copy'[p] = FileOrNothing
    BY <1>1 DEF StoreInv, TypeOK
  <2>2. p \notin outdated' => Current = FileOrNothing
    BY <1>1, CurrentFacts DEF CurrentIs
  <2> QED
    BY <1>3, <2>1, <2>2 DEF InMemory, Pends, Busy
<1>5. ASSUME NEW q \in Process, q # p PROVE InMemory(q)'
  <2>1. /\ pc'[q] = pc[q] /\ copy'[q] = copy[q]
        /\ q \in outdated' <=> q \in outdated
    BY <1>1, <1>5 DEF StoreInv, TypeOK
  <2> QED
    BY <1>1, <1>3, <1>5, <2>1, MemoryKept DEF MemoryInv, InMemory, StoreInv, TypeOK
<1> QED
  BY <1>3, <1>4, <1>5 DEF Implements, MemoryInv

(* Opening the file to write is the moment at which the others see the      *)
(* change, in the stores that write into the file itself.                   *)
LEMMA TruncateFileImplements ==
  ASSUME StoreInv, StoreInv', MemoryInv, NEW p \in Process, TruncateFile(p), now' = now,
         mishaps = {}, mishaps' = {}
  PROVE  Implements
<1>1. /\ pc[p] = "save" /\ kind # "snapshot"
      /\ pc' = [pc EXCEPT ![p] = "write"]
      /\ UNCHANGED <<kind, tmp, copy, asked>>
      /\ Outdates(p)
  BY DEF TruncateFile
<1>2. \A q \in Process : q # p => pc[q] \notin Busy /\ pc'[q] = pc[q]
  BY <1>1 DEF StoreInv, OneSaves, Busy, TypeOK
<1>3. pc'[p] = "write"
  BY <1>1 DEF StoreInv, TypeOK
<1>4. Current' = copy[p]
  <2>1. Current' = copy'[p]
    BY <1>1, <1>3, NextCurrentFacts DEF CurrentIs
  <2> QED
    BY <1>1, <2>1
<1>5. ChangeOf(Current, Current', asked)
  BY <1>1, <1>4 DEF MemoryInv, InMemory, Pends
<1>6. p \notin outdated /\ p \notin outdated'
  <2>1. p \notin outdated
    BY <1>1 DEF MemoryInv, InMemory, Busy
  <2> QED
    BY <1>1, <2>1 DEF Outdates
<1>7. InMemory(p)'
  BY <1>1, <1>3, <1>6 DEF InMemory, Pends, Busy
<1>8. ASSUME NEW q \in Process, q # p PROVE InMemory(q)'
  <2>1. pc'[q] \notin Busy
    BY <1>2, <1>8
  <2>2. kind \in Cached /\ pc'[q] = "idle" => q \in outdated'
    BY <1>1, <1>2, <1>8 DEF Outdates
  <2> QED
    BY <1>1, <2>1, <2>2 DEF InMemory, Pends, Busy
<1> QED
  BY <1>5, <1>7, <1>8 DEF Implements, MemoryInv

(* A step at which the shared table stays.                                  *)
LEMMA TableStays ==
  ASSUME StoreInv, StoreInv', MemoryInv, NEW p \in Process, now' = now,
         kind' = kind, asked' = asked, mishaps = {}, mishaps' = {},
         Current' = Current, InMemory(p)',
         \A q \in Process \ {p} :
             /\ pc'[q] = pc[q] /\ copy'[q] = copy[q]
             /\ q \in outdated' <=> q \in outdated
             /\ pc[q] = "replace" => tmp' = tmp
  PROVE  Implements
<1>1. ASSUME NEW q \in Process, q # p PROVE InMemory(q)'
  BY <1>1, MemoryKept DEF MemoryInv, InMemory, StoreInv, TypeOK
<1> QED
  BY <1>1 DEF Implements, MemoryInv

(* The snapshot store opens a file of its own.                              *)
LEMMA TruncateTmpImplements ==
  ASSUME StoreInv, StoreInv', MemoryInv, NEW p \in Process, TruncateTmp(p), now' = now,
         mishaps = {}, mishaps' = {}
  PROVE  Implements
<1>1. /\ pc[p] = "save" /\ kind = "snapshot"
      /\ pc' = [pc EXCEPT ![p] = "write"]
      /\ UNCHANGED <<kind, file, copy, outdated, asked>>
  BY DEF TruncateTmp
<1>2. \A q \in Process : q # p => pc[q] \notin Busy /\ pc'[q] = pc[q]
  BY <1>1 DEF StoreInv, OneSaves, Busy, TypeOK
<1>3. pc'[p] = "write"
  BY <1>1 DEF StoreInv, TypeOK
<1>4. Current' = Current
  BY <1>1 DEF Current, FileOrNothing, Readable
<1>5. InMemory(p)'
  <2>1. /\ InMemory(p) /\ now' \in Nat /\ now <= now' /\ Current \in Table
    BY CurrentFacts DEF MemoryInv, CurrentIs, StoreInv, TypeOK
  <2>2. ChangeOf(Current, copy[p], asked)'
    <3>1. PICK old \in Table : old = Current
      BY <2>1
    <3>2. PICK new : new = copy[p]
      OBVIOUS
    <3>3. PICK removed : removed = asked
      OBVIOUS
    <3>4. ChangeOf(old, new, removed)
      BY <1>1, <2>1, <3>1, <3>2, <3>3 DEF InMemory, Pends
    <3>5. ChangeOf(old, new, removed)'
      BY <1>1, <3>4, ChangeKept DEF StoreInv, TypeOK
    <3> QED
      BY <1>1, <1>4, <3>1, <3>2, <3>3, <3>5
  <2> QED
    BY <1>1, <1>3, <2>1, <2>2 DEF InMemory, Pends, Busy
<1> QED
  BY <1>1, <1>2, <1>4, <1>5, TableStays DEF Busy

(* The write of the table.                                                  *)
LEMMA WriteImplements ==
  ASSUME StoreInv, StoreInv', MemoryInv, NEW p \in Process, Write(p), now' = now,
         mishaps = {}, mishaps' = {}
  PROVE  Implements
<1>1. /\ pc[p] = "write"
      /\ file' \in IF handle[p] = "file" THEN Overwrite(file, copy[p]) ELSE {file}
      /\ tmp' \in IF handle[p] = "tmp" THEN Overwrite(tmp, copy[p]) ELSE {tmp}
      /\ pc' = [pc EXCEPT ![p] = IF kind = "snapshot" THEN "replace" ELSE "idle"]
      /\ UNCHANGED <<kind, copy, outdated, asked>>
  BY DEF Write
<1>2. \A q \in Process : q # p => pc[q] \notin Busy /\ pc'[q] = pc[q]
  BY <1>1 DEF StoreInv, OneSaves, Busy, TypeOK
<1>3. p \notin outdated
  BY <1>1 DEF MemoryInv, InMemory, Busy
<1>4. CASE kind = "snapshot"
  <2>1. handle[p] = "tmp" /\ tmp = Empty
    BY <1>1, <1>4 DEF StoreInv, SnapshotsWhole
  <2>2. tmp' = copy[p] /\ file' = file /\ pc'[p] = "replace"
    BY <1>1, <1>4, <2>1 DEF Overwrite, StoreInv, TypeOK
  <2>3. Current' = Current
    BY <1>1, <1>4, <2>2 DEF Current, FileOrNothing, Readable
  <2>4. ChangeOf(Current, copy[p], asked)'
    <3>1. PICK old \in Table : old = Current
      BY CurrentFacts DEF CurrentIs
    <3>2. PICK new : new = copy[p]
      OBVIOUS
    <3>3. PICK removed : removed = asked
      OBVIOUS
    <3>4. ChangeOf(old, new, removed)
      BY <1>1, <1>4, <3>1, <3>2, <3>3 DEF MemoryInv, InMemory, Pends, Busy
    <3>5. now \in Nat /\ now' \in Nat /\ now <= now'
      BY DEF StoreInv, TypeOK
    <3>6. ChangeOf(old, new, removed)'
      BY <1>1, <3>4, <3>5, ChangeKept
    <3> QED
      BY <1>1, <2>3, <3>1, <3>2, <3>3, <3>6
  <2>5. InMemory(p)'
    BY <1>1, <1>3, <1>4, <2>2, <2>4 DEF InMemory, Pends, Busy
  <2> QED
    BY <1>1, <1>2, <2>3, <2>5, TableStays DEF Busy
<1>5. CASE kind # "snapshot"
  <2>1. handle[p] = "file" /\ file = Empty
    BY <1>1, <1>5 DEF StoreInv, FileWhole
  <2>2. file' = copy[p] /\ tmp' = tmp /\ pc'[p] = "idle" /\ copy[p] \in Table
    BY <1>1, <1>5, <2>1 DEF Overwrite, StoreInv, TypeOK
  <2>3. Writing' = {} /\ Readable'
    BY <1>2, <2>2, TableFacts DEF Writing, Busy, Readable, Unreadable
  <2>4. Current' = file'
    BY <2>3, NextCurrentFacts DEF CurrentIs
  <2>5. Current = copy[p]
    BY <1>1, <1>5, CurrentFacts DEF CurrentIs
  <2>6. InMemory(p)'
    BY <1>1, <2>2, <2>4, <1>5 DEF InMemory, Pends, Busy
  <2> QED
    BY <1>1, <1>2, <2>2, <2>4, <2>5, <2>6, TableStays
<1> QED
  BY <1>4, <1>5

(* os.replace is the moment in the snapshot store.                          *)
LEMMA ReplaceImplements ==
  ASSUME StoreInv, StoreInv', MemoryInv, NEW p \in Process, Replace(p), now' = now,
         mishaps = {}, mishaps' = {}
  PROVE  Implements
<1>1. /\ pc[p] = "replace" /\ pc' = [pc EXCEPT ![p] = "idle"]
      /\ kind = "snapshot"
      /\ UNCHANGED <<kind, copy, asked>>
  BY DEF Replace, StoreInv
<1>2. \A q \in Process : q # p => pc[q] \notin Busy /\ pc'[q] = pc[q]
  BY <1>1 DEF StoreInv, OneSaves, Busy, TypeOK
<1>3. tmp = copy[p] /\ copy[p] \in Table /\ pc'[p] = "idle"
  BY <1>1 DEF MemoryInv, InMemory, StoreInv, TypeOK
<1>4. tmp # NoFile
  BY <1>3, TableFacts
<1>5. file' = copy[p] /\ Outdates(p)
  BY <1>3, <1>4 DEF Replace
<1>6. Readable'
  BY <1>3, <1>5, TableFacts DEF Readable, Unreadable
<1>7. Current' = copy[p]
  BY <1>1, <1>5, <1>6, NextCurrentFacts DEF CurrentIs
<1>8. ChangeOf(Current, Current', asked)
  BY <1>1, <1>7 DEF MemoryInv, InMemory, Pends, Busy
<1>9. InMemory(p)'
  BY <1>1, <1>3, <1>7 DEF InMemory, Pends, Busy
<1>10. ASSUME NEW q \in Process, q # p PROVE InMemory(q)'
  <2>1. pc'[q] \notin Busy
    BY <1>2, <1>10
  <2>2. kind \in Cached /\ pc'[q] = "idle" => q \in outdated'
    BY <1>2, <1>5, <1>10 DEF Outdates
  <2> QED
    BY <1>1, <2>1, <2>2 DEF InMemory, Pends, Busy
<1> QED
  BY <1>8, <1>9, <1>10 DEF Implements, MemoryInv

(* A write that raises, if it was one into the snapshot store's own file.   *)
LEMMA WriteFailsImplements ==
  ASSUME StoreInv, StoreInv', MemoryInv, NEW p \in Process, WriteFails(p), now' = now,
         mishaps = {}, mishaps' = {}
  PROVE  Implements
<1>1. /\ pc[p] = "write" /\ pc' = [pc EXCEPT ![p] = "idle"]
      /\ kind = "snapshot" /\ outdated' = outdated \cup {p}
      /\ UNCHANGED <<kind, file, tmp, copy, asked>>
  BY DEF WriteFails, CutsFile
<1>2. Current' = Current
  BY <1>1 DEF Current, FileOrNothing, Readable
<1>3. \A q \in Process \ {p} : pc'[q] = pc[q]
  BY <1>1 DEF StoreInv, TypeOK
<1>4. InMemory(p)'
  <2>1. pc'[p] = "idle" /\ p \in outdated'
    BY <1>1 DEF StoreInv, TypeOK
  <2> QED
    BY <2>1 DEF InMemory, Pends, Busy
<1> QED
  BY <1>1, <1>2, <1>3, <1>4, TableStays

(* A death, unless it was in the middle of a write into the file itself.    *)
LEMMA DieImplements ==
  ASSUME StoreInv, StoreInv', MemoryInv, NEW p \in Process, Die(p), now' = now,
         mishaps = {}, mishaps' = {}
  PROVE  Implements
<1>1. /\ pc[p] # "write" \/ kind = "snapshot"
      /\ pc' = [pc EXCEPT ![p] = IF kind \in Cached THEN "closed" ELSE "idle"]
      /\ copy' = [copy EXCEPT ![p] = NoEntries]
      /\ outdated' = outdated \ {p}
      /\ UNCHANGED <<kind, file, tmp, asked>>
  BY DEF Die, CutsFile
<1>2. \A q \in Process \ {p} : pc'[q] = pc[q] /\ copy'[q] = copy[q]
  BY <1>1 DEF StoreInv, TypeOK
<1>3. pc'[p] = IF kind \in Cached THEN "closed" ELSE "idle"
  BY <1>1 DEF StoreInv, TypeOK
<1>4. FileOrNothing' = FileOrNothing
  BY <1>1 DEF FileOrNothing, Readable
<1>5. Current' = Current
  <2>1. CASE kind # "snapshot" /\ Writing # {}
    <3>1. PICK q \in Process : pc[q] = "write"
      BY <2>1 DEF Writing
    <3>2. pc'[q] = "write" /\ copy'[q] = copy[q]
      BY <1>1, <1>2, <2>1, <3>1
    <3>3. Current = copy[q]
      BY <2>1, <3>1, CurrentFacts DEF CurrentIs
    <3>4. Current' = copy'[q]
      BY <1>1, <2>1, <3>2, NextCurrentFacts DEF CurrentIs
    <3> QED
      BY <3>2, <3>3, <3>4
  <2>2. CASE kind = "snapshot"
    BY <1>1, <1>4, <2>2 DEF Current
  <2>3. CASE Writing = {}
    <3>1. Writing' = {}
      BY <1>2, <1>3, <2>3 DEF Writing
    <3> QED
      BY <1>1, <1>4, <2>3, <3>1 DEF Current
  <2> QED
    BY <2>1, <2>2, <2>3
<1>6. InMemory(p)'
  BY <1>1, <1>3 DEF InMemory, Pends, Busy
<1> QED
  BY <1>1, <1>2, <1>5, <1>6, TableStays

(* What went wrong is not forgotten.                                        *)
LEMMA MishapsStay ==
  ASSUME NEW p \in Process, ProcessStep(p)
  PROVE  mishaps \subseteq mishaps'
BY DEF ProcessStep, Call, Save, Open, TruncateFile, TruncateTmp, Write, Replace, WriteFails, Die

(* Every step of a process, as long as nothing went wrong.                  *)
LEMMA ProcessImplements ==
  ASSUME StoreInv, StoreInv', MemoryInv, NEW p \in Process, ProcessStep(p), now' = now,
         mishaps = {}, mishaps' = {}
  PROVE  Implements
BY CallImplements, OpenImplements, TruncateFileImplements, TruncateTmpImplements,
   WriteImplements, ReplaceImplements, WriteFailsImplements, DieImplements
DEF ProcessStep

(* And every step at all: it leaves the table, changes it or damages it.    *)
LEMMA NextImplements ==
  ASSUME StoreInv, StoreInv', MemoryInv, [Next]_vars
  PROVE  /\ MemoryInv'
         /\ \/ mishaps' # {}
            \/ mishaps = {} /\ Implements
<1> SUFFICES ASSUME mishaps' = {} PROVE mishaps = {} /\ Implements
  BY DEF MemoryInv, Implements
<1>1. CASE Step /\ UNCHANGED now
  <2>1. PICK p \in Process : ProcessStep(p)
    BY <1>1, StepsAreProcessSteps DEF StoreInv
  <2> QED
    BY <1>1, <2>1, MishapsStay, ProcessImplements
<1>2. CASE now' \in Nat /\ now <= now' /\ UNCHANGED storeVars
  <2>1. Current' = Current
    BY <1>2 DEF storeVars, Current, FileOrNothing, Readable, Writing
  <2>2. ASSUME NEW q \in Process, InMemory(q) PROVE InMemory(q)'
    BY <1>2, <2>1, <2>2, MemoryKept DEF storeVars, InMemory
  <2> QED
    BY <1>2, <2>1, <2>2 DEF storeVars, MemoryInv, Implements
<1> QED
  BY <1>1, <1>2 DEF Next, AdvanceClock, vars, StoreInv, TypeOK

(* The memory of the processes, and the table they put in place, are right  *)
(* in every reachable state in which nothing has gone wrong.                *)
LEMMA MemoryInvariance == Spec => []MemoryInv
<1>1. Init => MemoryInv
  <2> SUFFICES ASSUME Init PROVE MemoryInv
    OBVIOUS
  <2>1. \A p \in Process : pc[p] \notin Busy /\ (kind \in Cached => pc[p] # "idle")
    BY DEF Init, Busy
  <2> QED
    BY <2>1 DEF MemoryInv, InMemory, Pends, Busy
<1>2. StoreInv /\ StoreInv' /\ MemoryInv /\ [Next]_vars => MemoryInv'
  BY NextImplements
<1> QED
  BY <1>1, <1>2, StoreInvHolds, PTL DEF Spec

(* A change in these words is one of AtomicStore.                           *)
LEMMA ChangesAreAtomic ==
  ASSUME mishaps = {}, mishaps' = {}, ChangeOf(Current, Current', asked), asked \subseteq Job
  PROVE  Store!Next
<1>1. ASSUME NEW j \in Job, NEW v \in Value,
             Current' = [Current EXCEPT ![j] = IF kind \in Lists THEN Append(@, v) ELSE <<v>>]
      PROVE  Store!Change
  BY <1>1 DEF Store!Change, Store!Put
<1>2. ASSUME NEW j \in asked, Current' = [Current EXCEPT ![j] = <<>>]
      PROVE  Store!Change
  BY <1>2 DEF Store!Change, Store!Remove
<1>3. ASSUME NEW over \in SUBSET {j \in Job : Over(Current[j])},
             Current' = [j \in Job |-> IF j \in over THEN <<>> ELSE Current[j]]
      PROVE  Store!Change
  <2>1. over \in SUBSET Expired
    BY DEF Expired
  <2>2. Store!Purge
    BY <1>3, <2>1 DEF Store!Purge
  <2> QED
    BY <2>2 DEF Store!Change
<1>4. Store!Change
  BY <1>1, <1>2, <1>3 DEF ChangeOf
<1> QED
  BY <1>4 DEF Store!Next

(* As long as no two saves overlap, nobody saves an outdated copy and no    *)
(* write is cut off, every call of every store is one step of a table       *)
(* (job_pause.py:61-71 and the save of the other stores): each step of the  *)
(* stores is one of AtomicStore.                                            *)
THEOREM AtomicTableHolds == Spec => AtomicTable
<1>1. Init => Store!Init
  <2> SUFFICES ASSUME Init PROVE Store!Init
    OBVIOUS
  <2>1. Writing = {} /\ Readable /\ file = NoEntries
    BY TableFacts DEF Init, Writing, Readable, Unreadable
  <2>2. Current = NoEntries
    BY <2>1 DEF Current, FileOrNothing
  <2> QED
    BY <2>2 DEF Init, Store!Init, NoEntries
<1>2. StoreInv /\ StoreInv' /\ MemoryInv /\ [Next]_vars
        => [Store!Next]_<<Current, mishaps = {}>>
  <2> SUFFICES ASSUME StoreInv, StoreInv', MemoryInv, [Next]_vars
               PROVE  [Store!Next]_<<Current, mishaps = {}>>
    OBVIOUS
  <2>1. CASE mishaps' # {}
    BY <2>1 DEF Store!Next, Store!Damage
  <2>2. CASE mishaps = {} /\ mishaps' = {} /\ Current' = Current
    BY <2>2
  <2>3. CASE mishaps = {} /\ mishaps' = {} /\ ChangeOf(Current, Current', asked)
    BY <2>3, ChangesAreAtomic DEF StoreInv, TypeOK
  <2> QED
    BY <2>1, <2>2, <2>3, NextImplements DEF Implements
<1> QED
  BY <1>1, <1>2, StoreInvHolds, MemoryInvariance, PTL DEF Spec, AtomicTable, Store!Spec

-----------------------------------------------------------------------------
(* The history and its archive *)

(* No line of s comes after one of t, those that cannot be read aside.      *)
Before(s, t) == \A k \in DOMAIN s, l \in DOMAIN t :
    s[k] \notin Ledger!Unreadable /\ t[l] \notin Ledger!Unreadable => s[k] < t[l]

Apart(s, t) == Ledger!ToSet(s) \cap Ledger!ToSet(t) \subseteq Ledger!Unreadable

(* archive_job works through the entries in their order, and what is        *)
(* recorded in the meantime comes after them.                               *)
OrderInv ==
    /\ Ledger!Increasing(history)
    /\ stage = "idle" => entries = <<>> /\ remaining = <<>> /\ archived = 0
    /\ stage = "move" => /\ Ledger!Increasing(entries) /\ Ledger!Increasing(remaining)
                         /\ Before(remaining, entries)
    /\ stage = "write" => Ledger!Increasing(remaining) /\ Before(remaining, history)

(* Unless moving was cut off, an entry that was archived is only left in    *)
(* the history while archive_job is in its loop, and is among those it has  *)
(* done with.                                                               *)
MovedInv ==
    "move" \notin cut =>
        /\ Ledger!Distinct(archive)
        /\ stage # "move" \/ archived = 0 => Apart(history, archive)
        /\ stage = "move" => Apart(entries, archive)
        /\ stage # "idle" => Apart(remaining, archive)

(* Unless a file was cut off or a run recorded at that moment, an entry of  *)
(* the history is still to be looked at, to be written back or archived;    *)
(* the last entry was not recorded if the history ends in a torn line.      *)
KeptInv ==
    cut \cap {"replace", "archive", "clash"} = {} =>
        /\ ~Ledger!EndsTorn(archive)
        /\ Ledger!EndsTorn(history) => Len(finished) \notin recorded \cup {0}
        /\ stage # "write" => Ledger!Safe \subseteq Ledger!ToSet(history) \cup Ledger!ToSet(archive)
        /\ stage = "move" => Ledger!ToSet(history) \subseteq
               Ledger!ToSet(entries) \cup Ledger!ToSet(remaining) \cup Ledger!ToSet(archive)
        /\ stage = "write" =>
               /\ history = <<>>
               /\ Ledger!Safe \subseteq Ledger!ToSet(remaining) \cup Ledger!ToSet(archive)

ArchiveInv == Ledger!TypeOK /\ OrderInv /\ MovedInv /\ KeptInv

(* A line of a file.                                                        *)
Text == Nat \cup Ledger!Unreadable

(* What the constants of the archive are known to be.                       *)
LEMMA ArchiveConstants ==
    /\ Limit \in Nat /\ MaxEntries \in Nat
    /\ Unfinished \notin Int /\ Torn \notin Int /\ Broken \notin Int
    /\ Torn # Broken /\ Ledger!Unreadable = {Torn, Broken}
BY LedgerAssumption DEF Ledger!ArchiveAssumption, Ledger!Unreadable

(* What a line of a file is.                                                *)
LEMMA LinesOfFile ==
  ASSUME NEW S, NEW s \in Seq(S)
  PROVE  \A x : x \in Ledger!ToSet(s) <=> \E i \in 1..Len(s) : x = s[i]
BY DEF Ledger!ToSet

(* The lines of the parts a file is put together from.                      *)
LEMMA LinesOfParts ==
  ASSUME NEW S, NEW s \in Seq(S), NEW t \in Seq(S)
  PROVE  /\ s \o t \in Seq(S)
         /\ Ledger!ToSet(s \o t) = Ledger!ToSet(s) \cup Ledger!ToSet(t)
<1>1. /\ s \o t \in Seq(S) /\ Len(s \o t) = Len(s) + Len(t)
      /\ \A i \in 1..Len(s) : (s \o t)[i] = s[i]
      /\ \A i \in 1..Len(t) : (s \o t)[Len(s) + i] = t[i]
  OBVIOUS
<1>2. Ledger!ToSet(s \o t) \subseteq Ledger!ToSet(s) \cup Ledger!ToSet(t)
  <2> SUFFICES ASSUME NEW i \in 1..(Len(s) + Len(t))
               PROVE  (s \o t)[i] \in Ledger!ToSet(s) \cup Ledger!ToSet(t)
    BY <1>1 DEF Ledger!ToSet
  <2>1. CASE i \in 1..Len(s)
    BY <1>1, <2>1 DEF Ledger!ToSet
  <2>2. CASE i \notin 1..Len(s)
    <3>1. i - Len(s) \in 1..Len(t) /\ i = Len(s) + (i - Len(s))
      BY <2>2
    <3>2. (s \o t)[i] = t[i - Len(s)]
      BY <1>1, <3>1
    <3> QED
      BY <3>1, <3>2 DEF Ledger!ToSet
  <2> QED
    BY <2>1, <2>2
<1>3. Ledger!ToSet(s) \cup Ledger!ToSet(t) \subseteq Ledger!ToSet(s \o t)
  <2>1. ASSUME NEW i \in 1..Len(s) PROVE s[i] \in Ledger!ToSet(s \o t)
    BY <1>1 DEF Ledger!ToSet
  <2>2. ASSUME NEW i \in 1..Len(t) PROVE t[i] \in Ledger!ToSet(s \o t)
    <3>1. Len(s) + i \in 1..Len(s \o t) /\ (s \o t)[Len(s) + i] = t[i]
      BY <1>1
    <3> QED
      BY <1>1, <3>1, LinesOfFile
  <2>3. Ledger!ToSet(s) \subseteq Ledger!ToSet(s \o t)
    BY <2>1, LinesOfFile
  <2>4. Ledger!ToSet(t) \subseteq Ledger!ToSet(s \o t)
    BY <2>2, LinesOfFile
  <2> QED
    BY <2>3, <2>4
<1> QED
  BY <1>1, <1>2, <1>3

(* Of one with a line more.                                                 *)
LEMMA LinesOfLonger ==
  ASSUME NEW S, NEW s \in Seq(S), NEW e \in S
  PROVE  /\ Append(s, e) \in Seq(S)
         /\ Ledger!ToSet(Append(s, e)) = Ledger!ToSet(s) \cup {e}
<1>1. /\ Append(s, e) \in Seq(S) /\ Len(Append(s, e)) = Len(s) + 1
      /\ \A i \in 1..Len(s) : Append(s, e)[i] = s[i]
      /\ Append(s, e)[Len(s) + 1] = e
  OBVIOUS
<1> QED
  BY <1>1 DEF Ledger!ToSet

(* Of one that has only one line.                                           *)
LEMMA LinesOfOne ==
  ASSUME NEW S, NEW e \in S
  PROVE  /\ <<e>> \in Seq(S) /\ Ledger!ToSet(<<e>>) = {e}
         /\ Ledger!Increasing(<<e>>)
BY DEF Ledger!ToSet, Ledger!Increasing

(* Those of a piece of a file.                                              *)
LEMMA LinesOfPiece ==
  ASSUME NEW S, NEW s \in Seq(S), NEW m \in Nat \ {0}, NEW n \in 0..Len(s)
  PROVE  /\ SubSeq(s, m, n) \in Seq(S)
         /\ Ledger!ToSet(SubSeq(s, m, n)) \subseteq Ledger!ToSet(s)
         /\ Ledger!Increasing(s) => Ledger!Increasing(SubSeq(s, m, n))
<1> DEFINE p == SubSeq(s, m, n)
<1>1. CASE m <= n
  <2>1. /\ p \in Seq(S) /\ Len(p) = n - m + 1
        /\ \A i \in 1..(n - m + 1) : p[i] = s[m + i - 1] /\ m + i - 1 \in 1..Len(s)
    BY <1>1, SubSeqProperties
  <2>2. Ledger!ToSet(p) \subseteq Ledger!ToSet(s)
    BY <2>1 DEF Ledger!ToSet
  <2>3. Ledger!Increasing(s) => Ledger!Increasing(p)
    <3> HIDE DEF p
    <3> SUFFICES ASSUME Ledger!Increasing(s), NEW k \in 1..(n - m + 1), NEW l \in 1..(n - m + 1),
                        k < l, p[k] \notin Ledger!Unreadable /\ p[l] \notin Ledger!Unreadable
                 PROVE  p[k] < p[l]
      BY <2>1 DEF Ledger!Increasing
    <3>1. /\ m + k - 1 \in DOMAIN s /\ m + l - 1 \in DOMAIN s
          /\ p[k] = s[m + k - 1] /\ p[l] = s[m + l - 1]
      <4>1. DOMAIN s = 1..Len(s)
        OBVIOUS
      <4>2. p[k] = s[m + k - 1] /\ m + k - 1 \in 1..Len(s)
        BY ONLY <2>1, k \in 1..(n - m + 1)
      <4>3. p[l] = s[m + l - 1] /\ m + l - 1 \in 1..Len(s)
        BY ONLY <2>1, l \in 1..(n - m + 1)
      <4> QED
        BY <4>1, <4>2, <4>3
    <3>2. m + k - 1 < m + l - 1
      OBVIOUS
    <3> QED
      BY <3>1, <3>2 DEF Ledger!Increasing
  <2> QED
    BY <2>1, <2>2, <2>3
<1>2. CASE n < m
  <2>1. p = <<>>
    BY <1>2, SubSeqEmpty
  <2> QED
    BY <2>1 DEF Ledger!ToSet, Ledger!Increasing
<1> QED
  BY <1>1, <1>2

(* The head of what is left to look at, and the rest.                       *)
LEMMA LinesOfRest ==
  ASSUME NEW S, NEW s \in Seq(S), s # <<>>
  PROVE  /\ Head(s) \in S /\ Head(s) \in Ledger!ToSet(s)
         /\ Tail(s) \in Seq(S)
         /\ Ledger!ToSet(s) = {Head(s)} \cup Ledger!ToSet(Tail(s))
         /\ Ledger!Increasing(s) => Ledger!Increasing(Tail(s)) /\ Before(<<Head(s)>>, Tail(s))
<1>1. /\ Len(s) \in Nat /\ 1 <= Len(s) /\ Head(s) = s[1] /\ 1 \in DOMAIN s
      /\ Tail(s) \in Seq(S) /\ Len(Tail(s)) = Len(s) - 1
      /\ \A i \in 1..(Len(s) - 1) : Tail(s)[i] = s[i + 1]
  OBVIOUS
<1>2. Ledger!ToSet(s) = {Head(s)} \cup Ledger!ToSet(Tail(s))
  <2>1. ASSUME NEW i \in 1..Len(s) PROVE s[i] = Head(s) \/ s[i] \in Ledger!ToSet(Tail(s))
    <3>1. CASE i # 1
      <4>1. i - 1 \in 1..(Len(s) - 1) /\ Tail(s)[i - 1] = s[i]
        BY <1>1, <3>1
      <4>2. Tail(s)[i - 1] \in Ledger!ToSet(Tail(s))
        BY <1>1, <4>1, LinesOfFile
      <4> QED
        BY <4>1, <4>2
    <3> QED
      BY <1>1, <3>1
  <2>2. ASSUME NEW i \in 1..(Len(s) - 1) PROVE Tail(s)[i] \in Ledger!ToSet(s)
    BY <1>1 DEF Ledger!ToSet
  <2>3. Ledger!ToSet(s) \subseteq {Head(s)} \cup Ledger!ToSet(Tail(s))
    BY <2>1 DEF Ledger!ToSet
  <2>4. Ledger!ToSet(Tail(s)) \subseteq Ledger!ToSet(s)
    BY <1>1, <2>2 DEF Ledger!ToSet
  <2> QED
    BY <1>1, <2>3, <2>4 DEF Ledger!ToSet
<1>3. ASSUME Ledger!Increasing(s) PROVE Ledger!Increasing(Tail(s))
  BY <1>1, <1>3 DEF Ledger!Increasing
<1>4. ASSUME Ledger!Increasing(s) PROVE Before(<<Head(s)>>, Tail(s))
  BY <1>1, <1>4 DEF Ledger!Increasing, Before
<1> QED
  BY <1>1, <1>2, <1>3, <1>4

(* Order in terms of the lines: which come before which.                    *)
LEMMA BeforeBySets ==
  ASSUME NEW s, NEW t
  PROVE  Before(s, t) <=>
           \A a \in Ledger!ToSet(s), b \in Ledger!ToSet(t) : a \notin Ledger!Unreadable /\ b \notin Ledger!Unreadable => a < b
BY DEF Before, Ledger!ToSet

(* Files in order, one after the other.                                     *)
LEMMA IncreasingParts ==
  ASSUME NEW s \in Seq(Text), NEW t \in Seq(Text),
         Ledger!Increasing(s), Ledger!Increasing(t), Before(s, t)
  PROVE  Ledger!Increasing(s \o t)
<1>1. /\ Len(s) \in Nat /\ Len(t) \in Nat
      /\ s \o t \in Seq(Text) /\ Len(s \o t) = Len(s) + Len(t)
      /\ \A i \in 1..Len(s) : (s \o t)[i] = s[i]
      /\ \A i \in 1..Len(t) : (s \o t)[Len(s) + i] = t[i]
  OBVIOUS
<1> DEFINE u == s \o t
<1> HIDE DEF u
<1> SUFFICES ASSUME NEW k \in DOMAIN u, NEW l \in DOMAIN u, k < l, u[k] \notin Ledger!Unreadable /\ u[l] \notin Ledger!Unreadable
             PROVE  u[k] < u[l]
  BY DEF Ledger!Increasing, u
<1>2. k \in 1..(Len(s) + Len(t)) /\ l \in 1..(Len(s) + Len(t))
  BY <1>1 DEF u
<1>3. CASE l <= Len(s)
  BY <1>1, <1>2, <1>3 DEF Ledger!Increasing, u
<1>4. CASE k <= Len(s) /\ Len(s) < l
  <2>1. l - Len(s) \in 1..Len(t) /\ u[l] = t[l - Len(s)] /\ u[k] = s[k]
    BY <1>1, <1>2, <1>4 DEF u
  <2> QED
    BY <1>2, <1>4, <2>1 DEF Before
<1>5. CASE Len(s) < k
  <2>1. /\ l - Len(s) \in 1..Len(t) /\ u[l] = t[l - Len(s)]
        /\ k - Len(s) \in 1..Len(t) /\ u[k] = t[k - Len(s)]
        /\ k - Len(s) < l - Len(s)
    BY <1>1, <1>2, <1>5 DEF u
  <2> QED
    BY <2>1 DEF Ledger!Increasing
<1> QED
  BY <1>1, <1>2, <1>3, <1>4, <1>5

(* Lines, the first of them spoiled.                                        *)
LEMMA LinesSpoiled ==
  ASSUME NEW S, Ledger!Unreadable \subseteq S, NEW s \in Seq(S), s # <<>>
  PROVE  /\ Ledger!Spoiled(s) \in Seq(S) /\ Ledger!Spoiled(s) # <<>>
         /\ Ledger!ToSet(Ledger!Spoiled(s)) \subseteq Ledger!ToSet(s) \cup Ledger!Unreadable
         /\ Ledger!Increasing(s) => Ledger!Increasing(Ledger!Spoiled(s))
<1> DEFINE mark == IF s = <<Torn>> THEN Torn ELSE Broken
           u == [s EXCEPT ![1] = mark]
<1>1. mark \in Ledger!Unreadable /\ mark \in S
  BY ArchiveConstants
<1> HIDE DEF mark
<1>2. /\ u \in Seq(S) /\ DOMAIN u = DOMAIN s /\ DOMAIN u = 1..Len(u) /\ 1 \in DOMAIN s
      /\ u[1] = mark /\ \A i \in DOMAIN s : i # 1 => u[i] = s[i]
  BY <1>1
<1> HIDE DEF u
<1>3. \A i \in DOMAIN u : u[i] \in Ledger!Unreadable \/ u[i] = s[i]
  BY <1>1, <1>2
<1>4. Ledger!ToSet(u) \subseteq Ledger!ToSet(s) \cup Ledger!Unreadable
  BY <1>2, <1>3 DEF Ledger!ToSet
<1>5. Ledger!Increasing(s) => Ledger!Increasing(u)
  BY <1>2, <1>3 DEF Ledger!Increasing
<1>6. Ledger!Spoiled(s) = u
  BY DEF Ledger!Spoiled, u, mark
<1>7. u # <<>>
  BY <1>2
<1> QED
  BY <1>2, <1>4, <1>5, <1>6, <1>7

(* All lines but the last, which was cut off.                               *)
LEMMA LinesInFront ==
  ASSUME NEW S, NEW s \in Seq(S), Ledger!EndsTorn(s)
  PROVE  /\ Ledger!Front(s) \in Seq(S)
         /\ Ledger!ToSet(Ledger!Front(s)) \subseteq Ledger!ToSet(s)
         /\ Ledger!ToSet(s) \subseteq Ledger!ToSet(Ledger!Front(s)) \cup {Torn}
         /\ Ledger!Increasing(s) => Ledger!Increasing(Ledger!Front(s))
         /\ Ledger!Distinct(s) => Ledger!Distinct(Ledger!Front(s))
<1> DEFINE f == Ledger!Front(s)
<1>0. Len(s) \in Nat /\ 1 <= Len(s)
  BY DEF Ledger!EndsTorn
<1>1. /\ Len(s) \in Nat \ {0} /\ s[Len(s)] = Torn
      /\ f = SubSeq(s, 1, Len(s) - 1)
  BY <1>0 DEF Ledger!EndsTorn, Ledger!Last, Ledger!Front
<1>2. /\ f \in Seq(S) /\ Ledger!ToSet(f) \subseteq Ledger!ToSet(s)
      /\ Ledger!Increasing(s) => Ledger!Increasing(f)
  BY <1>1, LinesOfPiece
<1>3. Len(f) = Len(s) - 1 /\ \A i \in 1..(Len(s) - 1) : f[i] = s[i]
  <2>1. CASE Len(s) = 1
    BY <1>1, <2>1, SubSeqEmpty
  <2>2. CASE Len(s) # 1
    <3>1. Len(s) - 1 \in Int /\ 1 <= Len(s) - 1
      BY <1>0, <2>2
    <3>0. \A i \in 1..(Len(s) - 1) : s[i] \in S
      BY <1>0
    <3>2. /\ Len(SubSeq(s, 1, Len(s) - 1)) = Len(s) - 1
          /\ \A i \in 1..(Len(s) - 1) : SubSeq(s, 1, Len(s) - 1)[i] = s[1 + i - 1]
      BY <3>0, <3>1, SubSeqProperties
    <3> QED
      BY <1>1, <3>2
  <2> QED
    BY <2>1, <2>2
<1> HIDE DEF f
<1>4. Ledger!ToSet(s) \subseteq Ledger!ToSet(f) \cup {Torn}
  <2> SUFFICES ASSUME NEW i \in 1..Len(s), i # Len(s) PROVE s[i] \in Ledger!ToSet(f)
    BY <1>1, LinesOfFile
  <2>1. i \in 1..Len(f) /\ s[i] = f[i]
    BY <1>1, <1>3
  <2> QED
    BY <1>2, <2>1, LinesOfFile
<1>5. Ledger!Distinct(s) => Ledger!Distinct(f)
  BY <1>1, <1>2, <1>3 DEF Ledger!Distinct
<1> QED
  BY <1>2, <1>4, <1>5 DEF f

(* Lines behind others, the last of which may have been cut off.            *)
LEMMA LinesBehind ==
  ASSUME NEW S, Ledger!Unreadable \subseteq S, NEW s \in Seq(S), NEW t \in Seq(S)
  PROVE  /\ Ledger!Behind(s, t) \in Seq(S)
         /\ Ledger!ToSet(Ledger!Behind(s, t)) \subseteq
                Ledger!ToSet(s) \cup Ledger!ToSet(t) \cup Ledger!Unreadable
         /\ Ledger!ToSet(s) \subseteq Ledger!ToSet(Ledger!Behind(s, t)) \cup {Torn}
         /\ S = Text /\ Ledger!Increasing(s) /\ Ledger!Increasing(t) /\ Before(s, t)
              => Ledger!Increasing(Ledger!Behind(s, t))
<1>1. CASE ~(Ledger!EndsTorn(s) /\ t # <<>>)
  <2>1. Ledger!Behind(s, t) = s \o t
    BY <1>1 DEF Ledger!Behind
  <2>2. s \o t \in Seq(S) /\ Ledger!ToSet(s \o t) = Ledger!ToSet(s) \cup Ledger!ToSet(t)
    BY LinesOfParts
  <2> QED
    BY <2>1, <2>2, IncreasingParts
<1>2. CASE Ledger!EndsTorn(s) /\ t # <<>>
  <2> DEFINE f == Ledger!Front(s)
             p == Ledger!Spoiled(t)
  <2>1. Ledger!Behind(s, t) = f \o p
    BY <1>2 DEF Ledger!Behind
  <2>2. /\ f \in Seq(S) /\ Ledger!ToSet(f) \subseteq Ledger!ToSet(s)
        /\ Ledger!ToSet(s) \subseteq Ledger!ToSet(f) \cup {Torn}
        /\ Ledger!Increasing(s) => Ledger!Increasing(f)
    BY <1>2, LinesInFront
  <2>3. /\ p \in Seq(S) /\ Ledger!ToSet(p) \subseteq Ledger!ToSet(t) \cup Ledger!Unreadable
        /\ Ledger!Increasing(t) => Ledger!Increasing(p)
    BY <1>2, LinesSpoiled
  <2> HIDE DEF f, p
  <2>4. f \o p \in Seq(S) /\ Ledger!ToSet(f \o p) = Ledger!ToSet(f) \cup Ledger!ToSet(p)
    BY <2>2, <2>3, LinesOfParts
  <2>5. Before(s, t) => Before(f, p)
    BY <2>2, <2>3, BeforeBySets
  <2>6. S = Text /\ Ledger!Increasing(s) /\ Ledger!Increasing(t) /\ Before(s, t)
          => Ledger!Increasing(f \o p)
    BY <2>2, <2>3, <2>5, IncreasingParts
  <2> QED
    BY <2>1, <2>2, <2>3, <2>4, <2>6
<1> QED
  BY <1>1, <1>2

(* Adding a line to a file.                                                 *)
LEMMA LineAppended ==
  ASSUME NEW S, Ledger!Unreadable \subseteq S, NEW s \in Seq(S), NEW e \in S
  PROVE  /\ Ledger!AppendLine(s, e) \in Seq(S)
         /\ Ledger!ToSet(s) \subseteq Ledger!ToSet(Ledger!AppendLine(s, e)) \cup {Torn}
         /\ Ledger!ToSet(Ledger!AppendLine(s, e)) \subseteq Ledger!ToSet(s) \cup {e} \cup Ledger!Unreadable
         /\ ~Ledger!EndsTorn(s) => Ledger!AppendLine(s, e) = Append(s, e)
         /\ e # Torn => ~Ledger!EndsTorn(Ledger!AppendLine(s, e))
<1>1. <<e>> \in Seq(S) /\ Ledger!ToSet(<<e>>) = {e} /\ <<e>> # <<>>
  BY LinesOfOne
<1>2. /\ Ledger!AppendLine(s, e) \in Seq(S)
      /\ Ledger!ToSet(s) \subseteq Ledger!ToSet(Ledger!AppendLine(s, e)) \cup {Torn}
      /\ Ledger!ToSet(Ledger!AppendLine(s, e)) \subseteq Ledger!ToSet(s) \cup {e} \cup Ledger!Unreadable
  <2>1. PICK t \in Seq(S) : t = <<e>>
    BY <1>1
  <2> QED
    BY <1>1, <2>1, LinesBehind DEF Ledger!AppendLine
<1>3. CASE ~Ledger!EndsTorn(s)
  <2>1. Ledger!AppendLine(s, e) = Append(s, e)
    BY <1>3 DEF Ledger!AppendLine, Ledger!Behind
  <2>2. Ledger!Last(Append(s, e)) = e
    BY DEF Ledger!Last
  <2> QED
    BY <1>2, <2>1, <2>2 DEF Ledger!EndsTorn
<1>4. CASE Ledger!EndsTorn(s)
  <2>1. Ledger!AppendLine(s, e) = Ledger!Front(s) \o Ledger!Spoiled(<<e>>)
    BY <1>1, <1>4 DEF Ledger!AppendLine, Ledger!Behind
  <2>2. e # Torn => Ledger!Spoiled(<<e>>) = <<Broken>>
    BY DEF Ledger!Spoiled
  <2>3. Ledger!Front(s) \in Seq(S)
    BY <1>4, LinesInFront
  <2>4. \A f \in Seq(S) : Ledger!Last(f \o <<Broken>>) = Broken
    BY DEF Ledger!Last
  <2>5. e # Torn => Ledger!Last(Ledger!AppendLine(s, e)) = Broken
    BY <2>1, <2>2, <2>3, <2>4
  <2> QED
    BY <1>2, <1>4, <2>5, ArchiveConstants DEF Ledger!EndsTorn
<1> QED
  BY <1>3, <1>4

(* It keeps the order if the line comes after all others.                   *)
LEMMA IncreasingAppended ==
  ASSUME NEW s \in Seq(Text), NEW e \in Text, Ledger!Increasing(s), Before(s, <<e>>)
  PROVE  Ledger!Increasing(Ledger!AppendLine(s, e))
<1>1. Ledger!Increasing(<<e>>) /\ <<e>> \in Seq(Text)
  BY LinesOfOne
<1>2. Ledger!Unreadable \subseteq Text
  BY DEF Text
<1> QED
  BY <1>1, <1>2, LinesBehind DEF Ledger!AppendLine

(* What may be left of a file.                                              *)
LEMMA LinesRemaining ==
  ASSUME NEW S, Ledger!Unreadable \subseteq S, NEW s \in Seq(S), NEW rest \in Ledger!Remains(s)
  PROVE  /\ rest \in Seq(S)
         /\ Ledger!ToSet(rest) \subseteq Ledger!ToSet(s) \cup Ledger!Unreadable
         /\ Ledger!Increasing(s) => Ledger!Increasing(rest)
<1>1. CASE \E k \in 2..(Len(s) + 1) : rest = SubSeq(s, k, Len(s))
  BY <1>1, LinesOfPiece
<1>2. ASSUME NEW k \in 1..Len(s), rest = Ledger!Spoiled(SubSeq(s, k, Len(s)))
      PROVE  /\ rest \in Seq(S)
             /\ Ledger!ToSet(rest) \subseteq Ledger!ToSet(s) \cup Ledger!Unreadable
             /\ Ledger!Increasing(s) => Ledger!Increasing(rest)
  <2> DEFINE p == SubSeq(s, k, Len(s))
  <2>1. /\ p \in Seq(S) /\ Ledger!ToSet(p) \subseteq Ledger!ToSet(s)
        /\ Ledger!Increasing(s) => Ledger!Increasing(p)
    BY LinesOfPiece
  <2>2. p # <<>>
    <3>1. Len(p) = Len(s) - k + 1 /\ Len(s) - k + 1 > 0
      BY SubSeqProperties
    <3> HIDE DEF p
    <3> QED
      BY <3>1
  <2>3. rest = Ledger!Spoiled(p)
    BY <1>2
  <2> HIDE DEF p
  <2> QED
    BY <2>1, <2>2, <2>3, LinesSpoiled
<1> QED
  BY <1>1, <1>2 DEF Ledger!Remains

(* What replace_entries leaves in the file: the lines, and after them at    *)
(* most some of what was in it.                                             *)
LEMMA LinesOverwritten ==
  ASSUME NEW S, Ledger!Unreadable \subseteq S, NEW s \in Seq(S), NEW lines \in Seq(S),
         NEW new \in Ledger!Overwritten(s, lines)
  PROVE  /\ new \in Seq(S)
         /\ Ledger!ToSet(new) \subseteq
                Ledger!ToSet(lines) \cup Ledger!ToSet(s) \cup Ledger!Unreadable
         /\ s = <<>> => new = lines
         /\ S = Text /\ Ledger!Increasing(s) /\ Ledger!Increasing(lines) /\ Before(lines, s)
              => Ledger!Increasing(new)
<1>1. CASE s = <<>> \/ lines = <<>>
  <2>1. new = lines \o s
    BY <1>1 DEF Ledger!Overwritten
  <2>2. s = <<>> => new = lines
    BY <2>1
  <2>3. new \in Seq(S) /\ Ledger!ToSet(new) = Ledger!ToSet(lines) \cup Ledger!ToSet(s)
    BY <2>1, LinesOfParts
  <2>4. S = Text /\ Ledger!Increasing(s) /\ Ledger!Increasing(lines) /\ Before(lines, s)
          => Ledger!Increasing(new)
    BY <2>1, IncreasingParts
  <2> QED
    BY <2>2, <2>3, <2>4
<1>2. CASE ~(s = <<>> \/ lines = <<>>)
  <2>1. PICK rest \in Ledger!Remains(s) : new = Ledger!Behind(lines, rest)
    BY <1>2 DEF Ledger!Overwritten
  <2>2. /\ rest \in Seq(S)
        /\ Ledger!ToSet(rest) \subseteq Ledger!ToSet(s) \cup Ledger!Unreadable
        /\ Ledger!Increasing(s) => Ledger!Increasing(rest)
    BY LinesRemaining
  <2>3. Before(lines, s) => Before(lines, rest)
    BY <2>2, BeforeBySets
  <2>4. /\ new \in Seq(S)
        /\ Ledger!ToSet(new) \subseteq
               Ledger!ToSet(lines) \cup Ledger!ToSet(rest) \cup Ledger!Unreadable
        /\ S = Text /\ Ledger!Increasing(lines) /\ Ledger!Increasing(rest) /\ Before(lines, rest)
             => Ledger!Increasing(new)
    BY <2>1, <2>2, LinesBehind
  <2> QED
    BY <1>2, <2>2, <2>3, <2>4
<1> QED
  BY <1>1, <1>2

(* A file of some lines is one of more of them.                             *)
LEMMA MoreLines ==
  ASSUME NEW S, NEW T, S \subseteq T, NEW s \in Seq(S)
  PROVE  s \in Seq(T)
OBVIOUS

(* The lines, and what is in memory of them, in terms of what they are.     *)
LEMMA TextsOfArchive ==
  ASSUME Ledger!TypeOK
  PROVE  /\ Len(finished) \in Nat
         /\ 1..Len(finished) \subseteq Ledger!Line /\ Ledger!Unreadable \subseteq Ledger!Line
         /\ Ledger!Line \subseteq Text
         /\ history \in Seq(Text) /\ archive \in Seq(Text)
         /\ entries \in Seq(Text) /\ remaining \in Seq(Text)
         /\ entries \in Seq(Ledger!Line) /\ remaining \in Seq(Ledger!Line)
         /\ Ledger!ToSet(history) \subseteq Ledger!Line
         /\ Ledger!ToSet(archive) \subseteq Ledger!Line
         /\ Ledger!ToSet(entries) \subseteq 1..Len(finished)
         /\ Ledger!ToSet(remaining) \subseteq 1..Len(finished)
<1>1. Len(finished) \in Nat
  BY DEF Ledger!TypeOK
<1>2. /\ 1..Len(finished) \subseteq Ledger!Line /\ Ledger!Unreadable \subseteq Ledger!Line
      /\ Ledger!Line \subseteq Text
  BY <1>1 DEF Ledger!Line, Text
<1>3. history \in Seq(Ledger!Line) /\ archive \in Seq(Ledger!Line)
  BY DEF Ledger!TypeOK
<1>4. entries \in Seq(1..Len(finished)) /\ remaining \in Seq(1..Len(finished))
  BY DEF Ledger!TypeOK
<1>5. entries \in Seq(Ledger!Line) /\ remaining \in Seq(Ledger!Line)
  BY <1>2, <1>4, MoreLines
<1>6. /\ history \in Seq(Text) /\ archive \in Seq(Text)
      /\ entries \in Seq(Text) /\ remaining \in Seq(Text)
  BY <1>2, <1>3, <1>5, MoreLines
<1>7. Ledger!ToSet(history) \subseteq Ledger!Line /\ Ledger!ToSet(archive) \subseteq Ledger!Line
  BY <1>3 DEF Ledger!ToSet
<1>8. /\ Ledger!ToSet(entries) \subseteq 1..Len(finished)
      /\ Ledger!ToSet(remaining) \subseteq 1..Len(finished)
  BY <1>4 DEF Ledger!ToSet
<1> QED
  BY <1>1, <1>2, <1>5, <1>6, <1>7, <1>8

(* No entries: nothing is left of what archive_job knew.                    *)
LEMMA NothingLeft ==
    /\ \A S : <<>> \in Seq(S)
    /\ Ledger!ToSet(<<>>) = {} /\ Ledger!Increasing(<<>>) /\ Ledger!Distinct(<<>>)
    /\ \A s : Before(<<>>, s) /\ Before(s, <<>>)
<1>1. \A S : <<>> \in Seq(S)
  BY EmptySeq
<1>2. DOMAIN <<>> = {}
  OBVIOUS
<1> QED
  BY <1>1, <1>2 DEF Ledger!ToSet, Ledger!Increasing, Ledger!Distinct, Before

(* A new line is one of more lines.                                         *)
LEMMA RecordLines ==
  ASSUME Ledger!TypeOK, NEW t \in Nat \cup {Unfinished}, finished' = Append(finished, t)
  PROVE  /\ finished' \in Seq(Nat \cup {Unfinished})
         /\ Len(finished') = Len(finished) + 1
         /\ 1..Len(finished) \subseteq 1..Len(finished')
         /\ Len(finished) + 1 \in 1..Len(finished')
         /\ Ledger!Line \subseteq Ledger!Line'
         /\ Len(finished) + 1 \in Ledger!Line' /\ Ledger!Unreadable \subseteq Ledger!Line'
<1>1. finished \in Seq(Nat \cup {Unfinished}) /\ Len(finished) \in Nat
  BY DEF Ledger!TypeOK
<1>2. finished' \in Seq(Nat \cup {Unfinished}) /\ Len(finished') = Len(finished) + 1
  BY <1>1
<1> QED
  BY <1>1, <1>2 DEF Ledger!Line

(* HistoryStore.record: a line of the run, or part of one, is added.        *)
LEMMA RecordKeeps ==
  ASSUME ArchiveInv, Ledger!Record, now' = now
  PROVE  ArchiveInv'
<1> DEFINE n == Len(finished) + 1
<1>0. Ledger!TypeOK /\ OrderInv /\ MovedInv /\ KeptInv
  BY DEF ArchiveInv
<1>1. PICK t \in Nat \cup {Unfinished} : finished' = Append(finished, t)
  BY <1>0 DEF Ledger!Record, Ledger!TypeOK
<1>4. /\ n \in Nat /\ n \in Text /\ Ledger!Unreadable \subseteq Text /\ n \notin Ledger!Unreadable
      /\ Torn \in Ledger!Unreadable
      /\ \A x \in Ledger!Line : x \notin Ledger!Unreadable => x < n
  BY <1>0, ArchiveConstants, TextsOfArchive DEF Text, Ledger!Line
<1>2. PICK line \in {n, Torn} :
        /\ history' = Ledger!AppendLine(history, line)
        /\ recorded' = IF line = n THEN recorded \cup {n} ELSE recorded
        /\ archiveFaults' \in {archiveFaults, archiveFaults + 1}
        /\ cut \subseteq cut' /\ cut' \subseteq cut \cup {"clash", "record"}
        /\ stage # "idle" => "clash" \in cut'
  <2> DEFINE interrupts == IF stage = "idle" THEN {} ELSE {"clash"}
  <2>1. CASE /\ history' = Ledger!AppendLine(history, n)
             /\ recorded' = recorded \cup {n}
             /\ cut' = cut \cup interrupts
             /\ UNCHANGED archiveFaults
    BY <2>1
  <2>2. CASE /\ archiveFaults' = archiveFaults + 1
             /\ history' = Ledger!AppendLine(history, Torn)
             /\ recorded' = recorded
             /\ cut' = cut \cup interrupts \cup {"record"}
    BY <1>4, <2>2
  <2> QED
    BY <2>1, <2>2 DEF Ledger!Record, Ledger!Fault
<1>3. UNCHANGED <<archive, stage, entries, remaining, archived>>
  BY DEF Ledger!Record
<1>5. /\ Ledger!ToSet(history) \subseteq Ledger!ToSet(history') \cup {Torn}
      /\ Ledger!ToSet(history') \subseteq Ledger!ToSet(history) \cup {line} \cup Ledger!Unreadable
      /\ ~Ledger!EndsTorn(history) => line \in Ledger!ToSet(history')
      /\ line = n => ~Ledger!EndsTorn(history')
  <2>1. history \in Seq(Text) /\ line \in Text
    BY <1>0, <1>4, TextsOfArchive
  <2>2. line \in Ledger!ToSet(Append(history, line))
    BY <2>1, LinesOfLonger
  <2> DEFINE new == Ledger!AppendLine(history, line)
  <2>3. /\ Ledger!ToSet(history) \subseteq Ledger!ToSet(new) \cup {Torn}
        /\ Ledger!ToSet(new) \subseteq Ledger!ToSet(history) \cup {line} \cup Ledger!Unreadable
        /\ ~Ledger!EndsTorn(history) => new = Append(history, line)
        /\ line # Torn => ~Ledger!EndsTorn(new)
    BY <1>4, <2>1, LineAppended
  <2>4. history' = new /\ (line = n => line # Torn)
    BY <1>2, <1>4
  <2> HIDE DEF new
  <2> QED
    BY <2>2, <2>3, <2>4
<1> HIDE DEF n
<1>6. Ledger!TypeOK'
  <2>1. history' \in Seq(Ledger!Line')
    <3>1. history \in Seq(Ledger!Line')
      BY <1>0, <1>1, RecordLines, MoreLines DEF Ledger!TypeOK
    <3>2. line \in Ledger!Line'
      BY <1>0, <1>1, <1>4, RecordLines DEF n
    <3>3. Ledger!Unreadable \subseteq Ledger!Line'
      BY <1>0, <1>1, RecordLines
    <3> QED
      BY <1>2, <3>1, <3>2, <3>3, LineAppended
  <2>2. archive' \in Seq(Ledger!Line')
    BY <1>0, <1>1, <1>3, RecordLines, MoreLines DEF Ledger!TypeOK
  <2>3. entries' \in Seq(1..Len(finished')) /\ remaining' \in Seq(1..Len(finished'))
    BY <1>0, <1>1, <1>3, RecordLines, MoreLines DEF Ledger!TypeOK
  <2>4. recorded' \subseteq 1..Len(finished')
    BY <1>0, <1>1, <1>2, RecordLines DEF Ledger!TypeOK, n
  <2>5. /\ cut' \subseteq {"record", "move", "archive", "replace", "clash"}
        /\ archiveFaults' \in Nat
    BY <1>0, <1>2 DEF Ledger!TypeOK
  <2> QED
    BY <1>0, <1>1, <1>3, <2>1, <2>2, <2>3, <2>4, <2>5, RecordLines DEF Ledger!TypeOK
<1>7. OrderInv'
  <2>1. Ledger!Increasing(history')
    <3>1. Before(history, <<line>>)
      <4>1. Ledger!ToSet(<<line>>) = {line}
        BY LinesOfOne
      <4>2. \A x \in Ledger!ToSet(history) : x \notin Ledger!Unreadable /\ line \notin Ledger!Unreadable => x < line
        BY <1>0, <1>4, TextsOfArchive
      <4> QED
        BY <4>1, <4>2, BeforeBySets
    <3> QED
      BY <1>0, <1>2, <1>4, <3>1, TextsOfArchive, IncreasingAppended DEF OrderInv
  <2>2. stage = "write" => Before(remaining, history')
    <3>1. \A x \in Ledger!ToSet(remaining) : x < n
      BY <1>0, <1>4, TextsOfArchive, ArchiveConstants
    <3> QED
      BY <1>0, <1>2, <1>4, <1>5, <3>1, BeforeBySets DEF OrderInv
  <2> QED
    BY <1>0, <1>3, <2>1, <2>2 DEF OrderInv
<1>8. MovedInv'
  <2>1. Apart(history, archive) => Apart(history', archive)
    <3>1. n \notin Ledger!ToSet(archive)
      BY <1>0, <1>4, TextsOfArchive
    <3> QED
      BY <1>2, <1>4, <1>5, <3>1 DEF Apart
  <2> QED
    BY <1>0, <1>2, <1>3, <2>1 DEF MovedInv, Apart
<1>9. KeptInv'
  <2> SUFFICES ASSUME cut' \cap {"replace", "archive", "clash"} = {}
               PROVE  KeptInv'
    BY DEF KeptInv
  <2>1. /\ stage = "idle" /\ cut \cap {"replace", "archive", "clash"} = {}
        /\ Ledger!EndsTorn(history) => Len(finished) \notin recorded \cup {0}
        /\ Ledger!Safe \subseteq Ledger!ToSet(history) \cup Ledger!ToSet(archive)
    BY <1>0, <1>2 DEF KeptInv
  <2>2. recorded \subseteq 1..Len(finished) /\ Len(finished) \in Nat
    BY <1>0, TextsOfArchive DEF Ledger!TypeOK
  <2>3. Ledger!EndsTorn(history') => Len(finished') \notin recorded' \cup {0}
    <3>1. Len(finished') = Len(finished) + 1
      BY <1>0, <1>1, RecordLines
    <3> QED
      BY <1>2, <1>4, <1>5, <2>2, <3>1 DEF n
  <2>4. Ledger!Safe' \subseteq Ledger!ToSet(history') \cup Ledger!ToSet(archive)
    <3> SUFFICES ASSUME NEW m \in recorded', m - 1 \in recorded' \cup {0}
                 PROVE  m \in Ledger!ToSet(history') \cup Ledger!ToSet(archive)
      BY DEF Ledger!Safe
    <3>1. CASE m = n /\ line = n
      <4>1. Len(finished) \in recorded \cup {0}
        BY <1>2, <2>2, <3>1 DEF n
      <4> QED
        BY <1>5, <2>1, <3>1, <4>1
    <3>2. CASE ~(m = n /\ line = n)
      <4>1. m \in recorded /\ m - 1 \in recorded \cup {0}
        BY <1>2, <2>2, <3>2 DEF n
      <4>2. m \in Ledger!ToSet(history) \cup Ledger!ToSet(archive)
        BY <2>1, <4>1 DEF Ledger!Safe
      <4>3. m # Torn
        BY <2>2, <4>1, ArchiveConstants
      <4> QED
        BY <1>5, <4>2, <4>3
    <3> QED
      BY <3>1, <3>2
  <2> QED
    BY <1>0, <1>3, <2>1, <2>3, <2>4 DEF KeptInv
<1> QED
  BY <1>6, <1>7, <1>8, <1>9 DEF ArchiveInv

(* A line that was not in a file yet is in it once.                         *)
LEMMA DistinctAppended ==
  ASSUME NEW s \in Seq(Text), NEW e \in Text, Ledger!Distinct(s), e \notin Ledger!ToSet(s)
  PROVE  Ledger!Distinct(Ledger!AppendLine(s, e))
<1>1. ASSUME NEW t \in Seq(Text), NEW x \in Text, Ledger!Distinct(t),
             x \notin Ledger!ToSet(t) \/ x \in Ledger!Unreadable
      PROVE  Ledger!Distinct(Append(t, x))
  <2> DEFINE u == Append(t, x)
  <2>1. /\ Len(t) \in Nat /\ u \in Seq(Text) /\ Len(u) = Len(t) + 1
        /\ \A i \in 1..Len(t) : u[i] = t[i]
        /\ u[Len(t) + 1] = x
    OBVIOUS
  <2>2. \A i \in 1..Len(t) : t[i] # x \/ x \in Ledger!Unreadable
    BY <1>1, LinesOfFile
  <2> HIDE DEF u
  <2> SUFFICES ASSUME NEW k \in 1..(Len(t) + 1), NEW l \in 1..(Len(t) + 1), k # l,
                      u[k] \notin Ledger!Unreadable
               PROVE  u[k] # u[l]
    BY <2>1 DEF Ledger!Distinct, u
  <2>3. CASE k # Len(t) + 1 /\ l # Len(t) + 1
    <3>1. k \in DOMAIN t /\ l \in DOMAIN t
      BY <2>1, <2>3
    <3> QED
      BY <1>1, <2>1, <3>1 DEF Ledger!Distinct
  <2>4. CASE k = Len(t) + 1 \/ l = Len(t) + 1
    BY <2>1, <2>2, <2>4
  <2> QED
    BY <2>3, <2>4
<1>2. CASE ~Ledger!EndsTorn(s)
  <2>1. Ledger!AppendLine(s, e) = Append(s, e)
    BY <1>2 DEF Ledger!AppendLine, Ledger!Behind
  <2> QED
    BY <1>1, <2>1
<1>3. CASE Ledger!EndsTorn(s)
  <2> DEFINE f == Ledger!Front(s)
  <2>1. PICK x \in Ledger!Unreadable : Ledger!Spoiled(<<e>>) = <<x>>
    BY ArchiveConstants DEF Ledger!Spoiled
  <2>2. Ledger!AppendLine(s, e) = f \o <<x>>
    BY <1>3, <2>1 DEF Ledger!AppendLine, Ledger!Behind
  <2>3. f \in Seq(Text) /\ Ledger!Distinct(f)
    BY <1>3, LinesInFront
  <2> HIDE DEF f
  <2>4. x \in Text
    BY DEF Text
  <2>5. Ledger!AppendLine(s, e) = Append(f, x)
    BY <2>2, <2>3, <2>4
  <2> QED
    BY <1>1, <2>3, <2>4, <2>5
<1> QED
  BY <1>2, <1>3

(* archive_job reads the history.                                           *)
LEMMA StartArchivingKeeps ==
  ASSUME ArchiveInv, Ledger!StartArchiving, now' = now
  PROVE  ArchiveInv'
<1>1. Ledger!TypeOK /\ OrderInv /\ MovedInv /\ KeptInv
  BY DEF ArchiveInv
<1>2. /\ stage = "idle" /\ Ledger!ToSet(history) \cap Ledger!Unreadable = {}
      /\ stage' = "move" /\ entries' = history
      /\ UNCHANGED <<history, archive, finished, remaining, archived, recorded, archiveFaults, cut>>
  BY DEF Ledger!StartArchiving
<1>3. entries' \in Seq(1..Len(finished))
  <2>1. history \in Seq(Ledger!Line) /\ Ledger!ToSet(history) \subseteq 1..Len(finished)
    BY <1>1, <1>2, TextsOfArchive DEF Ledger!TypeOK, Ledger!Line
  <2>2. \A i \in 1..Len(history) : history[i] \in 1..Len(finished)
    BY <2>1, LinesOfFile
  <2> QED
    BY <1>2, <2>1, <2>2
<1>4. remaining = <<>>
  BY <1>1, <1>2 DEF OrderInv
<1>5. Ledger!TypeOK'
  BY <1>1, <1>2, <1>3 DEF Ledger!TypeOK, Ledger!Line
<1>6. OrderInv'
  BY <1>1, <1>2, <1>4, NothingLeft DEF OrderInv
<1>7. MovedInv'
  BY <1>1, <1>2, <1>4, NothingLeft DEF MovedInv, Apart
<1>8. KeptInv'
  BY <1>1, <1>2 DEF KeptInv, Ledger!Safe
<1> QED
  BY <1>5, <1>6, <1>7, <1>8 DEF ArchiveInv

(* An entry is appended to the archive.                                     *)
LEMMA MoveKeeps ==
  ASSUME ArchiveInv, Ledger!Move, now' = now
  PROVE  ArchiveInv'
<1> DEFINE e == Head(entries)
           rest == Tail(entries)
<1>1. Ledger!TypeOK /\ OrderInv /\ MovedInv /\ KeptInv
  BY DEF ArchiveInv
<1>2. /\ stage = "move" /\ entries # <<>> /\ entries' = rest
      /\ archive' = Ledger!AppendLine(archive, e) /\ archived' = archived + 1
      /\ UNCHANGED <<history, finished, stage, remaining, recorded, archiveFaults, cut>>
  BY DEF Ledger!Move
<1>3. /\ e \in 1..Len(finished) /\ rest \in Seq(1..Len(finished))
      /\ Ledger!ToSet(entries) = {e} \cup Ledger!ToSet(rest)
      /\ Ledger!Increasing(rest) /\ Before(<<e>>, rest)
  <2>1. entries \in Seq(1..Len(finished)) /\ Ledger!Increasing(entries)
    BY <1>1, <1>2 DEF Ledger!TypeOK, OrderInv
  <2> QED
    BY <1>2, <2>1, LinesOfRest
<1>4. e \notin Ledger!Unreadable /\ e # Torn /\ e \in Ledger!Line /\ Ledger!Unreadable \subseteq Ledger!Line
  BY <1>1, <1>3, ArchiveConstants, TextsOfArchive
<1>5. /\ Ledger!AppendLine(archive, e) \in Seq(Ledger!Line)
      /\ Ledger!ToSet(archive) \subseteq Ledger!ToSet(Ledger!AppendLine(archive, e)) \cup {Torn}
      /\ Ledger!ToSet(Ledger!AppendLine(archive, e)) \subseteq
             Ledger!ToSet(archive) \cup {e} \cup Ledger!Unreadable
      /\ ~Ledger!EndsTorn(archive) =>
             Ledger!ToSet(Ledger!AppendLine(archive, e)) = Ledger!ToSet(archive) \cup {e}
      /\ ~Ledger!EndsTorn(Ledger!AppendLine(archive, e))
  <2>1. archive \in Seq(Ledger!Line)
    BY <1>1 DEF Ledger!TypeOK
  <2>2. Ledger!ToSet(Append(archive, e)) = Ledger!ToSet(archive) \cup {e}
    BY <1>4, <2>1, LinesOfLonger
  <2> QED
    BY <1>4, <2>1, <2>2, LineAppended
<1>6. /\ e \notin Ledger!ToSet(rest)
      /\ e \notin Ledger!ToSet(remaining)
  <2>1. Ledger!ToSet(<<e>>) = {e}
    BY LinesOfOne
  <2>2. \A b \in Ledger!ToSet(rest) : e \notin Ledger!Unreadable /\ b \notin Ledger!Unreadable => e < b
    BY <1>3, <2>1, BeforeBySets
  <2>3. \A a \in Ledger!ToSet(remaining) : a \notin Ledger!Unreadable /\ e \notin Ledger!Unreadable => a < e
    BY <1>1, <1>2, <1>3, BeforeBySets DEF OrderInv
  <2> QED
    BY <1>3, <1>4, <2>2, <2>3
<1> HIDE DEF e, rest
<1>7. Ledger!TypeOK'
  BY <1>1, <1>2, <1>3, <1>5 DEF Ledger!TypeOK, Ledger!Line
<1>8. OrderInv'
  <2>1. Before(remaining, rest)
    BY <1>1, <1>2, <1>3, BeforeBySets DEF OrderInv
  <2> QED
    BY <1>1, <1>2, <1>3, <2>1 DEF OrderInv
<1>9. MovedInv'
  <2> SUFFICES ASSUME "move" \notin cut
               PROVE  /\ Ledger!Distinct(archive')
                      /\ Apart(rest, archive') /\ Apart(remaining, archive')
    BY <1>1, <1>2 DEF MovedInv, Ledger!TypeOK
  <2>1. /\ Ledger!Distinct(archive) /\ Apart(entries, archive) /\ Apart(remaining, archive)
    BY <1>1, <1>2 DEF MovedInv
  <2>2. e \notin Ledger!ToSet(archive)
    BY <1>3, <1>4, <2>1 DEF Apart
  <2>3. Ledger!Distinct(archive')
    <3>1. archive \in Seq(Text) /\ e \in Text
      BY <1>1, <1>4, TextsOfArchive
    <3>2. Ledger!Distinct(Ledger!AppendLine(archive, e))
      BY <2>1, <2>2, <3>1, DistinctAppended
    <3> QED
      BY <1>2, <3>2
  <2>4. Apart(rest, archive') /\ Apart(remaining, archive')
    BY <1>2, <1>3, <1>5, <1>6, <2>1 DEF Apart
  <2> QED
    BY <2>3, <2>4
<1>10. KeptInv'
  BY <1>1, <1>2, <1>3, <1>5 DEF KeptInv, Ledger!Safe
<1> QED
  BY <1>7, <1>8, <1>9, <1>10 DEF ArchiveInv

(* An entry is kept.                                                        *)
LEMMA KeepKeeps ==
  ASSUME ArchiveInv, Ledger!Keep, now' = now
  PROVE  ArchiveInv'
<1> DEFINE e == Head(entries)
           rest == Tail(entries)
<1>1. Ledger!TypeOK /\ OrderInv /\ MovedInv /\ KeptInv
  BY DEF ArchiveInv
<1>2. /\ stage = "move" /\ entries # <<>> /\ entries' = rest
      /\ remaining' = Append(remaining, e)
      /\ UNCHANGED <<history, archive, finished, stage, archived, recorded, archiveFaults, cut>>
  BY DEF Ledger!Keep
<1>3. /\ e \in 1..Len(finished) /\ rest \in Seq(1..Len(finished))
      /\ Ledger!ToSet(entries) = {e} \cup Ledger!ToSet(rest)
      /\ Ledger!Increasing(rest) /\ Before(<<e>>, rest)
  <2>1. entries \in Seq(1..Len(finished)) /\ Ledger!Increasing(entries)
    BY <1>1, <1>2 DEF Ledger!TypeOK, OrderInv
  <2> QED
    BY <1>2, <2>1, LinesOfRest
<1>4. e \notin Ledger!Unreadable /\ e \in Text /\ Len(finished) \in Nat
  BY <1>1, <1>3, ArchiveConstants, TextsOfArchive DEF Text
<1>5. /\ Append(remaining, e) \in Seq(1..Len(finished))
      /\ Ledger!ToSet(Append(remaining, e)) = Ledger!ToSet(remaining) \cup {e}
  <2>1. remaining \in Seq(1..Len(finished))
    BY <1>1 DEF Ledger!TypeOK
  <2> QED
    BY <1>3, <2>1, LinesOfLonger
<1>6. /\ Ledger!ToSet(<<e>>) = {e} /\ Ledger!Increasing(<<e>>) /\ <<e>> \in Seq(Text)
  BY <1>4, LinesOfOne
<1> HIDE DEF e, rest
<1>7. Ledger!TypeOK'
  BY <1>1, <1>2, <1>3, <1>5 DEF Ledger!TypeOK, Ledger!Line
<1>8. OrderInv'
  <2>1. Before(remaining, entries)
    BY <1>1, <1>2 DEF OrderInv
  <2>2. Before(remaining, <<e>>)
    BY <1>3, <1>6, <2>1, BeforeBySets
  <2>3. Ledger!Increasing(Append(remaining, e))
    <3>1. remaining \in Seq(Text) /\ Ledger!Increasing(remaining)
      BY <1>1, <1>2, TextsOfArchive DEF OrderInv
    <3>2. Ledger!Increasing(remaining \o <<e>>)
      BY <1>6, <2>2, <3>1, IncreasingParts
    <3>3. remaining \o <<e>> = Append(remaining, e)
      BY <3>1
    <3> QED
      BY <3>2, <3>3
  <2>4. Before(Append(remaining, e), rest)
    <3>1. \A a \in Ledger!ToSet(remaining), b \in Ledger!ToSet(rest) : a \notin Ledger!Unreadable /\ b \notin Ledger!Unreadable => a < b
      BY <1>3, <2>1, BeforeBySets
    <3>2. \A b \in Ledger!ToSet(rest) : e \notin Ledger!Unreadable /\ b \notin Ledger!Unreadable => e < b
      BY <1>3, <1>6, BeforeBySets
    <3> QED
      BY <1>5, <3>1, <3>2, BeforeBySets
  <2> QED
    BY <1>1, <1>2, <1>3, <2>3, <2>4 DEF OrderInv
<1>9. MovedInv'
  BY <1>1, <1>2, <1>3, <1>5 DEF MovedInv, Apart
<1>10. KeptInv'
  BY <1>1, <1>2, <1>3, <1>5 DEF KeptInv, Ledger!Safe
<1> QED
  BY <1>7, <1>8, <1>9, <1>10 DEF ArchiveInv

(* archive_job is through with the entries.                                 *)
LEMMA StartReplacingKeeps ==
  ASSUME ArchiveInv, Ledger!StartReplacing, now' = now
  PROVE  ArchiveInv'
<1>1. Ledger!TypeOK /\ OrderInv /\ MovedInv /\ KeptInv
  BY DEF ArchiveInv
<1>2. /\ stage = "move" /\ entries = <<>>
      /\ UNCHANGED <<archive, finished, recorded, archiveFaults, cut>>
  BY DEF Ledger!StartReplacing
<1>3. CASE archived = 0
  <2>1. /\ stage' = "idle" /\ entries' = <<>> /\ remaining' = <<>> /\ archived' = 0
        /\ history' = history
    BY <1>3 DEF Ledger!StartReplacing, Ledger!Leave
  <2>2. Ledger!TypeOK'
    BY <1>1, <1>2, <2>1, NothingLeft DEF Ledger!TypeOK, Ledger!Line
  <2>3. OrderInv'
    BY <1>1, <2>1 DEF OrderInv
  <2>4. MovedInv'
    BY <1>1, <1>2, <1>3, <2>1 DEF MovedInv, Apart
  <2>5. KeptInv'
    BY <1>1, <1>2, <2>1 DEF KeptInv, Ledger!Safe
  <2> QED
    BY <2>2, <2>3, <2>4, <2>5 DEF ArchiveInv
<1>4. CASE archived # 0
  <2>1. /\ stage' = "write" /\ history' = <<>>
        /\ UNCHANGED <<entries, remaining, archived>>
    BY <1>4 DEF Ledger!StartReplacing, Ledger!locals
  <2>2. Ledger!TypeOK'
    BY <1>1, <1>2, <2>1, NothingLeft DEF Ledger!TypeOK, Ledger!Line
  <2>3. OrderInv'
    BY <1>1, <1>2, <2>1, NothingLeft DEF OrderInv
  <2>4. MovedInv'
    BY <1>1, <1>2, <2>1, NothingLeft DEF MovedInv, Apart
  <2>5. KeptInv'
    BY <1>1, <1>2, <2>1, NothingLeft DEF KeptInv, Ledger!Safe, Ledger!EndsTorn
  <2> QED
    BY <2>2, <2>3, <2>4, <2>5 DEF ArchiveInv
<1> QED
  BY <1>3, <1>4

(* What was kept, or a beginning of it, is written back; only in the second *)
(* case is anything lost.                                                   *)
LEMMA WritingBackKeeps ==
  ASSUME ArchiveInv, now' = now, stage = "write", Ledger!Leave,
         NEW lines \in Seq(Ledger!Line), Ledger!Increasing(lines),
         Ledger!ToSet(lines) \subseteq Ledger!ToSet(remaining) \cup Ledger!Unreadable,
         history' \in Ledger!Overwritten(history, lines),
         lines = remaining \/ "replace" \in cut',
         cut' \in {cut, cut \cup {"replace"}}, archiveFaults' \in {archiveFaults, archiveFaults + 1},
         UNCHANGED <<archive, finished, recorded>>
  PROVE  ArchiveInv'
<1>1. Ledger!TypeOK /\ OrderInv /\ MovedInv /\ KeptInv
  BY DEF ArchiveInv
<1>2. stage' = "idle" /\ entries' = <<>> /\ remaining' = <<>> /\ archived' = 0
  BY DEF Ledger!Leave
<1>3. lines \in Seq(Text) /\ history \in Seq(Text) /\ history \in Seq(Ledger!Line)
      /\ Ledger!Unreadable \subseteq Ledger!Line /\ Ledger!Unreadable \subseteq Text
  BY <1>1, TextsOfArchive, MoreLines DEF Ledger!TypeOK, Text
<1>4. /\ history' \in Seq(Ledger!Line)
      /\ Ledger!ToSet(history') \subseteq
             Ledger!ToSet(lines) \cup Ledger!ToSet(history) \cup Ledger!Unreadable
      /\ history = <<>> => history' = lines
  BY <1>3, LinesOverwritten
<1>5. Ledger!Increasing(history')
  <2>1. Before(lines, history)
    BY <1>1, BeforeBySets DEF OrderInv
  <2> QED
    BY <1>1, <1>3, <2>1, LinesOverwritten DEF OrderInv
<1>6. Ledger!TypeOK'
  BY <1>1, <1>2, <1>4, NothingLeft DEF Ledger!TypeOK, Ledger!Line
<1>7. OrderInv'
  BY <1>2, <1>5 DEF OrderInv
<1>8. MovedInv'
  BY <1>1, <1>2, <1>4 DEF MovedInv, Apart
<1>9. KeptInv'
  <2> SUFFICES ASSUME cut' \cap {"replace", "archive", "clash"} = {}
               PROVE  KeptInv'
    BY DEF KeptInv
  <2>1. cut \cap {"replace", "archive", "clash"} = {} /\ lines = remaining
    OBVIOUS
  <2>2. history' = remaining
    BY <1>1, <1>4, <2>1 DEF KeptInv
  <2> QED
    <3>1. ~Ledger!EndsTorn(remaining)
      BY <1>1, ArchiveConstants DEF Ledger!TypeOK, Ledger!EndsTorn, Ledger!Last
    <3> QED
      BY <1>1, <1>2, <2>1, <2>2, <3>1 DEF KeptInv, Ledger!Safe
<1> QED
  BY <1>6, <1>7, <1>8, <1>9 DEF ArchiveInv

(* replace_entries writes all of it.                                        *)
LEMMA FinishReplacingKeeps ==
  ASSUME ArchiveInv, Ledger!FinishReplacing, now' = now
  PROVE  ArchiveInv'
<1>1. Ledger!TypeOK /\ OrderInv
  BY DEF ArchiveInv
<1>2. /\ stage = "write" /\ Ledger!Leave
      /\ history' \in Ledger!Overwritten(history, remaining)
      /\ UNCHANGED <<archive, finished, recorded, archiveFaults, cut>>
  BY DEF Ledger!FinishReplacing
<1>3. remaining \in Seq(Ledger!Line) /\ Ledger!Increasing(remaining)
  BY <1>1, <1>2, TextsOfArchive DEF OrderInv
<1> QED
  BY <1>2, <1>3, WritingBackKeeps

(* Or it is cut off.                                                        *)
LEMMA CutOffReplaceKeeps ==
  ASSUME ArchiveInv, Ledger!CutOffReplace, now' = now
  PROVE  ArchiveInv'
<1>1. Ledger!TypeOK /\ OrderInv
  BY DEF ArchiveInv
<1>2. /\ stage = "write" /\ Ledger!Leave /\ archiveFaults' = archiveFaults + 1
      /\ cut' = cut \cup {"replace"}
      /\ UNCHANGED <<archive, finished, recorded>>
  BY DEF Ledger!CutOffReplace, Ledger!Fault
<1>3. PICK k \in 0..Len(remaining), torn \in {<<>>, <<Torn>>} :
        history' \in Ledger!Overwritten(history, SubSeq(remaining, 1, k) \o torn)
  BY DEF Ledger!CutOffReplace
<1>4. /\ remaining \in Seq(Ledger!Line) /\ Ledger!Increasing(remaining)
      /\ Torn \in Ledger!Unreadable /\ Torn \in Ledger!Line /\ Ledger!Line \subseteq Text
  BY <1>1, <1>2, TextsOfArchive, ArchiveConstants DEF OrderInv
<1> DEFINE kept == SubSeq(remaining, 1, k)
<1>5. /\ kept \in Seq(Ledger!Line) /\ Ledger!ToSet(kept) \subseteq Ledger!ToSet(remaining)
      /\ Ledger!Increasing(kept)
  BY <1>4, LinesOfPiece
<1>6. /\ torn \in Seq(Ledger!Line) /\ Ledger!ToSet(torn) \subseteq {Torn}
      /\ Ledger!Increasing(torn)
  BY <1>4, LinesOfOne, NothingLeft
<1> HIDE DEF kept
<1>7. /\ kept \o torn \in Seq(Ledger!Line)
      /\ Ledger!ToSet(kept \o torn) = Ledger!ToSet(kept) \cup Ledger!ToSet(torn)
  BY <1>5, <1>6, LinesOfParts
<1>8. Ledger!Increasing(kept \o torn)
  <2>1. kept \in Seq(Text) /\ torn \in Seq(Text)
    BY <1>4, <1>5, <1>6, MoreLines
  <2>2. Before(kept, torn)
    BY <1>4, <1>6, BeforeBySets
  <2> QED
    BY <1>5, <1>6, <2>1, <2>2, IncreasingParts
<1>9. history' \in Ledger!Overwritten(history, kept \o torn)
  BY <1>3 DEF kept
<1> QED
  BY <1>2, <1>4, <1>5, <1>6, <1>7, <1>8, <1>9, WritingBackKeeps

(* The move is cut off.                                                     *)
LEMMA CutOffMoveKeeps ==
  ASSUME ArchiveInv, Ledger!CutOffMove, now' = now
  PROVE  ArchiveInv'
<1>1. Ledger!TypeOK /\ OrderInv /\ MovedInv /\ KeptInv
  BY DEF ArchiveInv
<1>2. /\ stage = "move" /\ archiveFaults' = archiveFaults + 1
      /\ stage' = "idle" /\ entries' = <<>> /\ remaining' = <<>> /\ archived' = 0
      /\ UNCHANGED <<history, finished, recorded>>
  BY DEF Ledger!CutOffMove, Ledger!Leave, Ledger!Fault
<1>3. \/ cut' = cut \cup {"move"} /\ archive' = archive
      \/ cut' = cut \cup {"move", "archive"} /\ archive' = Ledger!AppendLine(archive, Torn)
  BY DEF Ledger!CutOffMove
<1>4. archive' \in Seq(Ledger!Line)
  <2>1. archive \in Seq(Ledger!Line) /\ Torn \in Ledger!Line /\ Ledger!Unreadable \subseteq Ledger!Line
    BY <1>1, ArchiveConstants DEF Ledger!TypeOK, Ledger!Line
  <2> QED
    BY <1>3, <2>1, LineAppended
<1>5. Ledger!TypeOK'
  <2>1. cut' \subseteq {"record", "move", "archive", "replace", "clash"}
    BY <1>1, <1>3 DEF Ledger!TypeOK
  <2>2. Ledger!Line' = Ledger!Line
    BY <1>2 DEF Ledger!Line
  <2> QED
    BY <1>1, <1>2, <1>4, <2>1, <2>2, NothingLeft DEF Ledger!TypeOK
<1>6. OrderInv'
  BY <1>1, <1>2 DEF OrderInv
<1>7. MovedInv'
  BY <1>3 DEF MovedInv
<1>8. KeptInv'
  BY <1>1, <1>2, <1>3 DEF KeptInv, Ledger!Safe
<1> QED
  BY <1>5, <1>6, <1>7, <1>8 DEF ArchiveInv

(* Every step of the history and the archive keeps the invariant.           *)
LEMMA ArchiveKeeps ==
  ASSUME ArchiveInv, Ledger!Next \/ UNCHANGED <<now, ledgerVars>>
  PROVE  ArchiveInv'
<1>1. CASE Ledger!Step /\ UNCHANGED now
  BY <1>1, RecordKeeps, StartArchivingKeeps, MoveKeeps, KeepKeeps, StartReplacingKeeps,
     FinishReplacingKeeps, CutOffMoveKeeps, CutOffReplaceKeeps
  DEF Ledger!Step
<1>2. CASE now' \in Nat /\ UNCHANGED ledgerVars
  BY <1>2 DEF ledgerVars, ArchiveInv, Ledger!TypeOK, Ledger!Line, Ledger!Safe,
              OrderInv, MovedInv, KeptInv, Apart
<1>3. CASE Ledger!AdvanceClock
  <2>1. now \in Nat
    BY DEF ArchiveInv, Ledger!TypeOK
  <2> QED
    BY <1>2, <1>3, <2>1 DEF Ledger!AdvanceClock, Ledger!archiveVars, ledgerVars
<1>4. CASE UNCHANGED <<now, ledgerVars>>
  <2>1. now \in Nat
    BY DEF ArchiveInv, Ledger!TypeOK
  <2> QED
    BY <1>2, <1>4, <2>1
<1> QED
  BY <1>1, <1>3, <1>4 DEF Ledger!Next

-----------------------------------------------------------------------------
(* Both together *)

(* To a store, the steps of the history are idle ones, or time passes; and  *)
(* the other way around.                                                    *)
LEMMA StoreOfFiles == FilesSpec => Spec
<1>1. FilesInit => Init
  BY DEF FilesInit
<1>2. [FilesNext]_<<part, vars, ledgerVars>> => [Next]_vars
  BY DEF FilesNext, Ledger!Next, Ledger!AdvanceClock, Next, AdvanceClock, vars, storeVars
<1> QED
  BY <1>1, <1>2, PTL DEF FilesSpec, Spec

(* The invariant of the archive holds in every reachable state of the files.*)
LEMMA ArchiveInvariance == FilesSpec => []ArchiveInv
<1>1. FilesInit => ArchiveInv
  <2> SUFFICES ASSUME FilesInit PROVE ArchiveInv
    OBVIOUS
  <2>1. /\ now = 0 /\ history = <<>> /\ archive = <<>> /\ finished = <<>>
        /\ stage = "idle" /\ entries = <<>> /\ remaining = <<>> /\ archived = 0
        /\ recorded = {} /\ archiveFaults = 0 /\ cut = {}
    BY DEF FilesInit, Ledger!Init
  <2>2. Ledger!TypeOK
    BY <2>1, NothingLeft DEF Ledger!TypeOK
  <2>3. OrderInv /\ MovedInv /\ KeptInv
    BY <2>1, NothingLeft DEF OrderInv, MovedInv, KeptInv, Apart, Ledger!EndsTorn, Ledger!Safe
  <2> QED
    BY <2>2, <2>3 DEF ArchiveInv
<1>2. ArchiveInv /\ [FilesNext]_<<part, vars, ledgerVars>> => ArchiveInv'
  <2> SUFFICES ASSUME ArchiveInv, [FilesNext]_<<part, vars, ledgerVars>> PROVE ArchiveInv'
    OBVIOUS
  <2>1. CASE Ledger!Next \/ UNCHANGED <<now, ledgerVars>>
    BY <2>1, ArchiveKeeps
  <2>2. CASE AdvanceClock /\ UNCHANGED ledgerVars
    BY <2>2, ArchiveKeeps
    DEF AdvanceClock, Ledger!Next, Ledger!AdvanceClock, Ledger!archiveVars, ledgerVars
  <2> QED
    BY <2>1, <2>2 DEF FilesNext, Next, vars
<1> QED
  BY <1>1, <1>2, PTL DEF FilesSpec

(* The files and what the processes know of them are well typed in every    *)
(* reachable state.                                                         *)
THEOREM FilesTyping == FilesSpec => []FilesTypeOK
<1>1. ArchiveInv /\ TypeOK => FilesTypeOK
  BY DEF ArchiveInv, FilesTypeOK
<1> QED
  BY <1>1, ArchiveInvariance, StoreOfFiles, Typing, PTL

(* No recorded entry is lost while entries are moved to the archive, unless *)
(* a file was cut off or a run recorded at that moment                      *)
(* (job_archiver.py:77-90).                                                 *)
THEOREM NoEntryLostHolds == FilesSpec => []NoEntryLost
<1>1. ArchiveInv => NoEntryLost
  BY DEF ArchiveInv, KeptInv, NoEntryLost, Ledger!NoEntryLost
<1> QED
  BY <1>1, ArchiveInvariance, PTL

(* No entry is kept twice, unless moving was cut off, and the history keeps *)
(* its order (job_archiver.py:84-89).                                       *)
THEOREM NoEntryTwiceHolds == FilesSpec => []NoEntryTwice
<1>1. ArchiveInv => NoEntryTwice
  BY DEF ArchiveInv, OrderInv, MovedInv, Apart, NoEntryTwice, Ledger!NoEntryTwice
<1> QED
  BY <1>1, ArchiveInvariance, PTL

(* In the composition too a file that cannot be read is left only by a      *)
(* fault in the middle of a write or by saves that overlap.                 *)
THEOREM FilesReadable == FilesSpec => []ReadableUnlessTorn
BY StoreOfFiles, ReadableUnlessTornHolds, PTL

(* And every call of every store is one step of a table.                    *)
THEOREM FilesAtomic == FilesSpec => AtomicTable
BY StoreOfFiles, AtomicTableHolds, PTL
=============================================================================
