------------------------------ MODULE StateFile ------------------------------
(* The stores that keep a table of jobs in a JSON file: PauseStore,         *)
(* MuteStore, SuppressionStore, SnapshotStore, ChecksumStore, ChangelogStore *)
(* and ProfilingStore, one of them at a time (kind), used by several        *)
(* processes or threads, each with a store object of its own.  Every save   *)
(* writes the whole table.                                                  *)
EXTENDS Integers, Sequences

CONSTANTS
    Kind, Process, Job,
    Value,       \* what is kept: a point of time at which the entry is over...
    Forever,     \* ...or no such point
    Empty,       \* a file that was opened for writing
    Garbage,     \* a file that two have written into
    NoFile,
    MaxFaults,   \* bound on deaths and failed writes
    MaxCalls,    \* bound on the calls that save
    MaxTime      \* bound on the clock

VARIABLES
    now,
    kind,
    file,      \* the file: a table, or one of Unreadable
    tmp,       \* SnapshotStore: the file with suffix .tmp, which all share
    handle,    \* where the file a process has opened is now
    pc,        \* "closed", "idle", "save" (has the table to save), "write", "replace"
    copy,      \* the table a process has in memory, while idle or to be saved
    outdated,  \* history: processes whose copy is not what the file holds
    asked,     \* history: jobs somebody asked to be removed
    mishaps,   \* history: what went wrong that the stores do not guard against
    faults, calls

ASSUME StoreAssumption ==
    /\ Kind \subseteq {"pause", "mute", "suppression", "snapshot", "checksum", "changelog", "profiling"}
    /\ Forever \notin Int /\ Value \subseteq Nat \cup {Forever}
    /\ Empty \notin [Job -> Seq(Value)] /\ Garbage \notin [Job -> Seq(Value)]
    /\ NoFile \notin {Empty, Garbage} \cup [Job -> Seq(Value)]
    /\ MaxFaults \in Nat /\ MaxCalls \in Nat /\ MaxTime \in Nat

Unreadable == {Empty, Garbage}
Table == [Job -> Seq(Value)]
NoEntries == [j \in Job |-> <<>>]

storeVars == <<kind, file, tmp, handle, pc, copy, outdated, asked, mishaps, faults, calls>>
vars == <<now, storeVars>>

(* Stores that read the file only once, in their constructor.               *)
Cached == {"pause", "checksum", "profiling", "snapshot"}
Lists == {"profiling", "changelog"}

Init ==
    /\ now = 0
    /\ kind \in Kind
    /\ file = NoEntries       \* a file that is not there reads the same
    /\ tmp = NoFile
    /\ handle = [p \in Process |-> "none"]
    /\ pc = [p \in Process |-> IF kind \in Cached THEN "closed" ELSE "idle"]
    /\ copy = [p \in Process |-> NoEntries]
    /\ outdated = {} /\ asked = {} /\ mishaps = {}
    /\ faults = 0
    /\ calls = 0

-----------------------------------------------------------------------------
(* Reading *)

(* PauseStore._load() refuses a file it cannot read, and so does every call *)
(* of the mute, suppression and change log stores.                          *)
Readable == file \notin Unreadable

Writing == {p \in Process : pc[p] = "write"}

Open(p, table) ==
    /\ pc[p] = "closed"
    /\ pc' = [pc EXCEPT ![p] = "idle"]
    /\ copy' = [copy EXCEPT ![p] = table]
    /\ outdated' = IF Writing = {} THEN outdated \ {p} ELSE outdated \cup {p}
    /\ UNCHANGED <<kind, file, tmp, handle, asked, mishaps, faults, calls>>

OpenPauses(p) == kind = "pause" /\ Readable /\ Open(p, file)

(* The others start with no entries; and a store that does not look.        *)
FileAsItIs == file
FileOrNothing == IF Readable THEN file ELSE NoEntries
OpenChecksums(p) == kind = "checksum" /\ Open(p, FileOrNothing)
OpenSnapshots(p) == kind = "snapshot" /\ Open(p, FileOrNothing)
OpenProfiles(p) == kind = "profiling" /\ Open(p, FileOrNothing)

(* What a call of p goes by.                                                *)
Known(p) == IF kind \in Cached THEN copy[p] ELSE file
CanStart(p) == pc[p] = "idle" /\ calls < MaxCalls /\ (kind \in Cached \/ Readable)

-----------------------------------------------------------------------------
(* Saving *)

(* The table the processes share, the save that is being written included.  *)
Current ==
    IF kind # "snapshot" /\ Writing # {} THEN copy[CHOOSE p \in Writing : TRUE]
    ELSE FileOrNothing

(* A call has worked out the table it will save.  Whoever starts while      *)
(* another has not finished, or goes by a copy that is out of date, undoes  *)
(* what others did.                                                         *)
Save(p, table) ==
    /\ copy' = [copy EXCEPT ![p] = table]
    /\ pc' = [pc EXCEPT ![p] = "save"]
    /\ calls' = calls + 1
    /\ mishaps' = mishaps
           \cup (IF \E q \in Process \ {p} : pc[q] \in {"save", "write", "replace"}
                 THEN {"overlap"} ELSE {})
           \cup (IF p \in outdated THEN {"stale"} ELSE {})
    /\ UNCHANGED <<kind, file, tmp, handle, outdated, faults>>

(* From here on the copies of the others are out of date.                   *)
Outdates(p) == outdated' =
    IF kind \in Cached THEN outdated \cup {q \in Process \ {p} : pc[q] # "closed"} ELSE outdated

(* open(path, "w")                                                          *)
TruncateFile(p) ==
    /\ pc[p] = "save"
    /\ kind # "snapshot"
    /\ file' = Empty
    /\ handle' = [handle EXCEPT ![p] = "file"]
    /\ pc' = [pc EXCEPT ![p] = "write"]
    /\ Outdates(p)
    /\ UNCHANGED <<kind, tmp, copy, asked, mishaps, faults, calls>>

TruncateInPlace(p) ==
    /\ pc[p] = "save"
    /\ kind = "snapshot"
    /\ file' = Empty
    /\ handle' = [handle EXCEPT ![p] = "file"]
    /\ pc' = [pc EXCEPT ![p] = "write"]
    /\ UNCHANGED <<kind, tmp, copy, outdated, asked, mishaps, faults, calls>>

TruncateTmp(p) ==
    /\ pc[p] = "save"
    /\ kind = "snapshot"
    /\ tmp' = Empty
    /\ handle' = [handle EXCEPT ![p] = "tmp"]
    /\ pc' = [pc EXCEPT ![p] = "write"]
    /\ UNCHANGED <<kind, file, copy, outdated, asked, mishaps, faults, calls>>

(* A file that is not empty any more is overwritten from its beginning, and *)
(* keeps the rest of a longer text.                                         *)
Overwrite(content, table) == IF content = Empty THEN {table} ELSE {table, Garbage}

Write(p) ==
    /\ pc[p] = "write"
    /\ file' \in IF handle[p] = "file" THEN Overwrite(file, copy[p]) ELSE {file}
    /\ tmp' \in IF handle[p] = "tmp" THEN Overwrite(tmp, copy[p]) ELSE {tmp}
    /\ handle' = [handle EXCEPT ![p] = "none"]
    /\ pc' = [pc EXCEPT ![p] = IF kind = "snapshot" THEN "replace" ELSE "idle"]
    /\ UNCHANGED <<kind, copy, outdated, asked, mishaps, faults, calls>>

(* os.replace(): whoever has the file open that was moved has it open still. *)
(* Without a file to move it raises.                                        *)
Replace(p) ==
    /\ pc[p] = "replace"
    /\ pc' = [pc EXCEPT ![p] = "idle"]
    /\ IF tmp = NoFile
       THEN UNCHANGED <<file, tmp, handle, outdated>>
       ELSE /\ file' = tmp
            /\ tmp' = NoFile
            /\ handle' = [q \in Process |-> IF handle[q] = "tmp" THEN "file" ELSE "none"]
            /\ Outdates(p)
    /\ UNCHANGED <<kind, copy, asked, mishaps, faults, calls>>

(* What faults leave behind of a save into the file itself.                 *)
CutsFile(p) == IF pc[p] = "write" /\ kind # "snapshot" THEN {"torn"} ELSE {}

(* The write raises: the process goes on, with what it meant to save.       *)
WriteFails(p) ==
    /\ faults < MaxFaults
    /\ pc[p] = "write"
    /\ mishaps' = mishaps \cup CutsFile(p)
    /\ handle' = [handle EXCEPT ![p] = "none"]
    /\ pc' = [pc EXCEPT ![p] = "idle"]
    /\ outdated' = IF kind = "snapshot" THEN outdated \cup {p} ELSE outdated
    /\ faults' = faults + 1
    /\ UNCHANGED <<kind, file, tmp, copy, asked, calls>>

Die(p) ==
    /\ faults < MaxFaults
    /\ pc[p] # "closed"
    /\ mishaps' = mishaps \cup CutsFile(p)
    /\ handle' = [handle EXCEPT ![p] = "none"]
    /\ pc' = [pc EXCEPT ![p] = IF kind \in Cached THEN "closed" ELSE "idle"]
    /\ copy' = [copy EXCEPT ![p] = NoEntries]
    /\ outdated' = outdated \ {p}
    /\ faults' = faults + 1
    /\ UNCHANGED <<kind, file, tmp, asked, calls>>

-----------------------------------------------------------------------------
(* The calls *)

(* is_expired(): at the time itself an entry is over; is_active() of a mute *)
(* draws the same line.  The other stores keep what does not expire.        *)
PauseExpired(v) == v # Forever /\ now >= v
MuteActive(v) == v = Forever \/ now < v
SuppressionActive(v) == v = Forever \/ now < v

Over(entries) ==
    /\ entries # <<>>
    /\ CASE kind = "pause" -> PauseExpired(entries[1])
         [] kind = "mute" -> ~MuteActive(entries[1])
         [] kind = "suppression" -> ~SuppressionActive(entries[1])
         [] OTHER -> FALSE

SetEntry(p, j, v) ==
    CanStart(p) /\ Save(p, [Known(p) EXCEPT ![j] = <<v>>]) /\ UNCHANGED asked
AddEntry(p, j, v) ==
    CanStart(p) /\ Save(p, [Known(p) EXCEPT ![j] = Append(@, v)]) /\ UNCHANGED asked
DropEntry(p, j) ==
    CanStart(p) /\ Save(p, [Known(p) EXCEPT ![j] = <<>>]) /\ asked' = asked \cup {j}

Pause(p, j, v) == kind = "pause" /\ SetEntry(p, j, v)
Resume(p, j) == kind = "pause" /\ Known(p)[j] # <<>> /\ DropEntry(p, j)

(* is_paused() when the pause is over; otherwise it only answers.  And one  *)
(* that drops the pause from memory alone.                                  *)
ExpireUnsaved(p, j) ==
    /\ kind = "pause" /\ CanStart(p)
    /\ Over(copy[p][j])
    /\ copy' = [copy EXCEPT ![p][j] = <<>>]
    /\ calls' = calls + 1
    /\ UNCHANGED <<kind, file, tmp, handle, pc, outdated, asked, mishaps, faults>>

IsPausedExpires(p, j) ==
    /\ kind = "pause" /\ CanStart(p)
    /\ Over(copy[p][j])
    /\ Save(p, [copy[p] EXCEPT ![j] = <<>>])
    /\ UNCHANGED asked

Mute(p, j, v) == kind = "mute" /\ SetEntry(p, j, v)
Unmute(p, j) == kind = "mute" /\ DropEntry(p, j)

Suppress(p, j, v) == kind = "suppression" /\ SetEntry(p, j, v)
Release(p, j) == kind = "suppression" /\ Readable /\ file[j] # <<>> /\ DropEntry(p, j)

PurgeExpired(p) ==
    /\ kind = "suppression" /\ CanStart(p)
    /\ Save(p, [j \in Job |-> IF Over(file[j]) THEN <<>> ELSE file[j]])
    /\ UNCHANGED asked

(* Only a run that succeeded gets as far as this.                           *)
RecordSnapshot(p, j, v) == kind = "snapshot" /\ SetEntry(p, j, v)
ClearSnapshot(p, j) == kind = "snapshot" /\ DropEntry(p, j)

RecordDigest(p, j, v) == kind = "checksum" /\ SetEntry(p, j, v)

RecordChange(p, j, v) == kind = "changelog" /\ AddEntry(p, j, v)

RecordSample(p, j, v) == kind = "profiling" /\ AddEntry(p, j, v)
ClearSamples(p, j) == kind = "profiling" /\ DropEntry(p, j)

-----------------------------------------------------------------------------
Step ==
    \E p \in Process :
        \/ OpenPauses(p) \/ OpenChecksums(p) \/ OpenSnapshots(p) \/ OpenProfiles(p)
        \/ \E j \in Job :
               \/ \E v \in Value :
                      \/ Pause(p, j, v) \/ Mute(p, j, v) \/ Suppress(p, j, v)
                      \/ RecordSnapshot(p, j, v) \/ RecordDigest(p, j, v)
                      \/ RecordChange(p, j, v) \/ RecordSample(p, j, v)
               \/ Resume(p, j) \/ IsPausedExpires(p, j) \/ Unmute(p, j) \/ Release(p, j)
               \/ ClearSnapshot(p, j) \/ ClearSamples(p, j)
        \/ PurgeExpired(p)
        \/ TruncateFile(p) \/ TruncateTmp(p) \/ Write(p) \/ Replace(p)
        \/ WriteFails(p) \/ Die(p)

AdvanceClock == now < MaxTime /\ now' = now + 1 /\ UNCHANGED storeVars

Next == (Step /\ UNCHANGED now) \/ AdvanceClock

Spec == Init /\ [][Next]_vars

-----------------------------------------------------------------------------
(* Properties *)

TypeOK ==
    /\ now \in Nat
    /\ kind \in Kind
    /\ file \in Unreadable \cup Table /\ tmp \in {NoFile} \cup Unreadable \cup Table
    /\ handle \in [Process -> {"none", "tmp", "file"}]
    /\ pc \in [Process -> {"closed", "idle", "save", "write", "replace"}]
    /\ copy \in [Process -> Table]
    /\ outdated \subseteq Process /\ asked \subseteq Job
    /\ mishaps \subseteq {"overlap", "stale", "torn"}
    /\ faults \in Nat /\ calls \in Nat

(* A file that cannot be read, which locks out PauseStore, MuteStore and    *)
(* SuppressionStore and empties the other stores, is left only by a fault   *)
(* in the middle of a write or by saves that overlap; the snapshot file,    *)
(* which is replaced as a whole, not even by a fault (job_snapshot.py:76-80). *)
ReadableUnlessTorn ==
    file \in Unreadable => \/ "overlap" \in mishaps
                           \/ kind # "snapshot" /\ ("torn" \in mishaps \/ Writing # {})

Expired == {j \in Job : Over(Current[j])}

(* The store as a table that changes in one step per call.                  *)
Store == INSTANCE AtomicStore WITH
             table <- Current, expired <- Expired,
             lists <- kind \in Lists, intact <- mishaps = {}

(* As long as no two saves overlap, nobody saves an outdated copy and no    *)
(* write is cut off, every call of every store is one step of a table:      *)
(* nothing another call stored is lost, nothing comes back, a pause or a    *)
(* suppression that is over goes at its time and no other does, and what a  *)
(* process has in memory is what it saved.                                  *)
AtomicTable == Store!Spec
=============================================================================
