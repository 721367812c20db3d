------------------------------- MODULE Archive -------------------------------
(* The history file of one job (HistoryStore, src/cronwatch/history.py) and *)
(* JobArchiver, which moves old entries to the file of an ArchiveStore      *)
(* (job_archiver.py), while the runs of another thread or process go on     *)
(* being recorded.  Both files hold one entry to a line; entries are        *)
(* numbered in the order in which they are recorded.                        *)
EXTENDS Integers, Sequences, SequencesExt

CONSTANTS
    Limit,        \* policy.older_than_days
    Unfinished,   \* an entry without finished_at
    Torn,         \* the beginning of a line, with no end of line behind it
    Broken,       \* a line that cannot be read
    MaxEntries,         \* bound on the runs recorded
    MaxArchiveFaults,   \* bound on deaths and failed writes
    MaxTime             \* bound on the clock

VARIABLES
    now,
    history,    \* the lines of the history file
    archive,    \* the lines of the archive file
    finished,   \* finished_at of every entry
    stage,      \* archive_job: "idle", "move" or "write"
    entries,    \* the entries it has yet to look at
    remaining, archived,
    recorded,   \* history: the entries for which record() returned
    archiveFaults,
    cut         \* history: what was cut off, or came in between, see TypeOK

locals == <<entries, remaining, archived>>
archiveVars == <<history, archive, finished, stage, entries, remaining, archived, recorded, archiveFaults, cut>>

ArchiveAssumption ==
    /\ Limit \in Nat /\ MaxEntries \in Nat /\ MaxArchiveFaults \in Nat /\ MaxTime \in Nat
    /\ Unfinished \notin Int /\ Torn \notin Int /\ Broken \notin Int
    /\ Torn # Broken

Init ==
    /\ now = 0
    /\ history = <<>> /\ archive = <<>> /\ finished = <<>>
    /\ stage = "idle"
    /\ entries = <<>> /\ remaining = <<>> /\ archived = 0
    /\ recorded = {} /\ archiveFaults = 0 /\ cut = {}

(* archive_job() is left, whatever it knew is gone.                         *)
Leave == stage' = "idle" /\ entries' = <<>> /\ remaining' = <<>> /\ archived' = 0

Fault == archiveFaults < MaxArchiveFaults /\ archiveFaults' = archiveFaults + 1

Unreadable == {Torn, Broken}

EndsTorn(file) == file # <<>> /\ Last(file) = Torn

(* Lines, with other text in front of the first.                            *)
Spoiled(lines) == [lines EXCEPT ![1] = IF lines = <<Torn>> THEN Torn ELSE Broken]

(* Lines written behind others: if the last of those was cut off, the first *)
(* becomes part of it.                                                      *)
Behind(file, lines) == IF EndsTorn(file) /\ lines # <<>> THEN Front(file) \o Spoiled(lines)
                                                        ELSE file \o lines

(* open(path, "a") and a line.                                              *)
AppendLine(file, line) == Behind(file, <<line>>)

-----------------------------------------------------------------------------
(* record(): the line is written with one call, or cut off by a fault.      *)
Record ==
    /\ Len(finished) < MaxEntries
    /\ \E t \in {now, Unfinished} : finished' = Append(finished, t)
    /\ LET interrupts == IF stage = "idle" THEN {} ELSE {"clash"} IN
       \/ /\ history' = AppendLine(history, Len(finished) + 1)
          /\ recorded' = recorded \cup {Len(finished) + 1}
          /\ cut' = cut \cup interrupts
          /\ UNCHANGED archiveFaults
       \/ /\ Fault
          /\ history' = AppendLine(history, Torn)
          /\ UNCHANGED recorded
          /\ cut' = cut \cup interrupts \cup {"record"}
    /\ UNCHANGED <<archive, stage, entries, remaining, archived>>

(* _load_raw() raises at a line it cannot read.                             *)
StartArchiving ==
    /\ stage = "idle"
    /\ ToSet(history) \cap Unreadable = {}
    /\ stage' = "move"
    /\ entries' = history
    /\ UNCHANGED <<history, archive, finished, remaining, archived, recorded, archiveFaults, cut>>

(* should_archive(), with the clock read for every entry.                   *)
ShouldArchive(n) == finished[n] # Unfinished /\ now - finished[n] > Limit

Move ==
    /\ stage = "move" /\ entries # <<>>
    /\ ShouldArchive(Head(entries))
    /\ archive' = AppendLine(archive, Head(entries))
    /\ archived' = archived + 1
    /\ entries' = Tail(entries)
    /\ UNCHANGED <<history, finished, stage, remaining, recorded, archiveFaults, cut>>

(* Keeping an entry; in reverse order; and only if it has finished.         *)
KeepInFront ==
    /\ stage = "move" /\ entries # <<>>
    /\ ~ShouldArchive(Head(entries))
    /\ remaining' = <<Head(entries)>> \o remaining
    /\ entries' = Tail(entries)
    /\ UNCHANGED <<history, archive, finished, stage, archived, recorded, archiveFaults, cut>>

KeepFinished ==
    /\ stage = "move" /\ entries # <<>>
    /\ ~ShouldArchive(Head(entries))
    /\ remaining' = IF finished[Head(entries)] = Unfinished THEN remaining
                    ELSE Append(remaining, Head(entries))
    /\ entries' = Tail(entries)
    /\ UNCHANGED <<history, archive, finished, stage, archived, recorded, archiveFaults, cut>>

Keep ==
    /\ stage = "move" /\ entries # <<>>
    /\ ~ShouldArchive(Head(entries))
    /\ remaining' = Append(remaining, Head(entries))
    /\ entries' = Tail(entries)
    /\ UNCHANGED <<history, archive, finished, stage, archived, recorded, archiveFaults, cut>>

(* Nothing was archived, or replace_entries() opens the file for writing.   *)
StartReplacing ==
    /\ stage = "move" /\ entries = <<>>
    /\ IF archived = 0 THEN Leave /\ UNCHANGED history
                       ELSE stage' = "write" /\ history' = <<>> /\ UNCHANGED locals
    /\ UNCHANGED <<archive, finished, recorded, archiveFaults, cut>>

(* What may be left of a file when its beginning is overwritten: some of    *)
(* its last lines, the first of them perhaps in part.                       *)
Remains(file) == {SubSeq(file, k, Len(file)) : k \in 2 .. Len(file) + 1}
            \cup {Spoiled(SubSeq(file, k, Len(file))) : k \in 1 .. Len(file)}

(* The lines are written over what was recorded since the file was opened.  *)
Overwritten(file, lines) ==
    IF file = <<>> \/ lines = <<>> THEN {lines \o file}
                                  ELSE {Behind(lines, rest) : rest \in Remains(file)}

FinishReplacing ==
    /\ stage = "write"
    /\ history' \in Overwritten(history, remaining)
    /\ Leave
    /\ UNCHANGED <<archive, finished, recorded, archiveFaults, cut>>

(* archive_job() dies, or one of its writes fails, with part of what it was *)
(* writing in the file.                                                     *)
CutOffMove ==
    /\ Fault
    /\ stage = "move"
    /\ \/ /\ cut' = cut \cup {"move"}
          /\ UNCHANGED archive
       \/ /\ entries # <<>> /\ ShouldArchive(Head(entries))
          /\ archive' = AppendLine(archive, Torn)
          /\ cut' = cut \cup {"move", "archive"}
    /\ Leave
    /\ UNCHANGED <<history, finished, recorded>>

CutOffReplace ==
    /\ Fault
    /\ stage = "write"
    /\ \E k \in 0 .. Len(remaining), torn \in {<<>>, <<Torn>>} :
           history' \in Overwritten(history, SubSeq(remaining, 1, k) \o torn)
    /\ cut' = cut \cup {"replace"}
    /\ Leave
    /\ UNCHANGED <<archive, finished, recorded>>

Step ==
    \/ Record
    \/ StartArchiving \/ Move \/ Keep \/ StartReplacing \/ FinishReplacing
    \/ CutOffMove \/ CutOffReplace

AdvanceClock == now < MaxTime /\ now' = now + 1 /\ UNCHANGED archiveVars

Next == (Step /\ UNCHANGED now) \/ AdvanceClock

-----------------------------------------------------------------------------
(* Properties *)

Line == 1 .. Len(finished) \cup Unreadable
Increasing(file) == \A k \in DOMAIN file, l \in DOMAIN file :
    k < l /\ file[k] \notin Unreadable /\ file[l] \notin Unreadable => file[k] < file[l]
Distinct(file) == \A k \in DOMAIN file, l \in DOMAIN file :
    k # l /\ file[k] \notin Unreadable => file[k] # file[l]

(* The entries recorded right after another, or first of all.               *)
Safe == {n \in recorded : n - 1 \in recorded \cup {0}}

TypeOK ==
    /\ now \in Nat
    /\ history \in Seq(Line) /\ archive \in Seq(Line)
    /\ finished \in Seq(Nat \cup {Unfinished})
    /\ stage \in {"idle", "move", "write"}
    /\ entries \in Seq(1 .. Len(finished)) /\ remaining \in Seq(1 .. Len(finished))
    /\ archived \in Nat /\ archiveFaults \in Nat
    /\ recorded \subseteq 1 .. Len(finished)
    /\ cut \subseteq {"record", "move", "archive", "replace", "clash"}

(* An entry that record() returned for is in one of the files at any time,  *)
(* or about to be written back to the history, unless replace_entries() was *)
(* cut off (history.py:72), a line of the archive was, or a run was         *)
(* recorded in the meantime (job_archiver.py:79-89): death while entries    *)
(* are being moved loses nothing.  A record that is cut off takes the next  *)
(* one with it (history.py:62), which is written on the same line, and no   *)
(* other.                                                                   *)
NoEntryLost ==
    cut \cap {"replace", "archive", "clash"} = {} =>
        Safe \subseteq ToSet(history) \cup ToSet(archive)
                              \cup (IF stage = "write" THEN ToSet(remaining) ELSE {})

(* No entry is in both files, or twice in the archive, once archive_job is  *)
(* past its loop, unless it was cut off there (job_archiver.py:84-89); the  *)
(* history keeps its order whatever happens.  The archive does not: the     *)
(* clock is read anew for every entry.                                      *)
NoEntryTwice ==
    /\ Increasing(history)
    /\ "move" \notin cut =>
           /\ Distinct(archive)
           /\ stage # "move" => ToSet(history) \cap ToSet(archive) \subseteq Unreadable
=============================================================================
