-------------------------------- MODULE Files --------------------------------
(* The files the daemon keeps: one of the stores of tables (StateFile), or  *)
(* the history and archive of a job (Archive).  They have nothing in common *)
(* but the clock.                                                           *)
EXTENDS StateFile

CONSTANTS Limit, Unfinished, Torn, Broken, MaxEntries, MaxArchiveFaults

VARIABLES
    part,   \* what this behaviour is about: "store" or "archive"
    history, archive, finished, stage, entries, remaining, archived,
    recorded, archiveFaults, cut

Ledger == INSTANCE Archive

ASSUME LedgerAssumption == Ledger!ArchiveAssumption

ledgerVars == <<history, archive, finished, stage, entries, remaining, archived,
                recorded, archiveFaults, cut>>

FilesInit ==
    /\ part \in {"store", "archive"}
    /\ Init /\ Ledger!Init
    /\ part = "archive" => kind = CHOOSE k \in Kind : TRUE

FilesNext ==
    \/ part = "store" /\ Next /\ UNCHANGED <<part, ledgerVars>>
    \/ part = "archive" /\ Ledger!Next /\ UNCHANGED <<part, storeVars>>

FilesSpec == FilesInit /\ [][FilesNext]_<<part, vars, ledgerVars>>

-----------------------------------------------------------------------------
(* The types of both parts.                                                 *)
FilesTypeOK == TypeOK /\ Ledger!TypeOK

(* No recorded entry is lost while entries are moved to the archive, unless *)
(* a file was cut off or a run recorded at that moment                      *)
(* (job_archiver.py:77-90), or the record before it was (history.py:62).    *)
NoEntryLost == Ledger!NoEntryLost

(* No entry is kept twice, unless moving was cut off (job_archiver.py:84-89). *)
NoEntryTwice == Ledger!NoEntryTwice
=============================================================================
