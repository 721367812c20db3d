------------------------------ MODULE MCFiles -------------------------------
(* An instance of Files for TLC: an entry that is over at time 1, and one   *)
(* that stays.                                                              *)
EXTENDS Files

MCKind == {"pause", "mute", "suppression", "snapshot", "checksum", "changelog", "profiling"}
MCValue == {1, Forever}
=============================================================================
