---------------------------- MODULE AtomicStore -----------------------------
(* What the stores of small JSON files promise: a table of which every call *)
(* changes the entries of its job, or drops entries whose time is over, in  *)
(* one step and in terms of what the table holds at that moment, for as     *)
(* long as it is intact.                                                    *)
EXTENDS Integers, Sequences

CONSTANTS Job, Value

VARIABLES
    table,     \* the entries of each job
    expired,   \* the jobs whose entry is over
    asked,     \* the jobs somebody has asked to be removed
    lists,     \* entries are added to those of the job, not put in their place
    intact

Init ==
    /\ table = [j \in Job |-> <<>>]
    /\ intact = TRUE

Put(j, v) ==
    table' = [table EXCEPT ![j] = IF lists THEN Append(@, v) ELSE <<v>>]

Remove(j) == j \in asked /\ table' = [table EXCEPT ![j] = <<>>]

Purge == \E over \in SUBSET expired :
    table' = [j \in Job |-> IF j \in over THEN <<>> ELSE table[j]]

Change ==
    /\ intact /\ intact'
    /\ \/ \E j \in Job, v \in Value : Put(j, v)
       \/ \E j \in Job : Remove(j)
       \/ Purge

(* Processes that work against each other, or a save that was cut off.      *)
Damage == ~intact'

Next == Change \/ Damage

Spec == Init /\ [][Next]_<<table, intact>>
=============================================================================
