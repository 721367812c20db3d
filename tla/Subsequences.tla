---------------------------- MODULE Subsequences ----------------------------
(* Parts and orders of a sequence: the elements of a set that it starts     *)
(* with, what is left after them, all of its elements in the set, the       *)
(* sequence without what it repeats, and the sequence sorted.               *)
EXTENDS Integers, Sequences, FiniteSets

(* How many elements a loop passes that stops at the first outside S.       *)
RunLength(s, S) ==
    CHOOSE i \in 0..Len(s) :
        /\ \A k \in 1..i : s[k] \in S
        /\ i < Len(s) => s[i + 1] \notin S

TakeWhile(s, S) == SubSeq(s, 1, RunLength(s, S))
DropWhile(s, S) == SubSeq(s, RunLength(s, S) + 1, Len(s))

(* [x for x in s if x in S]                                                 *)
Only(s, S) ==
    LET kept[n \in 0..Len(s)] ==
            IF n = 0 THEN <<>>
            ELSE IF s[n] \in S THEN Append(kept[n - 1], s[n]) ELSE kept[n - 1]
    IN  kept[Len(s)]

(* Every element once, where the sequence has it first.                     *)
Firsts(s) ==
    LET first == Only([i \in DOMAIN s |-> i],
                      {i \in DOMAIN s : \A h \in 1..(i - 1) : s[h] # s[i]})
    IN  [k \in DOMAIN first |-> s[first[k]]]

(* sorted(s, key=..., reverse=True) puts greater keys first and keeps the   *)
(* order of equals; key has the key of the element at each position.        *)
Ahead(key, h, i) == key[h] > key[i] \/ (key[h] = key[i] /\ h < i)

SortedBy(s, key) ==
    [k \in DOMAIN s |-> s[CHOOSE i \in DOMAIN s :
                             Cardinality({h \in DOMAIN s : Ahead(key, h, i)}) = k - 1]]
=============================================================================
