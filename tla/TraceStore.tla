----------------------------- MODULE TraceStore -----------------------------
(* TraceStore of src/cronwatch/job_tracing.py, a list and a dictionary that *)
(* several threads change without a lock.  Every run makes a context with   *)
(* an id of its own and records it once (tracing_executor.py:33-49); ids    *)
(* are numbered here in the order in which they enter the list.             *)
EXTENDS Integers, Sequences

CONSTANTS Thread, MaxTraces

VARIABLES
    order,      \* _order
    traces,     \* the keys of _traces
    carried,    \* the id a thread is between the two with, 0 for none
    recorded,   \* history: how many traces were listed
    met,        \* history: two calls of record() overlapped
    torn        \* history: a call of record() was left by an exception

Init ==
    /\ order = <<>>
    /\ traces = {}
    /\ carried = [t \in Thread |-> 0]
    /\ recorded = 0
    /\ met = FALSE
    /\ torn = FALSE

(* record() begins: the id is new, so it is listed.                         *)
List(t, alone) ==
    /\ recorded' = recorded + 1
    /\ order' = Append(order, recorded + 1)
    /\ carried' = [carried EXCEPT ![t] = recorded + 1]
    /\ met' = (met \/ ~alone)
    /\ UNCHANGED <<traces, torn>>

Store(t) ==
    /\ traces' = traces \cup {carried[t]}
    /\ carried' = [carried EXCEPT ![t] = 0]
    /\ UNCHANGED <<order, recorded, met, torn>>

(* pop() without its argument takes the newest.                             *)
PopNewest(t) ==
    /\ order' = SubSeq(order, 1, Len(order) - 1)
    /\ carried' = [carried EXCEPT ![t] = order[Len(order)]]
    /\ UNCHANGED <<traces, recorded, met, torn>>

(* The condition of the loop, and the two calls of pop() in it.             *)
TooMany == Len(order) > MaxTraces

Pop(t) ==
    /\ order' = Tail(order)
    /\ carried' = [carried EXCEPT ![t] = Head(order)]
    /\ UNCHANGED <<traces, recorded, met, torn>>

Drop(t) ==
    /\ traces' = traces \ {carried[t]}
    /\ carried' = [carried EXCEPT ![t] = 0]
    /\ UNCHANGED <<order, recorded, met, torn>>

(* An exception ends record() where it is.                                  *)
Leave(t) ==
    /\ carried' = [carried EXCEPT ![t] = 0]
    /\ torn' = TRUE
    /\ UNCHANGED <<order, traces, recorded, met>>

Idle == UNCHANGED <<order, traces, carried, recorded, met, torn>>
=============================================================================
