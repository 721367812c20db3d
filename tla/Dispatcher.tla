----------------------------- MODULE Dispatcher -----------------------------
(* JobQueue (src/cronwatch/job_queue.py) and the loop of JobDispatcher.tick *)
(* (job_dispatcher.py).  The heap is kept as a sequence ordered by time;    *)
(* entries of one time come out in an order the heap does not promise.      *)
EXTENDS Integers, Sequences, SequencesExt, Subsequences

CONSTANTS
    Job,
    Period    \* the occurrences of job j are the multiples of Period[j]

VARIABLES
    now,
    heap,      \* JobQueue._heap
    due,       \* what drain_due() returned, from the job being run on
    tickNow,   \* the time tick() was called with
    dropped    \* history: jobs that were drained and never queued again

Entry == [job : Job, at : Nat]

(* next_run(): the first occurrence after t.                                *)
NextRun(j, t) == (t \div Period[j] + 1) * Period[j]

(* push(): the places at which an entry keeps the sequence ordered; and a   *)
(* push that only appends.                                                  *)
Places(q, e) ==
    {i \in 1 .. Len(q) + 1 : /\ \A k \in 1 .. i - 1 : q[k].at <= e.at
                             /\ \A k \in i .. Len(q) : e.at <= q[k].at}

PushLast(j, at) == heap' = Append(heap, [job |-> j, at |-> at])

Push(j, at) ==
    \E i \in Places(heap, [job |-> j, at |-> at]) :
        heap' = InsertAt(heap, i, [job |-> j, at |-> at])

(* The queue after seed(), and what the rest of the dispatcher starts with. *)
Seeded(q) ==
    /\ \A k \in 1 .. Len(q) - 1 : q[k].at <= q[k + 1].at
    /\ \A j \in Job : \E k \in DOMAIN q : q[k] = [job |-> j, at |-> NextRun(j, 0)]

Init ==
    /\ heap \in {q \in [1 .. Cardinality(Job) -> {[job |-> j, at |-> NextRun(j, 0)] : j \in Job}] : Seeded(q)}
    /\ due = <<>>
    /\ tickNow = 0
    /\ dropped = {}

(* tick() up to its loop: drain_due(), which pops until the first entry is  *)
(* not due yet; and one that takes only what is overdue.                    *)
DrainStrictly ==
    /\ due' = TakeWhile(heap, {e \in Entry : e.at < now})
    /\ heap' = DropWhile(heap, {e \in Entry : e.at < now})
    /\ tickNow' = now
    /\ UNCHANGED dropped

Drain ==
    /\ due' = TakeWhile(heap, {e \in Entry : e.at <= now})
    /\ heap' = DropWhile(heap, {e \in Entry : e.at <= now})
    /\ tickNow' = now
    /\ UNCHANGED dropped

(* The runner has returned and on_result has been called: the job is queued *)
(* for its next occurrence after the tick.                                  *)
Requeue ==
    /\ Push(Head(due).job, NextRun(Head(due).job, tickNow))
    /\ due' = Tail(due)
    /\ UNCHANGED <<tickNow, dropped>>

(* The runner, on_result or next_run raises: the exception leaves tick(),   *)
(* and the job and those after it are in no list any more.                  *)
Abandon ==
    /\ dropped' = dropped \cup {due[k].job : k \in DOMAIN due}
    /\ due' = <<>>
    /\ UNCHANGED <<heap, tickNow>>

Idle == UNCHANGED <<heap, due, tickNow, dropped>>

(* How many times job j waits in the queue or in the tick.                  *)
Copies(j) ==
    Cardinality({k \in DOMAIN heap : heap[k].job = j})
        + Cardinality({k \in DOMAIN due : due[k].job = j})
=============================================================================
