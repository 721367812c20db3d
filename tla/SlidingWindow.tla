--------------------------- MODULE SlidingWindow ---------------------------
(* What a per-name rate limiter promises, told by the log of everything it  *)
(* was asked to send: an alert is held back exactly when MaxAlerts alerts   *)
(* of its name were let through within the last Window units, those since   *)
(* the last reset of that name counted, whether or not they arrived.        *)
EXTENDS Integers, Sequences, FiniteSets

CONSTANTS Name, Window, MaxAlerts

VARIABLES
    now,
    log,    \* what became of each alert, in the order they were sent
    since   \* for each name, the length of the log at its last reset

vars == <<now, log, since>>

Through(n) == {i \in DOMAIN log : log[i].name = n /\ log[i].fate # "suppressed"}

Recent(n) == {i \in Through(n) : i > since[n] /\ log[i].at >= now - Window}

Init ==
    /\ now \in Nat
    /\ log = <<>>
    /\ since = [n \in Name |-> 0]

Offer(n, fate) ==
    /\ fate = "suppressed" <=> Cardinality(Recent(n)) >= MaxAlerts
    /\ log' = Append(log, [name |-> n, at |-> now, fate |-> fate])
    /\ UNCHANGED <<now, since>>

Reset(n) ==
    /\ since' = [since EXCEPT ![n] = Len(log)]
    /\ UNCHANGED <<now, log>>

AdvanceClock ==
    /\ now' \in Nat /\ now' > now
    /\ UNCHANGED <<log, since>>

Next ==
    \/ \E n \in Name, fate \in {"delivered", "lost", "suppressed"} : Offer(n, fate)
    \/ \E n \in Name : Reset(n)
    \/ AdvanceClock

Spec == Init /\ [][Next]_vars
=============================================================================
