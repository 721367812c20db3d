-------------------------------- MODULE Windows --------------------------------
(* within_window(): the times of a day at which a job may run.              *)
EXTENDS Integers, Sequences

CONSTANT DayLength      \* the units of time in a day

Time == 0 .. DayLength - 1

WindowsAssumption == DayLength \in Nat \ {0}

VARIABLES
    windows,    \* WindowPolicy.windows_for(job): pairs of times
    at          \* the time of day

windowVars == <<windows, at>>

(* Up to two windows; no window is no restriction.                          *)
Init ==
    /\ windows \in {<<>>} \cup {<<w>> : w \in Time \X Time}
                   \cup {<<v, w>> : v, w \in Time \X Time}
    /\ at = 0

(* Time goes by, past midnight.                                             *)
Pass == at' = (at + 1) % DayLength /\ UNCHANGED windows

Spec == Init /\ [][Pass]_windowVars

(* A window, had its end been left out.                                     *)
InWindowHalfOpen(start, end, t) ==
    IF start <= end THEN start <= t /\ t < end ELSE t >= start \/ t < end

(* One window; one that ends before it starts goes on past midnight.        *)
InWindow(start, end, t) ==
    IF start <= end THEN start <= t /\ t <= end ELSE t >= start \/ t <= end

WithinWindow ==
    windows = <<>> \/ \E n \in DOMAIN windows : InWindow(windows[n][1], windows[n][2], at)

-----------------------------------------------------------------------------
(* A window is the arc of the clock from its start to its end, both         *)
(* included, whether or not midnight lies on it (job_window.py:53-54, 65);  *)
(* two windows allow what either does, so that a time is refused only when  *)
(* it is after the end of each and before its next start.                   *)
WindowIsArc ==
    WithinWindow <=>
        \/ windows = <<>>
        \/ \E n \in DOMAIN windows :
               (at - windows[n][1]) % DayLength
                   <= (windows[n][2] - windows[n][1]) % DayLength
=============================================================================
