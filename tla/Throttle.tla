------------------------------- MODULE Throttle -------------------------------
(* AlertThrottle for one job: the quiet period after an alert grows with    *)
(* the alerts sent since the last success, up to a maximum.  The interval   *)
(* is that of job_backoff's delays too.                                     *)
EXTENDS Integers, Sequences

CONSTANTS
    Base, MaxInterval, ResetOnSuccess,
    Numerator, Denominator,     \* backoff_multiplier is their quotient
    Largest                     \* the largest float

(* Fractions stand for the floats of the policy, so nothing is rounded.     *)
ThrottleAssumption ==
    /\ Base \in Nat /\ MaxInterval \in Nat
    /\ Numerator \in Nat /\ Denominator \in Nat \ {0} /\ Largest \in Nat \ {0}

VARIABLES
    now,          \* time.monotonic()
    lastAlertAt,  \* 0 until there is one
    consecutive,  \* consecutive_alerts
    allowedAt,    \* history: the alerts allowed since the state was made
    refusedAt     \* history: the last failure not alerted since then, or -1

throttleVars == <<lastAlertAt, consecutive, allowedAt, refusedAt>>

(* The state of a job not heard of.                                         *)
Forgotten ==
    /\ lastAlertAt' = 0 /\ consecutive' = 0
    /\ allowedAt' = <<>> /\ refusedAt' = -1

Init == lastAlertAt = 0 /\ consecutive = 0 /\ allowedAt = <<>> /\ refusedAt = -1

-----------------------------------------------------------------------------
Power(b, n) ==
    LET power[k \in 0..n] == IF k = 0 THEN 1 ELSE b * power[k - 1]
    IN  power[n]

(* backoff_multiplier ** n raises OverflowError.                            *)
Overflows(n) == Power(Numerator, n) > Largest * Power(Denominator, n)

(* The exponent, had the count lagged one alert behind.                     *)
ExponentLagging(c) == IF c > 1 THEN c - 2 ELSE 0

(* Before the first alert the first period is required too.                 *)
Exponent(c) == IF c > 0 THEN c - 1 ELSE 0

(* d >= min(Base * backoff_multiplier ** n, MaxInterval)                    *)
Over(d, n) ==
    \/ d >= MaxInterval
    \/ d * Power(Denominator, n) >= Base * Power(Numerator, n)

(* allow() of a failure: the alert is sent; it is not yet time, or the      *)
(* interval cannot be computed and the caller gets the OverflowError.       *)
Allow ==
    /\ ~Overflows(Exponent(consecutive))
    /\ Over(now - lastAlertAt, Exponent(consecutive))
    /\ lastAlertAt' = now
    /\ consecutive' = consecutive + 1
    /\ allowedAt' = Append(allowedAt, now)
    /\ UNCHANGED refusedAt

Refuse ==
    /\ \/ Overflows(Exponent(consecutive))
       \/ ~Over(now - lastAlertAt, Exponent(consecutive))
    /\ refusedAt' = now
    /\ UNCHANGED <<lastAlertAt, consecutive, allowedAt>>

(* allow() of a success, and reset().                                       *)
Success == IF ResetOnSuccess THEN Forgotten ELSE UNCHANGED throttleVars

Reset == Forgotten

Next == Allow \/ Refuse \/ Success \/ Reset

-----------------------------------------------------------------------------
(* The alerts of one bad spell keep apart: the n-th and the next by         *)
(* Base * backoff_multiplier^(n-1), or the maximum once that is less.  And  *)
(* after the first alert a failure goes without one only within such a      *)
(* period of the last, unless the power is too large for a float: then      *)
(* every failure does, however long after (throttle.py:30-35, 62-71).       *)
QuietPeriodsGrow ==
    /\ \A n \in 1 .. Len(allowedAt) - 1 :
           LET gap == allowedAt[n + 1] - allowedAt[n]
           IN  \/ gap >= MaxInterval
               \/ gap * Power(Denominator, n - 1) >= Base * Power(Numerator, n - 1)
    /\ LET n == Len(allowedAt)
           gap == refusedAt - allowedAt[n]
       IN  n > 0 /\ refusedAt > allowedAt[n] =>
               \/ Power(Numerator, n - 1) > Largest * Power(Denominator, n - 1)
               \/ /\ gap < MaxInterval
                  /\ gap * Power(Denominator, n - 1) < Base * Power(Numerator, n - 1)
=============================================================================
