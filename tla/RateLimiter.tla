---------------------------- MODULE RateLimiter ----------------------------
(* RateLimiter of src/cronwatch/ratelimit.py: for each name a deque of the  *)
(* times of the alerts let through.  Every call first evicts the times that *)
(* have left the window.                                                    *)
EXTENDS Integers, Sequences, Subsequences

CONSTANTS Name, Window, MaxAlerts

VARIABLES now, timestamps

(* evict_before() that also drops what is exactly Window old.               *)
EvictInclusive(n) == DropWhile(timestamps[n], {t \in Nat : t <= now - Window})

(* evict_before(): old times leave on the left, up to the first recent one. *)
Evict(n) == DropWhile(timestamps[n], {t \in Nat : t < now - Window})

(* is_allowed(), its result; and one that lets one alert too many pass.     *)
IsAllowedOneMore(n) == Len(Evict(n)) <= MaxAlerts
IsAllowed(n) == Len(Evict(n)) < MaxAlerts

(* is_allowed() without record(), or remaining(); and is_allowed() followed *)
(* by record().                                                             *)
Decline(n) == timestamps' = [timestamps EXCEPT ![n] = Evict(n)]
Admit(n) == timestamps' = [timestamps EXCEPT ![n] = Append(Evict(n), now)]

Reset(n) == timestamps' = [timestamps EXCEPT ![n] = <<>>]
=============================================================================
