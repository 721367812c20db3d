----------------------------- MODULE MCJobLock -----------------------------
(* Instances of JobLock for TLC: three processes of one user, or two        *)
(* processes of two users that may not signal each other.                   *)
EXTENDS JobLock

CONSTANTS p1, p2, p3

MCProc3 == {p1, p2, p3}
MCOneUser3 == MCProc3 \X MCProc3

MCProc2 == {p1, p2}
MCOneUser2 == MCProc2 \X MCProc2
MCTwoUsers == {<<p1, p1>>, <<p2, p2>>}
=============================================================================
