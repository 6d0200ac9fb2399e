------------------------------ MODULE MCTickLock ------------------------------
(* Five loops in four processes: two loops in p1, one in p2 with a          *)
(* pid of its own, one in p3 that gets p1's pid once p1 is gone, one in p4  *)
(* on another host where it has p1's pid too.                               *)
EXTENDS TickLock, TLC

CONSTANTS s1, s2, s3, s4, s5, p1, p2, p3, p4

Loops == (s1 :> p1) @@ (s2 :> p1) @@ (s3 :> p2) @@ (s4 :> p3) @@ (s5 :> p4)
TwoHosts == [p \in Procs |-> IF p = p4 THEN "there" ELSE "here"]
TwoPids == [p \in Procs |-> IF p = p2 THEN 2 ELSE 1]
=============================================================================
