--------------------------- MODULE MCProviderLease ---------------------------
(* Four invocations in three processes that all have the same pid: two in  *)
(* one process, one in a process that gets this pid later on the same      *)
(* host, one in a process of another host.                                 *)
EXTENDS ProviderLease, TLC

CONSTANTS s1, s2, s3, s4, p1, p2, p3

Invocations == (s1 :> p1) @@ (s2 :> p1) @@ (s3 :> p2) @@ (s4 :> p3)
TwoHosts == [p \in Procs |-> IF p = p3 THEN "there" ELSE "here"]
OnePid == [p \in Procs |-> 1]
TwoInOne == Permutations({s1, s2})
=============================================================================
