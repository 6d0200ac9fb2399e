------------------------------ MODULE LeaseLock ------------------------------
(***************************************************************************)
(* What a fenced provider lease promises: a lock that at most one running  *)
(* invocation holds, taken only when nobody holds it and left only by the  *)
(* end of its holder or by its own release.                                *)
(***************************************************************************)
CONSTANTS Sessions, None

VARIABLE holder

Init == holder = None

Take(s) == holder = None /\ holder' = s

Leave(s) == holder = s /\ holder' = None

Next == \E s \in Sessions : Take(s) \/ Leave(s)

Spec == Init /\ [][Next]_holder
=============================================================================
