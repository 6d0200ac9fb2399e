-------------------------- MODULE MCJobTransition --------------------------
(* Instances of JobTransition: who runs what, how often, and with which    *)
(* placements.                                                             *)
EXTENDS JobTransition, TLC

CONSTANTS a, b, r, p0, p1, p2

\* One placement, due at once; a second one that is not due before 1.
OneHour == p0 :> 0
TwoHours == (p0 :> 0) @@ (p1 :> 1)
OneTarget == p0 :> "anyone"
SameTarget == (p0 :> "anyone") @@ (p1 :> "anyone")

\* Jobs that neither end their worker nor are restarted by their submitter.
Stays == p0 :> FALSE
StaysTwice == (p0 :> FALSE) @@ (p1 :> FALSE)

\* One job of each kind: put back once, self-terminating, launched once.
EveryTarget == p0 :> "anyone" @@ p1 :> "anyone" @@ p2 :> "anyone"
EveryHour == p0 :> 0 @@ p1 :> 0 @@ p2 :> 0
EitherKind == p0 :> FALSE @@ p1 :> TRUE @@ p2 :> FALSE
OneLaunch == p0 :> FALSE @@ p1 :> FALSE @@ p2 :> TRUE

\* A worker and a reaper.
ReapOps == (a :> {"claim", "finish"}) @@ (r :> {"reap"})
ReapBudget == (a :> 2) @@ (r :> 1)
LapseBudget == (a :> 2) @@ (r :> 2)
LapseOps == (a :> {"claim"}) @@ (r :> {"reap"})

\* A worker and an operator who cancels; the coordinator settles what is left
\* and sweeps sentinels.
TwoEach == (a :> 2) @@ (b :> 2)
CancelSweepOps ==
    (a :> {"claim", "finish"}) @@ (b :> {"cancel", "settle", "sweep"})

\* A submission, its replay, a worker and a placement pass.
AdmitOps == (a :> {"admit", "claim"}) @@ (b :> {"admit", "rewrite"})

\* Two workers.
ClaimOps == (a :> {"claim"}) @@ (b :> {"claim"})
OneEach == (a :> 1) @@ (b :> 1)
=============================================================================
