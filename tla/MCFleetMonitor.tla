---- MODULE MCFleetMonitor ----
(* FleetMonitor on small fleets. *)
EXTENDS FleetMonitor

CONSTANTS c1, h1

AnyTraits == {{}, {"maintenance"}, {"own"}, {"spot", "release"}}
====
