---- MODULE MCRunManifest ----
(* RunManifest with a request submitted by two processes. *)
EXTENDS RunManifest

CONSTANTS s1, s2
====
