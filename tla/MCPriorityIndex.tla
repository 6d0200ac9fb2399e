--------------------------- MODULE MCPriorityIndex ---------------------------
(* Two callers and one recurring sweep over one job with two priorities. *)
EXTENDS PriorityIndex

CONSTANTS c1, c2, w
=============================================================================
