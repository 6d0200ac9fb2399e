---------------------------- MODULE MCBoatDispatch ----------------------------
(* A tick, and a cancellation or a deletion, over one Boat job. *)
EXTENDS BoatDispatch

CONSTANTS t, c, b1, b2
=============================================================================
