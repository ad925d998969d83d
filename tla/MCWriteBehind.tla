--------------------------- MODULE MCWriteBehind ---------------------------
(* WriteBehind on a small instance: events are model values. *)
EXTENDS WriteBehind
=============================================================================
