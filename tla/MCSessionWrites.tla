-------------------------- MODULE MCSessionWrites --------------------------
(* SessionWrites on small instances; its constants are all numbers. *)
EXTENDS SessionWrites
=============================================================================
