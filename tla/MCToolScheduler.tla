--------------------------- MODULE MCToolScheduler ---------------------------
(* ToolScheduler on a small instance for TLC. *)
EXTENDS ToolScheduler, TLC
=============================================================================
