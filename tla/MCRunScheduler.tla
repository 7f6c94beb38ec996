--------------------------- MODULE MCRunScheduler ---------------------------
(* RunScheduler on small instances. *)
EXTENDS RunScheduler
=============================================================================
