------------------------- MODULE MCActivityMonitor -------------------------
(* One window, its signals and one or two turns of its agent. *)
EXTENDS ActivityMonitor, TLC
=============================================================================
