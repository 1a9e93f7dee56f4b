-------------------------- MODULE MCSupervisorLink --------------------------
(* The link of one pane: two launches, or one, a supervisor started by hand and a prompt. *)
EXTENDS SupervisorLink, TLC
=============================================================================
