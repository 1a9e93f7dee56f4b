----------------------------- MODULE MCTaskLocks -----------------------------
(* Two requests, two tasks and two servers. *)
EXTENDS TaskLocks, TLC
=============================================================================
