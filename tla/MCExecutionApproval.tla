------------------------- MODULE MCExecutionApproval -------------------------
(* Small instances of ExecutionApproval. *)
EXTENDS ExecutionApproval, TLC

\* Callers are interchangeable: no action and no property names one of them.
CallerSymmetry == Permutations(Callers)
=============================================================================
