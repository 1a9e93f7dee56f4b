---- MODULE MCPhaseLoop ----
(* Small instances of PhaseLoop, cut from the devops unit type: a plan, an *)
(* implementation, tests that send the task back to it, a push. *)
EXTENDS PhaseLoop

Plan == [planApproval |-> TRUE, pushVerify |-> FALSE, rollback |-> 0]
Work == [planApproval |-> FALSE, pushVerify |-> FALSE, rollback |-> 0]
Tests == [planApproval |-> FALSE, pushVerify |-> FALSE, rollback |-> 2]
Push == [planApproval |-> FALSE, pushVerify |-> TRUE, rollback |-> 0]

PlanWorkTests == <<Plan, Work, Tests>>
PlanWorkTestsPush == <<Plan, Work, Tests, Push>>
====
