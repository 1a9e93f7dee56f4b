------------------------------- MODULE PhaseLoop -------------------------------
(***************************************************************************)
(* The life of one task: its row (status, currentPhase), the runs that      *)
(* drive it through the phases of its unit type (ExecuteTaskUseCase and     *)
(* PhaseLoopRunner), the routes that act on it meanwhile, and what finds it *)
(* after the hub stopped (RecoverStuckTasksUseCase).                        *)
(*                                                                          *)
(* A run is one call of execute, followUp or resumeStateMachine.  Nothing   *)
(* keeps two runs of a task apart: each reads the row when it is called,    *)
(* opens or wakes the window, registers itself among the running            *)
(* executions, and then loops over the phases.  A phase is one agent turn   *)
(* (AgentTurns): the run acts on the agent's word if there is one, and on a *)
(* classification of the idle worker otherwise.  An action is what the hub  *)
(* does between two awaits.                                                 *)
(***************************************************************************)
EXTENDS Naturals, Sequences, FiniteSets

CONSTANTS
    Phases,           \* the unit type: a sequence of phase definitions
    MaxSelfReview,    \* selfReviewMaxAttempts of the task or its unit
    RequireApproval,  \* requirePlanApproval of the task
    MaxRuns,          \* bound: runs of the task
    MaxTurns,         \* bound: prompts sent
    MaxCrashes        \* bound: times the hub stops

N == Len(Phases)
Phase == 1..N
Run == 1..MaxRuns

\* rollback: the phase testFailedRollbackTo names, 0 without one.
PhaseDef == [planApproval : BOOLEAN, pushVerify : BOOLEAN, rollback : 0..N]

\* The routes name the phases they resume at: planning and implementing.
Planning == 1
Implementing == 2

ASSUME PhasesAssumption ==
    /\ N \in Nat /\ N >= 2
    /\ Phases \in [Phase -> PhaseDef]
    /\ \A p \in Phase : Phases[p].rollback < p
    /\ \A p \in Phase : Phases[p].planApproval => p = Planning
ASSUME BoundsAssumption ==
    /\ MaxSelfReview \in Nat /\ RequireApproval \in BOOLEAN
    /\ MaxRuns \in Nat /\ MaxTurns \in Nat /\ MaxCrashes \in Nat

VARIABLES
    status,    \* tasks.status
    phase,     \* tasks.current_phase, 0 for none
    turns,     \* agent_turns of the task, oldest first
    born,      \* the runs called so far
    pc,        \* where each run is
    me,        \* its locals: what it was called for ("loop" once a follow-up goes
               \* on to the phases), the phase it read and then works at, its
               \* selfReviewCount and its AbortController
    registry,  \* the entries of the task in runningExecutions
    route,     \* an archive or a retry between its check and its write
    recovery,  \* startup recovery: idle, due, or probing with the row it read
    snap,      \* the phase of that row
    crashes,
    approved   \* history: a plan of the task has been approved

row == <<status, phase>>
hub == <<route, recovery, snap, crashes, approved>>
vars == <<row, turns, born, pc, me, registry, hub>>

Status == {"open", "in_progress", "running", "phase_review", "waiting_input",
           "pending_approval", "review", "failed", "archived"}
PC == {"none", "called", "opening", "starting", "prep", "sending", "waiting",
       "reading", "finishing", "ended"}
Op == {"none", "execute", "follow_up", "answer", "resume", "recover", "loop"}
TurnStatus == {"running", "completed", "test_failed", "questions", "failed",
               "aborted", "superseded"}
Locals == [op : Op, at : 0..(N + 1), tries : Nat, aborted : BOOLEAN]
Turn == [run : Run, phase : 0..N, status : TurnStatus, said : BOOLEAN]

Class == {"phase_complete", "question", "stopped"}

Live(r) == pc[r] \notin {"none", "ended"}
Talks(r) == me[r].op \in {"follow_up", "answer"}

Nobody == [op |-> "none", at |-> 0, tries |-> 0, aborted |-> FALSE]

Init ==
    /\ status = "open" /\ phase = 0
    /\ turns = <<>>
    /\ born = 0
    /\ pc = [r \in Run |-> "none"]
    /\ me = [r \in Run |-> Nobody]
    /\ registry = <<>>
    /\ route = "none" /\ recovery = "idle" /\ snap = 0
    /\ crashes = 0 /\ approved = FALSE

-----------------------------------------------------------------------------
(* Calls *)

\* Nothing is left of a run that is over.
Over(r) ==
    /\ pc' = [pc EXCEPT ![r] = "ended"]
    /\ me' = [me EXCEPT ![r] = Nobody]

\* A run is called for o and reads phase i from the row.
Called(o, i) ==
    /\ born < MaxRuns
    /\ born' = born + 1
    /\ me' = [me EXCEPT ![born + 1] = [Nobody EXCEPT !.op = o, !.at = i]]
    /\ pc' = [pc EXCEPT ![born + 1] = IF o = "execute" THEN "called" ELSE "opening"]
    /\ UNCHANGED registry

\* POST units/:id/execute.  The gate refuses a task with a pending operation
\* (ExecutionApproval); no other status is refused.
Execute ==
    /\ status # "pending_approval"
    /\ Called("execute", phase)
    /\ UNCHANGED <<row, turns, hub>>

\* Its window is created and the row written (TaskWindows); or it throws.
Claim(r) ==
    /\ pc[r] = "called"
    /\ \/ pc' = [pc EXCEPT ![r] = "opening"] /\ status' = "in_progress" /\ UNCHANGED me
       \/ Over(r) /\ status' \in {status, "failed"}
    /\ UNCHANGED <<phase, turns, born, registry, hub>>

\* POST units/:id/follow-up, in any status, and the answer to questions.
FollowUp ==
    /\ status # "pending_approval"
    /\ \/ Called("follow_up", phase)
       \/ status \in {"review", "waiting_input"} /\ Called("answer", phase)
    /\ status' = "in_progress"
    /\ UNCHANGED <<phase, turns, hub>>

\* POST units/:id/approve-plan.
Approve ==
    /\ status = "phase_review"
    /\ status' = "running" /\ phase' = Implementing
    /\ Called("resume", Implementing)
    /\ approved' = TRUE
    /\ UNCHANGED <<turns, route, recovery, snap, crashes>>

RePlan ==
    /\ status = "phase_review"
    /\ status' = "in_progress" /\ phase' = Planning
    /\ Called("answer", Planning)
    /\ UNCHANGED <<turns, hub>>

RejectPlan ==
    /\ status = "phase_review"
    /\ status' = "failed"
    /\ UNCHANGED <<phase, turns, born, pc, me, registry, hub>>

\* The window cannot be opened or woken, or the worker not launched.  A call
\* whose caller waits for it may leave the row as it is; a call made in the
\* background fails the task, but the one recovery makes only logs.
OpeningFails(r) ==
    /\ pc[r] = "opening"
    /\ Over(r)
    /\ status' \in CASE me[r].op \in {"execute", "follow_up"} -> {status, "failed"}
                     [] me[r].op \in {"answer", "resume"} -> {"failed"}
                     [] OTHER -> {status}
    /\ UNCHANGED <<phase, turns, born, registry, hub>>

\* A resumed task whose recorded distribution repository is gone: the run has
\* registered by then, and returns before what would unregister it.
ResumeRefused(r) ==
    /\ pc[r] = "opening"
    /\ me[r].op \in {"resume", "recover"}
    /\ registry' = Append(registry, r)
    /\ status' = "failed"
    /\ Over(r)
    /\ UNCHANGED <<phase, turns, born, hub>>

Register(r) ==
    /\ pc[r] = "opening"
    /\ registry' = Append(registry, r)
    /\ pc' = [pc EXCEPT ![r] = IF Talks(r) THEN "prep" ELSE "starting"]
    /\ UNCHANGED <<row, turns, born, me, hub>>

-----------------------------------------------------------------------------
(* The loop *)

\* A run ends: its finally drops every entry of the task.
End(r) ==
    /\ Over(r)
    /\ registry' = <<>>

\* The head of the loop at phase i with selfReviewCount n, in one go with what
\* led there.  The gate is asked again (ExecutionApproval).
LoopHead(r, i, n) ==
    \/ /\ i > N
       /\ pc' = [pc EXCEPT ![r] = "finishing"]
       /\ me' = [me EXCEPT ![r].at = i, ![r].tries = n]
       /\ UNCHANGED <<row, registry>>
    \/ /\ i <= N /\ me[r].aborted
       /\ status' = "failed"
       /\ End(r)
       /\ UNCHANGED phase
    \/ /\ i <= N /\ ~me[r].aborted
       /\ status' \in {"failed", "pending_approval"}
       /\ End(r)
       /\ UNCHANGED phase
    \/ /\ i <= N /\ ~me[r].aborted
       /\ status' = "running" /\ phase' = i
       /\ pc' = [pc EXCEPT ![r] = "prep"]
       /\ me' = [me EXCEPT ![r].at = i, ![r].tries = n]
       /\ UNCHANGED registry

\* The phase the loop starts at: the one of the row, the first without one.
Start(r) ==
    /\ pc[r] = "starting"
    /\ LoopHead(r, IF me[r].at = 0 THEN 1 ELSE me[r].at, 0)
    /\ UNCHANGED <<turns, born, hub>>

SupersedeRunning ==
    [k \in 1..Len(turns) |-> IF turns[k].status = "running"
                             THEN [turns[k] EXCEPT !.status = "superseded"] ELSE turns[k]]

\* The envelope of the prompt: a turn of the phase, or of none for a follow-up.
BuildEnvelope(r) ==
    /\ pc[r] = "prep"
    /\ Len(turns) < MaxTurns
    /\ turns' = Append(SupersedeRunning, [run |-> r, phase |-> IF Talks(r) THEN 0 ELSE me[r].at,
                                          status |-> "running", said |-> FALSE])
    /\ pc' = [pc EXCEPT ![r] = "sending"]
    /\ UNCHANGED <<row, born, me, registry, hub>>

Sent(r) ==
    /\ pc[r] = "sending"
    /\ pc' = [pc EXCEPT ![r] = "waiting"]
    /\ UNCHANGED <<row, turns, born, me, registry, hub>>

\* Something the run awaits throws, the prompt cannot be sent, or a push is
\* not verified: the task fails.
Fails(r) ==
    /\ \/ pc[r] \in {"starting", "prep", "sending", "finishing"}
       \/ pc[r] = "reading" /\ ~Talks(r) /\ Phases[me[r].at].pushVerify
    /\ status' = "failed"
    /\ End(r)
    /\ UNCHANGED <<phase, turns, born, hub>>

\* The decisive signal of the agent of a turn that runs.
AgentSays(k, s) ==
    /\ turns[k].status = "running"
    /\ turns' = [turns EXCEPT ![k].status = s, ![k].said = TRUE]
    /\ UNCHANGED <<row, born, pc, me, registry, hub>>

\* The newest turn of a set of turns, 0 without one.
Newest(S) == IF S = {} THEN 0 ELSE CHOOSE k \in S : \A j \in S : j <= k
TurnOf(r) == Newest({k \in 1..Len(turns) : turns[k].run = r})

Inferred(c) ==
    CASE c = "phase_complete" -> "completed"
      [] c = "question" -> "questions"
      [] c = "stopped" -> "failed"

\* What the run acts on: the row, and the classification if that says nothing.
Verdict(s, c) ==
    CASE s = "failed" -> "stopped"
      [] s \in {"completed", "test_failed"} -> "phase_complete"
      [] s = "questions" -> "question"
      [] OTHER -> c

\* faulty: the phase the task was in counts as done.
AfterFollowUpGoOn(r) ==
    IF me[r].at > 0
    THEN /\ pc' = [pc EXCEPT ![r] = "starting"]
         /\ me' = [me EXCEPT ![r].op = "loop", ![r].at = @ + 1]
         /\ UNCHANGED <<row, registry>>
    ELSE /\ status' = "review"
         /\ End(r)
         /\ UNCHANGED phase

\* A follow-up is over: the loop takes the task up at the phase the row had,
\* and without one the task is done.
AfterFollowUp(r) ==
    IF me[r].at > 0
    THEN /\ pc' = [pc EXCEPT ![r] = "starting"]
         /\ me' = [me EXCEPT ![r].op = "loop"]
         /\ UNCHANGED <<row, registry>>
    ELSE /\ status' = "review"
         /\ End(r)
         /\ UNCHANGED phase

\* The wait ends with classification c and the turn is finalized.
WaitEnds(r, c) ==
    LET k == TurnOf(r)
        v == Verdict(turns[k].status, c)
        told == Talks(r) /\ me[r].aborted
    IN  /\ pc[r] = "waiting"
        /\ turns' = IF turns[k].status # "running" THEN turns
                    ELSE [turns EXCEPT ![k].status =
                              IF me[r].aborted THEN "aborted" ELSE Inferred(c)]
        /\ \/ v = "question" /\ status' = "waiting_input" /\ End(r) /\ UNCHANGED phase
           \/ v = "stopped" /\ told /\ AfterFollowUp(r)
           \/ v = "stopped" /\ ~told /\ status' = "failed" /\ End(r) /\ UNCHANGED phase
           \/ /\ v = "phase_complete"
              /\ pc' = [pc EXCEPT ![r] = "reading"]
              /\ UNCHANGED <<row, me, registry>>
        /\ UNCHANGED <<born, hub>>

\* faulty: the first phase of a unit type taken for none.
AsksFromSecond(i) == i > 1 /\ RequireApproval /\ Phases[i].planApproval

AsksForReview(i) == i > 0 /\ RequireApproval /\ Phases[i].planApproval

\* A plan waits for its approval.
AskForReview(r) ==
    /\ status' = "phase_review"
    /\ End(r)
    /\ UNCHANGED phase

\* The output of a follow-up has been read.
ReadFollowUp(r) ==
    /\ pc[r] = "reading" /\ Talks(r)
    /\ IF AsksForReview(me[r].at) THEN AskForReview(r) ELSE AfterFollowUp(r)
    /\ UNCHANGED <<turns, born, hub>>

\* A completion that was only inferred and has no output is rejected.
Reject(r) ==
    /\ pc[r] = "reading" /\ ~Talks(r)
    /\ ~turns[TurnOf(r)].said /\ ~Phases[me[r].at].pushVerify
    /\ turns' = [turns EXCEPT ![TurnOf(r)].status = "failed"]
    /\ status' = "failed"
    /\ End(r)
    /\ UNCHANGED <<phase, born, hub>>

\* faulty: one round too few, one too many.
RollsBackEarlier(r) ==
    /\ turns[TurnOf(r)].status = "test_failed"
    /\ Phases[me[r].at].rollback > 0
    /\ me[r].tries + 2 < MaxSelfReview
RollsBackOnceMore(r) ==
    /\ turns[TurnOf(r)].status = "test_failed"
    /\ Phases[me[r].at].rollback > 0
    /\ me[r].tries < MaxSelfReview

RollsBack(r) ==
    /\ turns[TurnOf(r)].status = "test_failed"
    /\ Phases[me[r].at].rollback > 0
    /\ me[r].tries + 1 < MaxSelfReview

\* The phase has concluded: a plan waits for its approval, failed tests go back
\* to the review while attempts are left, everything else goes on.
Conclude(r) ==
    /\ pc[r] = "reading" /\ ~Talks(r)
    /\ IF AsksForReview(me[r].at) THEN AskForReview(r)
       ELSE IF RollsBack(r) THEN LoopHead(r, Phases[me[r].at].rollback, me[r].tries + 1)
       ELSE LoopHead(r, me[r].at + 1, me[r].tries)
    /\ UNCHANGED <<turns, born, hub>>

\* Git information is collected; whatever the row says by then, the task goes
\* to review.
Finish(r) ==
    /\ pc[r] = "finishing"
    /\ status' = "review"
    /\ End(r)
    /\ UNCHANGED <<phase, turns, born, hub>>

-----------------------------------------------------------------------------
(* The routes that stop a run *)

\* The first entry of the task is aborted; a wait hears of it (AgentTurns).
AbortFirst ==
    me' = IF registry # <<>> /\ Live(registry[1])
          THEN [me EXCEPT ![registry[1]].aborted = TRUE] ELSE me

Stop ==
    /\ registry # <<>>
    /\ AbortFirst
    /\ UNCHANGED <<row, turns, born, pc, registry, hub>>

\* The status is checked, the window is killed, then the run is stopped.
Retry ==
    /\ \/ /\ route = "none" /\ status \in {"in_progress", "failed"}
          /\ route' = "retry"
          /\ UNCHANGED <<status, me>>
       \/ /\ route = "retry"
          /\ route' = "none"
          /\ \/ AbortFirst /\ status' = "open"
             \/ UNCHANGED <<status, me>>
    /\ UNCHANGED <<phase, turns, born, pc, registry, recovery, snap, crashes, approved>>

\* The run is stopped, window and worktree are cleaned up, then the row written.
Archive ==
    /\ \/ /\ route = "none" /\ status # "archived"
          /\ route' = "archive"
          /\ AbortFirst
          /\ status' = IF status = "pending_approval" THEN "archived" ELSE status
       \/ /\ route = "archive"
          /\ route' = "none"
          /\ status' = "archived"
          /\ UNCHANGED me
    /\ UNCHANGED <<phase, turns, born, pc, registry, recovery, snap, crashes, approved>>

-----------------------------------------------------------------------------
(* The hub stops, starts, and looks for tasks nobody drives *)

Crash ==
    /\ crashes < MaxCrashes
    /\ crashes' = crashes + 1
    /\ pc' = [r \in Run |-> IF Live(r) THEN "ended" ELSE pc[r]]
    /\ me' = [r \in Run |-> Nobody]
    /\ registry' = <<>>
    /\ route' = "none" /\ recovery' = "due" /\ snap' = 0
    /\ UNCHANGED <<row, turns, born, approved>>

\* Startup recovery reads the row, and gives up on a pane that is gone.
RecoverBegins ==
    /\ recovery = "due"
    /\ \/ /\ status \in {"running", "in_progress"} /\ phase > 0 /\ registry = <<>>
          /\ recovery' = "probing" /\ snap' = phase
       \/ recovery' = "idle" /\ UNCHANGED snap
    /\ UNCHANGED <<row, turns, born, pc, me, registry, route, crashes, approved>>

\* What it goes by: the newest turn of the phase it read.
Found ==
    LET k == Newest({j \in 1..Len(turns) : turns[j].phase = snap})
    IN  IF k = 0 THEN "none" ELSE turns[k].status

\* isPhaseComplete: a phase whose push can be verified may be complete anyway.
Complete ==
    IF Found = "completed" THEN {TRUE} ELSE IF Phases[snap].pushVerify THEN BOOLEAN ELSE {FALSE}

\* The row is set to phase i and the loop resumed there.
ResumeAt(i) ==
    IF i > N
    THEN /\ status' = "review"
         /\ UNCHANGED <<phase, turns, born, pc, me, registry>>
    ELSE /\ status' = "running" /\ phase' = i
         /\ turns' = SupersedeRunning
         /\ Called("recover", i)

\* Escape has been sent and half a second has passed; the row is not read again.
RecoverEnds ==
    /\ recovery = "probing"
    /\ recovery' = "idle"
    /\ \/ /\ Found = "questions"
          /\ status' = "waiting_input"
          /\ UNCHANGED <<phase, turns, born, pc, me, registry>>
       \/ /\ Found = "completed" /\ AsksForReview(snap)
          /\ status' = "phase_review"
          /\ UNCHANGED <<phase, turns, born, pc, me, registry>>
       \/ /\ Found = "test_failed" /\ Phases[snap].rollback > 0
          /\ ResumeAt(IF 1 < MaxSelfReview THEN Phases[snap].rollback ELSE snap + 1)
       \/ /\ Found # "questions"
          /\ ~(Found = "completed" /\ AsksForReview(snap))
          /\ ~(Found = "test_failed" /\ Phases[snap].rollback > 0)
          /\ \E complete \in Complete :
                IF complete THEN ResumeAt(snap + 1)
                ELSE /\ turns' = SupersedeRunning
                     /\ Called("recover", phase)
                     /\ UNCHANGED row
    /\ UNCHANGED <<route, snap, crashes, approved>>

\* faulty: the periodic check looks at another status.
SweepOpened ==
    /\ status = "in_progress"
    /\ registry = <<>>
    /\ \A r \in Run : pc[r] # "waiting"
    /\ status' = "failed"
    /\ UNCHANGED <<phase, turns, born, pc, me, registry, hub>>

\* Every five minutes: a running task that no execution is registered for, and
\* whose row no wait has touched for five minutes.
Sweep ==
    /\ status = "running"
    /\ registry = <<>>
    /\ \A r \in Run : pc[r] # "waiting"
    /\ status' = "failed"
    /\ UNCHANGED <<phase, turns, born, pc, me, registry, hub>>

-----------------------------------------------------------------------------

Runs(r) ==
    \/ Claim(r) \/ OpeningFails(r) \/ ResumeRefused(r) \/ Register(r)
    \/ Start(r) \/ BuildEnvelope(r) \/ Sent(r) \/ Fails(r)
    \/ \E c \in Class : WaitEnds(r, c)
    \/ ReadFollowUp(r) \/ Reject(r) \/ Conclude(r) \/ Finish(r)

Next ==
    \/ Execute \/ FollowUp \/ Approve \/ RePlan \/ RejectPlan
    \/ \E r \in Run : Runs(r)
    \/ \E k \in 1..Len(turns), s \in {"completed", "test_failed", "questions", "failed"} :
          AgentSays(k, s)
    \/ Stop \/ Retry \/ Archive
    \/ Crash \/ RecoverBegins \/ RecoverEnds \/ Sweep

\* Every await of a run ends (a wait by its timers, AgentTurns), and the
\* periodic check is a timer of the hub.  People and agents owe nothing.
Fairness == (\A r \in Run : WF_vars(Runs(r))) /\ WF_vars(Sweep)

Spec == Init /\ [][Next]_vars
FairSpec == Spec /\ Fairness

-----------------------------------------------------------------------------
(* Properties *)

\* State of the right shape.
TypeOK ==
    /\ status \in Status /\ phase \in 0..N
    /\ turns \in Seq(Turn)
    /\ born \in 0..MaxRuns
    /\ pc \in [Run -> PC]
    /\ me \in [Run -> Locals]
    /\ registry \in Seq(Run)
    /\ route \in {"none", "retry", "archive"}
    /\ recovery \in {"idle", "due", "probing"}
    /\ snap \in 0..N
    /\ crashes \in 0..MaxCrashes
    /\ approved \in BOOLEAN

\* A plan needs approval (and is not one that a push could verify).
PlanIsGated ==
    RequireApproval /\ Phases[Planning].planApproval /\ ~Phases[Planning].pushVerify

\* With requirePlanApproval nothing but a person's approval takes the task past
\* its plan: no follow-up, no second run and no recovery does.
PlanIsApproved == PlanIsGated /\ phase > Planning => approved

\* The turns of run r's loop in phase p, all of them, and the phase of the oldest.
Of(r, p) == {k \in 1..Len(turns) : turns[k].run = r /\ turns[k].phase = p}
LoopTurns(r) == UNION {Of(r, p) : p \in Phase}
FirstOf(r) == turns[CHOOSE k \in LoopTurns(r) : \A j \in LoopTurns(r) : k <= j].phase

\* The newest turn of the loop in phase p is over, later than those of the phase
\* before it, and was not left on a question, a failure, or a failed test with
\* attempts to spare.
Concluded == {"completed", "test_failed", "aborted", "superseded"}
Earned(r, p) ==
    LET k == Newest(Of(r, p))
    IN  /\ k \in Of(r, p)
        /\ turns[k].status \in Concluded
        /\ turns[k].status = "test_failed" /\ Phases[p].rollback > 0
               => me[r].tries + 1 >= MaxSelfReview
        /\ p > FirstOf(r) => k > Newest(Of(r, p - 1))

\* A loop that is through has worked for it, also after failed tests went back:
\* every phase from the one it began at has been earned.
ReviewIsEarned ==
    \A r \in Run : pc[r] = "finishing" => \A p \in FirstOf(r)..N : Earned(r, p)

MaxRounds == IF MaxSelfReview = 0 THEN 1 ELSE MaxSelfReview

\* selfReviewMaxAttempts bounds the rounds of a loop: no phase gets more turns.
ReviewRounds ==
    \A r \in Run, p \in Phase :
        Cardinality(Of(r, p)) <= MaxRounds

\* Where the locals of a run may be: a loop at work is in a phase, one that is
\* through has left the last, a run that is over has none.
PlaceOf(r) ==
    /\ r > born => pc[r] = "none"
    /\ ~Live(r) => me[r] = Nobody
    /\ pc[r] \in {"prep", "sending", "waiting", "reading"} /\ ~Talks(r) => me[r].at \in Phase
    /\ pc[r] = "finishing" => ~Talks(r) /\ me[r].at = N + 1
    /\ pc[r] \in {"called", "opening", "starting"} \/ Talks(r) => me[r].at <= N
    /\ Talks(r) => pc[r] \notin {"called", "starting"}

\* Before the approval no run, and no recovery, has a phase past the plan.
PlanHeld ==
    PlanIsGated /\ ~approved =>
        /\ phase <= Planning /\ snap <= Planning
        /\ \A r \in Run : me[r].at <= Planning

\* A run that has not come to a phase of its own.
Fresh(r) == Talks(r) \/ pc[r] \in {"none", "called", "opening", "starting"}

\* The rounds of a loop in phase p, the one at hand included from the moment
\* its envelope is built.
Rounds(r, p) ==
    me[r].tries + (IF p < me[r].at \/ (p = me[r].at /\ pc[r] \in {"sending", "waiting", "reading"})
                   THEN 1 ELSE 0)
RoundsOf(r) ==
    /\ me[r].tries < MaxRounds
    /\ \A p \in Phase :
        /\ Fresh(r) => Of(r, p) = {}
        /\ Live(r) => Cardinality(Of(r, p)) <= Rounds(r, p)

\* The inductive invariant: types, places of the runs, the plan, the rounds.
IInv ==
    /\ TypeOK
    /\ recovery = "probing" => snap > 0
    /\ \A r \in Run : PlaceOf(r) /\ RoundsOf(r)
    /\ PlanHeld
    /\ ReviewRounds

\* The newest turn of run r is the one of the phase it is at.
AtWork(r) ==
    /\ TurnOf(r) \in Of(r, me[r].at) /\ TurnOf(r) = Newest(Of(r, me[r].at))
    /\ me[r].at > FirstOf(r) => TurnOf(r) > Newest(Of(r, me[r].at - 1))

\* A loop has earned the phases before the one it is at, in their order, and what
\* it reads in that one is the end of its newest turn.
InOrder(r) ==
    Live(r) /\ ~Fresh(r) =>
        \/ pc[r] = "prep" /\ LoopTurns(r) = {}
        \/ /\ \E k \in LoopTurns(r) : \A j \in LoopTurns(r) : k <= j
           /\ \A p \in FirstOf(r)..(me[r].at - 1) : Earned(r, p)
           /\ pc[r] \in {"sending", "waiting", "reading"} => AtWork(r)
           /\ pc[r] = "reading" => turns[TurnOf(r)].status \in Concluded

\* The invariant with the order of a run's turns.
Ordered == \A r \in Run : InOrder(r)
OrderInv == IInv /\ Ordered

\* A task does not stay "running" for ever: its run ends, or the periodic check
\* finds that it has none.
NotRunningForever == status = "running" ~> status # "running"

\* docs/en/tasks.md:194: a phase that was not completed is executed again:
\* recovery goes past a phase only on a turn newer than those of other phases.
RecoveryRedoes ==
    [][recovery = "probing" /\ recovery' = "idle" /\ phase' > phase =>
           turns[Newest({k \in 1..Len(turns) : turns[k].phase > 0})].phase = phase]_vars

=============================================================================
