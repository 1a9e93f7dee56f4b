-------------------------- MODULE ExecutionApproval --------------------------
(***************************************************************************)
(* The untrusted-input execution gate of one task and every handler that   *)
(* races for its database row: execute(), followUp(), resumeStateMachine(),*)
(* restore(), respawn(), resumeLegacySession(), the phase loop, the        *)
(* approve / deny / archive / retry / answer / approve-plan routes,        *)
(* startup and periodic recovery, and a crash of the hub.                  *)
(*                                                                         *)
(* The hub is one Node process: the code between two awaits is atomic and  *)
(* is one action here; a handler's locals across an await are the record   *)
(* caller[c], its copy of the row being caller[c].snap.                    *)
(***************************************************************************)
EXTENDS Naturals

CONSTANTS
  Callers,      \* requests and background runs that may be in flight at once
  MaxContent,   \* bound on the edits of the task's own manifest fields
  MaxConfig,    \* bound on the edits of the unit / project / server fields
  Policies,     \* effective input policies the task's server may have
  Entries,      \* operations that a user or a recovery may request
  None          \* SQL NULL, and "no row read"

AllPolicies == {"manual-approval", "allow", "deny"}
\* operations that read the row again once they hold the task's lock ...
RereadOps == {"execute", "follow_up", "resume"}
\* ... and those that keep the row their caller read before the lock
SnapshotOps == {"restore", "respawn", "recover_session_legacy"}
RunOps == RereadOps \union SnapshotOps
AwaitOps == {"resume_await_answer", "resume_await_plan_review"}
Operations == RunOps \union AwaitOps

Status == {"open", "in_progress", "running", "waiting_input", "phase_review",
           "review", "done", "failed", "archived", "pending_approval"}
Recoverable == {"running", "in_progress"}

\* A manifest hash: what the task contributes and what its unit and server do.
Hash == (0 .. MaxContent) \X (0 .. MaxConfig)

Row == [status           : Status,
        pendingOperation : Operations \union {None},
        priorStatus      : Status \union {None},
        approved         : Hash \union {None},
        content          : 0 .. MaxContent]

ASSUME ConstantsAssumption ==
  /\ MaxContent \in Nat /\ MaxConfig \in Nat
  /\ Policies \subseteq AllPolicies
  /\ Entries \subseteq RunOps
  /\ None \notin Operations \union Status \union Row

PC == {"idle",         \* no request
       "called",       \* row read, base branch being detected
       "opening",      \* outer gate passed; resource guard, session, lock
       "locked",       \* holds the task's lock, old window being killed
       "creating",     \* in-lock gate passed, window being opened
       "launching",    \* window open, worker being started
       "loop",         \* top of the phase loop
       "phase",        \* a worker is on a phase or on a follow-up turn
       "rejected",     \* an asynchronous run threw, its catch has not run
       "approving", "preApproving", "archiving", "retrying", "recovering"}

VARIABLES
  task,      \* the row of the task
  config,    \* version of everything else the manifest is resolved from
  policy,    \* the effective input policy
  lock,      \* holder of the task's rotation lock
  caller     \* what each request has in its local variables

vars == <<task, config, policy, lock, caller>>

\* async: nobody awaits the run, its rejection goes to failAsyncTaskOperation
Caller == [pc : PC, operation : Operations \union {None}, async : BOOLEAN,
           snap : Row \union {None}]

Idle == [pc |-> "idle", operation |-> None, async |-> FALSE, snap |-> None]

Init ==
  /\ task = [status |-> "open", pendingOperation |-> None, priorStatus |-> None,
             approved |-> None, content |-> 0]
  /\ config = 0
  /\ policy \in Policies
  /\ lock = None
  /\ caller = [c \in Callers |-> Idle]

-----------------------------------------------------------------------------
(* The gate and the row's guarded updates.                                 *)

HashOf(row) == <<row.content, config>>

GateVerdict(row, hash) ==
  CASE policy = "deny"               -> "denied"
    [] policy = "allow"              -> "allowed"
    [] row.pendingOperation # None   -> "pending_approval"
    [] row.approved = hash           -> "allowed"
    [] OTHER                         -> "pending_approval"

\* faulty: the UPDATE without its compare of the status / of the operation
CanRecordAnyStatus(row, hash) ==
  row.status # "pending_approval" /\ task.pendingOperation = None /\ task.approved # hash
CanRecordTwice(row, hash) ==
  row.status # "pending_approval" /\ task.status = row.status /\ task.approved # hash

CanRecord(row, hash) ==
  /\ row.status # "pending_approval"
  /\ task.status = row.status
  /\ task.pendingOperation = None
  /\ task.approved # hash

RecordBlock(row, op, hash) ==
  task' = IF CanRecord(row, hash)
          THEN [task EXCEPT !.status = "pending_approval",
                            !.pendingOperation = op,
                            !.priorStatus = row.status]
          ELSE task

\* faulty: the UPDATE guarded by the operation alone
CanConsumeByOperation == task.pendingOperation # None

CanConsume == task.status = "pending_approval" /\ task.pendingOperation # None

\* faulty: the status transition left to a later write
ConsumeKeepingStatus(status, hash) ==
  task' = [task EXCEPT !.approved = hash, !.pendingOperation = None, !.priorStatus = None]

ConsumePending(status, hash) ==
  task' = [task EXCEPT !.status = status, !.approved = hash,
                       !.pendingOperation = None, !.priorStatus = None]

SetStatus(status) == task' = [task EXCEPT !.status = status]

ApprovedStatus(op, prior) ==
  CASE op = "execute"                 -> "open"
    [] op \in {"resume", "follow_up"} -> "running"
    [] OTHER                          -> IF prior = None THEN "failed" ELSE prior

DeniedStatus(op) == IF op = "restore" THEN "archived" ELSE "failed"

-----------------------------------------------------------------------------
(* Book-keeping of a request.                                              *)

GoTo(c, pc) == caller' = [caller EXCEPT ![c].pc = pc]

\* The row is no longer used once the window exists, or once control is in
\* the loop, which reads it again at every phase.
Forget(c, pc) == caller' = [caller EXCEPT ![c].pc = pc, ![c].snap = None]

Return(c) == caller' = [caller EXCEPT ![c] = Idle]

\* A rejected promise: the route replies with the error, or the catch of the
\* asynchronous dispatch is still to run.
Throw(c) ==
  caller' = [caller EXCEPT ![c] =
               IF @.async THEN [@ EXCEPT !.pc = "rejected", !.snap = None] ELSE Idle]

Unlock(c) == lock' = IF lock = c THEN None ELSE lock

\* c enters the operation op holding the row it has just read
Call(c, op, async, row) ==
  caller' = [caller EXCEPT ![c] =
               [pc |-> "called", operation |-> op, async |-> async, snap |-> row]]

Running(c) == caller[c].pc \in {"loop", "phase"}

-----------------------------------------------------------------------------
(* Requests that end in a run of the worker.                               *)

\* POST execute, follow-up, restore, window respawn, recover-session: only
\* restore looks at the status; the reply waits for the run (not async).
Request(c, op) ==
  /\ caller[c].pc = "idle"
  /\ op \in Entries \ {"resume"}
  /\ op = "restore" => task.status = "archived"
  /\ Call(c, op, FALSE, task)
  /\ UNCHANGED <<task, config, policy, lock>>

\* POST answer: the gate runs before the answers are used, then followUp() is
\* called without being awaited.
Answer(c) ==
  /\ caller[c].pc = "idle"
  /\ task.status \in {"review", "waiting_input"}
  /\ LET verdict == GateVerdict(task, HashOf(task)) IN
       \/ /\ verdict = "allowed"
          /\ Call(c, "follow_up", TRUE, task)
          /\ UNCHANGED task
       \/ /\ verdict = "pending_approval"
          /\ RecordBlock(task, "resume_await_answer", HashOf(task))
          /\ UNCHANGED caller
  /\ UNCHANGED <<config, policy, lock>>

\* POST approve-plan: approved, or sent back with feedback, both after the gate
ReviewPlan(c, op) ==
  /\ caller[c].pc = "idle"
  /\ task.status = "phase_review"
  /\ LET verdict == GateVerdict(task, HashOf(task)) IN
       \/ /\ verdict = "allowed"
          /\ SetStatus("running")
          /\ Call(c, op, TRUE, [task EXCEPT !.status = "running"])
       \/ /\ verdict = "pending_approval"
          /\ RecordBlock(task, "resume_await_plan_review", HashOf(task))
          /\ UNCHANGED caller
  /\ UNCHANGED <<config, policy, lock>>

\* ... or rejected without feedback, which no gate guards
RejectPlan ==
  /\ task.status = "phase_review"
  /\ SetStatus("failed")
  /\ UNCHANGED <<config, policy, lock, caller>>

\* The outer gate, on the row read at entry: followUp() claims the status at
\* once, the others leave it.
GatePass(c) ==
  LET row == caller[c].snap IN
  /\ caller[c].pc = "called"
  /\ GateVerdict(row, HashOf(row)) = "allowed"
  /\ IF caller[c].operation = "follow_up" THEN SetStatus("in_progress") ELSE UNCHANGED task
  /\ GoTo(c, "opening")
  /\ UNCHANGED <<config, policy, lock>>

GateBlock(c) ==
  LET row == caller[c].snap IN
  /\ caller[c].pc = "called"
  /\ GateVerdict(row, HashOf(row)) = "pending_approval"
  /\ RecordBlock(row, caller[c].operation, HashOf(row))
  /\ Throw(c)
  /\ UNCHANGED <<config, policy, lock>>

GateDeny(c) ==
  LET row == caller[c].snap IN
  /\ caller[c].pc = "called"
  /\ GateVerdict(row, HashOf(row)) = "denied"
  /\ Throw(c)
  /\ UNCHANGED <<task, config, policy, lock>>

\* The task's rotation lock; execute() and followUp() read the row again here.
Lock(c) ==
  /\ caller[c].pc = "opening"
  /\ lock = None
  /\ lock' = c
  /\ caller' = [caller EXCEPT ![c].pc = "locked",
                  ![c].snap = IF caller[c].operation \in {"execute", "follow_up"} THEN task ELSE @]
  /\ UNCHANGED <<task, config, policy>>

\* A resume whose window is not asleep needs neither the lock nor a new window.
ResumeAwake(c) ==
  /\ caller[c].pc = "opening"
  /\ caller[c].operation = "resume"
  /\ Forget(c, "loop")
  /\ UNCHANGED <<task, config, policy, lock>>

\* A follow-up to a window that still exists is sent there, with no second gate.
ReuseWindow(c) ==
  /\ caller[c].pc = "locked"
  /\ caller[c].operation = "follow_up"
  /\ Unlock(c)
  /\ Forget(c, "phase")
  /\ UNCHANGED <<task, config, policy>>

\* What the in-lock gate looks at: waking a window for resume reads the row.
InLockRow(c) == IF caller[c].operation = "resume" THEN task ELSE caller[c].snap

InLockPass(c) ==
  /\ caller[c].pc = "locked"
  /\ GateVerdict(InLockRow(c), HashOf(InLockRow(c))) = "allowed"
  /\ GoTo(c, "creating")
  /\ UNCHANGED <<task, config, policy, lock>>

InLockBlock(c) ==
  /\ caller[c].pc = "locked"
  /\ GateVerdict(InLockRow(c), HashOf(InLockRow(c))) = "pending_approval"
  /\ RecordBlock(InLockRow(c), caller[c].operation, HashOf(InLockRow(c)))
  /\ Unlock(c)
  /\ Throw(c)
  /\ UNCHANGED <<config, policy>>

InLockDeny(c) ==
  /\ caller[c].pc = "locked"
  /\ GateVerdict(InLockRow(c), HashOf(InLockRow(c))) = "denied"
  /\ Unlock(c)
  /\ Throw(c)
  /\ UNCHANGED <<task, config, policy>>

\* Resource guard, session, kill of the old window or creation of the new one
\* failed. A changed server snapshot or a worktree error also fails the task.
OpenFails(c) ==
  /\ caller[c].pc \in {"opening", "locked", "creating"}
  /\ \/ UNCHANGED task
     \/ /\ caller[c].operation \notin {"respawn", "recover_session_legacy"}
        /\ SetStatus("failed")
  /\ Unlock(c)
  /\ Throw(c)
  /\ UNCHANGED <<config, policy>>

\* The window exists. execute() and restore() write the status before they
\* release the lock; a woken follow-up goes back for the lock.
Opened(c) ==
  LET op == caller[c].operation IN
  /\ caller[c].pc = "creating"
  /\ Unlock(c)
  /\ \/ op = "execute" /\ SetStatus("in_progress") /\ Forget(c, "launching")
     \/ op = "follow_up" /\ UNCHANGED task /\ (Forget(c, "launching") \/ GoTo(c, "opening"))
     \/ op = "resume" /\ UNCHANGED task /\ Forget(c, "loop")
     \/ /\ op = "restore"
        /\ task' = [task EXCEPT !.status = "open", !.pendingOperation = None]
        /\ Return(c)
     \/ op \in {"respawn", "recover_session_legacy"} /\ UNCHANGED task /\ Return(c)
  /\ UNCHANGED <<config, policy>>

Launched(c) ==
  /\ caller[c].pc = "launching"
  /\ GoTo(c, IF caller[c].operation = "execute" THEN "loop" ELSE "phase")
  /\ UNCHANGED <<task, config, policy, lock>>

\* execute() may return instead of throwing when the worker is not ready
LaunchFails(c) ==
  /\ caller[c].pc = "launching"
  /\ SetStatus("failed")
  /\ Throw(c) \/ (caller[c].operation = "execute" /\ Return(c))
  /\ UNCHANGED <<config, policy, lock>>

\* the catch of a run nobody awaits
FailAsync(c) ==
  /\ caller[c].pc = "rejected"
  /\ SetStatus("failed")
  /\ Return(c)
  /\ UNCHANGED <<config, policy, lock>>

-----------------------------------------------------------------------------
(* The phase loop: the gate is asked again, on a fresh row, at every phase.*)

PhaseStart(c) ==
  /\ caller[c].pc = "loop"
  /\ GateVerdict(task, HashOf(task)) = "allowed"
  /\ SetStatus("running")
  /\ GoTo(c, "phase")
  /\ UNCHANGED <<config, policy, lock>>

PhaseBlock(c) ==
  /\ caller[c].pc = "loop"
  /\ GateVerdict(task, HashOf(task)) = "pending_approval"
  /\ RecordBlock(task, "resume", HashOf(task))
  /\ Return(c)
  /\ UNCHANGED <<config, policy, lock>>

\* denied by policy, or stopped by the user
PhaseStop(c) ==
  /\ caller[c].pc = "loop"
  /\ SetStatus("failed")
  /\ Return(c)
  /\ UNCHANGED <<config, policy, lock>>

NextPhase(c) ==
  /\ caller[c].pc = "phase"
  /\ GoTo(c, "loop")
  /\ UNCHANGED <<task, config, policy, lock>>

PhaseEnds(c, status) ==
  /\ caller[c].pc = "phase"
  /\ SetStatus(status)
  /\ Return(c)
  /\ UNCHANGED <<config, policy, lock>>

-----------------------------------------------------------------------------
(* The human's decisions.                                                  *)

\* faulty: without the check that the row names an operation
ApproveReadAnyRow(c) ==
  /\ caller[c].pc = "idle"
  /\ caller' = [caller EXCEPT ![c].pc = "approving", ![c].snap = task]
  /\ UNCHANGED <<task, config, policy, lock>>

\* POST approve-execution, first half: up to the await that detects the base
\* branch for the manifest.
ApproveRead(c) ==
  /\ caller[c].pc = "idle"
  /\ CanConsume
  /\ caller' = [caller EXCEPT ![c].pc = "approving", ![c].snap = task]
  /\ UNCHANGED <<task, config, policy, lock>>

\* The fingerprint the human saw is not the manifest's hash any more, or the
\* manifest cannot be resolved.
ApproveMismatch(c) ==
  /\ caller[c].pc = "approving"
  /\ Return(c)
  /\ UNCHANGED <<task, config, policy, lock>>

\* Second half: consume the block, then dispatch the operation that was READ
\* before the await; it reads the row again. A resubmitted answer or plan
\* review dispatches nothing. (followUp() of a block without a body fails.)
ApproveCommit(c) ==
  LET row  == caller[c].snap
      op   == row.pendingOperation
      next == ApprovedStatus(op, row.priorStatus) IN
  /\ caller[c].pc = "approving"
  /\ \/ /\ CanConsume
        /\ ConsumePending(next, HashOf(row))
        /\ IF op \in AwaitOps THEN Return(c) ELSE Call(c, op, TRUE, task')
     \/ /\ ~CanConsume
        /\ Return(c)
        /\ UNCHANGED task
  /\ UNCHANGED <<config, policy, lock>>

\* reading, checking and consuming are one synchronous step for a denial
Deny ==
  /\ CanConsume
  /\ ConsumePending(DeniedStatus(task.pendingOperation), task.approved)
  /\ UNCHANGED <<config, policy, lock, caller>>

\* approval of a task that was never blocked: records the hash, runs nothing
PreApproveRead(c) ==
  /\ caller[c].pc = "idle"
  /\ task.status = "open" /\ task.pendingOperation = None
  /\ caller' = [caller EXCEPT ![c].pc = "preApproving", ![c].snap = task]
  /\ UNCHANGED <<task, config, policy, lock>>

PreApproveCommit(c) ==
  /\ caller[c].pc = "preApproving"
  /\ \/ UNCHANGED task     \* fingerprint mismatch, or the window has closed
     \/ /\ task.status = "open" /\ task.pendingOperation = None
        /\ task' = [task EXCEPT !.approved = HashOf(caller[c].snap)]
  /\ Return(c)
  /\ UNCHANGED <<config, policy, lock>>

\* POST archive: a pending block is denied first; then windows and worktree
\* are removed across awaits, and the status is written whatever it is by then.
ArchiveBegin(c) ==
  /\ caller[c].pc = "idle"
  /\ task.status # "archived"
  /\ IF task.status = "pending_approval"
     THEN CanConsume /\ ConsumePending("archived", task.approved)
     ELSE UNCHANGED task
  /\ GoTo(c, "archiving")
  /\ UNCHANGED <<config, policy, lock>>

ArchiveFinish(c) ==
  /\ caller[c].pc = "archiving"
  /\ SetStatus("archived")
  /\ Return(c)
  /\ UNCHANGED <<config, policy, lock>>

\* POST retry: the old window is destroyed across an await, then 'open'
RetryBegin(c) ==
  /\ caller[c].pc = "idle"
  /\ task.status \in {"in_progress", "failed"}
  /\ GoTo(c, "retrying")
  /\ UNCHANGED <<task, config, policy, lock>>

RetryFinish(c) ==
  /\ caller[c].pc = "retrying"
  /\ SetStatus("open") \/ UNCHANGED task     \* 409: the window is still alive
  /\ Return(c)
  /\ UNCHANGED <<config, policy, lock>>

\* PUT with a status: the two the status menu offers, refused while pending
PutStatus(status) ==
  /\ task.status # "pending_approval"
  /\ SetStatus(status)
  /\ UNCHANGED <<config, policy, lock, caller>>

\* PUT of the title, the description, the unit ...: allowed at any time
EditTask ==
  /\ task.content < MaxContent
  /\ task' = [task EXCEPT !.content = @ + 1]
  /\ UNCHANGED <<config, policy, lock, caller>>

\* an edit of the unit, the project, the sidekick or the server
EditConfig ==
  /\ config < MaxConfig
  /\ config' = config + 1
  /\ UNCHANGED <<task, policy, lock, caller>>

\* the project's setting is changed, or an isolation check changes what it means
SetPolicy ==
  /\ policy' \in Policies \ {policy}
  /\ UNCHANGED <<task, config, lock, caller>>

-----------------------------------------------------------------------------
(* Crash, startup recovery and periodic recovery.                          *)

\* The hub dies: every request and every loop is gone, the row stays.
Restart ==
  /\ \E c \in Callers : caller[c] # Idle
  /\ caller' = [c \in Callers |-> Idle]
  /\ lock' = None
  /\ UNCHANGED <<task, config, policy>>

\* Startup recovery looks at tasks nobody runs, probes the pane across awaits,
\* and then writes what the last turn says; it resumes unless that is final.
RecoverRead(c) ==
  /\ caller[c].pc = "idle"
  /\ "resume" \in Entries
  /\ task.status \in Recoverable
  /\ \A d \in Callers : ~Running(d)
  /\ GoTo(c, "recovering")
  /\ UNCHANGED <<task, config, policy, lock>>

RecoverFinish(c) ==
  /\ caller[c].pc = "recovering"
  /\ \/ UNCHANGED task /\ Return(c)     \* pane dead, no unit, no server
     \/ /\ \E s \in {"review", "waiting_input", "phase_review"} : SetStatus(s)
        /\ Return(c)
     \/ /\ SetStatus("running") \/ UNCHANGED task
        /\ Call(c, "resume", FALSE, task')
  /\ UNCHANGED <<config, policy, lock>>

\* Periodic recovery: a running task nobody runs, past its grace period.
FailOrphan ==
  /\ task.status = "running"
  /\ \A c \in Callers : ~Running(c)
  /\ SetStatus("failed")
  /\ UNCHANGED <<config, policy, lock, caller>>

-----------------------------------------------------------------------------

Enter(c) ==
  \/ \E op \in RunOps : Request(c, op)
  \/ Answer(c)
  \/ \E op \in {"resume", "follow_up"} : ReviewPlan(c, op)
  \/ ApproveRead(c) \/ PreApproveRead(c) \/ ArchiveBegin(c) \/ RetryBegin(c) \/ RecoverRead(c)

Gate(c) == GatePass(c) \/ GateBlock(c) \/ GateDeny(c)

Window(c) ==
  \/ Lock(c) \/ ResumeAwake(c) \/ ReuseWindow(c)
  \/ InLockPass(c) \/ InLockBlock(c) \/ InLockDeny(c)
  \/ OpenFails(c) \/ Opened(c) \/ Launched(c) \/ LaunchFails(c) \/ FailAsync(c)

Loop(c) ==
  \/ PhaseStart(c) \/ PhaseBlock(c) \/ PhaseStop(c) \/ NextPhase(c)
  \/ \E s \in {"failed", "waiting_input", "phase_review", "review"} : PhaseEnds(c, s)

Finish(c) ==
  \/ ApproveMismatch(c) \/ ApproveCommit(c) \/ PreApproveCommit(c)
  \/ ArchiveFinish(c) \/ RetryFinish(c) \/ RecoverFinish(c)

Environment ==
  \/ RejectPlan \/ Deny \/ EditTask \/ EditConfig \/ SetPolicy \/ Restart \/ FailOrphan
  \/ \E s \in {"open", "done"} : PutStatus(s)

Next ==
  \/ \E c \in Callers : Enter(c) \/ Gate(c) \/ Window(c) \/ Loop(c) \/ Finish(c)
  \/ Environment

Spec == Init /\ [][Next]_vars

-----------------------------------------------------------------------------
(* Properties.                                                             *)

\* Every variable has its type; None stands for SQL NULL.
TypeOK ==
  /\ task \in Row
  /\ config \in 0 .. MaxConfig
  /\ policy \in Policies
  /\ lock \in Callers \union {None}
  /\ caller \in [Callers -> Caller]

\* A row a human is asked about can be decided: it says which operation to run
\* and a status to go back to, and that status is never pending_approval
\* itself, the self-loop that recordExecutionGateBlock() guards against.
RowDecidable(row) ==
  /\ row.priorStatus # "pending_approval"
  /\ row.status = "pending_approval" => row.pendingOperation # None /\ row.priorStatus # None
PendingIsDecidable == RowDecidable(task)

\* A block is recorded as one step that saves the status it really interrupts:
\* no handler that decided on an older row (archived, approved, finished in
\* the meantime) may save that older status or overwrite the newer one.
BlockSavesTheInterruptedStatus ==
  [][ task.pendingOperation = None /\ task'.pendingOperation # None
        => /\ task.status # "pending_approval"
           /\ task' = [task EXCEPT !.status = "pending_approval", !.priorStatus = task.status,
                                   !.pendingOperation = task'.pendingOperation] ]_vars

\* While a block is outstanding no second blocked entry point replaces what it
\* recorded, whatever it read before its gate.
OutstandingBlockIsKept ==
  [][ task.pendingOperation # None /\ task'.pendingOperation # None
        => /\ task'.pendingOperation = task.pendingOperation
           /\ task'.priorStatus = task.priorStatus ]_vars

\* One block, one dispatch: an approval that was read before an await starts
\* an operation only in the step that takes the block away from every other
\* approval, denial and archive of it.
OneDispatchPerBlock ==
  [][ \A c \in Callers :
        caller[c].pc = "approving" /\ caller'[c].pc = "called"
          => /\ task.status = "pending_approval" /\ task.pendingOperation # None
             /\ task'.pendingOperation = None ]_vars

\* What a handler carries across its awaits is usable after them: a row and an
\* operation wherever its next step reads them, and no row whose approval
\* would lead back to pending_approval.
LocalOK(r) ==
  /\ r.pc \in {"called", "opening", "locked", "creating"} => r.operation \in RunOps /\ r.snap # None
  /\ r.pc \in {"approving", "preApproving"} => r.snap # None
  /\ r.pc = "approving" => r.snap.pendingOperation # None
  /\ r.pc \in {"launching", "rejected", "loop", "phase"} => r.snap = None
  /\ r.snap # None => RowDecidable(r.snap)
LocalsOK == \A c \in Callers : LocalOK(caller[c])

\* The inductive invariant of the proofs.
IInv == TypeOK /\ PendingIsDecidable /\ LocalsOK

-----------------------------------------------------------------------------
(* What the repository says and the code does not do: see the run that     *)
(* expects a violation.                                                    *)

\* A recorded operation belongs to a task that is waiting for approval (Task.ts
\* on consumePendingApproval / recordExecutionGateBlock): otherwise the gate
\* blocks every run, no block can be recorded and no approval is accepted.
BlockIsAnswerable == task.pendingOperation # None => task.status = "pending_approval"
=============================================================================
