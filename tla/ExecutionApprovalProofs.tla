----------------------- MODULE ExecutionApprovalProofs -----------------------
(***************************************************************************)
(* Proofs about ExecutionApproval for every set of callers, every bound on *)
(* the edits and every set of policies and entries.  The inductive         *)
(* invariant IInv adds to the type invariant and to PendingIsDecidable     *)
(* what a handler still knows after an await (LocalsOK): an approval or an *)
(* in-lock gate writes what it read earlier, so the row can only stay      *)
(* decidable if every copy of it in flight is.                             *)
(***************************************************************************)
EXTENDS ExecutionApproval, TLAPS

-----------------------------------------------------------------------------
(* The row's updates.                                                      *)

\* A manifest hash of a well-typed row is one.
LEMMA HashOfType ==
  ASSUME NEW row \in Row, TypeOK
  PROVE  HashOf(row) \in Hash
BY DEF HashOf, Hash, Row, TypeOK

\* updateStatus() / update({status}) with anything but pending_approval.
LEMMA SetStatusKeeps ==
  ASSUME TypeOK, PendingIsDecidable,
         NEW s \in Status, s # "pending_approval", SetStatus(s)
  PROVE  task' \in Row /\ RowDecidable(task')
BY DEF TypeOK, PendingIsDecidable, RowDecidable, SetStatus, Row

\* recordExecutionGateBlock(), whether the UPDATE matches or not.
LEMMA RecordBlockKeeps ==
  ASSUME TypeOK, PendingIsDecidable,
         NEW row \in Row, NEW op \in Operations, NEW hash, RecordBlock(row, op, hash)
  PROVE  task' \in Row /\ RowDecidable(task')
<1>1. op # None
  BY ConstantsAssumption
<1>2. row.status # None /\ row.status \in Status
  BY ConstantsAssumption DEF Row, Status
<1>3. CASE CanRecord(row, hash)
  BY ZenonT(30), <1>1, <1>2, <1>3 DEF TypeOK, RowDecidable, RecordBlock, CanRecord, Row, Status
<1>4. CASE ~CanRecord(row, hash)
  BY <1>4 DEF TypeOK, PendingIsDecidable, RecordBlock
<1> QED  BY <1>3, <1>4

\* consumePendingApproval()
LEMMA ConsumeKeeps ==
  ASSUME TypeOK, NEW s \in Status, s # "pending_approval",
         NEW hash \in Hash \union {None}, ConsumePending(s, hash)
  PROVE  task' \in Row /\ RowDecidable(task')
BY ConstantsAssumption DEF TypeOK, RowDecidable, ConsumePending, Row, Status

-----------------------------------------------------------------------------
(* The handlers' locals.                                                   *)

LEMMA CallerUpdate ==
  ASSUME TypeOK, LocalsOK, NEW c \in Callers, NEW r \in Caller, LocalOK(r),
         caller' = [caller EXCEPT ![c] = r]
  PROVE  caller' \in [Callers -> Caller] /\ LocalsOK'
BY DEF TypeOK, LocalsOK

LEMMA IdleOK == Idle \in Caller /\ LocalOK(Idle)
BY DEF Idle, Caller, PC, LocalOK

LEMMA ReturnKeeps ==
  ASSUME TypeOK, LocalsOK, NEW c \in Callers, Return(c)
  PROVE  caller' \in [Callers -> Caller] /\ LocalsOK'
BY IdleOK, CallerUpdate DEF Return

LEMMA ThrowKeeps ==
  ASSUME TypeOK, LocalsOK, NEW c \in Callers, Throw(c)
  PROVE  caller' \in [Callers -> Caller] /\ LocalsOK'
<1> DEFINE r == IF caller[c].async THEN [caller[c] EXCEPT !.pc = "rejected", !.snap = None] ELSE Idle
<1>1. caller' = [caller EXCEPT ![c] = r]
  BY DEF Throw
<1>2. caller[c] \in Caller
  BY DEF TypeOK
<1>3. r \in Caller /\ LocalOK(r)
  BY <1>2, IdleOK DEF Caller, PC, LocalOK
<1> QED  BY <1>1, <1>3, CallerUpdate

LEMMA ForgetKeeps ==
  ASSUME TypeOK, LocalsOK, NEW c \in Callers,
         NEW pc \in {"launching", "loop", "phase"}, Forget(c, pc)
  PROVE  caller' \in [Callers -> Caller] /\ LocalsOK'
<1> DEFINE r == [caller[c] EXCEPT !.pc = pc, !.snap = None]
<1>1. caller[c] \in Caller
  BY DEF TypeOK
<1>2. caller' = [caller EXCEPT ![c] = r]
  BY <1>1 DEF Forget, TypeOK, Caller
<1>3. r \in Caller /\ LocalOK(r)
  BY <1>1 DEF Caller, PC, LocalOK
<1> QED  BY <1>2, <1>3, CallerUpdate

LEMMA GoToKeeps ==
  ASSUME TypeOK, LocalsOK, NEW c \in Callers, NEW pc \in PC, GoTo(c, pc),
         LocalOK([caller[c] EXCEPT !.pc = pc])
  PROVE  caller' \in [Callers -> Caller] /\ LocalsOK'
<1> DEFINE r == [caller[c] EXCEPT !.pc = pc]
<1>1. caller[c] \in Caller
  BY DEF TypeOK
<1>2. caller' = [caller EXCEPT ![c] = r]
  BY <1>1 DEF GoTo, TypeOK, Caller
<1>3. r \in Caller
  BY <1>1 DEF Caller
<1> QED  BY <1>2, <1>3, CallerUpdate

LEMMA CallKeeps ==
  ASSUME TypeOK, LocalsOK, NEW c \in Callers, NEW op \in RunOps,
         NEW async \in BOOLEAN, NEW row \in Row, RowDecidable(row),
         Call(c, op, async, row)
  PROVE  caller' \in [Callers -> Caller] /\ LocalsOK'
<1> DEFINE r == [pc |-> "called", operation |-> op, async |-> async, snap |-> row]
<1>1. r \in Caller
  BY DEF Caller, PC, Operations
<1>2. LocalOK(r)
  BY ConstantsAssumption DEF LocalOK
<1> QED  BY <1>1, <1>2, CallerUpdate DEF Call

\* Between its call and its window a handler knows its operation and its row.
LEMMA CalledFacts ==
  ASSUME TypeOK, LocalsOK, NEW c \in Callers,
         caller[c].pc \in {"called", "opening", "locked", "creating"}
  PROVE  /\ caller[c].operation \in RunOps
         /\ caller[c].snap \in Row
         /\ RowDecidable(caller[c].snap)
         /\ InLockRow(c) \in Row
BY DEF TypeOK, LocalsOK, LocalOK, Caller, InLockRow

\* An approval in flight holds the row it read.
LEMMA ApprovingFacts ==
  ASSUME TypeOK, LocalsOK, NEW c \in Callers,
         caller[c].pc \in {"approving", "preApproving"}
  PROVE  /\ caller[c].snap \in Row
         /\ RowDecidable(caller[c].snap)
         /\ HashOf(caller[c].snap) \in Hash
         /\ caller[c].pc = "approving" => caller[c].snap.pendingOperation \in Operations
<1>1. caller[c].snap \in Row /\ RowDecidable(caller[c].snap)
  BY DEF TypeOK, LocalsOK, LocalOK, Caller
<1>2. caller[c].pc = "approving" => caller[c].snap.pendingOperation # None
  BY DEF LocalsOK, LocalOK
<1> QED  BY <1>1, <1>2, HashOfType DEF Row

\* A lock is released by its holder or left alone.
LEMMA UnlockKeeps ==
  ASSUME TypeOK, NEW c \in Callers, Unlock(c)
  PROVE  lock' \in Callers \union {None}
BY DEF TypeOK, Unlock

-----------------------------------------------------------------------------
(* Every action keeps the invariant, one group of Next at a time.          *)

\* Requests enter with a row that is decidable, and write a decidable one.
LEMMA EnterKeeps ==
  ASSUME IInv, NEW c \in Callers, Enter(c)
  PROVE  IInv'
<1> USE DEF IInv
<1>1. ASSUME NEW op \in RunOps, Request(c, op)  PROVE IInv'
  <2>1. Call(c, op, FALSE, task) /\ UNCHANGED <<task, config, policy, lock>>
    BY <1>1 DEF Request
  <2>2. task \in Row /\ RowDecidable(task)
    BY DEF TypeOK, PendingIsDecidable
  <2>3. caller' \in [Callers -> Caller] /\ LocalsOK'
    BY <2>1, <2>2, CallKeeps
  <2> QED  BY <2>1, <2>3 DEF TypeOK, PendingIsDecidable, RowDecidable
<1>2. ASSUME Answer(c)  PROVE IInv'
  <2>1. task \in Row /\ RowDecidable(task)
    BY DEF TypeOK, PendingIsDecidable
  <2>2. CASE Call(c, "follow_up", TRUE, task) /\ UNCHANGED task
    <3>1. caller' \in [Callers -> Caller] /\ LocalsOK'
      BY <2>1, <2>2, CallKeeps DEF RunOps, RereadOps
    <3> QED  BY <1>2, <2>2, <3>1 DEF Answer, TypeOK, PendingIsDecidable, RowDecidable
  <2>3. CASE RecordBlock(task, "resume_await_answer", HashOf(task)) /\ UNCHANGED caller
    <3>1. task' \in Row /\ RowDecidable(task')
      BY <2>1, <2>3, RecordBlockKeeps DEF Operations, AwaitOps
    <3> QED  BY <1>2, <2>3, <3>1 DEF Answer, TypeOK, PendingIsDecidable, LocalsOK
  <2> QED  BY <1>2, <2>2, <2>3 DEF Answer
<1>3. ASSUME NEW op \in {"resume", "follow_up"}, ReviewPlan(c, op)  PROVE IInv'
  <2>1. task \in Row /\ RowDecidable(task)
    BY DEF TypeOK, PendingIsDecidable
  <2>2. CASE SetStatus("running") /\ Call(c, op, TRUE, [task EXCEPT !.status = "running"])
    <3>1. task' \in Row /\ RowDecidable(task')
      BY <2>2, SetStatusKeeps DEF Status
    <3>2. Call(c, op, TRUE, task')
      BY <2>2 DEF SetStatus
    <3>3. caller' \in [Callers -> Caller] /\ LocalsOK'
      BY <3>1, <3>2, CallKeeps DEF RunOps, RereadOps
    <3> QED  BY <1>3, <3>1, <3>3 DEF ReviewPlan, TypeOK, PendingIsDecidable
  <2>3. CASE RecordBlock(task, "resume_await_plan_review", HashOf(task)) /\ UNCHANGED caller
    <3>1. task' \in Row /\ RowDecidable(task')
      BY <2>1, <2>3, RecordBlockKeeps DEF Operations, AwaitOps
    <3> QED  BY <1>3, <2>3, <3>1 DEF ReviewPlan, TypeOK, PendingIsDecidable, LocalsOK
  <2> QED  BY <1>3, <2>2, <2>3 DEF ReviewPlan
<1>4. ASSUME ApproveRead(c) \/ PreApproveRead(c)  PROVE IInv'
  <2> DEFINE pc == IF ApproveRead(c) THEN "approving" ELSE "preApproving"
             r  == [caller[c] EXCEPT !.pc = pc, !.snap = task]
  <2>1. caller[c] \in Caller /\ task \in Row /\ RowDecidable(task) /\ task # None
    BY ConstantsAssumption DEF TypeOK, PendingIsDecidable
  <2>2. caller' = [caller EXCEPT ![c] = r] /\ UNCHANGED <<task, config, policy, lock>>
    BY <1>4, <2>1 DEF ApproveRead, PreApproveRead, TypeOK, Caller
  <2>3. pc = "approving" => task.pendingOperation # None
    BY DEF ApproveRead, CanConsume
  <2>4. r \in Caller /\ LocalOK(r)
    BY <2>1, <2>3 DEF Caller, PC, LocalOK
  <2>5. caller' \in [Callers -> Caller] /\ LocalsOK'
    BY <2>2, <2>4, CallerUpdate
  <2> QED  BY <2>2, <2>5 DEF TypeOK, PendingIsDecidable, RowDecidable
<1>5. ASSUME ArchiveBegin(c)  PROVE IInv'
  <2>1. task' \in Row /\ RowDecidable(task')
    <3>1. CASE ConsumePending("archived", task.approved)
      <4>1. task.approved \in Hash \union {None}
        BY DEF TypeOK, Row
      <4> QED  BY <3>1, <4>1, ConsumeKeeps DEF Status
    <3>2. CASE UNCHANGED task
      BY <3>2 DEF TypeOK, PendingIsDecidable
    <3> QED  BY <1>5, <3>1, <3>2 DEF ArchiveBegin
  <2>2. GoTo(c, "archiving") /\ LocalOK([caller[c] EXCEPT !.pc = "archiving"])
    BY <1>5 DEF ArchiveBegin, LocalsOK, LocalOK, TypeOK, Caller
  <2>3. caller' \in [Callers -> Caller] /\ LocalsOK'
    BY <2>2, GoToKeeps DEF PC
  <2> QED  BY <1>5, <2>1, <2>3 DEF ArchiveBegin, TypeOK, PendingIsDecidable
<1>6. ASSUME RetryBegin(c) \/ RecoverRead(c)  PROVE IInv'
  <2> DEFINE pc == IF RetryBegin(c) THEN "retrying" ELSE "recovering"
  <2>1. GoTo(c, pc) /\ UNCHANGED <<task, config, policy, lock>>
    BY <1>6 DEF RetryBegin, RecoverRead
  <2>2. LocalOK([caller[c] EXCEPT !.pc = pc])
    BY DEF LocalsOK, LocalOK, TypeOK, Caller
  <2>3. caller' \in [Callers -> Caller] /\ LocalsOK'
    BY <2>1, <2>2, GoToKeeps DEF PC
  <2> QED  BY <2>1, <2>3 DEF TypeOK, PendingIsDecidable, RowDecidable
<1> QED  BY <1>1, <1>2, <1>3, <1>4, <1>5, <1>6 DEF Enter

\* The outer gate, decided on the row the handler came with.
LEMMA GateKeeps ==
  ASSUME IInv, NEW c \in Callers, Gate(c)
  PROVE  IInv'
<1> USE DEF IInv
<1>1. ASSUME GatePass(c)  PROVE IInv'
  <2>1. task' \in Row /\ RowDecidable(task')
    <3>1. CASE SetStatus("in_progress")
      BY <3>1, SetStatusKeeps DEF Status
    <3>2. CASE UNCHANGED task
      BY <3>2 DEF TypeOK, PendingIsDecidable
    <3> QED  BY <1>1, <3>1, <3>2 DEF GatePass
  <2>2. GoTo(c, "opening") /\ LocalOK([caller[c] EXCEPT !.pc = "opening"])
    BY <1>1 DEF GatePass, LocalsOK, LocalOK, TypeOK, Caller
  <2>3. caller' \in [Callers -> Caller] /\ LocalsOK'
    BY <2>2, GoToKeeps DEF PC
  <2> QED  BY <1>1, <2>1, <2>3 DEF GatePass, TypeOK, PendingIsDecidable
<1>2. ASSUME GateBlock(c)  PROVE IInv'
  <2>1. caller[c].operation \in Operations /\ caller[c].snap \in Row
    BY <1>2, CalledFacts DEF GateBlock, Operations
  <2>2. task' \in Row /\ RowDecidable(task')
    BY <1>2, <2>1, RecordBlockKeeps DEF GateBlock
  <2>3. caller' \in [Callers -> Caller] /\ LocalsOK'
    BY <1>2, ThrowKeeps DEF GateBlock
  <2> QED  BY <1>2, <2>2, <2>3 DEF GateBlock, TypeOK, PendingIsDecidable
<1>3. ASSUME GateDeny(c)  PROVE IInv'
  <2>1. caller' \in [Callers -> Caller] /\ LocalsOK'
    BY <1>3, ThrowKeeps DEF GateDeny
  <2> QED  BY <1>3, <2>1 DEF GateDeny, TypeOK, PendingIsDecidable, RowDecidable
<1> QED  BY <1>1, <1>2, <1>3 DEF Gate

\* The lock, the in-lock gate, the window and the launch of the worker.
LEMMA WindowKeeps ==
  ASSUME IInv, NEW c \in Callers, Window(c)
  PROVE  IInv'
<1> USE DEF IInv
<1>1. ASSUME Lock(c)  PROVE IInv'
  <2> DEFINE r == [caller[c] EXCEPT !.pc = "locked",
                     !.snap = IF caller[c].operation \in {"execute", "follow_up"} THEN task ELSE @]
  <2>1. caller[c] \in Caller /\ task \in Row /\ RowDecidable(task) /\ task # None
    BY ConstantsAssumption DEF TypeOK, PendingIsDecidable
  <2>2. caller' = [caller EXCEPT ![c] = r]
    BY <1>1, <2>1 DEF Lock, TypeOK, Caller
  <2>3. caller[c].operation \in RunOps /\ caller[c].snap # None /\ RowDecidable(caller[c].snap)
    BY <1>1 DEF Lock, LocalsOK, LocalOK
  <2>4. r \in Caller
    BY <2>1 DEF Caller, PC
  <2>5. LocalOK(r)
    BY <2>1, <2>3 DEF LocalOK, Caller
  <2>6. caller' \in [Callers -> Caller] /\ LocalsOK'
    BY <2>2, <2>4, <2>5, CallerUpdate
  <2> QED  BY <1>1, <2>6 DEF Lock, TypeOK, PendingIsDecidable, RowDecidable
<1>2. ASSUME ResumeAwake(c)  PROVE IInv'
  <2>1. caller' \in [Callers -> Caller] /\ LocalsOK'
    BY <1>2, ForgetKeeps DEF ResumeAwake
  <2> QED  BY <1>2, <2>1 DEF ResumeAwake, TypeOK, PendingIsDecidable, RowDecidable
<1>3. ASSUME ReuseWindow(c)  PROVE IInv'
  <2>1. caller' \in [Callers -> Caller] /\ LocalsOK'
    BY <1>3, ForgetKeeps DEF ReuseWindow
  <2>2. lock' \in Callers \union {None}
    BY <1>3, UnlockKeeps DEF ReuseWindow
  <2> QED  BY <1>3, <2>1, <2>2 DEF ReuseWindow, TypeOK, PendingIsDecidable, RowDecidable
<1>4. ASSUME InLockPass(c)  PROVE IInv'
  <2>1. GoTo(c, "creating") /\ LocalOK([caller[c] EXCEPT !.pc = "creating"])
    BY <1>4 DEF InLockPass, LocalsOK, LocalOK, TypeOK, Caller
  <2>2. caller' \in [Callers -> Caller] /\ LocalsOK'
    BY <2>1, GoToKeeps DEF PC
  <2> QED  BY <1>4, <2>2 DEF InLockPass, TypeOK, PendingIsDecidable, RowDecidable
<1>5. ASSUME InLockBlock(c)  PROVE IInv'
  <2>1. caller[c].operation \in Operations /\ InLockRow(c) \in Row
    BY <1>5, CalledFacts DEF InLockBlock, Operations
  <2>2. task' \in Row /\ RowDecidable(task')
    BY <1>5, <2>1, RecordBlockKeeps DEF InLockBlock
  <2>3. caller' \in [Callers -> Caller] /\ LocalsOK'
    BY <1>5, ThrowKeeps DEF InLockBlock
  <2>4. lock' \in Callers \union {None}
    BY <1>5, UnlockKeeps DEF InLockBlock
  <2> QED  BY <1>5, <2>2, <2>3, <2>4 DEF InLockBlock, TypeOK, PendingIsDecidable
<1>6. ASSUME InLockDeny(c)  PROVE IInv'
  <2>1. caller' \in [Callers -> Caller] /\ LocalsOK'
    BY <1>6, ThrowKeeps DEF InLockDeny
  <2>2. lock' \in Callers \union {None}
    BY <1>6, UnlockKeeps DEF InLockDeny
  <2> QED  BY <1>6, <2>1, <2>2 DEF InLockDeny, TypeOK, PendingIsDecidable, RowDecidable
<1>7. ASSUME OpenFails(c)  PROVE IInv'
  <2>1. task' \in Row /\ RowDecidable(task')
    <3>1. CASE SetStatus("failed")
      BY <3>1, SetStatusKeeps DEF Status
    <3>2. CASE UNCHANGED task
      BY <3>2 DEF TypeOK, PendingIsDecidable
    <3> QED  BY <1>7, <3>1, <3>2 DEF OpenFails
  <2>2. caller' \in [Callers -> Caller] /\ LocalsOK'
    BY <1>7, ThrowKeeps DEF OpenFails
  <2>3. lock' \in Callers \union {None}
    BY <1>7, UnlockKeeps DEF OpenFails
  <2> QED  BY <1>7, <2>1, <2>2, <2>3 DEF OpenFails, TypeOK, PendingIsDecidable
<1>8. ASSUME Opened(c)  PROVE IInv'
  <2>1. task' \in Row /\ RowDecidable(task')
    <3>1. CASE SetStatus("in_progress")
      BY <3>1, SetStatusKeeps DEF Status
    <3>2. CASE UNCHANGED task
      BY <3>2 DEF TypeOK, PendingIsDecidable
    <3>3. CASE task' = [task EXCEPT !.status = "open", !.pendingOperation = None]
      BY <3>3 DEF TypeOK, PendingIsDecidable, RowDecidable, Row, Status
    <3> QED  BY <1>8, <3>1, <3>2, <3>3 DEF Opened
  <2>2. caller' \in [Callers -> Caller] /\ LocalsOK'
    <3>1. CASE GoTo(c, "opening")
      <4>1. LocalOK([caller[c] EXCEPT !.pc = "opening"])
        BY <1>8 DEF Opened, LocalsOK, LocalOK, TypeOK, Caller
      <4> QED  BY <3>1, <4>1, GoToKeeps DEF PC
    <3>2. CASE Return(c)
      BY <3>2, ReturnKeeps
    <3>3. CASE Forget(c, "launching") \/ Forget(c, "loop")
      BY <3>3, ForgetKeeps
    <3> QED  BY <1>8, <3>1, <3>2, <3>3 DEF Opened
  <2>3. lock' \in Callers \union {None}
    BY <1>8, UnlockKeeps DEF Opened
  <2> QED  BY <1>8, <2>1, <2>2, <2>3 DEF Opened, TypeOK, PendingIsDecidable
<1>9. ASSUME Launched(c)  PROVE IInv'
  <2>1. PICK pc \in {"loop", "phase"} : GoTo(c, pc)
    BY <1>9 DEF Launched
  <2>2. LocalOK([caller[c] EXCEPT !.pc = pc])
    BY <1>9 DEF Launched, LocalsOK, LocalOK, TypeOK, Caller
  <2>3. caller' \in [Callers -> Caller] /\ LocalsOK'
    BY <2>1, <2>2, GoToKeeps DEF PC
  <2> QED  BY <1>9, <2>3 DEF Launched, TypeOK, PendingIsDecidable, RowDecidable
<1>10. ASSUME LaunchFails(c) \/ FailAsync(c)  PROVE IInv'
  <2>1. task' \in Row /\ RowDecidable(task')
    BY <1>10, SetStatusKeeps DEF LaunchFails, FailAsync, Status
  <2>2. caller' \in [Callers -> Caller] /\ LocalsOK'
    BY <1>10, ThrowKeeps, ReturnKeeps DEF LaunchFails, FailAsync
  <2> QED  BY <1>10, <2>1, <2>2 DEF LaunchFails, FailAsync, TypeOK, PendingIsDecidable
<1> QED  BY <1>1, <1>2, <1>3, <1>4, <1>5, <1>6, <1>7, <1>8, <1>9, <1>10 DEF Window

\* The phase loop holds no row: it reads one at each phase.
LEMMA LoopKeeps ==
  ASSUME IInv, NEW c \in Callers, Loop(c)
  PROVE  IInv'
<1> USE DEF IInv
<1>1. ASSUME PhaseStart(c)  PROVE IInv'
  <2>1. task' \in Row /\ RowDecidable(task')
    BY <1>1, SetStatusKeeps DEF PhaseStart, Status
  <2>2. GoTo(c, "phase") /\ LocalOK([caller[c] EXCEPT !.pc = "phase"])
    BY <1>1 DEF PhaseStart, LocalsOK, LocalOK, TypeOK, Caller
  <2>3. caller' \in [Callers -> Caller] /\ LocalsOK'
    BY <2>2, GoToKeeps DEF PC
  <2> QED  BY <1>1, <2>1, <2>3 DEF PhaseStart, TypeOK, PendingIsDecidable
<1>2. ASSUME PhaseBlock(c)  PROVE IInv'
  <2>1. task \in Row
    BY DEF TypeOK
  <2>2. task' \in Row /\ RowDecidable(task')
    BY <1>2, <2>1, RecordBlockKeeps DEF PhaseBlock, Operations, RunOps, RereadOps
  <2>3. caller' \in [Callers -> Caller] /\ LocalsOK'
    BY <1>2, ReturnKeeps DEF PhaseBlock
  <2> QED  BY <1>2, <2>2, <2>3 DEF PhaseBlock, TypeOK, PendingIsDecidable
<1>3. ASSUME PhaseStop(c)  PROVE IInv'
  <2>1. task' \in Row /\ RowDecidable(task')
    BY <1>3, SetStatusKeeps DEF PhaseStop, Status
  <2>2. caller' \in [Callers -> Caller] /\ LocalsOK'
    BY <1>3, ReturnKeeps DEF PhaseStop
  <2> QED  BY <1>3, <2>1, <2>2 DEF PhaseStop, TypeOK, PendingIsDecidable
<1>4. ASSUME NextPhase(c)  PROVE IInv'
  <2>1. GoTo(c, "loop") /\ LocalOK([caller[c] EXCEPT !.pc = "loop"])
    BY <1>4 DEF NextPhase, LocalsOK, LocalOK, TypeOK, Caller
  <2>2. caller' \in [Callers -> Caller] /\ LocalsOK'
    BY <2>1, GoToKeeps DEF PC
  <2> QED  BY <1>4, <2>2 DEF NextPhase, TypeOK, PendingIsDecidable, RowDecidable
<1>5. ASSUME NEW s \in {"failed", "waiting_input", "phase_review", "review"}, PhaseEnds(c, s)
      PROVE  IInv'
  <2>1. task' \in Row /\ RowDecidable(task')
    BY <1>5, SetStatusKeeps DEF PhaseEnds, Status
  <2>2. caller' \in [Callers -> Caller] /\ LocalsOK'
    BY <1>5, ReturnKeeps DEF PhaseEnds
  <2> QED  BY <1>5, <2>1, <2>2 DEF PhaseEnds, TypeOK, PendingIsDecidable
<1> QED  BY <1>1, <1>2, <1>3, <1>4, <1>5 DEF Loop

\* The status an approval or a denial moves to is never pending_approval: for
\* the approval that rests on the copy of the row it carries.
LEMMA DecidedStatus ==
  ASSUME NEW row \in Row, RowDecidable(row), NEW op
  PROVE  /\ ApprovedStatus(op, row.priorStatus) \in Status \ {"pending_approval"}
         /\ DeniedStatus(op) \in Status \ {"pending_approval"}
BY DEF Row, RowDecidable, ApprovedStatus, DeniedStatus, Status

\* The second halves of the handlers that wait: approvals, archive, retry and
\* startup recovery.
LEMMA FinishKeeps ==
  ASSUME IInv, NEW c \in Callers, Finish(c)
  PROVE  IInv'
<1> USE DEF IInv
<1>1. ASSUME ApproveMismatch(c)  PROVE IInv'
  <2>1. caller' \in [Callers -> Caller] /\ LocalsOK'
    BY <1>1, ReturnKeeps DEF ApproveMismatch
  <2> QED  BY <1>1, <2>1 DEF ApproveMismatch, TypeOK, PendingIsDecidable, RowDecidable
<1>2. ASSUME ApproveCommit(c)  PROVE IInv'
  <2> DEFINE row  == caller[c].snap
             op   == row.pendingOperation
             next == ApprovedStatus(op, row.priorStatus)
  <2>1. row \in Row /\ RowDecidable(row) /\ HashOf(row) \in Hash /\ op \in Operations
    BY <1>2, ApprovingFacts DEF ApproveCommit
  <2>2. next \in Status \ {"pending_approval"}
    BY <2>1, DecidedStatus
  <2>3. task' \in Row /\ RowDecidable(task')
    <3>1. CASE ConsumePending(next, HashOf(row))
      <4> HIDE DEF row, op, next
      <4> QED  BY <2>1, <2>2, <3>1, ConsumeKeeps
    <3>2. CASE UNCHANGED task
      BY <3>2 DEF TypeOK, PendingIsDecidable
    <3> QED  BY <1>2, <3>1, <3>2 DEF ApproveCommit
  <2>4. caller' \in [Callers -> Caller] /\ LocalsOK'
    <3>1. CASE Return(c)
      BY <3>1, ReturnKeeps
    <3>2. CASE op \notin AwaitOps /\ Call(c, op, TRUE, task')
      <4>1. op \in RunOps
        BY <2>1, <3>2 DEF Operations
      <4> HIDE DEF op
      <4> QED  BY <2>3, <3>2, <4>1, CallKeeps
    <3> QED  BY <1>2, <3>1, <3>2 DEF ApproveCommit
  <2> QED  BY <1>2, <2>3, <2>4 DEF ApproveCommit, TypeOK, PendingIsDecidable
<1>3. ASSUME PreApproveCommit(c)  PROVE IInv'
  <2>1. HashOf(caller[c].snap) \in Hash
    BY <1>3, ApprovingFacts DEF PreApproveCommit
  <2>2. task' \in Row /\ RowDecidable(task')
    BY <1>3, <2>1 DEF PreApproveCommit, TypeOK, PendingIsDecidable, RowDecidable, Row
  <2>3. caller' \in [Callers -> Caller] /\ LocalsOK'
    BY <1>3, ReturnKeeps DEF PreApproveCommit
  <2> QED  BY <1>3, <2>2, <2>3 DEF PreApproveCommit, TypeOK, PendingIsDecidable
<1>4. ASSUME ArchiveFinish(c) \/ RetryFinish(c)  PROVE IInv'
  <2>1. task' \in Row /\ RowDecidable(task')
    <3>1. CASE SetStatus("archived") \/ SetStatus("open")
      BY <3>1, SetStatusKeeps DEF Status
    <3>2. CASE UNCHANGED task
      BY <3>2 DEF TypeOK, PendingIsDecidable
    <3> QED  BY <1>4, <3>1, <3>2 DEF ArchiveFinish, RetryFinish
  <2>2. caller' \in [Callers -> Caller] /\ LocalsOK'
    BY <1>4, ReturnKeeps DEF ArchiveFinish, RetryFinish
  <2> QED  BY <1>4, <2>1, <2>2 DEF ArchiveFinish, RetryFinish, TypeOK, PendingIsDecidable
<1>5. ASSUME RecoverFinish(c)  PROVE IInv'
  <2>1. task' \in Row /\ RowDecidable(task')
    <3>1. CASE \E s \in {"review", "waiting_input", "phase_review", "running"} : SetStatus(s)
      BY <3>1, SetStatusKeeps DEF Status
    <3>2. CASE UNCHANGED task
      BY <3>2 DEF TypeOK, PendingIsDecidable
    <3> QED  BY <1>5, <3>1, <3>2 DEF RecoverFinish
  <2>2. caller' \in [Callers -> Caller] /\ LocalsOK'
    <3>1. CASE Return(c)
      BY <3>1, ReturnKeeps
    <3>2. CASE Call(c, "resume", FALSE, task')
      BY <2>1, <3>2, CallKeeps DEF RunOps, RereadOps
    <3> QED  BY <1>5, <3>1, <3>2 DEF RecoverFinish
  <2> QED  BY <1>5, <2>1, <2>2 DEF RecoverFinish, TypeOK, PendingIsDecidable
<1> QED  BY <1>1, <1>2, <1>3, <1>4, <1>5 DEF Finish

\* One-step handlers, edits, the policy, a crash and periodic recovery.
LEMMA EnvironmentKeeps ==
  ASSUME IInv, Environment
  PROVE  IInv'
<1> USE DEF IInv
<1>1. ASSUME RejectPlan \/ FailOrphan  PROVE IInv'
  <2>1. task' \in Row /\ RowDecidable(task')
    BY <1>1, SetStatusKeeps DEF RejectPlan, FailOrphan, Status
  <2> QED  BY <1>1, <2>1 DEF RejectPlan, FailOrphan, TypeOK, PendingIsDecidable, LocalsOK
<1>2. ASSUME NEW s \in {"open", "done"}, PutStatus(s)  PROVE IInv'
  <2>1. task' \in Row /\ RowDecidable(task')
    BY <1>2, SetStatusKeeps DEF PutStatus, Status
  <2> QED  BY <1>2, <2>1 DEF PutStatus, TypeOK, PendingIsDecidable, LocalsOK
<1>3. ASSUME Deny  PROVE IInv'
  <2>1. task \in Row /\ RowDecidable(task) /\ task.approved \in Hash \union {None}
    BY DEF TypeOK, PendingIsDecidable, Row
  <2>2. DeniedStatus(task.pendingOperation) \in Status \ {"pending_approval"}
    BY <2>1, DecidedStatus
  <2>3. task' \in Row /\ RowDecidable(task')
    BY <1>3, <2>1, <2>2, ConsumeKeeps DEF Deny
  <2> QED  BY <1>3, <2>3 DEF Deny, TypeOK, PendingIsDecidable, LocalsOK
<1>4. ASSUME EditTask  PROVE IInv'
  <2>1. task.content + 1 \in 0 .. MaxContent
    BY <1>4, ConstantsAssumption DEF EditTask, TypeOK, Row
  <2>2. task' \in Row /\ RowDecidable(task')
    BY <1>4, <2>1 DEF EditTask, TypeOK, PendingIsDecidable, RowDecidable, Row
  <2> QED  BY <1>4, <2>2 DEF EditTask, TypeOK, PendingIsDecidable, LocalsOK
<1>5. ASSUME EditConfig \/ SetPolicy  PROVE IInv'
  <2>1. config' \in 0 .. MaxConfig /\ policy' \in Policies
    BY <1>5, ConstantsAssumption DEF EditConfig, SetPolicy, TypeOK
  <2> QED  BY <1>5, <2>1 DEF EditConfig, SetPolicy, TypeOK, PendingIsDecidable, RowDecidable, LocalsOK
<1>6. ASSUME Restart  PROVE IInv'
  <2>1. caller' \in [Callers -> Caller] /\ LocalsOK'
    BY <1>6, IdleOK DEF Restart, LocalsOK
  <2> QED  BY <1>6, <2>1 DEF Restart, TypeOK, PendingIsDecidable, RowDecidable
<1> QED  BY <1>1, <1>2, <1>3, <1>4, <1>5, <1>6 DEF Environment

-----------------------------------------------------------------------------
(* The theorems.                                                           *)

\* The hub starts on a task that was never blocked and with no request.
LEMMA InitInv == Init => IInv
<1> SUFFICES ASSUME Init  PROVE IInv
  OBVIOUS
<1>1. TypeOK
  BY ConstantsAssumption, IdleOK DEF Init, TypeOK, Row, Status
<1>2. PendingIsDecidable
  BY ConstantsAssumption DEF Init, PendingIsDecidable, RowDecidable, Status
<1>3. LocalsOK
  BY IdleOK DEF Init, LocalsOK
<1> QED  BY <1>1, <1>2, <1>3 DEF IInv

\* Every handler, in any order with any other, keeps the invariant.
LEMMA NextInv == IInv /\ [Next]_vars => IInv'
<1> SUFFICES ASSUME IInv, [Next]_vars  PROVE IInv'
  OBVIOUS
<1>1. CASE UNCHANGED vars
  BY <1>1 DEF vars, IInv, TypeOK, PendingIsDecidable, RowDecidable, LocalsOK
<1>2. CASE Environment
  BY <1>2, EnvironmentKeeps
<1>3. ASSUME NEW c \in Callers, Enter(c) \/ Gate(c) \/ Window(c) \/ Loop(c) \/ Finish(c)
      PROVE  IInv'
  BY <1>3, EnterKeeps, GateKeeps, WindowKeeps, LoopKeeps, FinishKeeps
<1> QED  BY <1>1, <1>2, <1>3 DEF Next

\* The inductive invariant holds for any number of concurrent handlers.
THEOREM Invariance == Spec => []IInv
BY InitInv, NextInv, PTL DEF Spec

\* The row and every handler's locals keep their types.
THEOREM TypeCorrect == Spec => []TypeOK
<1>1. IInv => TypeOK
  BY DEF IInv
<1> QED  BY <1>1, Invariance, PTL

\* A task shown to a human for approval can be approved and denied: its row
\* names the operation and a status other than pending_approval to return to,
\* whatever handlers were between two awaits when it was blocked.
THEOREM Decidable == Spec => []PendingIsDecidable
<1>1. IInv => PendingIsDecidable
  BY DEF IInv
<1> QED  BY <1>1, Invariance, PTL

-----------------------------------------------------------------------------
(* What a step may do to the block that the row carries.                   *)

KeepsBlock ==
  /\ task'.pendingOperation = task.pendingOperation
  /\ task'.priorStatus = task.priorStatus

ClearsBlock == task'.pendingOperation = None

RecordsBlock == \E row \in Row, op \in Operations : RecordBlock(row, op, HashOf(row))

\* A status write or no write at all leaves the block alone.
LEMMA SetStatusKeepsBlock ==
  ASSUME TypeOK, UNCHANGED task \/ \E s : SetStatus(s)
  PROVE  KeepsBlock
BY DEF TypeOK, Row, SetStatus, KeepsBlock

\* A decision clears it.
LEMMA ConsumeClears ==
  ASSUME TypeOK, NEW s, NEW hash, ConsumePending(s, hash)
  PROVE  ClearsBlock
BY DEF TypeOK, Row, ConsumePending, ClearsBlock

\* Every step leaves the block alone, clears it, or is a compare-and-set of a
\* new block; the compare-and-set may rest on a row read long before.
LEMMA RowWrites ==
  ASSUME IInv, Next
  PROVE  KeepsBlock \/ ClearsBlock \/ RecordsBlock
<1> USE DEF IInv
<1>0. task \in Row
  BY DEF TypeOK
<1>1. ASSUME NEW c \in Callers, Enter(c)  PROVE KeepsBlock \/ ClearsBlock \/ RecordsBlock
  <2>1. CASE Answer(c)
    BY <1>0, <2>1, SetStatusKeepsBlock DEF Answer, RecordsBlock, Operations, AwaitOps
  <2>2. CASE \E op \in {"resume", "follow_up"} : ReviewPlan(c, op)
    BY <1>0, <2>2, SetStatusKeepsBlock DEF ReviewPlan, RecordsBlock, Operations, AwaitOps
  <2>3. CASE ArchiveBegin(c)
    BY <2>3, SetStatusKeepsBlock, ConsumeClears DEF ArchiveBegin
  <2>4. CASE \/ \E op \in RunOps : Request(c, op)
             \/ ApproveRead(c) \/ PreApproveRead(c) \/ RetryBegin(c) \/ RecoverRead(c)
    BY <2>4, SetStatusKeepsBlock DEF Request, ApproveRead, PreApproveRead, RetryBegin, RecoverRead
  <2> QED  BY <1>1, <2>1, <2>2, <2>3, <2>4 DEF Enter
<1>2. ASSUME NEW c \in Callers, Gate(c)  PROVE KeepsBlock \/ RecordsBlock
  <2>1. CASE GateBlock(c)
    <3>1. caller[c].operation \in Operations /\ caller[c].snap \in Row
      BY <2>1, CalledFacts DEF GateBlock, Operations
    <3> QED  BY <2>1, <3>1 DEF GateBlock, RecordsBlock
  <2>2. CASE GatePass(c) \/ GateDeny(c)
    BY <2>2, SetStatusKeepsBlock DEF GatePass, GateDeny
  <2> QED  BY <1>2, <2>1, <2>2 DEF Gate
<1>3. ASSUME NEW c \in Callers, Window(c)  PROVE KeepsBlock \/ ClearsBlock \/ RecordsBlock
  <2>1. CASE InLockBlock(c)
    <3>1. caller[c].operation \in Operations /\ InLockRow(c) \in Row
      BY <2>1, CalledFacts DEF InLockBlock, Operations
    <3> QED  BY <2>1, <3>1 DEF InLockBlock, RecordsBlock
  <2>2. CASE Opened(c)
    <3>1. CASE task' = [task EXCEPT !.status = "open", !.pendingOperation = None]
      BY <1>0, <3>1 DEF ClearsBlock, Row
    <3> QED  BY <2>2, <3>1, SetStatusKeepsBlock DEF Opened
  <2>3. CASE OpenFails(c) \/ LaunchFails(c) \/ FailAsync(c)
    BY <2>3, SetStatusKeepsBlock DEF OpenFails, LaunchFails, FailAsync
  <2>4. CASE \/ Lock(c) \/ ResumeAwake(c) \/ ReuseWindow(c)
             \/ InLockPass(c) \/ InLockDeny(c) \/ Launched(c)
    BY <2>4, SetStatusKeepsBlock DEF Lock, ResumeAwake, ReuseWindow, InLockPass, InLockDeny, Launched
  <2> QED  BY <1>3, <2>1, <2>2, <2>3, <2>4 DEF Window
<1>4. ASSUME NEW c \in Callers, Loop(c)  PROVE KeepsBlock \/ RecordsBlock
  <2>1. CASE PhaseBlock(c)
    BY <1>0, <2>1 DEF PhaseBlock, RecordsBlock, Operations, RunOps, RereadOps
  <2>2. CASE \/ PhaseStart(c) \/ PhaseStop(c) \/ NextPhase(c)
             \/ \E s \in {"failed", "waiting_input", "phase_review", "review"} : PhaseEnds(c, s)
    BY <2>2, SetStatusKeepsBlock DEF PhaseStart, PhaseStop, NextPhase, PhaseEnds
  <2> QED  BY <1>4, <2>1, <2>2 DEF Loop
<1>5. ASSUME NEW c \in Callers, Finish(c)  PROVE KeepsBlock \/ ClearsBlock
  <2>1. CASE ApproveCommit(c)
    BY <2>1, SetStatusKeepsBlock, ConsumeClears DEF ApproveCommit
  <2>2. CASE PreApproveCommit(c)
    BY <1>0, <2>2 DEF PreApproveCommit, KeepsBlock, Row
  <2>3. CASE ApproveMismatch(c) \/ ArchiveFinish(c) \/ RetryFinish(c) \/ RecoverFinish(c)
    BY <2>3, SetStatusKeepsBlock DEF ApproveMismatch, ArchiveFinish, RetryFinish, RecoverFinish
  <2> QED  BY <1>5, <2>1, <2>2, <2>3 DEF Finish
<1>6. ASSUME Environment  PROVE KeepsBlock \/ ClearsBlock
  <2>1. CASE Deny
    BY <2>1, ConsumeClears DEF Deny
  <2>2. CASE EditTask
    BY <1>0, <2>2 DEF EditTask, KeepsBlock, Row
  <2>3. CASE \/ RejectPlan \/ EditConfig \/ SetPolicy \/ Restart \/ FailOrphan
             \/ \E s \in {"open", "done"} : PutStatus(s)
    BY <2>3, SetStatusKeepsBlock DEF RejectPlan, EditConfig, SetPolicy, Restart, FailOrphan, PutStatus
  <2> QED  BY <1>6, <2>1, <2>2, <2>3 DEF Environment
<1> QED  BY <1>1, <1>2, <1>3, <1>4, <1>5, <1>6 DEF Next

\* A second blocked entry point never replaces the operation, or the status to
\* return to, of a block a human is already looking at.
THEOREM NoBlockReplaced == Spec => OutstandingBlockIsKept
<1> DEFINE Step == task.pendingOperation # None /\ task'.pendingOperation # None
                     => /\ task'.pendingOperation = task.pendingOperation
                        /\ task'.priorStatus = task.priorStatus
<1>1. ASSUME IInv, [Next]_vars  PROVE [Step]_vars
  <2>1. ASSUME NEW row \in Row, NEW op \in Operations, RecordBlock(row, op, HashOf(row))
        PROVE  Step
    BY <2>1 DEF RecordBlock, CanRecord
  <2> QED  BY <1>1, <2>1, RowWrites DEF KeepsBlock, ClearsBlock, RecordsBlock
<1> QED  BY <1>1, Invariance, PTL DEF Spec, OutstandingBlockIsKept

\* A block interrupts the status the row has in that very step, and saves it.
THEOREM BlockSavesStatus == Spec => BlockSavesTheInterruptedStatus
<1> DEFINE Step ==
      task.pendingOperation = None /\ task'.pendingOperation # None
        => /\ task.status # "pending_approval"
           /\ task' = [task EXCEPT !.status = "pending_approval", !.priorStatus = task.status,
                                   !.pendingOperation = task'.pendingOperation]
<1>1. ASSUME IInv, [Next]_vars  PROVE [Step]_vars
  <2>1. ASSUME NEW row \in Row, NEW op \in Operations, RecordBlock(row, op, HashOf(row))
        PROVE  Step
    <3>1. task \in Row
      BY <1>1 DEF IInv, TypeOK
    <3> QED  BY <2>1, <3>1 DEF RecordBlock, CanRecord, Row
  <2> QED  BY <1>1, <2>1, RowWrites DEF KeepsBlock, ClearsBlock, RecordsBlock
<1> QED  BY <1>1, Invariance, PTL DEF Spec, BlockSavesTheInterruptedStatus

\* A step of another handler does not touch c's locals; a step of c's own
\* leaves "approving" for "called" only in the approval's second half.
LEMMA DispatchIsCommit ==
  ASSUME IInv, NEW c \in Callers, NEW d \in Callers,
         Enter(d) \/ Gate(d) \/ Window(d) \/ Loop(d) \/ Finish(d),
         caller[c].pc = "approving", caller'[c].pc = "called"
  PROVE  d = c /\ ApproveCommit(c)
<1> USE DEF IInv
<1>1. caller[c] \in Caller /\ caller[d] \in Caller /\ caller \in [Callers -> Caller]
  BY DEF TypeOK
<1>2. caller'[c] # caller[c]
  OBVIOUS
<1>3. d = c
  <2>1. SUFFICES ASSUME d # c  PROVE caller'[c] = caller[c]
    BY <1>2
  <2>2. CASE Enter(d)
    BY <1>1, <2>1, <2>2 DEF Enter, Request, Answer, ReviewPlan, ApproveRead, PreApproveRead,
       ArchiveBegin, RetryBegin, RecoverRead, Call, GoTo
  <2>3. CASE Gate(d)
    BY <1>1, <2>1, <2>3 DEF Gate, GatePass, GateBlock, GateDeny, GoTo, Throw
  <2>4. CASE Window(d)
    BY <1>1, <2>1, <2>4 DEF Window, Lock, ResumeAwake, ReuseWindow, InLockPass, InLockBlock,
       InLockDeny, OpenFails, Opened, Launched, LaunchFails, FailAsync, GoTo, Forget, Throw, Return
  <2>5. CASE Loop(d)
    BY <1>1, <2>1, <2>5 DEF Loop, PhaseStart, PhaseBlock, PhaseStop, NextPhase, PhaseEnds, GoTo, Return
  <2>6. CASE Finish(d)
    BY <1>1, <2>1, <2>6 DEF Finish, ApproveMismatch, ApproveCommit, PreApproveCommit,
       ArchiveFinish, RetryFinish, RecoverFinish, Call, Return
  <2> QED  BY <2>2, <2>3, <2>4, <2>5, <2>6
<1>4. ~Enter(d)
  BY <1>2, <1>3 DEF Enter, Request, Answer, ReviewPlan, ApproveRead, PreApproveRead,
     ArchiveBegin, RetryBegin, RecoverRead, GoTo
<1>5. ~Gate(d) /\ ~Loop(d)
  BY <1>3 DEF Gate, GatePass, GateBlock, GateDeny,
     Loop, PhaseStart, PhaseBlock, PhaseStop, NextPhase, PhaseEnds
<1>6. ~Window(d)
  BY <1>3 DEF Window, Lock, ResumeAwake, ReuseWindow, InLockPass, InLockBlock,
     InLockDeny, OpenFails, Opened, Launched, LaunchFails, FailAsync
<1>7. ApproveMismatch(d) => caller'[c].pc = "idle"
  BY <1>1, <1>3 DEF ApproveMismatch, Return, Idle
<1> QED
  BY <1>3, <1>4, <1>5, <1>6, <1>7 DEF Finish, PreApproveCommit, ArchiveFinish, RetryFinish, RecoverFinish

\* One block, one dispatch: an approval starts an operation only in the step
\* that takes an outstanding block away from every other decision.
THEOREM OneDispatch == Spec => OneDispatchPerBlock
<1> DEFINE Step(c) ==
      caller[c].pc = "approving" /\ caller'[c].pc = "called"
        => /\ task.status = "pending_approval" /\ task.pendingOperation # None
           /\ task'.pendingOperation = None
<1>1. ASSUME IInv, [Next]_vars  PROVE [\A c \in Callers : Step(c)]_vars
  <2>1. SUFFICES ASSUME Next, NEW c \in Callers,
                        caller[c].pc = "approving", caller'[c].pc = "called"
                 PROVE  /\ task.status = "pending_approval" /\ task.pendingOperation # None
                        /\ task'.pendingOperation = None
    BY <1>1
  <2>2. ~Environment
    BY <1>1, <2>1 DEF Environment, RejectPlan, Deny, EditTask, EditConfig, SetPolicy, Restart,
       FailOrphan, PutStatus, Idle
  <2>3. ApproveCommit(c)
    BY <1>1, <2>1, <2>2, DispatchIsCommit DEF Next
  <2>4. ~Return(c)
    BY <1>1, <2>1 DEF IInv, TypeOK, Return, Idle
  <2>5. CanConsume /\ ClearsBlock
    BY <1>1, <2>3, <2>4, ConsumeClears DEF ApproveCommit, IInv
  <2> QED  BY <2>5 DEF CanConsume, ClearsBlock
<1> QED  BY <1>1, Invariance, PTL DEF Spec, OneDispatchPerBlock
=============================================================================
