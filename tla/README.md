# A verification development for AZITO

AZITO is a hub that runs coding agents on servers: a task gets a worktree and a
terminal window, an agent CLI runs in it phase by phase, and people approve,
answer, stop and archive from a web UI.  The hub is one Node process with an
SQLite database; everything else (tmux or misao, the agent CLIs, the remote
agents, git) runs outside it.  These modules model the parts of the hub where a
task can get lost: the approval gate, the locks, the windows and their tokens,
the link to the process that supervises an agent, the turns of the agent and how
a run learns that one has ended, the phases a task goes through with its recovery,
and what the hub believes of an agent at work.

Paths below are relative to `src/packages/server/src/modules/` unless they
start with `packages/` or `app/`.

## How to read and run it

| module | models | state |
| --- | --- | --- |
| `ExecutionApproval` | the gate for untrusted tasks and every handler that races for the task row | the row, the handlers, the policy |
| `FifoLocks` | what a fair manager of several locks promises (abstract) | queue, holders |
| `TaskLocks` | `runExclusiveForTasks` and `KeyedMutex`: the promise chains that implement it | the two maps, the promises |
| `TaskWindows` | every operation on the primary window of a task and the generations of its token | row, windows table, multiplexer, tokens, lock, handlers |
| `TurnPromise` | what a turn of the agent promises to the run that waits for it (abstract) | the agent's word, what the run acted on |
| `AgentTurns` | turns, signals, streams and the wait with its timers, which implement it | rows, streams, waits, results |
| `PhaseLoop` | the runs of a task through its phases, and its recovery | the row, turns, runs, registry, recovery |
| `ActivityMonitor` | the tick that merges what every source says of one window | sources, probe, list, decision, the tick |
| `LaunchPromise` | what the link of a pane promises about its supervisors (abstract) | lives of the launches, who is listened to |
| `SupervisorLink` | launches, the registry's connection, the supervisor's client and a prompt | launches table, connection, processes, sockets |

`MC*.tla` instantiate them for TLC, `*Proofs.tla` hold the theorems.

    tlc -workers 2 -config MCTaskLocks.cfg MCTaskLocks.tla
    tlapm TaskLocksProofs.tla

The names of actions are the names of the functions they stand for, or of the
piece of a function between two awaits (`FollowUpBegin`, `FollowUpEnter`,
`FollowUpPersist`).  An operator marked `faulty` in the modules is a variant of
the one after it with a plausible mistake.  No specification uses it: replacing
the correct one by it must break the property it was written for, and does.

## The system

What each part keeps, what it does, whom it calls, and what makes it hard.

**Tasks: gate and approval** (`tasks/execution/ExecutionGate.ts`,
`ExecutionApprovalDecision.ts`, `ExecutionManifest.ts`, `SqliteTaskRepository.ts`).
Keeps `status`, `pendingOperation`, `pendingOperationPriorStatus` and the approved
manifest hash on the task row.  Every operation that would start an agent on an
untrusted task asks `assertExecutionAllowed` twice: before it waits for
resources and again under the task's lock.  A refusal records the operation and
sets `pending_approval`; `approve` consumes the record and dispatches the
operation, `deny` restores the status.  Hard: each handler reads the row, awaits
git, the multiplexer or the lock, and writes.  Correct when a block is recorded
once, can always be decided, returns the task to where it was, and an approval
starts one run, of what was approved.

**Locks** (`tasks/execution/WindowRotation.ts`, `shared/keyedMutex.ts`).  Two
maps from keys to the tail of a chain of promises.  `runExclusiveForTasks` takes
several keys at once; a server's isolation section is taken inside.  Hard: what
is read before and after the map is written, removal by a settled call, nesting.
Correct when calls with a common key never overlap, run in the order they came,
leave nothing in the maps and all run.

**Windows and credentials** (`tasks/execution/ExecuteTaskUseCase.ts`,
`TaskWindowDestruction.ts`, `tasks/TaskRestoreService.ts`,
`windows/WindowRespawnService.ts`, `windows/WindowSleepService.ts`,
`tasks/tokens/`).  A task has a primary window; each time it is opened a new
token generation is issued, which revokes the one before.  Ten operations
open, reuse, respawn, put to sleep or destroy it, some under the task's lock,
some not.  Hard: the multiplexer dies, lists nothing or fails to kill; the hub
restarts between the token and the window; rollbacks run late.  Correct when one
generation is valid and is the newest, a token does not outlive its pane, a
rotation leaves no worker alive that it was shown, a rollback undoes only its own work.

**Supervisor link** (`supervisors/SupervisorRegistry.ts`,
`SupervisorLaunchRepository.ts`, `packages/tui-supervisor/src/HubClient.ts`,
`PtyProxy.ts`, `tasks/execution/WorkerInputService.ts`).  A supervisor wraps the
agent in the pane, registers over a websocket with a bootstrap token, gets a
session token and from then on reports activity and exit and types prompts.  The
table of launches survives the hub, the connections do not.  Hard: sockets whose
two ends close at different times, lost answers, reconnects after a restart, a
second supervisor in the pane, a prompt whose ack is lost.  Correct when only the
newest launch has authority, a launched supervisor always gets its connection
back, a prompt is submitted once and no worker is given it twice.

**Phase loop** (`tasks/execution/PhaseLoopRunner.ts`, `ExecuteTaskUseCase.ts`).
Runs the workflow's phases, saves outputs, rolls back to earlier phases, counts
self-reviews, keeps a registry of running executions to stop them.  Hard: status
writes at the end of a phase over what others wrote while it ran; two runs of one
task, which nothing excludes; a registry keyed by task, not by run; a counter that
is not persisted.  Correct when a plan that needs approval is never passed without
it, rollbacks are bounded, and a task comes to review only through its phases.

**Recovery** (`tasks/recovery/`).  At start and periodically: finds tasks that
say `running` with nobody running them, re-attaches, retries or fails them.
Hard: it races with the handlers it takes for dead, and has only the rows to go
by.  Correct when it redoes the phase that was interrupted and no task stays
`running` for ever.

**Agent turns** (`tasks/turns/`, `execution/HttpSignalTurnCoordinator.ts`,
`WorkerWaiter.ts`).  One row per turn of an agent; the agent posts signals, a
waiter races signals against timers, an LLM, a probe and a stop.  Hard: late
signals of superseded turns, signals before the waiter listens, double
completion.  Correct when the agent's first decisive word is the one that counts,
the run acts once and every wait ends.

**Activity** (`operations/AgentActivityMonitor.ts`,
`notifications/InteractionMonitor.ts`).  Merges supervisors, a multiplexer, hooks,
screens and a probe of processes by priority into one verdict per window.  Hard:
a tick has several awaits and every source may change at each; a verdict must be
withdrawn when its source goes, and a completion must be told once.  Correct when
the list of running agents and the decisions agree, no completion is dropped
unread and no signal is lost.

**Multiplexers** (`tmux/`).  `RoutingMuxClient` picks tmux or misao; misao has
one long-lived connection with an event subscription that must be re-established.

**Terminal streams** (`tmux/PaneStream.ts`, `shared/utils/BufferedMessageRelay.ts`).
Bytes to browsers, buffered until the socket is attached.

**Servers and transports, agent deployment, isolation** (`servers/`).  HTTP and
SSH, installation of the remote agent, watchdogs with backoff, checks of the
separation of users on a host.

**Git** (`git/`).  Mirrors, hub caches and worktrees behind three kinds of mutex.

**System update** (`system/`).  Downloads a release and restarts the hub when
nothing runs.

**The rest**: transcripts and sessions (files agents write), projects, units and
sidekicks (rows and files that make up a manifest), prompts, browser sessions,
files, notifications, LLM clients, audit, data directory, wiring, frontend,
harness and CLI.  `PROJECT.json` lists each with its sources and the reason it
is or is not modelled.

How the parts meet: the routes, the phase loop and recovery call
`ExecuteTaskUseCase`, `TaskRestoreService` and `WindowRespawnService`; those pass
the gate, take the lock, rotate the window and token, issue a launch and type the
agent's command; the supervisor comes back by websocket and is bridged to the
monitor in `app/buildServer.ts`; destruction of a window resolves the launch
before the kill and expires it after.  Whatever they share is one row per task,
a few tables, and the maps of the process.

## ExecutionApproval

The hub is one Node process: code between two awaits cannot be interrupted and
is one action.  A handler is `caller[c]`: the operation, where it is (`PC`), and
the copy of the row it holds across an await (`snap`).  `row` is what SQLite has.
The manifest is a pair (edits of the task, edits of its unit, project or server);
a hash agrees when the pairs are equal.

| actions | code |
| --- | --- |
| `Enter`: `Request`, `Answer`, `ReviewPlan`, `RejectPlan` | the routes that start or resume work, and the read of the row |
| `Gate`: `GatePass`, `GateBlock`, `GateDeny` | `assertExecutionAllowed` before the lock, with the write of the block |
| `Window`: `Lock`, `ResumeAwake`, `ReuseWindow`, `InLockPass`, `InLockBlock`, `InLockDeny`, `OpenFails`, `Opened`, `Launched`, `LaunchFails` | the rest of an entry point: the gate again under the lock, the window, the start of the agent |
| `Loop`: `PhaseStart`, `PhaseBlock`, `PhaseStop`, `NextPhase`, `PhaseEnds`; `FailAsync` | where the phase loop meets the gate and the row; the catch of a run nobody awaits |
| `ApproveRead`, `ApproveMismatch`, `ApproveCommit`, `PreApprove*`, `Deny` | the decision routes and the await between reading and consuming |
| `ArchiveBegin`, `ArchiveFinish`, `RetryBegin`, `RetryFinish`, `PutStatus` | the routes that write the status |
| `RecoverRead`, `RecoverFinish`, `FailOrphan`, `Restart` | recovery and a restart of the hub, which loses all handlers |
| `EditTask`, `EditConfig`, `SetPolicy` | what people change meanwhile |

Properties: `PendingIsDecidable` (a task shown for approval names an operation
and a status to return to), `OutstandingBlockIsKept` (nobody replaces what an
outstanding block recorded), `BlockSavesTheInterruptedStatus`,
`OneDispatchPerBlock`.  They are not obvious: a handler writes the row it read
three awaits ago.  They hold because the write of the block is one conditional
UPDATE and because every copy of the row in flight is itself decidable; that is
`LocalsOK`, without which the invariant is not inductive.

What is abstracted: only untrusted tasks (others pass every gate); the hash a
person was shown is any, so a commit may mismatch at will; a stop by the user is
among what `PhaseStop` and `PhaseEnds` allow; a resume without its distribution
repository is one of the failures of opening; errors of a launch that the code
logs and continues from are `Launched`; `startPaneStream` never yields null.  A
woken follow-up reads its row inside the lock and is given a row of the moment
it got the lock.  The delete route (the row is gone) is not modelled.

## FifoLocks and TaskLocks

`FifoLocks` is the promise: a call asks for a set of locks, is granted all of
them at once when nobody who asked earlier for one of them is left, and leaves.
`TaskLocks` is the code: `tail` are the two maps, a promise is a request's
section on tasks or on a server, `prior` what it read from the maps.  `Append`
is the synchronous part (read all tails, write all tails), `Start` the callback
after the priors have settled, `Settle` the end of `fn`, `Cleanup` the removal
from the map if it is still its own, which the microtask queue may delay.

`RefinesFifo` shows that each step of `TaskLocks` is a step or a stutter of
`FifoLocks`; `MutualExclusion`, `NoLeak` (when no call is left both maps are
empty) and `EveryCallRuns` are what the callers rely on.  `SomeoneMoves` is what the
comment of `runExclusiveForTasks` argues ("no actual deadlock to order away"), here
with the sections on servers inside: while a call has not ended, one of them can take a
step.

Fairness: a ready callback runs (`WF` on `Start` and `Cleanup`), and a section
ends once it can (`SF` on `Settle`: a section that waits for its inner server
section is enabled now and then).  The second is an assumption about `fn`: a
function that hangs blocks its queue, and the code has no timeout there.  A
request holds at most a section on tasks with one on a server inside, never the
reverse; that is how all callers nest, and a caller that nested them in reverse, which would
make two calls wait for each other, is not in the model.  An empty list of tasks runs at once and
is left out.  Deadlock is checked.

## TaskWindows

One task.  `row.window` is `tasks.tmux_window`, `prims` the primary rows of the
windows table, `live[w]` the generation whose token is in the environment of the
window named `w` (0: dead), `active` the generations not revoked.  A name is
numbered by the generation it was made for; a respawn opens the same name for a
newer one, which is what makes names dangerous.  `Ops` is the set of operations
an instance allows, so that a run can say which combination it is about.

| actions | code |
| --- | --- |
| `Rotate`: `Execute*`, `Restore*`, `Respawn*`, `KillOld*`, `OldMissed`, `IssueGeneration`, `Create*`, `*Persist` | the body under `runExclusiveForTask` of `ExecuteTaskUseCase.execute`, `TaskRestoreService.restore`, `WindowRespawnService.respawn` |
| `Rollback` | `rollbackWindowAfterPostCreationFailure` and the catches that revoke a generation |
| `Run`: `FollowUp*`, `Launched`, `Complete`, `Abandon`... | `followUp` (wake, reuse or reopen) and the run that follows |
| `Destroy`: `Retry*`, `Delete*`, `SessionKill*` | `TaskWindowDestruction` and its routes |
| `Put`: `Archive*`, `Sleep*` | the routes that write without the lock |
| `PutStatus`, `Die`, `Restart` | an edit of the status, an accident, a restart of the hub |

`OneCredential` (one valid generation at most, the newest), `SectionOK` (who is
between two writes of a rotation is alone and has the newest generation),
`StatusIsCurrent` (a rollback writes its failure only while its generation is the
newest) and `RollbackRevokesItsOwn` hold for all operations together, with
failing kills and lists and a restart anywhere.

What a rotation kills it picks from a list, and the list is not strict: a mux that
could not be asked reads as one without windows (`TmuxClient.listSessions` ignores the
exit code, `RoutingMuxClient.gather` swallows one kind's failure).  Then there is
nothing to kill or to confirm and a generation is issued beside a worker that lives
(`OldMissed`, for executions and respawns; `missed` marks the rotation).  A list that
throws and a kill that fails stop the rotation (`KillOldFails`).

`NullHasNoToken` (a row without a window has no valid token when nobody is at
work), `RotatesWhenGone` (a generation is issued while the window the row names is alive
only when the list of that rotation did not show it) and `SessionKillRevokes` do not hold for all: with `respawn`,
`followUp`, `restore`, two executions of one task at once (`overlap`) or a
restart they fail, in ways listed under "hazards" in `PROJECT.json`.
`windows_rotation` checks them for executions against everything that destroys a
window, with failing kills and lists, over three generations, and `TaskWindowsProofs` proves them for these
operations with any number of handlers and generations.

Left out: misao windows (an id is never used again, so the hazards of names do
not arise), secondary windows and their layout, a respawn that runs in the
window, the route that deletes a workspace, a stop of the process between two
synchronous database writes.  The limit of five attempts of a session kill is
"any number of attempts".  The lock is plain mutual exclusion: `TaskLocks`
shows that the chains provide it.

## LaunchPromise and SupervisorLink

`LaunchPromise` is the promise: launches are issued one after the other, each ends
the one before it (`Issue`), and a supervisor acts for a launch only from a moment
at which that launch is the open one (`Take`).  It is listened to until its socket is
lost (`Release`) or its worker exits (`Exit`); the destruction of its window ends the
launch and not the connection (`Expire`).  A consequence is `NoReturn`: a launch that
is over and has lost its supervisor never acts again.

`SupervisorLink` is the code, for one pane.  `row` is `supervisor_launches` for its target, oldest first; `conn`
is the registry's entry, or `None`, with a mark `left` when its client has
already opened another socket; `tier0` is whether the monitor holds a
supervisor's verdict; `sock[p]` is the socket of process `p`, two queues and two
ends that close separately; `proc[p]` the supervisor process.  Process `l > 0`
was started with launch `l`, process 0 by hand without a token.

| actions | code |
| --- | --- |
| `IssueLaunch`, `TimeToLivePasses`, `ResolveLaunchForExpiry`, `ExpireResolvedLaunch`, `ClearExitMarker` | the registry's calls from the launch and destruction paths |
| `Register` (`AcceptRegister`, `RejectRegister`) | `resolveLaunchAuth` and `register` |
| `Activity`, `ChildExitRead`, `RegisterAck`, `Ack`, `Nack`, `Ignored` | `handleMessage` |
| `HubLoses`, `SocketClosed`, `LeftClosed`, `HubRestart` | errors, closes, pings, the end of the hub process |
| `Connect`, `Registered`, `Injected`, `Paste`, `Enter`, `SendActivity`, `WorkerExits`, `SendChildExit`, `ClientSees`, `ClientLoses`, `ProcessEnds` | `HubClient`, `PtyProxy` |
| `SendPrompt`, `AckTimeout`, `TypeText`, `TypeEnter` | `WorkerInputService.sendPrompt`, `sendCommand` |

`AuthoritySpec` shows that each step of the link is a step or a stutter of
`LaunchPromise`, where a launch is open while its row has a token the hub accepts and
the holder is the launch of the registry's connection.  `IInv` has what it rests on,
`OnlyNewestLaunch`: only the last launch issued has such tokens, and a connection with
a launch is that one's.  `MonitorAgrees`: the verdict is kept
only with a connection that has authority.  `ExpiresItsOwn`: a destruction never
expires a launch issued since it began.  `SubmittedOnce`: a prompt is submitted
once at most and no worker is given its text twice, whatever is lost.  `ByHandTakesNoPlace`.  `LaunchBinds` (liveness): a
supervisor with the newest launch gets its connection, after any loss.

Fairness for `LaunchBinds`: both event loops run (`Registered`, `Injected`,
`HubReads`, `ClientSees`), the client reconnects for ever (`HubClient` backs off
to a maximum and never gives up), and the hub notices a dead socket (a ping every
15 s: `SocketClosed`, `LeftClosed`).  Nothing is assumed of the worker, of the
prompt or of the accidents.

Assumptions: what a client sent on a socket it has left is read or lost before
it connects again, at least a second later; otherwise a delayed bootstrap
register could make a second session token and strand the client with the first.
A token is right or absent.  The paste, the Enter after its delay, and the text and the
Enter of the keys that follow a refusal are steps of their own, and the worker may end
between any two.  A refusal comes only when the worker has ended: the text may have been
pasted by then, so it may be written twice, to two different workers; that is why
`typed` counts by process and `submitted` over all.  The check that the pane is not at a
shell is one step with the text that follows.  Left out: the ready
signal, the index by pane, `interrupt` and `send_keys`, the protocol version,
the suffix of panes.

## TurnPromise and AgentTurns

`TurnPromise` is the promise: the agent speaks (`Say`), its first decisive word
counts; the run acts once (`Hear`), on that word if there is one and on a guess
otherwise; a guess without an output may be taken back (`TakeBack`); a run may fail
to send (`Unsent`) or be lost with the hub (`Lose`).  Two consequences are proved of
the code through it: `WordCounts` (a run that acts on a turn of which the agent has
spoken acts on its word) and `SettledOnce` (what a run acted on stays, but for a guess
taken back while the agent is silent).

`AgentTurns` is the code.  A turn has a row (`status`, `source` for
`completion_source`, `said` for the decisive event recorded), a stream with the
signals it holds until somebody listens (`held`), and the wait of the run: `quiet`
is the classification the quiescence timer ends with, `looking` and `probing` the
two calls a wait may have under way.

| actions | code |
| --- | --- |
| `Start`, `SendFails`, `PrepareProbeFails`, `Wait` | `HttpSignalTurnCoordinator.start`, the loop up to `waitForWorker`, the flush of `InProcessSignalStream` |
| `AgentSignal` | `AgentSignalService.handleSignal` with the row, the event and the stream |
| `QuiescenceEnds`, `Look`, `LookDecides`, `LookAgain`, `TimerFires`, `ProbeEnds`, `StreamFails`, `Abort` | the ends of a wait in `WorkerWaiter`, each with `finalize` |
| `Output` | the reading of the output and `rejectInferredCompletion` |
| `Crash`, `Recover` | the end of the hub and what recovery does to turns |

`PromiseSpec` shows that each step of `AgentTurns` is a step or a stutter of
`TurnPromise` with `heard <- result`.  `EndsOnce` says the same of the rows:
`markEnded` has no guard on the status, so it rests on every caller reading the row
in the same step.  `SignalIsKept` relates the row to the stream and to the wait;
`OnlyNewestRuns` is what `findRunningByTask` counts on.

A prompt that cannot be sent stops the streams; a throw between the prompt and the wait
(the worktree of a push cannot be looked at) stops only the one of the pane, and the
stream of signals stays subscribed to a turn nobody waits for (`PrepareProbeFails`).

Fairness (`WaitEnds`): sending has a timeout, timers fire, a probe and a read end.
Nothing is assumed of the agent, of the classification or of a signal: a wait ends
by its timers alone.

A second turn of a task may start while the first waits: a follow-up has no guard
on the status.  An abort before `Wait` is not seen by the wait (an abort listener on
an aborted signal is never called).  What is abstracted: one classification and one
probe at a time; several timers are one choice, `TimerFires`; a signal of progress
changes nothing modelled; the grace of a marker is "some time".  The mode in which
an agent writes markers to a file (`workerExecutionMode` other than HTTP signals) is
not modelled.

## PhaseLoop

One task: `status` and `phase` are its row, `turns` its rows of `agent_turns`, `me[r]`
the locals of run `r`, `registry` its entries in `runningExecutions`, oldest first.
A run is one call of `execute`, `followUp` (also an answer) or `resumeStateMachine`,
and several may be under way.  `route` is an archive or a retry between its check
and its write, `recovery` and `snap` are startup recovery with the row it read.  A turn is
reduced to the four words an agent can say and what is inferred without one;
`AgentTurns` shows that the run acts on that word.

| actions | code |
| --- | --- |
| `Execute`, `FollowUp`, `Approve`, `RePlan`, `RejectPlan` | the routes that start or continue work |
| `Claim`, `OpeningFails`, `ResumeRefused`, `Register` | the beginnings of `execute`, `followUp`, `resumeStateMachine` |
| `Start`, `BuildEnvelope`, `Sent`, `Fails`, `WaitEnds`, `ReadFollowUp`, `Reject`, `Conclude`, `Finish` | `stateMachineLoop` and the loop's callers, one action per stretch between awaits; `LoopHead` is the head of the loop, in one go with what led there |
| `AgentSays` | a decisive signal on a running turn |
| `Stop`, `Retry`, `Archive` | the routes that stop a run |
| `Crash`, `RecoverBegins`, `RecoverEnds`, `Sweep` | the end of the hub, `recoverTaskNow`, `failOrphanedTasks` |

`PlanIsApproved`: with `requirePlanApproval` nothing but a person takes a task past
its plan.  Its hypothesis `PlanIsGated` is the unit type's: the first phase asks for
approval and its push is not verified (a verified push would let recovery pass it).
`ReviewRounds`: no run begins a phase more often than the attempts of self-review.
`ReviewIsEarned`: a loop that is through has, for every phase since the one it began
at, a concluded turn, newer than those of the phase before (`Earned`).  The run checks
`OrderInv` with it, the inductive invariant of its proof: a run under way has earned
every phase before the one it is at, and the turn it waits for is the newest it has in
its phase, newer than those of the phase before (`InOrder`).  `NotRunningForever`: every task
that says `running` leaves it, because its run ends or the periodic check finds none.
`RecoveryRedoes` does not hold (below).

Fairness: each await of a run ends (a wait by `AgentTurns`), and the periodic check
is a timer.  People and agents owe nothing, startup recovery neither.

What is abstracted: the instance is cut from `harness/unit-types/devops.toml` to a
plan, an implementation, tests that go back to it and a verified push; windows and
tokens are `TaskWindows`, the gate is `ExecutionApproval` (here only its outcomes at
the head of the loop); turns of a recovered run start with a counter of 0, as the
repository writes no `selfReviewCount`.  With HTTP signals only a turn's status tells
failed tests (the markers are not in the prompt).  Left out: a phase found from logs
when the row has none, questions whose payload cannot be read, a server whose
multiplexer is down at startup, phases switched off.

## ActivityMonitor

One window and its agent.  `sup`, `mux`, `hook`, `probe` are what each source said
last; `shown` is the entry in the list of running agents, `by` and `working` the
decision `isKeyWorking` answers from, `told` the reason of the stop the last tick
announced; `tick` the locals of `collect()` between its awaits.

| actions | code |
| --- | --- |
| `Begin`, `Decide`, `Finish`, `TickFails` | the three stretches of `tick()` and `collect()` between awaits: rows and runs, the ladder of sources after the listing of windows, screens and announcements; an exception |
| `RecordHook`, `RecordSupervisor`, `RecordMux` | the three signals, each of which asks for a tick |
| `ProbeReads`, `ProbeAnswers`, `ProbeFails` | the refresh of processes no tick waits for |
| `Poll`, `GraceEnds` | the timers |
| `RowChanges`, `RunChanges`, `TurnBegins`, `TurnEnds` | what others do meanwhile |

`IInv` says that list and decision agree and that what a tick under way has read is
what it will tell; it is also what the proofs rest on.  `DoneIsTold`: a `done` of the
multiplexer is dropped only by the tick that read it and told it, with the exceptions
the ladder has (`Untold`: a supervisor speaks; no multiplexer of the server; nothing
was decided).  `ProbeNeverRelights`: the end of a run is not swallowed by a probe
older than it.  `SignalIsHeard` (liveness): after a signal a tick begins, whatever the
poll does.  Fairness is `WF` of the tick alone.  Deadlock is checked.

What is abstracted: a screen, a title, the foreground of a pane and the clock are read
by one step and kept by none, so they are choices of that step (an idle is held or
not, a completion fresh or not, a probe too old).  An agent's error is a running hook
that is not listed.  `ViewAgrees` takes working and blocked together, where
`isKeyWorking` is true for working alone.  The window is of misao, the only multiplexer with agent states.
Left out: several windows, labels and names, the display status and its debounce,
whom a completion is attributed to, `InteractionMonitor`; an exception after a tick has
dropped a `done` (the listeners are asynchronous and none is expected); and the answers the
probe serves from the 10 s cache or the shared promise of `WindowActivityStatusService`.
The monitor asks every 15 s, so only a diagnostic request (`GET
/api/windows/activity-status`) fills them for it: `ProbeNeverRelights` does not cover an
answer read for such a request before the run ended.

## The runs

Ten runs pass.  Distinct states in brackets.

| run | question | instance | why it is enough |
| --- | --- | --- | --- |
| `approval_races` (1.5 M) | can two handlers, people, recovery and a restart corrupt a block? | 2 handlers, 1 edit, manual approval | each race is one handler against another, a person or recovery; a third only repeats a role.  The proofs cover any number |
| `approval_policies` (1.4 M) | does a policy that changes on the way break a block? | 1 handler, every entry, 3 policies, 1 edit inside and 1 outside the row | the gate compares one policy and one hash at a time |
| `locks` (6 188) | do the chains exclude, clean up, never lock up, implement `FifoLocks`, let all run? | 2 requests, 2 tasks, 2 servers | one or two keys, overlapping or not, all orders of callbacks.  The proofs cover any number |
| `windows_safe` (807 k) | one valid generation, sections, rollbacks | 2 handlers, 2 generations, all operations and accidents | two generations are an old and a new one, two handlers one inside the lock and one outside |
| `windows_rotation` (581 k) | row, pane and token agree, with kills and lists that fail | 2 handlers, 3 generations, executions and all that destroys | a third generation lets a name be old twice over |
| `link_authority` (309 k) | who has authority over a pane; does the launch bind? | 2 launches, 2 losses or restarts | an old and a new launch; two losses are a loss and one while recovering.  The proofs cover any number, scoped authentication and supervisors by hand |
| `link_prompt` (1.2 M) | is a prompt submitted once at most, is no worker given it twice? | 1 launch, 1 by hand, 1 prompt, 1 loss | the prompt can be lost with its command, its ack, its connection or its worker; two workers are the one it was sent to and another |
| `turns` (93 k) | does the run act once, on the agent's word; does every wait end? | 2 turns of any kind, a crash at any moment | turns share only "which is the newest": an old and a new one.  The proofs cover any number |
| `phases` (615 k) | is a plan approved, a review earned, are rounds bounded, does `running` end? | 2 runs, 4 phases, 6 turns, 2 attempts, 1 crash | six turns are one way through with a rollback; two runs are two at once, or one and its successor after a stop, an approval or a crash.  The proofs cover any unit type and any number |
| `activity` (1.5 M) | do list and decision agree, is an ending told, a signal heard? | 2 changes from outside, 1 turn | one change before a tick and one at an await of it; the probe and the timers are not counted.  The proofs cover any number |

Deadlock is checked for `locks` and `activity`: in the others everything may really
stop (requests done, bounds used up, processes gone).  Bounds on edits, generations,
launches, losses, frames under way, turns, runs, crashes and changes (`MaxContent`,
`MaxConfig`, `MaxGen`, `MaxLaunch`, `MaxFault`, `MaxPrompt`, `MaxQueue`, `MaxTurns`,
`MaxRuns`, `MaxCrashes`, `MaxEvents`) stand in the guards of the actions that count
them.  In `phases` the bound on turns stops a run before its next prompt: for
`NotRunningForever` that run is one whose preparation fails (`Fails` stays enabled).
Symmetry of handlers is used in the runs that check no liveness.

Two runs show a disagreement between the code and what the repository says of it:

| run | what happens |
| --- | --- |
| `approval_stuck` | a route that read the row before a block writes its status after it: `pending_approval` is gone, the operation stays recorded, nothing can be approved or run any more |
| `phases_stale` | failed tests roll the task back, the hub stops before the phase has its new turn, recovery finds the completed turn of the round before and goes past the phase |

The sentences they contradict are quoted in `PROJECT.json`, "findings".  Others met
while modelling (an approval that consumes one block and dispatches another, a window
killed by a name used again, an execution, a respawn or a follow-up that cannot list the windows,
a prompt refused with its text written, a session
killed around a window being created, an orphan that says `in_progress`, an archive
overwritten at the end of a phase, a registry emptied of another run's entry) are in
its "hazards", each with a note on what the runs leave out because of it.

## What is proved

All theorems are about the specifications the runs check, for every value of the
constants (three of them for the operations of one run), from the named assumptions on the constants alone (`None` is not a
value, bounds are naturals, a phase rolls back to an earlier one).  Each rests on an
inductive invariant; one lemma per action or group of actions shows that it is
preserved.

| module | theorem | argument |
| --- | --- | --- |
| `ExecutionApprovalProofs` | `TypeCorrect`, `Invariance`, `Decidable`, `NoBlockReplaced`, `BlockSavesStatus`, `OneDispatch` | `IInv` = types, `PendingIsDecidable`, `LocalsOK`.  A row is decidable after a write because the copy that was written was; the writes of the gate change nothing on a row with a block |
| `TaskLocksProofs` | `Invariance`, `Exclusion`, `NothingLeaks`, `NobodyIsStuck`, `Refinement` | `IInv` = types and six facts about the queues: arrival is a total order on the unsettled calls, a prior is the next one ahead, the map's entry is the last to come, only who waits has priors, of any set of unsettled calls one came first, tasks and servers are apart.  Exclusion follows because the one who came first is still ahead of the other |
| | | `NobodyIsStuck`: the first to come of the calls on servers is held up by nobody, and if there is none the first of all is not.  "One came first" is carried in the invariant for every set of calls, since induction over a set is out of reach; it is kept because a call that comes is behind all others and one that leaves is ahead of none |
| `TaskWindowsProofs` | `Invariance`, `OneCredentialHolds`, `StatusStaysCurrent`, `RollbackIsItsOwn` | `IInv` = types and `SectionOK`: whoever is past `IssueGeneration` is alone in the lock, so the generation it holds is the last |
| | `NoTokenWithoutWindow`, `RotatesOnlyGone`, `SessionKillLeavesNoToken` | assume `Ops \subseteq RotationOps`, the operations of `windows_rotation`.  `RotationInv`: a valid token, a living window and every primary row belong to the window the row names, unless an execution is between the two writes of its section; each handler sees at its step what the code takes for granted there.  The window an execution kills is the one the task names and the only one that may live; an execution that was not shown it is marked (`missed`), and goes on with what the row says.  Whoever clears the row in the lock revokes the only token |
| `SupervisorLinkProofs` | `OneAuthority`, `MonitorFollows`, `LaunchedKeepsItsPlace`, `DestructionIsItsOwn`, `Refinement`, `OverForGood` | `IInv` adds two facts: a client registers first on each socket, so no register comes from the connection itself; with scoped authentication nothing is bound without a launch, so who takes over from a bound connection is bound.  For the refinement, `life` and `holder` are read off the rows and the connection: an issue ends all rows before it, a register is accepted for the last row only while it is open, every other action leaves both alone, lets the holder go or ends one row.  `NoReturn` is then proved of the code through the promise |
| `SupervisorPromptProofs` | `SubmitsOnce` | `Once`, beside `IInv`: the command is in one place at most, a queue or a client; where it is, nothing of it is written but its own paste, and nobody has refused it.  A refusal that is waited for, and the keys that follow it, find nothing submitted and the text only with workers that have ended (`Spent`), so the worker the keys reach has none.  All other steps only thin the queues |
| `AgentTurnsProofs` | `Invariance`, `NewestRuns`, `SignalsAreKept`, `TurnsEndOnce`, `Refinement`, `WordDecides`, `SettledTurnsStay` | `IInv` says for each turn what row, stream and wait must be to each other at each point of its run.  Before the wait the stream holds what the row was told, after it the timer does; so what ends a wait agrees with the row.  The last two are read off the promise and hold of the code by the refinement |
| `PhaseLoopProofs` | `Invariance`, `PlanNeedsApproval`, `RoundsAreBounded`, `WorkIsOrdered`, `ReviewsAreEarned` | `PlanHeld`: before an approval row, recovery and every run are at the plan.  `RoundsOf`: a run has at most as many turns in a phase as attempts used, one more in the phases before the one it is at; a rollback uses an attempt |
| | | `Ordered`: each run under way has a first turn in the loop, has earned each phase from there to where it is, and writes its new turn behind all it has; a step of a run keeps the turns of every other (`Kept`), so its order; a rollback goes back to a phase whose predecessors are still earned.  What the person, recovery or a crash changes on the row is not what the order is about |
| `ActivityMonitorProofs` | `Invariance`, `DoneTold`, `RunEndsAreSeen` | `DoneIsRead`: the `done` a tick began with is what it decided from, whatever arrived since.  `RunIsDisarmed`: while the entry is one of a run that ended, the probe is disarmed or has answered since |

Model-checked only: liveness (`EveryCallRuns`, `LaunchBinds`, `WaitEnds`,
`NotRunningForever`, `SignalIsHeard`), which needs `ENABLED`.
Every safety and action property of a passing run has its theorem.  No module has a recursive operator, and
nothing is proved by induction over data.

## Plan

Done: the seven components above, in the order of what a failure costs.  Next, in
this order:

1. The registry of several tasks of one unit in `PhaseLoop`.
2. `MisaoConnection` and the recovery watchdog.
3. `FetchDistribution`'s nesting of mutexes over `FifoLocks`, `SystemUpdate`,
   `BufferedMessageRelay` against a reference queue.

Once a disagreement is settled in the code its run becomes a passing one.

## Not modelled, and why

Text (prompts, commands, transcripts, classification of screens), command lines
and their parsing, file and network I/O, git itself, schema migrations, the
frontend: they decide no state that two actors share, or their outcomes appear as
choices of the actions that call them (a kill that fails, a list that cannot be
had, an answer that is lost, a classification, a screen).  The remaining components are listed in
`PROJECT.json` with what is planned for them.
