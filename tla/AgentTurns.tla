------------------------------ MODULE AgentTurns ------------------------------
(***************************************************************************)
(* The agent turns of one task (tasks/turns) and the wait of the run that  *)
(* started each (HttpSignalTurnCoordinator, WorkerWaiter, and the part of   *)
(* PhaseLoopRunner and of a follow-up that acts on the result).             *)
(*                                                                          *)
(* A turn is a row of agent_turns; an agent ends it with a signal over HTTP *)
(* that carries the turn's token.  The run that started the turn learns of  *)
(* it from an in-process stream, and ends its wait with whatever comes      *)
(* first of a signal, an idle classification, a timer and a stop.  Between  *)
(* two awaits the hub is one thread: an action is what runs between them.   *)
(* Nothing keeps a second run of the task from starting a turn while the    *)
(* first one waits (a follow-up has no guard on the status), so Start has   *)
(* no guard on the turns before it.                                         *)
(***************************************************************************)
EXTENDS Naturals, Sequences

CONSTANT MaxTurns   \* bound: how many turns the task starts

ASSUME MaxTurnsAssumption == MaxTurns \in Nat

VARIABLES
    last,     \* the newest turn id (AUTOINCREMENT)
    status,   \* agent_turns.status; "none": no row yet
    source,   \* agent_turns.completion_source
    said,     \* the decisive event recorded with source 'http', "none" before
    kind,     \* what the turn is for
    stream,   \* the InProcessSignalStream of the turn
    held,     \* its pendingSignals
    pc,       \* where the run that started the turn is
    quiet,    \* the classification the quiescence timer ends with, "no": not armed
    looking,  \* an idle classification (capture and LLM) is under way
    probing,  \* a completion probe is under way
    aborted,  \* the AbortSignal of the run
    result    \* the classification the run acts on

row == <<last, status, source, said, kind>>
wait == <<stream, held, pc, quiet, looking, probing>>
vars == <<row, wait, aborted, result>>

Turn == 1..MaxTurns

Signal == {"complete", "test_failed", "questions", "fail"}
Class == {"phase_complete", "question", "stopped"}
\* a phase; a phase whose push the hub verifies; a follow-up
Kind == {"phase", "push", "follow_up"}

Ended == {"completed", "test_failed", "questions", "failed", "aborted", "superseded"}

\* The marker an accepted signal is turned into: a failure ends the wait as a
\* completion does, the row tells them apart.
Marker(s) == IF s = "questions" THEN "question" ELSE "phase_complete"

StatusOf(s) ==
    CASE s = "complete" -> "completed"
      [] s = "test_failed" -> "test_failed"
      [] s = "questions" -> "questions"
      [] s = "fail" -> "failed"

Inferred(c) ==
    CASE c = "phase_complete" -> "completed"
      [] c = "question" -> "questions"
      [] c = "stopped" -> "failed"

HasProbe(t) == kind[t] = "push"

Init ==
    /\ last = 0
    /\ status = [t \in Turn |-> "none"]
    /\ source = [t \in Turn |-> "none"]
    /\ said = [t \in Turn |-> "none"]
    /\ kind = [t \in Turn |-> "phase"]
    /\ stream = [t \in Turn |-> "none"]
    /\ held = [t \in Turn |-> <<>>]
    /\ pc = [t \in Turn |-> "none"]
    /\ quiet = [t \in Turn |-> "no"]
    /\ looking = [t \in Turn |-> FALSE]
    /\ probing = [t \in Turn |-> FALSE]
    /\ aborted = [t \in Turn |-> FALSE]
    /\ result = [t \in Turn |-> "none"]

-----------------------------------------------------------------------------
(* The run up to its wait *)

\* faulty: a new turn leaves the older ones running.
SupersedeNothing == status

SupersedeRunning ==
    [t \in Turn |-> IF status[t] = "running" THEN "superseded" ELSE status[t]]

\* The envelope of a prompt is built: older turns of the task are superseded,
\* the row is inserted, its stream subscribes.  The run may have been stopped
\* since the loop looked at its signal.
Start(k, a) ==
    /\ last < MaxTurns
    /\ last' = last + 1
    /\ status' = [SupersedeRunning EXCEPT ![last + 1] = "running"]
    /\ kind' = [kind EXCEPT ![last + 1] = k]
    /\ stream' = [stream EXCEPT ![last + 1] = "open"]
    /\ pc' = [pc EXCEPT ![last + 1] = "sending"]
    /\ aborted' = [aborted EXCEPT ![last + 1] = a]
    /\ UNCHANGED <<source, said, held, quiet, looking, probing, result>>

\* faulty: a run that fails to send leaves its stream subscribed.
SendFailsUnstopped(t) ==
    /\ pc[t] = "sending"
    /\ pc' = [pc EXCEPT ![t] = "done"]
    /\ result' = [result EXCEPT ![t] = "unsent"]
    /\ UNCHANGED <<row, stream, held, quiet, looking, probing, aborted>>

\* The prompt cannot be sent, or a stream has failed already: the streams stop
\* and the run ends; the row keeps running.
SendFails(t) ==
    /\ pc[t] = "sending"
    /\ pc' = [pc EXCEPT ![t] = "done"]
    /\ stream' = [stream EXCEPT ![t] = "stopped"]
    /\ result' = [result EXCEPT ![t] = "unsent"]
    /\ UNCHANGED <<row, held, quiet, looking, probing, aborted>>

\* The worktree of a push to verify cannot be looked at: the run ends between
\* the prompt and the wait, and the stream of the turn stays subscribed.
PrepareProbeFails(t) ==
    /\ pc[t] = "sending" /\ HasProbe(t)
    /\ pc' = [pc EXCEPT ![t] = "done"]
    /\ result' = [result EXCEPT ![t] = "unsent"]
    /\ UNCHANGED <<row, stream, held, quiet, looking, probing, aborted>>

\* faulty: attaching the marker listener flushes nothing.
WaitUnflushed(t) ==
    /\ pc[t] = "sending"
    /\ pc' = [pc EXCEPT ![t] = "waiting"]
    /\ held' = [held EXCEPT ![t] = <<>>]
    /\ UNCHANGED <<row, stream, quiet, looking, probing, aborted, result>>

\* The prompt is sent and the wait begins: attaching the marker listener
\* flushes what the stream holds, before any other handler runs.  An abort
\* listener attached to a signal that is aborted already is never called.
Wait(t) ==
    /\ pc[t] = "sending"
    /\ pc' = [pc EXCEPT ![t] = "waiting"]
    /\ held' = [held EXCEPT ![t] = <<>>]
    /\ quiet' = [quiet EXCEPT ![t] = IF held[t] = <<>> THEN "no" ELSE Marker(Head(held[t]))]
    /\ UNCHANGED <<row, stream, looking, probing, aborted, result>>

-----------------------------------------------------------------------------
(* The agent *)

\* faulty: a signal is recorded on a row that has ended, too.
AgentSignalAnyRow(t, s) ==
    /\ status[t] # "none"
    /\ said' = [said EXCEPT ![t] = s]
    /\ status' = [status EXCEPT ![t] = StatusOf(s)]
    /\ source' = [source EXCEPT ![t] = "azitoctl"]
    /\ IF stream[t] = "open" /\ pc[t] = "waiting"
       THEN /\ quiet' = [quiet EXCEPT ![t] = IF quiet[t] = "no" THEN Marker(s) ELSE quiet[t]]
            /\ UNCHANGED held
       ELSE /\ held' = IF stream[t] = "open" THEN [held EXCEPT ![t] = Append(held[t], s)] ELSE held
            /\ UNCHANGED quiet
    /\ UNCHANGED <<last, kind, stream, pc, looking, probing, aborted, result>>

\* POST /api/agent-signals with the token of turn t.  On a row that has ended
\* it is recorded as a duplicate and nothing else happens.
AgentSignal(t, s) ==
    /\ status[t] = "running"
    /\ said' = [said EXCEPT ![t] = s]
    /\ status' = [status EXCEPT ![t] = StatusOf(s)]
    /\ source' = [source EXCEPT ![t] = "azitoctl"]
    /\ IF stream[t] = "open" /\ pc[t] = "waiting"
       THEN /\ quiet' = [quiet EXCEPT ![t] = IF quiet[t] = "no" THEN Marker(s) ELSE quiet[t]]
            /\ UNCHANGED held
       ELSE /\ held' = IF stream[t] = "open" THEN [held EXCEPT ![t] = Append(held[t], s)] ELSE held
            /\ UNCHANGED quiet
    /\ UNCHANGED <<last, kind, stream, pc, looking, probing, aborted, result>>

-----------------------------------------------------------------------------
(* The end of a wait: finish() with classification c, then finalize(), in one *)
(* go.  The row decides; only a row that still runs takes the classification. *)

\* faulty: the run acts on the classification, whatever the row says.
VerdictOfTimer(t, c) == c

Verdict(t, c) ==
    CASE status[t] = "failed" -> "stopped"
      [] status[t] \in {"completed", "test_failed"} -> "phase_complete"
      [] status[t] = "questions" -> "question"
      [] OTHER -> c

Finish(t, c, stopped) ==
    /\ IF status[t] = "running"
       THEN /\ status' = [status EXCEPT ![t] = IF stopped THEN "aborted" ELSE Inferred(c)]
            /\ source' = [source EXCEPT ![t] = IF stopped THEN "abort" ELSE "classifier"]
       ELSE UNCHANGED <<status, source>>
    /\ result' = [result EXCEPT ![t] = Verdict(t, c)]
    /\ pc' = [pc EXCEPT ![t] = IF Verdict(t, c) = "phase_complete" THEN "output" ELSE "done"]
    /\ stream' = [stream EXCEPT ![t] = "stopped"]
    /\ quiet' = [quiet EXCEPT ![t] = "no"]
    /\ looking' = [looking EXCEPT ![t] = FALSE]
    /\ probing' = [probing EXCEPT ![t] = FALSE]
    /\ UNCHANGED <<last, said, kind, held>>

\* The pane has been quiet for 2 s, or 45 s have passed, since the marker.
QuiescenceEnds(t) ==
    /\ pc[t] = "waiting"
    /\ quiet[t] # "no"
    /\ Finish(t, quiet[t], aborted[t])
    /\ UNCHANGED aborted

\* A heartbeat finds the worker idle and asks for a classification.
Look(t) ==
    /\ pc[t] = "waiting"
    /\ looking' = [looking EXCEPT ![t] = TRUE]
    /\ UNCHANGED <<row, stream, held, pc, quiet, probing, aborted, result>>

\* It answers with an end, or with "still working" and the probe finds the
\* phase complete.
LookDecides(t, c) ==
    /\ pc[t] = "waiting"
    /\ looking[t]
    /\ Finish(t, c, aborted[t])
    /\ UNCHANGED aborted

\* It answers "still working" below the limit.
LookAgain(t) ==
    /\ pc[t] = "waiting"
    /\ looking[t]
    /\ looking' = [looking EXCEPT ![t] = FALSE]
    /\ UNCHANGED <<row, stream, held, pc, quiet, probing, aborted, result>>

\* faulty: the timer is put off while a classification is under way.
TimerFiresUnlessLooking(t) ==
    /\ pc[t] = "waiting"
    /\ ~probing[t] /\ ~looking[t]
    /\ IF HasProbe(t)
       THEN /\ probing' = [probing EXCEPT ![t] = TRUE]
            /\ UNCHANGED <<row, stream, held, pc, quiet, looking, result>>
       ELSE Finish(t, "stopped", aborted[t])
    /\ UNCHANGED aborted

\* The longest idle time, the longest phase or the still-working limit is
\* reached, or a stream fails: a wait that can be verified asks the probe first.
TimerFires(t) ==
    /\ pc[t] = "waiting"
    /\ ~probing[t]
    /\ IF HasProbe(t)
       THEN /\ probing' = [probing EXCEPT ![t] = TRUE]
            /\ UNCHANGED <<row, stream, held, pc, quiet, looking, result>>
       ELSE Finish(t, "stopped", aborted[t])
    /\ UNCHANGED aborted

ProbeEnds(t, verified) ==
    /\ pc[t] = "waiting"
    /\ probing[t]
    /\ Finish(t, IF verified THEN "phase_complete" ELSE "stopped", aborted[t])
    /\ UNCHANGED aborted

StreamFails(t) ==
    /\ pc[t] = "waiting"
    /\ Finish(t, "stopped", aborted[t])
    /\ UNCHANGED aborted

\* A stop of the run: a wait hears of it, a run that sends its prompt does not.
Abort(t) ==
    /\ pc[t] \in {"sending", "waiting", "output"}
    /\ ~aborted[t]
    /\ aborted' = [aborted EXCEPT ![t] = TRUE]
    /\ IF pc[t] = "waiting"
       THEN Finish(t, "stopped", TRUE)
       ELSE UNCHANGED <<row, wait, result>>

-----------------------------------------------------------------------------
(* After the wait *)

\* The output of a completed turn is read, from the signal or from its file.
\* A phase that was only inferred to be complete, and has none, is rejected.
Output(t, found) ==
    /\ pc[t] = "output"
    /\ pc' = [pc EXCEPT ![t] = "done"]
    /\ IF kind[t] = "phase" /\ ~found /\ source[t] # "azitoctl"
       THEN /\ status' = [status EXCEPT ![t] = "failed"]
            /\ source' = [source EXCEPT ![t] = "classifier"]
            /\ result' = [result EXCEPT ![t] = "rejected"]
       ELSE UNCHANGED <<status, source, result>>
    /\ UNCHANGED <<last, said, kind, stream, held, quiet, looking, probing, aborted>>

\* The hub stops: runs, streams and timers are gone, the rows stay.
Crash ==
    /\ pc' = [t \in Turn |-> IF pc[t] \in {"sending", "waiting", "output"} THEN "gone" ELSE pc[t]]
    /\ result' = [t \in Turn |-> IF pc[t] \in {"sending", "waiting"} THEN "lost" ELSE result[t]]
    /\ stream' = [t \in Turn |-> IF stream[t] = "open" THEN "none" ELSE stream[t]]
    /\ held' = [t \in Turn |-> <<>>]
    /\ quiet' = [t \in Turn |-> "no"]
    /\ looking' = [t \in Turn |-> FALSE]
    /\ probing' = [t \in Turn |-> FALSE]
    /\ UNCHANGED <<row, aborted>>

\* Startup recovery supersedes what runs before it resumes the task.
Recover ==
    /\ \A t \in Turn : pc[t] \in {"none", "done", "gone"}
    /\ status' = SupersedeRunning
    /\ UNCHANGED <<last, source, said, kind, wait, aborted, result>>

-----------------------------------------------------------------------------

Waiting(t) ==
    \/ QuiescenceEnds(t) \/ Look(t) \/ LookAgain(t) \/ TimerFires(t) \/ StreamFails(t)
    \/ \E c \in Class : LookDecides(t, c)
    \/ \E v \in BOOLEAN : ProbeEnds(t, v)

Next ==
    \/ \E k \in Kind, a \in BOOLEAN : Start(k, a)
    \/ \E t \in Turn :
          \/ SendFails(t) \/ PrepareProbeFails(t) \/ Wait(t) \/ Waiting(t) \/ Abort(t)
          \/ \E s \in Signal : AgentSignal(t, s)
          \/ \E f \in BOOLEAN : Output(t, f)
    \/ Crash
    \/ Recover

\* Sending, probing and reading a file have timeouts of their own; the timers
\* are the hub's.  Nothing obliges the agent to signal.
Fairness ==
    \A t \in Turn :
        /\ WF_vars(SendFails(t) \/ PrepareProbeFails(t) \/ Wait(t))
        /\ WF_vars(TimerFires(t))
        /\ WF_vars(\E v \in BOOLEAN : ProbeEnds(t, v))
        /\ WF_vars(\E f \in BOOLEAN : Output(t, f))

Spec == Init /\ [][Next]_vars
FairSpec == Spec /\ Fairness

-----------------------------------------------------------------------------
(* Properties *)

\* State of the right shape; every id up to last has a row.
TypeOK ==
    /\ last \in 0..MaxTurns
    /\ status \in [Turn -> Ended \cup {"none", "running"}]
    /\ source \in [Turn -> {"none", "azitoctl", "classifier", "abort"}]
    /\ said \in [Turn -> Signal \cup {"none"}]
    /\ kind \in [Turn -> Kind]
    /\ stream \in [Turn -> {"none", "open", "stopped"}]
    /\ held \in [Turn -> Seq(Signal)]
    /\ pc \in [Turn -> {"none", "sending", "waiting", "output", "done", "gone"}]
    /\ quiet \in [Turn -> {"no", "phase_complete", "question"}]
    /\ looking \in [Turn -> BOOLEAN]
    /\ probing \in [Turn -> BOOLEAN]
    /\ aborted \in [Turn -> BOOLEAN]
    /\ result \in [Turn -> Class \cup {"none", "unsent", "lost", "rejected"}]

\* What the proofs need besides: which part of a turn's row, stream and wait
\* go together at each point of its run.
RowOf(t) ==
    /\ t > last <=> status[t] = "none"
    /\ status[t] = "running" => t = last
    /\ source[t] = "azitoctl" <=> said[t] # "none"
    /\ said[t] # "none" => status[t] = StatusOf(said[t])
    /\ status[t] \in {"none", "running"} => said[t] = "none"

WaitOf(t) ==
    /\ pc[t] = "none" <=> status[t] = "none"
    /\ pc[t] \in {"none", "sending", "waiting"} => result[t] = "none"
    /\ pc[t] = "output" => result[t] = "phase_complete"
    /\ pc[t] \in {"sending", "waiting"} => stream[t] = "open"
    /\ stream[t] = "open" => pc[t] \in {"sending", "waiting"} \/ (result[t] = "unsent" /\ HasProbe(t))
    /\ result[t] \in Class \cup {"rejected"} => status[t] # "running"
    /\ pc[t] = "sending" => held[t] = (IF said[t] = "none" THEN <<>> ELSE <<said[t]>>)
    /\ pc[t] = "waiting" => quiet[t] = (IF said[t] = "none" THEN "no" ELSE Marker(said[t]))
    /\ pc[t] \in {"none", "sending"} => quiet[t] = "no"
    /\ pc[t] = "none" => held[t] = <<>>

IInv == TypeOK /\ \A t \in Turn : RowOf(t) /\ WaitOf(t)

\* At most one turn of the task runs, and it is the newest: a token of an
\* older turn, of a run that failed to send or of a hub that stopped, is dead
\* when the next prompt goes out.  (findRunningByTask reads one row.)
OnlyNewestRuns == \A t \in Turn : status[t] = "running" => t = last

\* A signal the hub has accepted is not lost between the row and the run: the
\* stream holds it until the wait begins, and a wait that began is ending.
SignalIsKept ==
    \A t \in Turn : source[t] = "azitoctl" =>
        /\ pc[t] = "sending" => held[t] = <<said[t]>>
        /\ pc[t] = "waiting" => quiet[t] = Marker(said[t])

\* A turn that ended stays ended as it was, except that an end the hub only
\* inferred may be turned into a failure: no late signal, timer or
\* classification revives a turn, and none replaces what the agent said.
EndsOnce ==
    [][\A t \in Turn : status[t] \in Ended =>
          \/ status'[t] = status[t] /\ source'[t] = source[t]
          \/ source[t] # "azitoctl" /\ status'[t] = "failed"]_vars

\* Every wait ends, whatever the worker does: the timers see to it.
WaitEnds == \A t \in Turn : pc[t] = "waiting" ~> pc[t] # "waiting"

\* The run acts on a turn once, and on the agent's first word if there is one.
Promise == INSTANCE TurnPromise WITH heard <- result
PromiseSpec == Promise!Spec

=============================================================================
