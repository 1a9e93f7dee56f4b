---------------------------- MODULE ActivityMonitor ----------------------------
(***************************************************************************)
(* What the hub believes of the agent of one window                         *)
(* (operations/AgentActivityMonitor.ts), from a supervisor, a multiplexer,  *)
(* hooks, the pane and the process probe.                                   *)
(*                                                                          *)
(* A tick reads the rows and the runs, awaits the listing of the windows,   *)
(* decides from the highest source that speaks, awaits the screens, and     *)
(* announces what changed.  Signals arrive between its awaits.  Begin,      *)
(* Decide and Finish are what runs between two awaits; a step that asks for *)
(* a tick while none is under way leaves `at' at "due", and the tick begins *)
(* before anything else happens.  A pane, a screen and a clock are read by  *)
(* one step and kept by none: they are choices of that step.  The window is *)
(* one of Misao, whose agent states are the only ones of a multiplexer      *)
(* (misaoActivityBridge); a window of tmux is one no such state comes for.  *)
(***************************************************************************)
EXTENDS Naturals

CONSTANTS
    MaxEvents,  \* bound: how often a row, a run or a signal changes
    MaxTurns    \* bound: how many turns the agent ends

ASSUME ActivityAssumption == MaxEvents \in Nat /\ MaxTurns \in Nat

VARIABLES
    row,        \* the row of windows: none, asleep, or of an agent
    executing,  \* getRunning() names the window
    agent,      \* what the transcript of the agent says
    events,     \* how many changes came from outside
    sup,        \* supervisorStates
    mux,        \* muxStates
    seen,       \* the entry of muxStates is one the tick under way began with
    hook,       \* hookStates; "before": a stop older than mux last working
    asked,      \* the probe under way: None, Asked, or its answer
    probe,      \* processStates
    disarmed,   \* processDisarmedKeys
    emitted,    \* emittedCompletions
    candidate,  \* previousCandidateKeys
    live,       \* previousLiveKeys
    shown,      \* state: the entry listed as running, "none" without one
    by,         \* decisions: the source that decided, "nobody" without one
    working,    \* decisions: the agent works or is blocked
    told,       \* the reason of the stop the last tick announced, "none" without one
    at,         \* where tick() is
    rerun,      \* rerunAfterTick
    heard,      \* no signal came since the last tick began
    tick        \* the locals of collect()

world == <<row, executing, agent, events>>
sources == <<sup, mux, seen, hook>>
probing == <<asked, probe, disarmed, emitted>>
view == <<shown, by, working, told>>
before == <<candidate, live>>
control == <<at, rerun, heard, tick>>
vars == <<world, sources, probing, view, before, control>>

\* An ending is known by its number, 0: the last turn did not end as completed.
Answer == [status: {"absent", "idle", "working"}, ended: Nat]
Absent == [status |-> "absent", ended |-> 0]
None == [status |-> "none", ended |-> 0]
Asked == [status |-> "asked", ended |-> 0]

\* source and operation of AgentActivityEntry
Operation == {"operation", "supervised operation"}
Entry == Operation \cup {"none", "manual", "supervised"}
Source == {"supervisor", "mux", "hook", "title", "probe", "heuristic", "none", "nobody"}
\* "none": the tick recorded no reason; "other": one that is not 'completed'
Reason == {"none", "completed", "other"}

Tick == [cand: BOOLEAN, deleted: BOOLEAN, live: BOOLEAN,
         next: Entry, pending: Entry, by: Source, working: BOOLEAN, reason: Reason]

NoTick == [cand |-> FALSE, deleted |-> FALSE, live |-> FALSE, next |-> "none", pending |-> "none",
           by |-> "nobody", working |-> FALSE, reason |-> "none"]

Init ==
    /\ row = "agent" /\ executing = FALSE
    /\ agent = [busy |-> FALSE, turns |-> 0, ended |-> 0] /\ events = 0
    /\ sup = "none" /\ mux = "none" /\ seen = FALSE /\ hook = "none"
    /\ asked = None /\ probe = Absent /\ disarmed = FALSE /\ emitted = 0
    /\ candidate = FALSE /\ live = FALSE
    /\ shown = "none" /\ by = "nobody" /\ working = FALSE /\ told = "none"
    /\ at = "due" /\ rerun = FALSE /\ heard = TRUE /\ tick = NoTick

-----------------------------------------------------------------------------
(* Outside the monitor. *)

\* No tick is at a place it does not wait at.
Awaiting == at \notin {"due", "ending"}

Event == Awaiting /\ events < MaxEvents /\ events' = events + 1

\* faulty: nothing remembers that a tick was asked for during one.
RequestTickIfIdle == UNCHANGED rerun /\ IF at = "idle" THEN at' = "due" ELSE UNCHANGED at

RequestTick ==
    IF at = "idle" THEN at' = "due" /\ UNCHANGED rerun ELSE rerun' = TRUE /\ UNCHANGED at

RowChanges ==
    /\ Event /\ row' \in {"none", "asleep", "agent"} \ {row}
    /\ UNCHANGED <<executing, agent, sources, probing, view, before, control>>

RunChanges ==
    /\ Event /\ executing' = ~executing
    /\ UNCHANGED <<row, agent, sources, probing, view, before, control>>

TurnBegins ==
    /\ Awaiting /\ ~agent.busy /\ agent.turns < MaxTurns
    /\ agent' = [agent EXCEPT !.busy = TRUE, !.ended = 0]
    /\ UNCHANGED <<row, executing, events, sources, probing, view, before, control>>

\* An interrupted turn ends without a completion.
TurnEnds ==
    /\ Awaiting /\ agent.busy
    /\ \E completed \in BOOLEAN :
          agent' = [busy |-> FALSE, turns |-> agent.turns + 1,
                    ended |-> IF completed THEN agent.turns + 1 ELSE 0]
    /\ UNCHANGED <<row, executing, events, sources, probing, view, before, control>>

Poll ==
    /\ at = "idle" /\ at' = "due"
    /\ UNCHANGED <<world, sources, probing, view, before, rerun, heard, tick>>

\* The timer an idle of the mux armed beside a running hook.
GraceEnds ==
    /\ Awaiting /\ mux = "idle" /\ hook = "running"
    /\ RequestTick
    /\ UNCHANGED <<world, sources, probing, view, before, heard, tick>>

-----------------------------------------------------------------------------
(* The signals.  Each replaces what its source said before. *)

Signal == Event /\ RequestTick /\ heard' = FALSE /\ UNCHANGED <<row, executing, agent>>

\* A hook names its window by a pane handle, or by a name no row that is awake may have.
RecordHook ==
    /\ Signal
    /\ \/ hook' \in {"running", "idle"}
       \/ row # "agent" /\ UNCHANGED hook
    /\ UNCHANGED <<sup, mux, seen, probing, view, before, tick>>

\* 'exited' deletes the entry.
RecordSupervisor ==
    /\ Signal
    /\ sup' \in {"running", "idle", "none"}
    /\ UNCHANGED <<mux, seen, hook, probing, view, before, tick>>

RecordMux ==
    /\ Signal
    /\ mux' \in {"working", "blocked", "idle", "done", "unknown"}
    /\ seen' = FALSE
    /\ hook' = IF mux' = "working" /\ hook = "idle" THEN "before" ELSE hook
    /\ UNCHANGED <<sup, probing, view, before, tick>>

-----------------------------------------------------------------------------
(* The process probe, which no tick waits for. *)

\* The answer is of the windows with a row that is awake.
ProbeReads ==
    /\ Awaiting /\ asked = Asked
    /\ asked' = IF row # "agent" THEN Absent
                ELSE [status |-> IF agent.busy THEN "working" ELSE "idle", ended |-> agent.ended]
    /\ UNCHANGED <<world, sources, probe, disarmed, emitted, view, before, control>>

ProbeAnswers ==
    /\ Awaiting /\ asked \in Answer
    /\ asked' = None /\ probe' = asked
    /\ disarmed' = (disarmed /\ asked.status = "working")
    /\ emitted' = IF asked.status = "absent" THEN 0 ELSE emitted
    /\ UNCHANGED <<world, sources, view, before, control>>

ProbeFails ==
    /\ Awaiting /\ asked = Asked /\ asked' = None
    /\ UNCHANGED <<world, sources, probe, disarmed, emitted, view, before, control>>

-----------------------------------------------------------------------------
(* Begin: collect() until its first await. *)

KickProbe == asked' \in (IF asked = None THEN {None, Asked} ELSE {asked})

Pruned == mux # "none" /\ row = "none" /\ ~executing

\* An entry of mux goes, and the time it last worked with it.
DropMux(h) == mux' = "none" /\ seen' = FALSE /\ hook' = IF h = "before" THEN "idle" ELSE h

\* The window of a run: only a supervisor and the mux can say that it is idle.
OfOperation(t) ==
    CASE sup = "idle" ->
            [t EXCEPT !.by = "supervisor", !.reason = "completed"]
      [] sup = "none" /\ mux \in {"idle", "done"} ->
            [t EXCEPT !.by = "mux", !.reason = IF mux = "done" THEN "completed" ELSE @]
      [] OTHER ->
            [t EXCEPT !.next = IF sup = "none" THEN "operation" ELSE "supervised operation",
                      !.by = IF sup # "none" THEN "supervisor"
                             ELSE IF mux \in {"working", "blocked"} THEN "mux" ELSE "none",
                      !.working = TRUE]

\* A supervisor without a row.
OfSupervisorAlone(t) ==
    [t EXCEPT !.by = "supervisor", !.working = sup = "running",
              !.next = IF sup = "running" THEN "supervised" ELSE @]

\* mergeMuxDecisions: a mux that speaks of a window nothing else decided on.
Merged(t, m) ==
    IF t.by # "nobody" \/ m = "none" THEN t
    ELSE [t EXCEPT !.by = "mux", !.working = m \in {"working", "blocked"}]

Opened(cand) ==
    LET gone == candidate /\ ~cand /\ ~executing
        t == [NoTick EXCEPT !.cand = cand, !.deleted = gone,
                            !.reason = IF gone THEN "other" ELSE "none"]
    IN  CASE executing -> OfOperation(t)
          [] ~executing /\ ~cand /\ sup # "none" -> OfSupervisorAlone(t)
          [] OTHER -> t

\* faulty: the end of a run disarms nothing.
DisarmsNothing(cand) == disarmed /\ (cand \/ executing)

\* The probe may still show the run that ended: it does not count until it shows it ended.
Disarms(cand) == (disarmed \/ (shown \in Operation /\ ~executing)) /\ (cand \/ executing)

\* Without a candidate among all windows the tick ends here, without a listing.
Begin ==
    LET cand == row = "agent" /\ ~executing
        h == IF cand THEN hook ELSE "none"
    IN  /\ at = "due" /\ heard' = TRUE
        /\ KickProbe
        /\ IF Pruned THEN DropMux(h) ELSE hook' = h /\ seen' = (mux # "none") /\ UNCHANGED mux
        /\ disarmed' = Disarms(cand)
        /\ candidate' = cand
        /\ \/ at' = "deciding" /\ tick' = Opened(cand)
           \/ ~cand /\ at' = "ending" /\ tick' = Merged(Opened(cand), mux')
        /\ UNCHANGED <<world, sup, probe, emitted, view, live, rerun>>

-----------------------------------------------------------------------------
(* Decide: the ladder, after the listing. *)

Idle(source, reason) == [tick EXCEPT !.by = source, !.reason = reason]
Lit(source, entry) == [tick EXCEPT !.by = source, !.next = entry, !.working = TRUE]

\* An idle of a supervisor or of the mux, which the screen may still contradict.
Pending(t, entry) == [t EXCEPT !.pending = entry]

\* The multiplexer of the window is not one of its server.
OfUnsupported == [tick EXCEPT !.by = "none", !.reason = "other"]

OfSupervisor ==
    IF sup = "running" THEN Lit("supervisor", "supervised")
    ELSE Pending(Idle("supervisor", "completed"), "supervised")

MuxSpeaks == sup = "none" /\ mux \notin {"none", "unknown"}

\* Misao reports an idle before the hook reports the stop: the hub waits for the hook.
IsHeld == mux = "idle" /\ hook = "running"

StopConfirmed == mux = "idle" /\ hook = "idle"

OfMuxIdle ==
    LET t == Idle("mux", IF mux = "done" \/ StopConfirmed THEN "completed" ELSE tick.reason)
    IN  IF mux = "done" THEN t ELSE Pending(t, "manual")

\* The outcomes: an idle is held only for the time of the grace.
OfMux ==
    IF mux \in {"working", "blocked"} THEN {Lit("mux", "manual")}
    ELSE {OfMuxIdle} \cup IF IsHeld THEN {Lit("mux", "manual")} ELSE {}

\* The listing could not list the multiplexer of the window: as before.
OfUnlistable ==
    [tick EXCEPT !.next = shown, !.live = live, !.by = "none", !.working = shown # "none"]

\* The window is gone; only the edge from live to gone is a deletion.
OfGone == [tick EXCEPT !.by = "none", !.reason = "other", !.deleted = @ \/ live]

\* A hook: the agent runs or has an error on its screen, or has stopped.
OfHook ==
    IF hook = "running" THEN {Lit("hook", "manual"), Idle("hook", "other")}
    ELSE {Idle("hook", "completed")}

OfTitle == {Lit("title", "manual"), Idle("title", "completed"), Idle("title", "other")}

OfProbe ==
    IF probe.status = "working" THEN {Lit("probe", "manual")}
    ELSE LET reasons == IF probe.ended # 0 THEN {"completed", tick.reason} ELSE {tick.reason}
         IN  {[Lit("heuristic", "manual") EXCEPT !.reason = r] : r \in reasons}
                 \cup {Idle("heuristic", r) : r \in reasons}

\* The probe was never answered, its answer is old, or it is disarmed.
OfHeuristic == {Lit("heuristic", "manual"), Idle("heuristic", tick.reason)}

Alive(ts) == {[t EXCEPT !.live = TRUE] : t \in ts}

\* What the ladder makes of a window that no supervisor and no mux speaks of; a shell in
\* the foreground ends a hook.
Lower ==
    \/ tick' = OfUnlistable /\ UNCHANGED hook
    \/ tick' = OfGone /\ hook' = "none"
    \/ /\ hook # "none"
       /\ \/ tick' \in Alive(OfHook) /\ UNCHANGED hook
          \/ tick' \in Alive({Idle("hook", "other")}) /\ hook' = "none"
    \/ /\ hook = "none" /\ UNCHANGED hook
       /\ tick' \in Alive(OfTitle \cup OfHeuristic \cup IF disarmed THEN {} ELSE OfProbe)

Decide ==
    /\ at = "deciding" /\ at' = "finishing"
    /\ IF ~tick.cand THEN UNCHANGED <<tick, hook>>
       ELSE \/ tick' = OfUnsupported /\ UNCHANGED hook
            \/ sup # "none" /\ tick' = OfSupervisor /\ UNCHANGED hook
            \/ MuxSpeaks /\ tick' \in OfMux /\ UNCHANGED hook
            \/ sup = "none" /\ ~MuxSpeaks /\ Lower
    /\ UNCHANGED <<world, sup, mux, seen, probing, view, before, rerun, heard>>

-----------------------------------------------------------------------------
(* Finish: the screens of the pending ones, the announcements. *)

\* faulty: the decision keeps the idle the screen contradicts.
RefinedUndecided ==
    IF tick.pending = "none" THEN {tick}
    ELSE {tick, [tick EXCEPT !.reason = "other"],
          [tick EXCEPT !.next = tick.pending, !.reason = "none"]}

\* A screen that is blocked, or that cannot be read, keeps an idle one listed.
Refined ==
    IF tick.pending = "none" THEN {tick}
    ELSE {tick, [tick EXCEPT !.reason = "other"],
          [tick EXCEPT !.next = tick.pending, !.working = TRUE, !.reason = "none"]}

\* faulty: a 'done' the tick did not begin with goes as well.
ExpiresUnseen == at = "finishing" /\ mux = "done"

\* A 'done' says that one turn ended; it goes with the tick that began with it.
Expires == at = "finishing" /\ mux = "done" /\ seen

\* emitTransitions, and the completions the probe saw that no tick did (emitSynthesized-
\* Completions): `fresh' is whether the ending is of the last seconds.
Stops(t) == shown # "none" /\ t.next = "none"

Emit(t, fresh) ==
    LET stop == IF Stops(t) THEN IF t.reason = "completed" THEN "completed" ELSE "other"
                ELSE "none"
        marked == IF Stops(t) /\ t.reason = "completed" /\ probe.ended # 0
                  THEN probe.ended ELSE emitted
        missed == /\ ~t.deleted /\ t.next = "none" /\ shown = "none"
                  /\ fresh /\ probe.ended \notin {0, marked}
    IN  /\ probe' = IF t.deleted THEN Absent ELSE probe
        /\ emitted' = IF t.deleted THEN 0 ELSE IF missed THEN probe.ended ELSE marked
        /\ told' = IF missed THEN "completed"
                   ELSE IF t.deleted /\ shown = "none" /\ t.next = "none" THEN "other" ELSE stop

Idles == IF rerun THEN at' = "due" /\ rerun' = FALSE ELSE at' = "idle" /\ UNCHANGED rerun

Finish ==
    /\ at \in {"finishing", "ending"} /\ Idles
    /\ IF Expires THEN DropMux(hook) ELSE UNCHANGED <<mux, seen, hook>>
    /\ live' = tick.live
    /\ \E t \in Refined, fresh \in BOOLEAN :
          LET merged == IF at = "finishing" THEN Merged(t, mux') ELSE t
          IN  /\ Emit(t, fresh)
              /\ shown' = t.next /\ by' = merged.by /\ working' = merged.working
    /\ tick' = NoTick
    /\ UNCHANGED <<world, sup, asked, disarmed, candidate, heard>>

\* An exception: nothing is announced, what the tick read before is gone.
TickFails ==
    /\ at \in {"deciding", "finishing"} /\ Idles
    /\ tick' = NoTick
    /\ UNCHANGED <<world, sources, probing, view, before, heard>>

-----------------------------------------------------------------------------
World == RowChanges \/ RunChanges \/ TurnBegins \/ TurnEnds \/ Poll \/ GraceEnds
Signals == RecordHook \/ RecordSupervisor \/ RecordMux
Probe == ProbeReads \/ ProbeAnswers \/ ProbeFails
Ticks == Begin \/ Decide \/ Finish \/ TickFails

Next == World \/ Signals \/ Probe \/ Ticks

Spec == Init /\ [][Next]_vars

\* A tick that began ends: the calls it awaits do.  Nothing is assumed of the poll.
FairSpec == Spec /\ WF_vars(Ticks)

-----------------------------------------------------------------------------
(* Types. *)
WorldOK ==
    /\ row \in {"none", "asleep", "agent"} /\ executing \in BOOLEAN /\ events \in Nat
    /\ agent \in [busy: BOOLEAN, turns: Nat, ended: Nat]

SourcesOK ==
    /\ sup \in {"none", "running", "idle"}
    /\ mux \in {"none", "working", "blocked", "idle", "done", "unknown"} /\ seen \in BOOLEAN
    /\ hook \in {"none", "running", "idle", "before"}

ProbingOK ==
    /\ asked \in {None, Asked} \cup Answer /\ probe \in Answer
    /\ disarmed \in BOOLEAN /\ emitted \in Nat

ViewOK ==
    /\ shown \in Entry /\ by \in Source /\ working \in BOOLEAN /\ told \in Reason
    /\ candidate \in BOOLEAN /\ live \in BOOLEAN

ControlOK ==
    /\ at \in {"due", "deciding", "finishing", "ending", "idle"}
    /\ rerun \in BOOLEAN /\ heard \in BOOLEAN /\ tick \in Tick

TypeOK == WorldOK /\ SourcesOK /\ ProbingOK /\ ViewOK /\ ControlOK

\* The list of running agents and the decision isKeyWorking() answers from agree: an
\* agent that is listed works for the wait of its turn, and one that works is listed
\* unless only the mux speaks of a window that is no candidate.
ViewAgrees ==
    /\ shown # "none" => working
    /\ working => shown # "none" \/ by = "mux"

\* What a tick has decided so far agrees as well.
TickAgrees ==
    /\ at \in {"due", "idle"} => tick = NoTick
    /\ tick.next # "none" => tick.working
    /\ tick.next # "none" \/ tick.pending # "none" => tick.by # "nobody"
    /\ tick.working => tick.next # "none" \/ tick.by = "mux"
    /\ (at = "deciding" /\ tick.cand) =>
          tick.next = "none" /\ tick.pending = "none" /\ ~tick.working

\* The sources that let a 'done' go untold: a supervisor speaks, the window has no
\* multiplexer of its server, nothing is to be decided of it.
Untold == {"supervisor", "none", "nobody"}

\* The 'done' a tick is about to drop is what it decided from.
DoneIsRead ==
    (mux = "done" /\ seen /\ (at = "finishing" \/ (at = "deciding" /\ ~tick.cand))) =>
        \/ tick.by \in Untold
        \/ /\ tick.by = "mux" /\ tick.reason = "completed"
           /\ tick.pending = "none" /\ tick.next = "none"

\* The window of a run that ended is not decided from a probe older than its end.
RunIsDisarmed ==
    /\ (at = "deciding" /\ tick.cand /\ shown \in Operation) =>
          disarmed \/ (probe.status # "working" /\ asked = None)
    /\ tick.by = "probe" => shown \notin Operation

\* The types, the agreement of the list with the decisions, and what a tick under way
\* has read: the inductive invariant.
IInv == TypeOK /\ ViewAgrees /\ TickAgrees /\ DoneIsRead /\ RunIsDisarmed

\* A 'done' is told before it is forgotten: the tick that drops it read it and told its
\* completion, unless one of the above let it go untold or the window was not listed
\* (the comment at AgentActivityMonitor.ts:1064).
DoneIsTold ==
    [][(mux = "done" /\ mux' = "none" /\ at = "finishing") =>
          \/ by' \in Untold
          \/ by' = "mux" /\ (shown = "none" \/ told' = "completed")]_vars

\* The probe alone never turns the entry of a run into one of a manual agent: the end of
\* the run would not be announced (processDisarmedKeys).
ProbeNeverRelights ==
    [][(shown \in Operation /\ shown' = "manual") => by' # "probe"]_vars

\* A signal that arrives while a tick waits is not lost: a tick begins after it, whatever
\* the poll does.
SignalIsHeard == ~heard ~> heard
=============================================================================
