------------------------ MODULE ActivityMonitorProofs ------------------------
(***************************************************************************)
(* Proofs about ActivityMonitor for any number of signals and of turns: its *)
(* inductive invariant, and what a tick may never do.                       *)
(***************************************************************************)
EXTENDS ActivityMonitor, TLAPS

LEMMA InitHolds == Init => IInv
  <1> SUFFICES ASSUME Init PROVE IInv
    OBVIOUS
  <1>1. WorldOK /\ SourcesOK
    BY DEF Init, WorldOK, SourcesOK
  <1>2. ProbingOK
    BY DEF Init, ProbingOK, Answer, Absent
  <1>3. ViewOK /\ ControlOK
    BY DEF Init, ViewOK, ControlOK, Entry, Operation, Source, Reason, Tick, NoTick
  <1>4. ViewAgrees /\ TickAgrees
    BY DEF Init, ViewAgrees, TickAgrees, NoTick
  <1>5. DoneIsRead /\ RunIsDisarmed
    BY DEF Init, DoneIsRead, RunIsDisarmed, NoTick, Operation
  <1> QED
    BY <1>1, <1>2, <1>3, <1>4, <1>5 DEF IInv, TypeOK

-----------------------------------------------------------------------------
(* What comes from outside: the list and the tick under way stay. *)

\* What a step keeps that leaves the list, the decisions, the tick and the probe alone.
LEMMA Elsewhere ==
  ASSUME IInv, UNCHANGED <<shown, by, working, tick, probe, asked, disarmed>>,
         at' = at \/ (at = "idle" /\ at' = "due"),
         UNCHANGED <<mux, seen>> \/ ~seen'
  PROVE  ViewAgrees' /\ TickAgrees' /\ DoneIsRead' /\ RunIsDisarmed'
  <1>1. ViewAgrees'
    BY DEF IInv, ViewAgrees
  <1>2. TickAgrees'
    BY DEF IInv, TickAgrees
  <1>3. DoneIsRead'
    BY DEF IInv, DoneIsRead
  <1>4. RunIsDisarmed'
    BY DEF IInv, RunIsDisarmed
  <1> QED
    BY <1>1, <1>2, <1>3, <1>4

\* The types a step keeps by leaving the variables alone.
LEMMA UnchangedTypes ==
  ASSUME TypeOK
  PROVE  /\ UNCHANGED world => WorldOK'
         /\ UNCHANGED sources => SourcesOK'
         /\ UNCHANGED probing => ProbingOK'
         /\ UNCHANGED <<view, before>> => ViewOK'
  <1>1. UNCHANGED world => WorldOK'
    BY DEF TypeOK, WorldOK, world
  <1>2. UNCHANGED sources => SourcesOK'
    BY DEF TypeOK, SourcesOK, sources
  <1>3. UNCHANGED probing => ProbingOK'
    BY DEF TypeOK, ProbingOK, probing
  <1>4. UNCHANGED <<view, before>> => ViewOK'
    BY DEF TypeOK, ViewOK, view, before
  <1> QED
    BY <1>1, <1>2, <1>3, <1>4

\* A tick that is asked for begins at once or after the one under way.
LEMMA RequestKeeps ==
  ASSUME TypeOK, RequestTick, UNCHANGED tick, heard' \in BOOLEAN
  PROVE  ControlOK' /\ (at' = at \/ (at = "idle" /\ at' = "due"))
  BY DEF RequestTick, TypeOK, ControlOK

LEMMA WorldKeeps ==
  ASSUME IInv, World
  PROVE  IInv'
  <1>0. TypeOK
    BY DEF IInv
  <1>1. /\ UNCHANGED <<sources, probing, view, before, tick>>
        /\ WorldOK' /\ ControlOK'
        /\ at' = at \/ (at = "idle" /\ at' = "due")
    <2> USE <1>0
    <2>1. CASE RowChanges
      BY <2>1 DEF RowChanges, Event, TypeOK, WorldOK, ControlOK, control
    <2>2. CASE RunChanges
      BY <2>2 DEF RunChanges, Event, TypeOK, WorldOK, ControlOK, control
    <2>3. CASE TurnBegins
      BY <2>3 DEF TurnBegins, TypeOK, WorldOK, ControlOK, control
    <2>4. CASE TurnEnds
      <3>1. agent' \in [busy: BOOLEAN, turns: Nat, ended: Nat]
        BY <2>4 DEF TurnEnds, TypeOK, WorldOK
      <3> QED
        BY <2>4, <3>1 DEF TurnEnds, TypeOK, WorldOK, ControlOK, control
    <2>5. CASE Poll
      BY <2>5, UnchangedTypes DEF Poll, TypeOK, ControlOK
    <2>6. CASE GraceEnds
      BY <2>6, UnchangedTypes, RequestKeeps DEF GraceEnds, TypeOK, ControlOK
    <2> QED
      BY <2>1, <2>2, <2>3, <2>4, <2>5, <2>6 DEF World
  <1>2. TypeOK'
    BY <1>0, <1>1, UnchangedTypes DEF TypeOK
  <1>3. ViewAgrees' /\ TickAgrees' /\ DoneIsRead' /\ RunIsDisarmed'
    BY <1>1, Elsewhere DEF sources, probing, view
  <1> QED
    BY <1>2, <1>3 DEF IInv

LEMMA SignalsKeep ==
  ASSUME IInv, Signals
  PROVE  IInv'
  <1>0. TypeOK
    BY DEF IInv
  <1>1. /\ UNCHANGED <<probing, view, before, tick, row, executing, agent>>
        /\ RequestTick /\ heard' = FALSE /\ events' = events + 1
        /\ SourcesOK' /\ (UNCHANGED <<mux, seen>> \/ ~seen')
    <2>1. CASE RecordHook
      BY <1>0, <2>1 DEF RecordHook, Signal, Event, TypeOK, SourcesOK
    <2>2. CASE RecordSupervisor
      BY <1>0, <2>2 DEF RecordSupervisor, Signal, Event, TypeOK, SourcesOK
    <2>3. CASE RecordMux
      BY <1>0, <2>3 DEF RecordMux, Signal, Event, TypeOK, SourcesOK
    <2> QED
      BY <2>1, <2>2, <2>3 DEF Signals
  <1>2. WorldOK'
    BY <1>0, <1>1 DEF TypeOK, WorldOK
  <1>3. ControlOK' /\ (at' = at \/ (at = "idle" /\ at' = "due"))
    BY <1>0, <1>1, RequestKeeps
  <1>4. TypeOK'
    BY <1>0, <1>1, <1>2, <1>3, UnchangedTypes DEF TypeOK
  <1>5. ViewAgrees' /\ TickAgrees' /\ DoneIsRead' /\ RunIsDisarmed'
    BY <1>1, <1>3, Elsewhere DEF probing, view
  <1> QED
    BY <1>4, <1>5 DEF IInv

\* An answer that shows the agent no longer working is the last of its tick.
LEMMA ProbeKeeps ==
  ASSUME IInv, Probe
  PROVE  IInv'
  <1>0. TypeOK
    BY DEF IInv
  <1>1. UNCHANGED <<world, sources, view, before, control>>
    BY DEF Probe, ProbeReads, ProbeAnswers, ProbeFails
  <1>2. ProbingOK'
    <2>1. CASE ProbeReads
      <3>1. agent.ended \in Nat
        BY <1>0 DEF TypeOK, WorldOK
      <3>2. asked' \in Answer
        BY <2>1, <3>1 DEF ProbeReads, Absent, Answer
      <3> QED
        BY <1>0, <2>1, <3>2 DEF ProbeReads, TypeOK, ProbingOK
    <2>2. CASE ProbeAnswers
      BY <1>0, <2>2 DEF ProbeAnswers, TypeOK, ProbingOK
    <2>3. CASE ProbeFails
      BY <1>0, <2>3 DEF ProbeFails, TypeOK, ProbingOK
    <2> QED
      BY <2>1, <2>2, <2>3 DEF Probe
  <1>3. ControlOK'
    BY <1>0, <1>1 DEF TypeOK, ControlOK, control
  <1>4. ViewAgrees' /\ TickAgrees' /\ DoneIsRead'
    BY <1>1 DEF IInv, ViewAgrees, TickAgrees, DoneIsRead, sources, view, control
  <1>5. RunIsDisarmed'
    <2>0. UNCHANGED <<shown, at, tick>> /\ RunIsDisarmed
      BY <1>1 DEF view, control, IInv
    <2>1. CASE ProbeReads
      BY <2>0, <2>1 DEF ProbeReads, RunIsDisarmed, Asked, None
    <2>2. CASE ProbeAnswers
      <3>1. probe' = asked /\ asked' = None /\ disarmed' = (disarmed /\ asked.status = "working") /\ asked \in Answer
        BY <2>2 DEF ProbeAnswers
      <3>2. asked # None
        BY <3>1 DEF Answer, None
      <3> QED
        BY <2>0, <3>1, <3>2 DEF RunIsDisarmed
    <2>3. CASE ProbeFails
      BY <2>0, <2>3 DEF ProbeFails, RunIsDisarmed
    <2> QED
      BY <2>1, <2>2, <2>3 DEF Probe
  <1> QED
    BY <1>0, <1>1, <1>2, <1>3, <1>4, <1>5, UnchangedTypes DEF IInv, TypeOK

(* The tick. *)

\* A tick whose list and decision agree.
Sound(t) ==
    /\ t \in Tick
    /\ t.next # "none" => t.working
    /\ t.next # "none" \/ t.pending # "none" => t.by # "nobody"
    /\ t.working => t.next # "none" \/ t.by = "mux"

\* A 'done' of the mux is what the tick decided from.
Reads(t) ==
    \/ t.by \in Untold
    \/ t.by = "mux" /\ t.reason = "completed" /\ t.pending = "none" /\ t.next = "none"

LEMMA OpenedIsSound ==
  ASSUME TypeOK, NEW cand \in BOOLEAN, cand => ~executing
  PROVE  /\ Sound(Opened(cand)) /\ Opened(cand).cand = cand
         /\ Opened(cand).pending = "none" /\ Opened(cand).by # "probe"
         /\ cand => Opened(cand).next = "none" /\ ~Opened(cand).working
         /\ mux = "done" => Reads(Opened(cand))
  <1> DEFINE gone == candidate /\ ~cand /\ ~executing
             t == [NoTick EXCEPT !.cand = cand, !.deleted = gone,
                                 !.reason = IF gone THEN "other" ELSE "none"]
  <1>0. sup \in {"none", "running", "idle"} /\ executing \in BOOLEAN /\ candidate \in BOOLEAN
    BY DEF TypeOK, SourcesOK, WorldOK, ViewOK
  <1>1. gone \in BOOLEAN
    BY <1>0
  <1>2. /\ t \in Tick /\ t.next = "none" /\ t.pending = "none" /\ t.by = "nobody" /\ ~t.working
        /\ t.cand = cand
    BY <1>1 DEF NoTick, Tick, Entry, Operation, Source, Reason
  <1> HIDE DEF t
  <1>3. CASE executing
    <2>1. Opened(cand) = OfOperation(t)
      BY <1>3 DEF Opened, t
    <2>2. CASE sup = "idle"
      <3>1. OfOperation(t) = [t EXCEPT !.by = "supervisor", !.reason = "completed"]
        BY <2>2 DEF OfOperation
      <3>2. [t EXCEPT !.by = "supervisor", !.reason = "completed"] \in Tick
        BY <1>2 DEF Tick, Source, Reason
      <3>3. /\ OfOperation(t).next = "none" /\ OfOperation(t).by = "supervisor"
            /\ OfOperation(t).pending = "none" /\ ~OfOperation(t).working /\ OfOperation(t).cand = cand
        BY <1>2, <3>1 DEF Tick
      <3> QED
        BY <1>0, <1>3, <2>1, <3>1, <3>2, <3>3 DEF Sound, Reads, Untold
    <2>3. CASE sup = "none" /\ mux \in {"idle", "done"}
      <3>1. OfOperation(t) = [t EXCEPT !.by = "mux", !.reason = IF mux = "done" THEN "completed" ELSE t.reason]
        BY <2>3 DEF OfOperation
      <3>2. OfOperation(t) \in Tick
        BY <1>2, <3>1 DEF Tick, Source, Reason
      <3>3. /\ OfOperation(t).next = "none" /\ OfOperation(t).by = "mux"
            /\ OfOperation(t).pending = "none" /\ ~OfOperation(t).working /\ OfOperation(t).cand = cand
            /\ mux = "done" => OfOperation(t).reason = "completed"
        BY <1>2, <3>1 DEF Tick
      <3> QED
        BY <1>0, <1>3, <2>1, <3>2, <3>3 DEF Sound, Reads
    <2>4. CASE ~(sup = "idle") /\ ~(sup = "none" /\ mux \in {"idle", "done"})
      <3> DEFINE source == IF sup # "none" THEN "supervisor"
                           ELSE IF mux \in {"working", "blocked"} THEN "mux" ELSE "none"
                 entry == IF sup = "none" THEN "operation" ELSE "supervised operation"
      <3>1. OfOperation(t) = [t EXCEPT !.next = entry, !.by = source, !.working = TRUE]
        BY <2>4 DEF OfOperation
      <3>2. /\ source \in {"supervisor", "mux", "none"} /\ entry \in Operation
            /\ mux = "done" => source \in Untold
        BY <2>4 DEF Operation, Untold
      <3> HIDE DEF source, entry
      <3>3. OfOperation(t) \in Tick
        BY <1>2, <3>1, <3>2 DEF Tick, Source, Entry
      <3>4. /\ OfOperation(t).next = entry /\ OfOperation(t).by = source
            /\ OfOperation(t).pending = "none" /\ OfOperation(t).working /\ OfOperation(t).cand = cand
        BY <1>2, <3>1 DEF Tick
      <3> QED
        BY <1>0, <1>3, <2>1, <3>2, <3>3, <3>4 DEF Sound, Reads, Operation
    <2> QED
      BY <2>2, <2>3, <2>4
  <1>4. CASE ~executing /\ ~cand /\ sup # "none"
    <2>1. Opened(cand) = [t EXCEPT !.by = "supervisor", !.working = sup = "running",
                                   !.next = IF sup = "running" THEN "supervised" ELSE t.next]
      BY <1>4 DEF Opened, OfSupervisorAlone, t
    <2>2. CASE sup = "running"
      BY <1>2, <1>4, <2>1, <2>2 DEF Sound, Reads, Untold, Tick, Source, Entry
    <2>3. CASE sup # "running"
      BY <1>2, <1>4, <2>1, <2>3 DEF Sound, Reads, Untold, Tick, Source, Entry
    <2> QED
      BY <2>2, <2>3
  <1>5. CASE ~executing /\ ~(~cand /\ sup # "none")
    <2>1. Opened(cand) = t
      BY <1>5 DEF Opened, t
    <2> QED
      BY <1>2, <2>1 DEF Sound, Reads, Untold
  <1> QED
    BY <1>3, <1>4, <1>5

\* Merging adds a decision to none.
LEMMA MergedIsSound ==
  ASSUME NEW t, Sound(t), NEW m
  PROVE  /\ Sound(Merged(t, m)) /\ Merged(t, m).next = t.next /\ Merged(t, m).cand = t.cand
         /\ Merged(t, m).pending = t.pending
         /\ Merged(t, m).by = t.by \/ (t.by = "nobody" /\ m # "none" /\ Merged(t, m).by = "mux")
  <1>1. CASE t.by # "nobody" \/ m = "none"
    BY <1>1 DEF Merged
  <1>2. CASE ~(t.by # "nobody" \/ m = "none")
    <2> DEFINE w == m \in {"working", "blocked"}
    <2>1. Merged(t, m) = [t EXCEPT !.by = "mux", !.working = w]
      BY <1>2 DEF Merged
    <2>2. w \in BOOLEAN
      OBVIOUS
    <2> HIDE DEF w
    <2>4. Merged(t, m) \in Tick
      BY <2>1, <2>2 DEF Sound, Tick, Source
    <2>5. /\ Merged(t, m).next = t.next /\ Merged(t, m).cand = t.cand
          /\ Merged(t, m).pending = t.pending /\ Merged(t, m).by = "mux"
      BY <2>1 DEF Sound, Tick
    <2>6. t.next = "none" /\ t.pending = "none"
      BY <1>2 DEF Sound
    <2> QED
      BY <1>2, <2>4, <2>5, <2>6 DEF Sound
  <1> QED
    BY <1>1, <1>2

LEMMA BeginKeeps ==
  ASSUME IInv, Begin
  PROVE  IInv'
  <1> DEFINE cand == row = "agent" /\ ~executing
             h == IF cand THEN hook ELSE "none"
  <1>0. TypeOK /\ cand \in BOOLEAN /\ (cand => ~executing) /\ h \in {"none", "running", "idle", "before"}
    BY DEF IInv, TypeOK, WorldOK, SourcesOK
  <1>1. /\ at = "due" /\ at' \in {"deciding", "ending"} /\ heard' = TRUE /\ UNCHANGED rerun
        /\ KickProbe /\ disarmed' = Disarms(cand) /\ candidate' = cand
        /\ UNCHANGED <<world, sup, probe, emitted, view, live>>
        /\ \/ DropMux(h)
           \/ hook' = h /\ seen' = (mux # "none") /\ mux' = mux
        /\ \/ at' = "deciding" /\ tick' = Opened(cand)
           \/ ~cand /\ at' = "ending" /\ tick' = Merged(Opened(cand), mux')
    BY DEF Begin
  <1> HIDE DEF cand, h
  <1>2. /\ Sound(Opened(cand)) /\ Opened(cand).cand = cand
        /\ Opened(cand).pending = "none" /\ Opened(cand).by # "probe"
        /\ cand => Opened(cand).next = "none" /\ ~Opened(cand).working
        /\ mux = "done" => Reads(Opened(cand))
    BY <1>0, OpenedIsSound
  <1>3. Sound(tick') /\ tick'.by # "probe" /\ tick'.cand = cand /\ tick'.pending = "none"
    <2>1. CASE tick' = Opened(cand)
      BY <1>2, <2>1
    <2>2. CASE tick' = Merged(Opened(cand), mux')
      BY <1>2, <2>2, MergedIsSound
    <2> QED
      BY <1>1, <2>1, <2>2
  <1>4. TypeOK'
    <2>1. WorldOK'
      BY <1>0, <1>1 DEF TypeOK, WorldOK, world
    <2>2. SourcesOK'
      BY <1>0, <1>1 DEF TypeOK, SourcesOK, DropMux
    <2>3. ProbingOK'
      BY <1>0, <1>1 DEF TypeOK, ProbingOK, KickProbe, Disarms
    <2>4. ViewOK'
      BY <1>0, <1>1 DEF TypeOK, ViewOK, view
    <2>5. ControlOK'
      BY <1>0, <1>1, <1>3 DEF TypeOK, ControlOK, Sound
    <2> QED
      BY <2>1, <2>2, <2>3, <2>4, <2>5 DEF TypeOK
  <1>5. ViewAgrees'
    BY <1>1 DEF IInv, ViewAgrees, view
  <1>6. TickAgrees'
    BY <1>1, <1>2, <1>3 DEF TickAgrees, Sound
  <1>7. DoneIsRead'
    <2>1. CASE mux' = mux
      BY <1>1, <1>2, <1>3, <2>1 DEF DoneIsRead, Reads
    <2>2. CASE mux' = "none"
      BY <2>2 DEF DoneIsRead
    <2> QED
      BY <1>1, <2>1, <2>2 DEF DropMux
  <1>8. RunIsDisarmed'
    <2>1. (cand /\ shown \in Operation) => disarmed'
      BY <1>0, <1>1 DEF Disarms
    <2> QED
      BY <1>1, <1>3, <2>1 DEF RunIsDisarmed, view
  <1> QED
    BY <1>4, <1>5, <1>6, <1>7, <1>8 DEF IInv

\* What the ladder may leave of a candidate it had not decided on.
Decided(t) ==
    /\ Sound(t) /\ t.cand
    /\ mux = "done" => Reads(t)
    /\ t.by = "probe" => shown \notin Operation

LEMMA IdleIsSound ==
  ASSUME tick \in Tick, tick.next = "none", tick.pending = "none", ~tick.working, tick.cand,
         NEW s \in Source \ {"nobody"}, NEW r \in Reason
  PROVE  /\ Sound(Idle(s, r)) /\ Idle(s, r).by = s /\ Idle(s, r).reason = r
         /\ Idle(s, r).pending = "none" /\ Idle(s, r).next = "none" /\ Idle(s, r).cand
         /\ ~Idle(s, r).working
  BY DEF Idle, Sound, Tick

LEMMA LitIsSound ==
  ASSUME tick \in Tick, tick.pending = "none", tick.cand,
         NEW s \in Source \ {"nobody"}, NEW e \in Entry \ {"none"}
  PROVE  /\ Sound(Lit(s, e)) /\ Lit(s, e).by = s /\ Lit(s, e).pending = "none" /\ Lit(s, e).cand
         /\ Lit(s, e).next = e /\ Lit(s, e).working
  <1>1. Lit(s, e) \in Tick
    BY DEF Lit, Tick
  <1>2. /\ Lit(s, e).by = s /\ Lit(s, e).pending = "none" /\ Lit(s, e).cand
        /\ Lit(s, e).next = e /\ Lit(s, e).working
    BY DEF Lit, Tick
  <1> QED
    BY <1>1, <1>2 DEF Sound

LEMMA PendingIsSound ==
  ASSUME NEW t, Sound(t), t.by # "nobody", NEW e \in Entry
  PROVE  Sound(Pending(t, e)) /\ Pending(t, e).cand = t.cand /\ Pending(t, e).by = t.by
  BY DEF Pending, Sound, Tick

LEMMA AliveIsDecided ==
  ASSUME NEW t, Decided(t)
  PROVE  Decided([t EXCEPT !.live = TRUE])
  <1> DEFINE u == [t EXCEPT !.live = TRUE]
  <1>1. t \in Tick
    BY DEF Decided, Sound
  <1>2. u \in Tick
    BY <1>1 DEF Tick
  <1>3. /\ u.next = t.next /\ u.pending = t.pending /\ u.by = t.by /\ u.working = t.working
        /\ u.cand = t.cand /\ u.reason = t.reason
    BY <1>1 DEF Tick
  <1> HIDE DEF u
  <1>4. Decided(u)
    BY <1>2, <1>3 DEF Decided, Sound, Reads
  <1> QED
    BY <1>4 DEF u

LEMMA BeginningIsUndecided ==
  ASSUME IInv, at = "deciding", tick.cand
  PROVE  tick \in Tick /\ tick.next = "none" /\ tick.pending = "none" /\ ~tick.working
  BY DEF IInv, TypeOK, ControlOK, TickAgrees

LEMMA LowerIsDecided ==
  ASSUME IInv, at = "deciding", tick.cand, mux # "done", Lower
  PROVE  Decided(tick') /\ hook' \in {hook, "none"}
  <1>1. tick \in Tick /\ tick.next = "none" /\ tick.pending = "none" /\ ~tick.working
    BY BeginningIsUndecided
  <1>2. shown \in Entry /\ live \in BOOLEAN
    BY DEF IInv, TypeOK, ViewOK
  <1>3. \A s \in Source \ {"nobody", "probe"}, r \in Reason : Decided(Idle(s, r))
    BY <1>1, IdleIsSound DEF Decided
  <1>4. \A s \in Source \ {"nobody", "probe"} : Decided(Lit(s, "manual"))
    BY <1>1, LitIsSound DEF Decided, Entry
  <1>5. CASE tick' = OfUnlistable /\ UNCHANGED hook
    <2> DEFINE w == shown # "none"
    <2>0. w \in BOOLEAN
      OBVIOUS
    <2>1. OfUnlistable = [tick EXCEPT !.next = shown, !.live = live, !.by = "none", !.working = w]
      BY DEF OfUnlistable
    <2>2. w <=> shown # "none"
      OBVIOUS
    <2> HIDE DEF w
    <2>3. OfUnlistable \in Tick
      BY <1>1, <1>2, <2>0, <2>1 DEF Tick, Source
    <2>4. OfUnlistable.next = shown /\ OfUnlistable.by = "none" /\ OfUnlistable.working = w /\ OfUnlistable.cand
      BY <1>1, <2>1 DEF Tick
    <2> QED
      BY <1>5, <2>2, <2>3, <2>4 DEF Decided, Sound
  <1>6. CASE tick' = OfGone /\ hook' = "none"
    <2> DEFINE d == tick.deleted \/ live
    <2>0. d \in BOOLEAN
      BY <1>1, <1>2 DEF Tick
    <2>1. OfGone = [tick EXCEPT !.by = "none", !.reason = "other", !.deleted = d]
      BY DEF OfGone
    <2> HIDE DEF d
    <2>2. OfGone \in Tick
      BY <1>1, <2>0, <2>1 DEF Tick, Source, Reason
    <2>3. OfGone.next = "none" /\ OfGone.by = "none" /\ ~OfGone.working /\ OfGone.cand /\ OfGone.pending = "none"
      BY <1>1, <2>1 DEF Tick
    <2> QED
      BY <1>6, <2>2, <2>3 DEF Decided, Sound
  <1>7. ASSUME NEW ts, \A t \in ts : Decided(t), tick' \in Alive(ts)
        PROVE  Decided(tick')
    BY <1>7, AliveIsDecided DEF Alive
  <1>8. \A t \in OfHook : Decided(t)
    BY <1>3, <1>4 DEF OfHook, Source, Reason
  <1>9. \A t \in OfTitle : Decided(t)
    BY <1>3, <1>4 DEF OfTitle, Source, Reason
  <1>10. tick.reason \in Reason
    BY <1>1 DEF Tick
  <1>11. \A t \in OfHeuristic : Decided(t)
    BY <1>3, <1>4, <1>10 DEF OfHeuristic, Source
  <1>12. ASSUME ~disarmed PROVE \A t \in OfProbe : Decided(t)
    <2>1. CASE probe.status = "working"
      <3>1. shown \notin Operation
        BY <1>12, <2>1 DEF IInv, RunIsDisarmed
      <3>2. Decided(Lit("probe", "manual"))
        BY <1>1, <3>1, LitIsSound DEF Decided, Entry, Source
      <3> QED
        BY <2>1, <3>2 DEF OfProbe
    <2>2. CASE probe.status # "working"
      <3>1. ASSUME NEW r \in Reason PROVE Decided([Lit("heuristic", "manual") EXCEPT !.reason = r])
        <4> DEFINE u == [Lit("heuristic", "manual") EXCEPT !.reason = r]
        <4>1. /\ Sound(Lit("heuristic", "manual")) /\ Lit("heuristic", "manual").by = "heuristic"
              /\ Lit("heuristic", "manual").pending = "none" /\ Lit("heuristic", "manual").cand
              /\ Lit("heuristic", "manual").next = "manual" /\ Lit("heuristic", "manual").working
          BY <1>1, LitIsSound DEF Source, Entry
        <4>2. u \in Tick
          BY <4>1 DEF Sound, Tick
        <4>3. u.by = "heuristic" /\ u.pending = "none" /\ u.cand /\ u.next = "manual" /\ u.working
          BY <4>1 DEF Sound, Tick
        <4> HIDE DEF u
        <4>4. Decided(u)
          BY <4>2, <4>3 DEF Decided, Sound
        <4> QED
          BY <4>4 DEF u
      <3>2. \A r \in Reason : Decided(Idle("heuristic", r))
        BY <1>3 DEF Source
      <3> QED
        BY <1>10, <2>2, <3>1, <3>2 DEF OfProbe, Reason
    <2> QED
      BY <2>1, <2>2
  <1>13. CASE hook # "none" /\ tick' \in Alive(OfHook) /\ UNCHANGED hook
    BY <1>7, <1>8, <1>13
  <1>14. CASE hook # "none" /\ tick' \in Alive({Idle("hook", "other")}) /\ hook' = "none"
    <2>1. \A t \in {Idle("hook", "other")} : Decided(t)
      BY <1>3 DEF Source, Reason
    <2> QED
      BY <1>7, <1>14, <2>1
  <1>15. CASE /\ hook = "none" /\ UNCHANGED hook
              /\ tick' \in Alive(OfTitle \cup OfHeuristic \cup IF disarmed THEN {} ELSE OfProbe)
    <2> DEFINE ts == OfTitle \cup OfHeuristic \cup IF disarmed THEN {} ELSE OfProbe
    <2>1. \A t \in ts : Decided(t)
      BY <1>9, <1>11, <1>12
    <2> HIDE DEF ts
    <2>2. tick' \in Alive(ts)
      BY <1>15 DEF ts
    <2> QED
      BY <1>7, <1>15, <2>1, <2>2
  <1> QED
    BY <1>5, <1>6, <1>13, <1>14, <1>15 DEF Lower

LEMMA LadderIsDecided ==
  ASSUME IInv, Decide, tick.cand
  PROVE  Decided(tick') /\ hook' \in {hook, "none"}
  <1>0. tick \in Tick /\ tick.next = "none" /\ tick.pending = "none" /\ ~tick.working /\ at = "deciding"
    BY BeginningIsUndecided DEF Decide
  <1>1. CASE tick' = OfUnsupported /\ UNCHANGED hook
    <2>1. OfUnsupported = Idle("none", "other")
      BY DEF OfUnsupported, Idle
    <2> QED
      BY <1>0, <1>1, <2>1, IdleIsSound DEF Decided, Reads, Untold, Source, Reason
  <1>2. CASE sup # "none" /\ tick' = OfSupervisor /\ UNCHANGED hook
    <2>1. CASE sup = "running"
      BY <1>0, <1>2, <2>1, LitIsSound DEF OfSupervisor, Decided, Reads, Untold, Source, Entry
    <2>2. CASE sup # "running"
      <3> DEFINE t == Idle("supervisor", "completed")
      <3>1. Sound(t) /\ t.by = "supervisor" /\ t.cand
        BY <1>0, IdleIsSound DEF Source, Reason
      <3>2. tick' = Pending(t, "supervised")
        BY <1>2, <2>2 DEF OfSupervisor
      <3> HIDE DEF t
      <3>3. Sound(tick') /\ tick'.cand /\ tick'.by = "supervisor"
        BY <3>1, <3>2, PendingIsSound DEF Entry
      <3> QED
        BY <1>2, <3>3 DEF Decided, Reads, Untold
    <2> QED
      BY <2>1, <2>2
  <1>3. CASE MuxSpeaks /\ tick' \in OfMux /\ UNCHANGED hook
    <2>1. CASE mux # "done" /\ tick' = Lit("mux", "manual")
      BY <1>0, <1>3, <2>1, LitIsSound DEF Decided, Source, Entry
    <2>2. CASE tick' = OfMuxIdle
      <3> DEFINE r == IF mux = "done" \/ StopConfirmed THEN "completed" ELSE tick.reason
                 t == Idle("mux", r)
      <3>1. r \in Reason
        BY <1>0 DEF Tick, Reason
      <3>2. /\ Sound(t) /\ t.by = "mux" /\ t.cand /\ t.reason = r
            /\ t.pending = "none" /\ t.next = "none"
        BY <1>0, <3>1, IdleIsSound DEF Source
      <3>3. tick' = IF mux = "done" THEN t ELSE Pending(t, "manual")
        BY <2>2 DEF OfMuxIdle
      <3>4. mux = "done" => r = "completed"
        OBVIOUS
      <3> HIDE DEF t, r
      <3>5. CASE mux = "done"
        BY <1>3, <3>2, <3>3, <3>4, <3>5 DEF Decided, Reads
      <3>6. CASE mux # "done"
        <4>1. Sound(tick') /\ tick'.cand /\ tick'.by = "mux"
          BY <3>2, <3>3, <3>6, PendingIsSound DEF Entry
        <4> QED
          BY <1>3, <3>6, <4>1 DEF Decided
      <3> QED
        BY <3>5, <3>6
    <2> QED
      BY <1>3, <2>1, <2>2 DEF OfMux, IsHeld
  <1>4. CASE sup = "none" /\ ~MuxSpeaks /\ Lower
    <2>1. mux # "done"
      BY <1>4 DEF MuxSpeaks
    <2> QED
      BY <1>0, <1>4, <2>1, LowerIsDecided
  <1> QED
    BY <1>1, <1>2, <1>3, <1>4 DEF Decide

LEMMA DecideKeeps ==
  ASSUME IInv, Decide
  PROVE  IInv'
  <1>1. /\ at = "deciding" /\ at' = "finishing"
        /\ UNCHANGED <<world, sup, mux, seen, probing, view, before, rerun, heard>>
    BY DEF Decide
  <1>2. /\ Sound(tick') /\ hook' \in {hook, "none"}
        /\ (mux = "done" /\ seen) => Reads(tick')
        /\ tick'.by = "probe" => shown \notin Operation
    <2>1. CASE tick.cand
      BY <2>1, LadderIsDecided DEF Decided
    <2>2. CASE ~tick.cand
      <3>1. tick' = tick /\ hook' = hook
        BY <2>2 DEF Decide
      <3> QED
        BY <1>1, <2>2, <3>1 DEF IInv, TypeOK, ControlOK, TickAgrees, DoneIsRead, RunIsDisarmed, Sound, Reads
    <2> QED
      BY <2>1, <2>2
  <1>3. TypeOK'
    <2>0. TypeOK
      BY DEF IInv
    <2>1. SourcesOK'
      BY <1>1, <1>2, <2>0 DEF TypeOK, SourcesOK
    <2>2. ControlOK'
      BY <1>1, <1>2, <2>0 DEF TypeOK, ControlOK, Sound
    <2> QED
      BY <1>1, <2>0, <2>1, <2>2, UnchangedTypes DEF TypeOK
  <1>4. ViewAgrees'
    BY <1>1 DEF IInv, ViewAgrees, view
  <1>5. TickAgrees'
    BY <1>1, <1>2 DEF TickAgrees, Sound
  <1>6. DoneIsRead' /\ RunIsDisarmed'
    BY <1>1, <1>2 DEF DoneIsRead, RunIsDisarmed, Reads, view
  <1> QED
    BY <1>3, <1>4, <1>5, <1>6 DEF IInv

-----------------------------------------------------------------------------
LEMMA NoTickIsSound ==
  /\ NoTick \in Tick /\ NoTick.next = "none" /\ NoTick.pending = "none" /\ ~NoTick.working
  /\ NoTick.by = "nobody"
  BY DEF NoTick, Tick, Entry, Source, Reason

\* The screens change the entry, its decision's state and the reason, never the source.
LEMMA RefinedIsSound ==
  ASSUME IInv, NEW t \in Refined
  PROVE  /\ Sound(t) /\ t.by = tick.by
         /\ tick.pending = "none" => t = tick
  <1>0. Sound(tick) /\ tick \in Tick
    BY DEF IInv, TypeOK, ControlOK, TickAgrees, Sound
  <1>1. CASE t = tick
    BY <1>0, <1>1
  <1>2. CASE tick.pending # "none" /\ t = [tick EXCEPT !.reason = "other"]
    <2>1. t \in Tick
      BY <1>0, <1>2 DEF Tick, Reason
    <2>2. t.next = tick.next /\ t.working = tick.working /\ t.by = tick.by /\ t.pending = tick.pending
      BY <1>0, <1>2 DEF Tick
    <2> QED
      BY <1>0, <1>2, <2>1, <2>2 DEF Sound
  <1>3. CASE /\ tick.pending # "none"
             /\ t = [tick EXCEPT !.next = tick.pending, !.working = TRUE, !.reason = "none"]
    <2>1. t \in Tick
      BY <1>0, <1>3 DEF Tick, Reason
    <2>2. t.next = tick.pending /\ t.working /\ t.by = tick.by /\ t.pending = tick.pending
      BY <1>0, <1>3 DEF Tick
    <2> QED
      BY <1>0, <1>3, <2>1, <2>2 DEF Sound
  <1> QED
    BY <1>1, <1>2, <1>3 DEF Refined

\* What a finished tick leaves.
LEMMA FinishLeaves ==
  ASSUME IInv, Finish
  PROVE  \E t, u \in Tick :
            /\ t \in Refined /\ Sound(u)
            /\ u.next = t.next /\ (u.by = tick.by \/ (tick.by = "nobody" /\ mux' # "none" /\ u.by = "mux"))
            /\ shown' = t.next /\ by' = u.by /\ working' = u.working
            /\ \E fresh \in BOOLEAN : Emit(t, fresh)
  <1>1. PICK t \in Refined, fresh \in BOOLEAN :
            LET merged == IF at = "finishing" THEN Merged(t, mux') ELSE t
            IN  /\ Emit(t, fresh)
                /\ shown' = t.next /\ by' = merged.by /\ working' = merged.working
    BY DEF Finish
  <1> DEFINE u == IF at = "finishing" THEN Merged(t, mux') ELSE t
  <1>2. Sound(t) /\ t.by = tick.by
    BY RefinedIsSound
  <1>3. Sound(u) /\ u.next = t.next /\ (u.by = t.by \/ (t.by = "nobody" /\ mux' # "none" /\ u.by = "mux"))
    BY <1>2, MergedIsSound
  <1>4. t \in Tick /\ u \in Tick
    BY <1>2, <1>3 DEF Sound
  <1>5. Emit(t, fresh) /\ shown' = t.next /\ by' = u.by /\ working' = u.working
    BY <1>1
  <1> HIDE DEF u
  <1> QED
    BY <1>2, <1>3, <1>4, <1>5

LEMMA EmitTypes ==
  ASSUME TypeOK, NEW t \in Tick, NEW fresh \in BOOLEAN, Emit(t, fresh)
  PROVE  probe' \in Answer /\ emitted' \in Nat /\ told' \in Reason
  <1>0. probe \in Answer /\ probe.ended \in Nat /\ emitted \in Nat
    BY DEF TypeOK, ProbingOK, Answer
  <1>1. probe' \in Answer
    BY <1>0 DEF Emit, Absent, Answer
  <1>2. emitted' \in Nat
    BY <1>0 DEF Emit
  <1>3. told' \in Reason
    BY DEF Emit, Reason
  <1> QED
    BY <1>1, <1>2, <1>3

LEMMA FinishKeeps ==
  ASSUME IInv, Finish
  PROVE  IInv'
  <1>0. TypeOK
    BY DEF IInv
  <1>1. PICK t \in Tick, u \in Tick :
            /\ t \in Refined /\ Sound(u) /\ u.next = t.next
            /\ shown' = t.next /\ by' = u.by /\ working' = u.working
            /\ \E fresh \in BOOLEAN : Emit(t, fresh)
    BY FinishLeaves
  <1>2. /\ at' \in {"due", "idle"} /\ tick' = NoTick /\ rerun' \in BOOLEAN /\ live' = tick.live
        /\ UNCHANGED <<world, sup, asked, disarmed, candidate, heard>>
        /\ DropMux(hook) \/ UNCHANGED <<mux, seen, hook>>
    BY <1>0 DEF Finish, Idles, TypeOK, ControlOK
  <1>3. TypeOK'
    <2>1. SourcesOK'
      BY <1>0, <1>2 DEF TypeOK, SourcesOK, DropMux
    <2>2. ProbingOK'
      BY <1>0, <1>1, <1>2, EmitTypes DEF TypeOK, ProbingOK
    <2>3. ViewOK'
      <3>1. live' \in BOOLEAN /\ shown' \in Entry /\ by' \in Source /\ working' \in BOOLEAN
        BY <1>0, <1>1, <1>2 DEF TypeOK, ControlOK, Tick
      <3> QED
        BY <1>0, <1>1, <1>2, <3>1, EmitTypes DEF TypeOK, ViewOK
    <2>4. ControlOK'
      BY <1>0, <1>2, NoTickIsSound DEF TypeOK, ControlOK
    <2> QED
      BY <1>0, <1>2, <2>1, <2>2, <2>3, <2>4, UnchangedTypes DEF TypeOK
  <1>4. ViewAgrees'
    BY <1>1 DEF ViewAgrees, Sound
  <1>5. TickAgrees' /\ DoneIsRead' /\ RunIsDisarmed'
    BY <1>2, NoTickIsSound DEF TickAgrees, DoneIsRead, RunIsDisarmed
  <1> QED
    BY <1>3, <1>4, <1>5 DEF IInv

LEMMA TickFailsKeeps ==
  ASSUME IInv, TickFails
  PROVE  IInv'
  <1>1. /\ at' \in {"due", "idle"} /\ tick' = NoTick /\ rerun' \in BOOLEAN
        /\ UNCHANGED <<world, sources, probing, view, before, heard>>
    BY DEF TickFails, Idles, IInv, TypeOK, ControlOK
  <1>2. TypeOK'
    BY <1>1, NoTickIsSound, UnchangedTypes DEF IInv, TypeOK, ControlOK
  <1>3. ViewAgrees' /\ TickAgrees' /\ DoneIsRead' /\ RunIsDisarmed'
    BY <1>1, NoTickIsSound DEF IInv, ViewAgrees, TickAgrees, DoneIsRead, RunIsDisarmed, view
  <1> QED
    BY <1>2, <1>3 DEF IInv

LEMMA StepKeeps == IInv /\ [Next]_vars => IInv'
  <1> SUFFICES ASSUME IInv, [Next]_vars PROVE IInv'
    OBVIOUS
  <1>1. CASE UNCHANGED vars
    <2>1. UNCHANGED <<world, sources, probing, view, before, control>>
      BY <1>1 DEF vars
    <2>2. TypeOK'
      BY <2>1, UnchangedTypes DEF IInv, TypeOK, ControlOK, control
    <2>3. ViewAgrees' /\ TickAgrees' /\ DoneIsRead' /\ RunIsDisarmed'
      BY <2>1, Elsewhere DEF sources, probing, view, control
    <2> QED
      BY <2>2, <2>3 DEF IInv
  <1> QED
    BY <1>1, WorldKeeps, SignalsKeep, ProbeKeeps, BeginKeeps, DecideKeeps, FinishKeeps,
       TickFailsKeeps DEF Next, Ticks

\* In every state the list and the decisions agree, and a tick under way has read what it
\* is about to drop (IInv).
THEOREM Invariance == Spec => []IInv
  <1> QED
    BY InitHolds, StepKeeps, PTL DEF Spec

-----------------------------------------------------------------------------
\* A 'done' a tick drops was told as completed, or is one nobody is told of (Expires,
\* AgentActivityMonitor.ts:1773).
THEOREM DoneTold == Spec => DoneIsTold
  <1>1. ASSUME IInv, [Next]_vars, mux = "done", mux' = "none", at = "finishing"
        PROVE  \/ by' \in Untold
               \/ by' = "mux" /\ (shown = "none" \/ told' = "completed")
    <2>1. Finish
      BY <1>1 DEF Next, World, RowChanges, RunChanges, TurnBegins, TurnEnds, Poll, GraceEnds,
         Signals, RecordHook, RecordSupervisor, RecordMux, Probe, ProbeReads, ProbeAnswers, ProbeFails,
         Ticks, Begin, Decide, TickFails, vars, sources
    <2>2. seen
      BY <1>1, <2>1 DEF Finish, Expires
    <2>3. Reads(tick)
      BY <1>1, <2>2 DEF IInv, DoneIsRead, Reads
    <2>4. PICK t \in Tick, u \in Tick :
            /\ t \in Refined
            /\ (u.by = tick.by \/ (tick.by = "nobody" /\ mux' # "none" /\ u.by = "mux"))
            /\ shown' = t.next /\ by' = u.by
            /\ \E fresh \in BOOLEAN : Emit(t, fresh)
      BY <1>1, <2>1, FinishLeaves
    <2>5. by' = tick.by
      BY <1>1, <2>4
    <2>6. CASE tick.by \in Untold
      BY <2>5, <2>6
    <2>7. CASE /\ tick.by = "mux" /\ tick.reason = "completed"
               /\ tick.pending = "none" /\ tick.next = "none"
      <3>1. t.next = "none" /\ t.reason = "completed"
        BY <1>1, <2>4, <2>7, RefinedIsSound
      <3>2. shown # "none" => told' = "completed"
        BY <2>4, <3>1 DEF Emit, Stops
      <3> QED
        BY <2>5, <2>7, <3>2
    <2> QED
      BY <2>3, <2>6, <2>7 DEF Reads
  <1> QED
    BY <1>1, Invariance, PTL DEF Spec, DoneIsTold

\* The entry of a run becomes a manual one by another source than the probe.
THEOREM RunEndsAreSeen == Spec => ProbeNeverRelights
  <1>1. ASSUME IInv, [Next]_vars, shown \in Operation, shown' = "manual"
        PROVE  by' # "probe"
    <2>1. Finish
      <3>1. shown' # shown
        BY <1>1 DEF Operation
      <3> QED
        BY <1>1, <3>1 DEF Next, World, RowChanges, RunChanges, TurnBegins, TurnEnds, Poll, GraceEnds,
           Signals, RecordHook, RecordSupervisor, RecordMux, Probe, ProbeReads, ProbeAnswers, ProbeFails,
           Ticks, Begin, Decide, TickFails, vars, view
    <2>2. PICK u \in Tick :
            /\ (u.by = tick.by \/ (tick.by = "nobody" /\ mux' # "none" /\ u.by = "mux"))
            /\ by' = u.by
      BY <1>1, <2>1, FinishLeaves
    <2>3. tick.by # "probe"
      BY <1>1 DEF IInv, RunIsDisarmed
    <2> QED
      BY <2>2, <2>3
  <1> QED
    BY <1>1, Invariance, PTL DEF Spec, ProbeNeverRelights

=============================================================================
