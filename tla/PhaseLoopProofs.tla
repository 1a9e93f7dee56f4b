---------------------------- MODULE PhaseLoopProofs ----------------------------
(***************************************************************************)
(* Proofs about PhaseLoop for every unit type, any number of runs, prompts  *)
(* and crashes: its inductive invariant and what follows from it.           *)
(***************************************************************************)
EXTENDS PhaseLoop, TLAPS, SequenceTheorems, FiniteSetTheorems

LEMMA Sizes == N \in Nat /\ N >= 2 /\ MaxRounds \in Nat /\ MaxRounds >= 1
  BY PhasesAssumption, BoundsAssumption DEF MaxRounds

LEMMA PhaseOf ==
  ASSUME NEW p \in Phase
  PROVE  /\ Phases[p].planApproval \in BOOLEAN /\ Phases[p].pushVerify \in BOOLEAN
         /\ Phases[p].rollback \in 0..N /\ Phases[p].rollback < p
         /\ Phases[p].planApproval => p = Planning
  BY PhasesAssumption DEF PhaseDef

\* A step that leaves every turn its run and its phase.
SameTurns ==
    /\ turns' \in Seq(Turn)
    /\ Len(turns') = Len(turns)
    /\ \A k \in 1..Len(turns) : turns'[k].run = turns[k].run /\ turns'[k].phase = turns[k].phase

LEMMA OfStays ==
  ASSUME SameTurns, NEW r, NEW p
  PROVE  Of(r, p)' = Of(r, p)
  BY DEF SameTurns, Of

\* A status is written to one of the turns.
LEMMA SetStatus ==
  ASSUME turns \in Seq(Turn), NEW k, NEW s \in TurnStatus, NEW b \in BOOLEAN,
         \/ turns' = turns
         \/ turns' = [turns EXCEPT ![k].status = s]
         \/ turns' = [turns EXCEPT ![k].status = s, ![k].said = b]
  PROVE  SameTurns
  <1>0. turns \in [1..Len(turns) -> Turn] /\ Len(turns) \in Nat /\ DOMAIN turns = 1..Len(turns)
    BY LenProperties
  <1>1. turns' \in [1..Len(turns) -> Turn]
    <2>1. ASSUME NEW j \in 1..Len(turns)
          PROVE  [turns[j] EXCEPT !.status = s] \in Turn /\ [turns[j] EXCEPT !.status = s, !.said = b] \in Turn
      <3>1. turns[j] \in Turn
        BY <1>0
      <3> QED
        BY <3>1 DEF Turn
    <2>2. CASE turns' = turns
      BY <1>0, <2>2
    <2>3. CASE turns' = [turns EXCEPT ![k].status = s]
      BY <1>0, <2>1, <2>3
    <2>4. CASE turns' = [turns EXCEPT ![k].status = s, ![k].said = b]
      BY <1>0, <2>1, <2>4
    <2> QED
      BY <2>2, <2>3, <2>4
  <1>2. turns' \in Seq(Turn) /\ Len(turns') = Len(turns)
    BY <1>0, <1>1
  <1>3. ASSUME NEW j \in 1..Len(turns)
        PROVE  turns'[j].run = turns[j].run /\ turns'[j].phase = turns[j].phase
    BY SMTT(30), <1>0 DEF Turn
  <1> QED
    BY <1>2, <1>3 DEF SameTurns

LEMMA Superseded ==
  ASSUME turns \in Seq(Turn)
  PROVE  /\ SupersedeRunning \in Seq(Turn)
         /\ Len(SupersedeRunning) = Len(turns)
         /\ \A k \in 1..Len(turns) : /\ SupersedeRunning[k].run = turns[k].run
                                     /\ SupersedeRunning[k].phase = turns[k].phase
  <1>0. turns \in [1..Len(turns) -> Turn] /\ Len(turns) \in Nat
    BY LenProperties
  <1>1. SupersedeRunning \in [1..Len(turns) -> Turn]
    BY <1>0 DEF SupersedeRunning, Turn, TurnStatus
  <1>2. ASSUME NEW k \in 1..Len(turns)
        PROVE  SupersedeRunning[k].run = turns[k].run /\ SupersedeRunning[k].phase = turns[k].phase
    BY <1>0 DEF SupersedeRunning, Turn
  <1> QED
    BY <1>0, <1>1, <1>2

LEMMA OfFinite ==
  ASSUME turns \in Seq(Turn), NEW r, NEW p
  PROVE  IsFiniteSet(Of(r, p)) /\ Cardinality(Of(r, p)) \in Nat
  <1>1. Len(turns) \in Nat
    BY LenProperties
  <1>2. IsFiniteSet(1..Len(turns)) /\ Of(r, p) \in SUBSET (1..Len(turns))
    BY <1>1, FS_Interval DEF Of
  <1> QED
    BY <1>2, FS_Subset, FS_CardinalityType

\* Nothing a run is bound by depends on what happens to the others.
LEMMA Unmoved ==
  ASSUME IInv, SameTurns, NEW u \in Run, pc'[u] = pc[u], me'[u] = me[u],
         born' \in Nat, born' >= born
  PROVE  PlaceOf(u)' /\ RoundsOf(u)'
  <1>1. PlaceOf(u) /\ RoundsOf(u) /\ u \in Nat /\ born \in Nat
    BY BoundsAssumption DEF IInv, TypeOK, Run
  <1>2. PlaceOf(u)'
    BY <1>1 DEF PlaceOf, Live, Talks
  <1>3. \A p : Of(u, p)' = Of(u, p)
    BY OfStays
  <1>4. RoundsOf(u)'
    BY <1>1, <1>3 DEF RoundsOf, Fresh, Rounds, Live, Talks
  <1> QED
    BY <1>2, <1>4

LEMMA ReviewRoundsStays ==
  ASSUME ReviewRounds, SameTurns
  PROVE  ReviewRounds'
  <1>1. \A r, p : Of(r, p)' = Of(r, p)
    BY OfStays
  <1> QED
    BY <1>1 DEF ReviewRounds

\* A step of one run at most keeps the invariant if that run ends up in place.
LEMMA OneRun ==
  ASSUME IInv, NEW r \in Run, SameTurns, TypeOK', PlanHeld', recovery' = "probing" => snap' > 0,
         PlaceOf(r)', RoundsOf(r)', born' >= born,
         \A u \in Run \ {r} : pc'[u] = pc[u] /\ me'[u] = me[u]
  PROVE  IInv'
  <1>0. born' \in Nat
    BY BoundsAssumption DEF TypeOK
  <1>1. ASSUME NEW u \in Run PROVE PlaceOf(u)' /\ RoundsOf(u)'
    <2>1. CASE u = r
      BY <2>1
    <2>2. CASE u # r
      BY <1>0, <2>2, Unmoved
    <2> QED
      BY <2>1, <2>2
  <1>2. ReviewRounds'
    BY ReviewRoundsStays DEF IInv
  <1> QED
    BY <1>1, <1>2 DEF IInv

\* And so does a step of none.
LEMMA NoRun ==
  ASSUME IInv, SameTurns, TypeOK', recovery' = "probing" => snap' > 0,
         phase' = phase, approved' = approved, snap' = snap \/ snap' = phase,
         UNCHANGED <<pc, me, born>>
  PROVE  IInv'
  <1>0. born' \in Nat /\ born' >= born
    BY BoundsAssumption DEF TypeOK, IInv
  <1>1. ASSUME NEW u \in Run PROVE PlaceOf(u)' /\ RoundsOf(u)'
    BY <1>0, Unmoved
  <1>2. ReviewRounds'
    BY ReviewRoundsStays DEF IInv
  <1>3. PlanHeld'
    BY DEF IInv, PlanHeld
  <1> QED
    BY <1>1, <1>2, <1>3 DEF IInv

\* A run that ends.
LEMMA OverKeeps ==
  ASSUME IInv, NEW r \in Run, Live(r), Over(r), SameTurns,
         status' \in Status, registry' \in Seq(Run), UNCHANGED <<phase, born, hub>>
  PROVE  IInv'
  <1>0. TypeOK /\ PlaceOf(r)
    BY DEF IInv
  <1>1. TypeOK'
    BY <1>0, Sizes DEF TypeOK, Over, hub, SameTurns, PC, Locals, Nobody, Op
  <1>2. pc'[r] = "ended" /\ me'[r] = Nobody /\ born' = born
    BY <1>0 DEF TypeOK, Over
  <1>3. PlaceOf(r)'
    BY <1>0, <1>2, Sizes DEF PlaceOf, Live, Talks, Nobody
  <1>4. RoundsOf(r)'
    BY <1>2, Sizes DEF RoundsOf, Fresh, Live, Talks, Nobody
  <1>5. PlanHeld'
    <2>1. \A u \in Run : me'[u] = me[u] \/ me'[u].at = 0
      BY <1>0 DEF TypeOK, Over, Nobody
    <2> QED
      BY <2>1 DEF PlanHeld, IInv, hub, Planning
  <1>6. \A u \in Run \ {r} : pc'[u] = pc[u] /\ me'[u] = me[u]
    BY <1>0 DEF TypeOK, Over
  <1>7. born' \in Nat /\ born' >= born
    BY <1>0, <1>2, BoundsAssumption DEF TypeOK
  <1> QED
    BY <1>1, <1>3, <1>4, <1>5, <1>6, <1>7, OneRun DEF hub, IInv

LEMMA EndKeeps ==
  ASSUME IInv, NEW r \in Run, Live(r), End(r), SameTurns,
         status' \in Status, UNCHANGED <<phase, born, hub>>
  PROVE  IInv'
  BY OverKeeps DEF End

\* A run that comes to the head of the loop at phase i with selfReviewCount n.
LEMMA LoopHeadKeeps ==
  ASSUME IInv, NEW r \in Run, NEW i \in 1..(N + 1), NEW n \in Nat, LoopHead(r, i, n),
         SameTurns, UNCHANGED <<born, hub>>, Live(r), ~Talks(r), n < MaxRounds,
         PlanIsGated /\ ~approved => i <= Planning,
         \A p \in Phase : Cardinality(Of(r, p)) <= n + (IF p < i THEN 1 ELSE 0)
  PROVE  IInv'
  <1>0. TypeOK /\ PlaceOf(r) /\ N \in Nat /\ N >= 2 /\ me[r].op \in Op
    BY Sizes DEF IInv, TypeOK, Locals
  <1>1. CASE status' \in {"failed", "pending_approval"} /\ End(r) /\ UNCHANGED phase
    BY <1>1, EndKeeps DEF Status
  <1>2. ASSUME NEW x \in {"finishing", "prep"}, pc' = [pc EXCEPT ![r] = x],
               me' = [me EXCEPT ![r].at = i, ![r].tries = n],
               x = "finishing" => i = N + 1, x = "prep" => i \in Phase,
               status' \in Status, phase' = phase \/ (phase' = i /\ i <= N), UNCHANGED registry
        PROVE  IInv'
    <2>1. TypeOK'
      <3>1. [me[r] EXCEPT !.at = i, !.tries = n] \in Locals
        <4>1. me[r] \in Locals /\ i \in 0..(N + 1)
          BY <1>0 DEF TypeOK
        <4> HIDE <1>0
        <4> QED
          BY <4>1 DEF Locals
      <3>2. me' \in [Run -> Locals]
        BY <1>0, <1>2, <3>1 DEF TypeOK
      <3>3. pc' \in [Run -> PC]
        BY <1>0, <1>2 DEF TypeOK, PC
      <3>4. phase' \in 0..N
        BY <1>0, <1>2 DEF TypeOK
      <3> QED
        BY <1>0, <1>2, <3>2, <3>3, <3>4 DEF TypeOK, hub, SameTurns
    <2>2. /\ pc'[r] = x /\ me'[r].op = me[r].op /\ me'[r].at = i /\ me'[r].tries = n
          /\ \A u \in Run \ {r} : pc'[u] = pc[u] /\ me'[u] = me[u]
      BY <1>0, <1>2 DEF TypeOK, Locals
    <2>3. PlaceOf(r)'
      BY <1>0, <1>2, <2>2 DEF PlaceOf, Live, Talks, Phase
    <2>4. RoundsOf(r)'
      <3>1. ~Fresh(r)'
        BY <1>2, <2>2 DEF Fresh, Talks
      <3>2. ASSUME NEW p \in Phase PROVE Cardinality(Of(r, p)') <= Rounds(r, p)'
        <4>1. Of(r, p)' = Of(r, p)
          BY OfStays
        <4>2. Rounds(r, p)' = n + (IF p < i THEN 1 ELSE 0)
          BY <1>2, <2>2 DEF Rounds
        <4> QED
          BY <4>1, <4>2
      <3> QED
        BY <3>1, <3>2, <2>2 DEF RoundsOf
    <2>5. PlanHeld'
      <3>1. \A u \in Run : me'[u].at = me[u].at \/ me'[u].at = i
        BY <2>2
      <3> QED
        BY <1>2, <3>1 DEF PlanHeld, IInv, hub
    <2>6. born \in Nat /\ born' = born /\ (recovery' = "probing" => snap' > 0)
      BY <1>0, BoundsAssumption DEF TypeOK, hub, IInv
    <2> QED
      BY <2>1, <2>2, <2>3, <2>4, <2>5, <2>6, OneRun
  <1>3. CASE i > N
    <2>1. /\ pc' = [pc EXCEPT ![r] = "finishing"] /\ me' = [me EXCEPT ![r].at = i, ![r].tries = n]
          /\ UNCHANGED <<status, phase, registry>>
      BY <1>0, <1>3 DEF LoopHead, row
    <2>2. status' \in Status /\ i = N + 1
      BY <1>0, <1>3, <2>1 DEF TypeOK
    <2> QED
      BY <2>1, <2>2, <1>2
  <1>4. CASE i <= N
    BY <1>0, <1>1, <1>2, <1>4 DEF LoopHead, Status, Phase
  <1> QED
    BY <1>0, <1>3, <1>4

\* A run is called, in a phase that is not past a plan that waits.
LEMMA CalledKeeps ==
  ASSUME IInv, NEW o \in Op \ {"none", "loop"}, NEW i \in 0..N, Called(o, i), SameTurns,
         status' \in Status, phase' \in 0..N, approved' \in BOOLEAN,
         PlanIsGated /\ ~approved' => ~approved /\ i <= Planning /\ phase' <= Planning,
         recovery' = recovery \/ recovery' = "idle", UNCHANGED <<route, snap, crashes>>
  PROVE  IInv'
  <1>a. PICK r \in Run : r = born + 1
    BY BoundsAssumption DEF IInv, TypeOK, Called, Run
  <1>0. TypeOK /\ born \in Nat /\ born' = r /\ r = born + 1 /\ i \in Nat /\ N \in Nat
    BY SMTT(30), <1>a, BoundsAssumption, Sizes DEF IInv, TypeOK, Called
  <1>1. pc[r] = "none" /\ PlaceOf(r) /\ RoundsOf(r)
    BY <1>0 DEF IInv, PlaceOf
  <1>2. /\ pc'[r] = (IF o = "execute" THEN "called" ELSE "opening")
        /\ me'[r] = [op |-> o, at |-> i, tries |-> 0, aborted |-> FALSE]
        /\ \A u \in Run \ {r} : pc'[u] = pc[u] /\ me'[u] = me[u]
    BY <1>0 DEF Called, Nobody, TypeOK
  <1>3. TypeOK'
    <2>1. pc' \in [Run -> PC]
      BY <1>0 DEF Called, TypeOK, PC
    <2>2. me' \in [Run -> Locals]
      <3>1. me' = [me EXCEPT ![r] = me'[r]]
        BY <1>0 DEF Called, TypeOK
      <3>2. i \in 0..(N + 1)
        BY <1>0
      <3>3. [op |-> o, at |-> i, tries |-> 0, aborted |-> FALSE] \in Locals
        BY <3>2 DEF Locals
      <3> QED
        BY <1>0, <1>2, <3>1, <3>3 DEF TypeOK
    <2>3. born' \in 0..MaxRuns
      BY <1>0 DEF Run
    <2> QED
      BY <1>0, <2>1, <2>2, <2>3 DEF Called, TypeOK, SameTurns
  <1>4. PlaceOf(r)'
    BY <1>0, <1>2 DEF PlaceOf, Live, Talks
  <1>5. RoundsOf(r)'
    <2>1. \A p \in Phase : Of(r, p)' = {}
      BY <1>1, OfStays DEF RoundsOf, Fresh
    <2>2. \A p \in Phase : Cardinality(Of(r, p)') <= Rounds(r, p)'
      BY <2>1, <1>2, FS_EmptySet DEF Rounds
    <2> QED
      BY <2>1, <2>2, <1>2, Sizes DEF RoundsOf
  <1>6. PlanHeld'
    <2>1. \A u \in Run : me'[u].at = me[u].at \/ me'[u].at = i
      BY <1>2
    <2> QED
      BY <2>1 DEF PlanHeld, IInv
  <1>7. born' >= born /\ (recovery' = "probing" => snap' > 0)
    BY <1>0 DEF IInv
  <1> QED
    BY <1>0, <1>2, <1>3, <1>4, <1>5, <1>6, <1>7, OneRun

\* A run that goes on to another of its places.
LEMMA MoveKeeps ==
  ASSUME IInv, NEW r \in Run, Live(r), NEW x \in PC, pc' = [pc EXCEPT ![r] = x],
         me' = me \/ me' = [me EXCEPT ![r].op = "loop"], SameTurns,
         status' \in Status, registry' \in Seq(Run), UNCHANGED <<phase, born, hub>>,
         PlaceOf(r)', RoundsOf(r)'
  PROVE  IInv'
  <1>0. TypeOK /\ born \in Nat /\ born' = born
    BY BoundsAssumption DEF IInv, TypeOK
  <1>1. me' \in [Run -> Locals]
    <2>1. [me[r] EXCEPT !.op = "loop"] \in Locals
      <3>1. me[r] \in Locals
        BY <1>0 DEF TypeOK
      <3> QED
        BY <3>1 DEF Locals, Op
    <2> QED
      BY <1>0, <2>1 DEF TypeOK
  <1>2. TypeOK'
    BY <1>0, <1>1 DEF TypeOK, hub, SameTurns
  <1>3. ASSUME NEW u \in Run PROVE me'[u].at = me[u].at
    <2>1. me[u] \in Locals /\ me \in [Run -> Locals]
      BY <1>0 DEF TypeOK
    <2>2. [me[u] EXCEPT !.op = "loop"].at = me[u].at
      BY <2>1 DEF Locals
    <2>3. me'[u] = me[u] \/ me'[u] = [me[u] EXCEPT !.op = "loop"]
      BY <2>1
    <2> QED
      BY <2>2, <2>3
  <1>4. PlanHeld'
    BY <1>3 DEF PlanHeld, IInv, hub
  <1>5. \A u \in Run \ {r} : pc'[u] = pc[u] /\ me'[u] = me[u]
    BY <1>0 DEF TypeOK
  <1> QED
    BY <1>0, <1>2, <1>4, <1>5, OneRun DEF hub, IInv

LEMMA TurnsStay ==
  ASSUME IInv, UNCHANGED turns
  PROVE  SameTurns
  BY DEF IInv, TypeOK, SameTurns

LEMMA InPlace ==
  ASSUME IInv, NEW r \in Run
  PROVE  /\ TypeOK /\ PlaceOf(r) /\ RoundsOf(r)
         /\ pc[r] \in PC /\ me[r] \in Locals /\ registry \in Seq(Run) /\ status \in Status
         /\ N \in Nat /\ N >= 2
  BY Sizes DEF IInv, TypeOK

LEMMA ExecuteKeeps == ASSUME IInv, Execute PROVE IInv'
  <1>1. phase \in 0..N /\ TypeOK
    BY DEF IInv, TypeOK
  <1>2. PlanIsGated /\ ~approved => phase <= Planning
    BY DEF IInv, PlanHeld
  <1>3. SameTurns
    BY TurnsStay DEF Execute
  <1>4. PICK o \in {"execute"} : Called(o, phase)
    BY DEF Execute
  <1>5. o \in Op \ {"none", "loop"}
        /\ UNCHANGED <<status, phase, route, recovery, snap, crashes, approved>>
    BY DEF Execute, row, hub, Op
  <1> QED
    BY <1>1, <1>2, <1>3, <1>4, <1>5, CalledKeeps DEF TypeOK

LEMMA FollowUpKeeps == ASSUME IInv, FollowUp PROVE IInv'
  <1>1. phase \in 0..N /\ TypeOK
    BY DEF IInv, TypeOK
  <1>2. PlanIsGated /\ ~approved => phase <= Planning
    BY DEF IInv, PlanHeld
  <1>3. SameTurns
    BY TurnsStay DEF FollowUp
  <1>4. PICK o \in {"follow_up", "answer"} : Called(o, phase)
    BY DEF FollowUp
  <1>5. o \in Op \ {"none", "loop"} /\ status' \in Status /\ phase' = phase
        /\ UNCHANGED <<route, recovery, snap, crashes, approved>>
    BY DEF FollowUp, Op, Status, hub
  <1> QED
    BY <1>1, <1>2, <1>3, <1>4, <1>5, CalledKeeps DEF TypeOK

LEMMA ApproveKeeps == ASSUME IInv, Approve PROVE IInv'
  <1>1. Implementing \in 0..N
    BY Sizes DEF Implementing
  <1> QED
    BY <1>1, TurnsStay, CalledKeeps DEF Approve, Op, Status

LEMMA RePlanKeeps == ASSUME IInv, RePlan PROVE IInv'
  <1>1. Planning \in 0..N /\ Planning <= Planning /\ TypeOK
    BY Sizes DEF Planning, IInv
  <1> QED
    BY <1>1, TurnsStay, CalledKeeps DEF RePlan, Op, Status, hub, TypeOK

LEMMA RejectPlanKeeps == ASSUME IInv, RejectPlan PROVE IInv'
  <1>1. TypeOK'
    BY DEF RejectPlan, IInv, TypeOK, hub, Status
  <1> QED
    BY <1>1, TurnsStay, NoRun DEF RejectPlan, hub, IInv

LEMMA ClaimKeeps == ASSUME IInv, NEW r \in Run, Claim(r) PROVE IInv'
  <1>0. Live(r) /\ SameTurns
    BY TurnsStay DEF Claim, Live
  <1>1. CASE Over(r)
    BY <1>0, <1>1, InPlace, OverKeeps DEF Claim, Status
  <1>2. CASE ~Over(r)
    <2>1. pc' = [pc EXCEPT ![r] = "opening"] /\ status' = "in_progress" /\ me' = me
      BY <1>2 DEF Claim
    <2>2. pc[r] = "called" /\ pc'[r] = "opening" /\ me'[r] = me[r] /\ born' = born
      BY <2>1, InPlace DEF Claim, TypeOK
    <2>3. PlaceOf(r)'
      BY <2>2, InPlace DEF PlaceOf, Live, Talks
    <2>4. RoundsOf(r)'
      <3>1. \A p : Of(r, p)' = Of(r, p)
        BY <1>0, OfStays
      <3> QED
        BY <3>1, <2>2, InPlace DEF RoundsOf, Fresh, Live, Talks, Rounds
    <2> QED
      BY <1>0, <2>1, <2>3, <2>4, InPlace, MoveKeeps DEF Claim, PC, Status
  <1> QED
    BY <1>1, <1>2

LEMMA OpeningFailsKeeps == ASSUME IInv, NEW r \in Run, OpeningFails(r) PROVE IInv'
  <1>1. status' \in Status
    BY InPlace DEF OpeningFails, Status, Locals, Op
  <1> QED
    BY <1>1, TurnsStay, InPlace, OverKeeps DEF OpeningFails, Live

LEMMA ResumeRefusedKeeps == ASSUME IInv, NEW r \in Run, ResumeRefused(r) PROVE IInv'
  <1>1. registry' \in Seq(Run)
    BY InPlace DEF ResumeRefused
  <1> QED
    BY <1>1, TurnsStay, OverKeeps DEF ResumeRefused, Live, Status

LEMMA RegisterKeeps == ASSUME IInv, NEW r \in Run, Register(r) PROVE IInv'
  <1>1. registry' \in Seq(Run)
    BY InPlace DEF Register
  <1> DEFINE x == IF Talks(r) THEN "prep" ELSE "starting"
  <1>2. pc[r] = "opening" /\ pc'[r] = x /\ me' = me /\ born' = born
    BY InPlace DEF Register, TypeOK
  <1>3. SameTurns
    BY TurnsStay DEF Register
  <1>4. PlaceOf(r)'
    BY <1>2, InPlace DEF PlaceOf, Live, Talks
  <1>5. RoundsOf(r)'
    <2>1. \A p : Of(r, p)' = Of(r, p)
      BY <1>3, OfStays
    <2>2. Of(r, 1) = {} => Cardinality(Of(r, 1)) = 0
      BY FS_EmptySet
    <2>3. \A p \in Phase : Of(r, p) = {} /\ Cardinality(Of(r, p)) = 0
      BY <1>2, InPlace, FS_EmptySet DEF RoundsOf, Fresh
    <2>4. Fresh(r)' /\ me[r].tries \in Nat
      BY <1>2, InPlace DEF Fresh, Talks, Locals
    <2> QED
      BY <2>1, <2>3, <2>4, <1>2, InPlace DEF RoundsOf, Rounds
  <1> QED
    BY <1>1, <1>2, <1>3, <1>4, <1>5, InPlace, MoveKeeps DEF Register, Live, PC, row

LEMMA StartKeeps == ASSUME IInv, NEW r \in Run, Start(r) PROVE IInv'
  <1> DEFINE i == IF me[r].at = 0 THEN 1 ELSE me[r].at
  <1>1. Live(r) /\ ~Talks(r) /\ me[r].at \in 0..N
    BY InPlace DEF Start, Live, PlaceOf, Locals
  <1>2. i \in 1..(N + 1) /\ LoopHead(r, i, 0)
    BY <1>1, InPlace DEF Start
  <1>3. PlanIsGated /\ ~approved => i <= Planning
    BY <1>1 DEF IInv, PlanHeld, Planning
  <1>4. \A p \in Phase : Cardinality(Of(r, p)) = 0
    BY InPlace, FS_EmptySet DEF Start, RoundsOf, Fresh
  <1>5. \A p \in Phase : Cardinality(Of(r, p)) <= 0 + (IF p < i THEN 1 ELSE 0)
    BY <1>4
  <1>6. SameTurns /\ UNCHANGED <<born, hub>>
    BY TurnsStay DEF Start
  <1> HIDE DEF i
  <1> QED
    BY <1>1, <1>2, <1>3, <1>5, <1>6, Sizes, LoopHeadKeeps

LEMMA SentKeeps == ASSUME IInv, NEW r \in Run, Sent(r) PROVE IInv'
  <1>1. pc[r] = "sending" /\ pc'[r] = "waiting" /\ me' = me /\ born' = born
    BY InPlace DEF Sent, TypeOK
  <1>2. SameTurns
    BY TurnsStay DEF Sent
  <1>3. PlaceOf(r)'
    BY <1>1, InPlace DEF PlaceOf, Live, Talks
  <1>4. RoundsOf(r)'
    <2>1. \A p : Of(r, p)' = Of(r, p)
      BY <1>2, OfStays
    <2> QED
      BY <2>1, <1>1, InPlace DEF RoundsOf, Fresh, Talks, Live, Rounds
  <1> QED
    BY <1>1, <1>2, <1>3, <1>4, InPlace, MoveKeeps DEF Sent, Live, PC, row

LEMMA FailsKeeps == ASSUME IInv, NEW r \in Run, Fails(r) PROVE IInv'
  BY TurnsStay, EndKeeps DEF Fails, Live, Status

LEMMA AfterFollowUpKeeps ==
  ASSUME IInv, NEW r \in Run, pc[r] \in {"waiting", "reading"}, Talks(r), AfterFollowUp(r),
         SameTurns, UNCHANGED <<born, hub>>
  PROVE  IInv'
  <1>0. Live(r)
    BY DEF Live
  <1>1. CASE me[r].at > 0
    <2>1. /\ pc' = [pc EXCEPT ![r] = "starting"] /\ me' = [me EXCEPT ![r].op = "loop"]
          /\ UNCHANGED <<status, phase, registry>>
      BY <1>1 DEF AfterFollowUp, row
    <2>2. /\ pc'[r] = "starting" /\ me'[r].op = "loop" /\ me'[r].at = me[r].at
          /\ me'[r].tries = me[r].tries /\ born' = born
      BY <2>1, InPlace DEF TypeOK, Locals
    <2>3. PlaceOf(r)'
      BY <2>2, <1>0, InPlace DEF PlaceOf, Live, Talks
    <2>4. RoundsOf(r)'
      <3>1. \A p \in Phase : Of(r, p)' = {} /\ Cardinality(Of(r, p)') = 0
        BY OfStays, InPlace, FS_EmptySet DEF RoundsOf, Fresh
      <3>2. me[r].tries \in Nat
        BY InPlace DEF Locals
      <3> QED
        BY <3>1, <3>2, <2>2, InPlace DEF RoundsOf, Rounds
    <2> QED
      BY <1>0, <2>1, <2>3, <2>4, InPlace, MoveKeeps DEF PC
  <1>2. CASE ~(me[r].at > 0)
    BY <1>0, <1>2, EndKeeps DEF AfterFollowUp, Status
  <1> QED
    BY <1>1, <1>2

LEMMA WaitEndsKeeps ==
  ASSUME IInv, NEW r \in Run, NEW c \in Class, WaitEnds(r, c)
  PROVE  IInv'
  <1>0. Live(r) /\ pc[r] = "waiting" /\ UNCHANGED <<born, hub>>
    BY DEF WaitEnds, Live
  <1>1. SameTurns
    <2>1. Inferred(c) \in TurnStatus /\ "aborted" \in TurnStatus
      BY DEF Inferred, Class, TurnStatus
    <2>2. PICK s \in TurnStatus : turns' = turns \/ turns' = [turns EXCEPT ![TurnOf(r)].status = s]
      BY <2>1 DEF WaitEnds
    <2> QED
      BY <2>2, InPlace, SetStatus DEF TypeOK
  <1>2. CASE status' \in {"waiting_input", "failed"} /\ End(r) /\ UNCHANGED phase
    BY <1>0, <1>1, <1>2, EndKeeps DEF Status
  <1>3. CASE Talks(r) /\ AfterFollowUp(r)
    BY <1>0, <1>1, <1>3, AfterFollowUpKeeps
  <1>4. CASE pc' = [pc EXCEPT ![r] = "reading"] /\ UNCHANGED <<row, me, registry>>
    <2>1. pc'[r] = "reading" /\ me' = me /\ born' = born
      BY <1>0, <1>4, InPlace DEF TypeOK
    <2>2. PlaceOf(r)'
      BY <1>0, <2>1, InPlace DEF PlaceOf, Live, Talks
    <2>3. RoundsOf(r)'
      <3>1. \A p : Of(r, p)' = Of(r, p)
        BY <1>1, OfStays
      <3> QED
        BY <3>1, <2>1, <1>0, InPlace DEF RoundsOf, Fresh, Talks, Live, Rounds
    <2> QED
      BY <1>0, <1>1, <1>4, <2>2, <2>3, InPlace, MoveKeeps DEF PC, row
  <1> QED
    BY <1>2, <1>3, <1>4 DEF WaitEnds

LEMMA ReadFollowUpKeeps == ASSUME IInv, NEW r \in Run, ReadFollowUp(r) PROVE IInv'
  <1>1. CASE AskForReview(r)
    BY <1>1, TurnsStay, EndKeeps DEF ReadFollowUp, AskForReview, Live, Status
  <1>2. CASE AfterFollowUp(r)
    BY <1>2, TurnsStay, AfterFollowUpKeeps DEF ReadFollowUp
  <1> QED
    BY <1>1, <1>2 DEF ReadFollowUp

LEMMA RejectKeeps == ASSUME IInv, NEW r \in Run, Reject(r) PROVE IInv'
  <1>1. SameTurns
    BY InPlace, SetStatus DEF Reject, TypeOK, TurnStatus
  <1> QED
    BY <1>1, EndKeeps DEF Reject, Live, Status

LEMMA FinishKeeps == ASSUME IInv, NEW r \in Run, Finish(r) PROVE IInv'
  BY TurnsStay, EndKeeps DEF Finish, Live, Status

LEMMA ConcludeKeeps == ASSUME IInv, NEW r \in Run, Conclude(r) PROVE IInv'
  <1>0. /\ pc[r] = "reading" /\ ~Talks(r) /\ Live(r) /\ UNCHANGED <<born, hub>> /\ SameTurns
        /\ me[r].at \in Phase /\ me[r].tries \in Nat /\ me[r].tries < MaxRounds
    BY InPlace, TurnsStay DEF Conclude, Live, PlaceOf, RoundsOf, Locals
  <1>1. CASE AsksForReview(me[r].at)
    BY <1>0, <1>1, EndKeeps DEF Conclude, AskForReview, Status
  <1>2. ASSUME ~AsksForReview(me[r].at) PROVE ~(PlanIsGated /\ ~approved)
    BY <1>0, <1>2 DEF AsksForReview, PlanIsGated, IInv, PlanHeld, Planning, Phase
  <1>3. ASSUME NEW p \in Phase
        PROVE  Cardinality(Of(r, p)) <= me[r].tries + (IF p < me[r].at + 1 THEN 1 ELSE 0)
    <2>1. Cardinality(Of(r, p)) <= Rounds(r, p)
      BY <1>0, InPlace DEF RoundsOf
    <2> QED
      BY <1>0, <2>1, Sizes DEF Rounds, Phase
  <1>4. CASE ~AsksForReview(me[r].at) /\ RollsBack(r)
    <2> DEFINE i == Phases[me[r].at].rollback
               n == me[r].tries + 1
    <2>1. i \in 1..(N + 1) /\ n \in Nat /\ LoopHead(r, i, n)
      BY <1>0, <1>4, PhaseOf, Sizes DEF RollsBack, Conclude
    <2>2. n < MaxRounds
      BY <1>0, <1>4, BoundsAssumption DEF RollsBack, MaxRounds
    <2>3. ASSUME NEW p \in Phase PROVE Cardinality(Of(r, p)) <= n + (IF p < i THEN 1 ELSE 0)
      <3>1. Cardinality(Of(r, p)) \in Nat /\ p \in Nat /\ i \in Nat
        BY <2>1, OfFinite, InPlace, Sizes DEF TypeOK, Phase
      <3> QED
        BY <3>1, <1>0, <1>3, Sizes DEF Phase
    <2> HIDE DEF i, n
    <2> QED
      BY <1>0, <1>2, <1>4, <2>1, <2>2, <2>3, LoopHeadKeeps
  <1>5. CASE ~AsksForReview(me[r].at) /\ ~RollsBack(r)
    <2> DEFINE i == me[r].at + 1
               n == me[r].tries
    <2>1. i \in 1..(N + 1) /\ n \in Nat /\ n < MaxRounds /\ LoopHead(r, i, n)
      BY <1>0, <1>5, Sizes DEF Conclude, Phase
    <2>2. \A p \in Phase : Cardinality(Of(r, p)) <= n + (IF p < i THEN 1 ELSE 0)
      BY <1>3
    <2> HIDE DEF i, n
    <2> QED
      BY <1>0, <1>2, <1>5, <2>1, <2>2, LoopHeadKeeps
  <1> QED
    BY <1>1, <1>4, <1>5

LEMMA OneMore ==
  ASSUME NEW S, NEW x, IsFiniteSet(S), Cardinality(S) \in Nat
  PROVE  Cardinality(S \cup {x}) \in Nat /\ Cardinality(S \cup {x}) <= Cardinality(S) + 1
  BY FS_AddElement

\* The one step that gives a phase another turn.
LEMMA BuildEnvelopeKeeps == ASSUME IInv, NEW r \in Run, BuildEnvelope(r) PROVE IInv'
  <1> DEFINE t == [run |-> r, phase |-> IF Talks(r) THEN 0 ELSE me[r].at,
                   status |-> "running", said |-> FALSE]
             S == SupersedeRunning
  <1>0. /\ TypeOK /\ turns \in Seq(Turn) /\ pc[r] = "prep" /\ PlaceOf(r) /\ RoundsOf(r)
        /\ me[r].at \in 0..(N + 1) /\ me[r].tries \in Nat /\ N \in Nat /\ Len(turns) \in Nat
    BY InPlace, LenProperties DEF BuildEnvelope, TypeOK, Locals
  <1>1. t \in Turn
    <2>1. ~Talks(r) => me[r].at \in Phase
      BY <1>0 DEF PlaceOf
    <2> QED
      BY <2>1, <1>0 DEF Turn, TurnStatus, Phase
  <1>2. /\ S \in Seq(Turn) /\ Len(S) = Len(turns)
        /\ \A k \in 1..Len(turns) : S[k].run = turns[k].run /\ S[k].phase = turns[k].phase
    BY <1>0, Superseded
  <1>3. /\ turns' \in Seq(Turn) /\ Len(turns') = Len(turns) + 1
        /\ \A k \in 1..Len(turns) : turns'[k] = S[k]
        /\ turns'[Len(turns) + 1] = t
    <2>1. turns' = Append(S, t)
      BY DEF BuildEnvelope
    <2> HIDE DEF S, t
    <2> QED
      BY <2>1, <1>1, <1>2
  <1>4. /\ pc' = [pc EXCEPT ![r] = "sending"] /\ me' = me /\ born' = born /\ phase' = phase
        /\ UNCHANGED hub
    BY DEF BuildEnvelope, row
  <1>5. TypeOK'
    BY <1>0, <1>3 DEF BuildEnvelope, TypeOK, row, hub, PC
  <1>6. pc'[r] = "sending" /\ \A u \in Run \ {r} : pc'[u] = pc[u]
    BY <1>0, <1>4 DEF TypeOK
  <1>7. ASSUME NEW u \in Run, NEW p \in Phase
        PROVE  Of(u, p)' = Of(u, p) \cup
                   (IF u = r /\ ~Talks(r) /\ p = me[r].at THEN {Len(turns) + 1} ELSE {})
    <2> HIDE DEF S
    <2>1. \A k \in 1..Len(turns') : k \in 1..Len(turns) \/ k = Len(turns) + 1
      BY <1>0, <1>3
    <2>2. \A k \in 1..Len(turns) : k \in 1..Len(turns') /\ k # Len(turns) + 1
              /\ turns'[k].run = turns[k].run /\ turns'[k].phase = turns[k].phase
      BY <1>0, <1>2, <1>3
    <2>3. Len(turns) + 1 \in 1..Len(turns')
      BY <1>0, <1>3
    <2>4. t.run = r /\ (t.phase = p <=> ~Talks(r) /\ p = me[r].at)
      BY <1>0 DEF Phase
    <2> HIDE DEF t
    <2> QED
      BY <2>1, <2>2, <2>3, <2>4, <1>3 DEF Of
  <1>8. ASSUME NEW u \in Run, u # r PROVE PlaceOf(u)' /\ RoundsOf(u)'
    <2>1. \A p \in Phase : Of(u, p)' = Of(u, p)
      BY <1>7, <1>8
    <2>2. pc'[u] = pc[u] /\ me'[u] = me[u] /\ PlaceOf(u) /\ RoundsOf(u)
      BY <1>4, <1>6, <1>8 DEF IInv
    <2> QED
      BY <1>4, <2>1, <2>2 DEF PlaceOf, RoundsOf, Fresh, Rounds, Live, Talks
  <1>9. PlaceOf(r)'
    BY <1>0, <1>4, <1>6 DEF PlaceOf, Live, Talks
  <1>10. ASSUME NEW p \in Phase
         PROVE  /\ Cardinality(Of(r, p)') <= Rounds(r, p)'
                /\ Talks(r) => Of(r, p)' = {}
    <2>1. Cardinality(Of(r, p)) <= Rounds(r, p) /\ (Talks(r) => Of(r, p) = {})
      BY <1>0 DEF RoundsOf, Fresh, Live
    <2>2. Rounds(r, p)' = me[r].tries + (IF p < me[r].at \/ p = me[r].at THEN 1 ELSE 0)
      BY <1>4, <1>6 DEF Rounds
    <2>3. Rounds(r, p) = me[r].tries + (IF p < me[r].at THEN 1 ELSE 0)
      BY <1>0 DEF Rounds
    <2>4. IsFiniteSet(Of(r, p)) /\ Cardinality(Of(r, p)) \in Nat
      BY <1>0, OfFinite
    <2>5. CASE ~Talks(r) /\ p = me[r].at
      <3>1. Cardinality(Of(r, p)') <= Cardinality(Of(r, p)) + 1
        <4>1. Of(r, p)' = Of(r, p) \cup {Len(turns) + 1}
          BY <2>5, <1>7
        <4>2. /\ Cardinality(Of(r, p) \cup {Len(turns) + 1}) \in Nat
              /\ Cardinality(Of(r, p) \cup {Len(turns) + 1}) <= Cardinality(Of(r, p)) + 1
          BY <2>4, OneMore
        <4> QED
          BY <4>1, <4>2, Zenon
      <3>2. Cardinality(Of(r, p)') \in Nat /\ p \in Nat
        <4>1. Of(r, p)' = Of(r, p) \cup {Len(turns) + 1}
          BY <2>5, <1>7
        <4>2. Cardinality(Of(r, p) \cup {Len(turns) + 1}) \in Nat
          BY <2>4, OneMore
        <4>3. p \in Nat
          BY <1>0 DEF Phase
        <4> QED
          BY <4>1, <4>2, <4>3, Zenon
      <3> QED
        BY <3>1, <3>2, <2>1, <2>2, <2>3, <2>4, <2>5, <1>0
    <2>6. CASE ~(~Talks(r) /\ p = me[r].at)
      <3>1. Of(r, p)' = Of(r, p)
        BY <2>6, <1>7
      <3>2. p \in Nat
        BY <1>0 DEF Phase
      <3> QED
        BY <3>1, <3>2, <2>1, <2>2, <2>3, <2>4, <1>0
    <2> QED
      BY <2>5, <2>6
  <1>11. RoundsOf(r)'
    BY <1>0, <1>4, <1>6, <1>10 DEF RoundsOf, Fresh, Talks
  <1>12. ASSUME NEW u \in Run, NEW p \in Phase PROVE (Cardinality(Of(u, p)) <= MaxRounds)'
    <2>1. CASE u = r /\ p = me[r].at /\ ~Talks(r)
      <3>1. Rounds(r, p)' = me[r].tries + 1
        BY <2>1, <1>4, <1>6 DEF Rounds
      <3>2. me[r].tries + 1 <= MaxRounds
        BY <1>0, Sizes DEF RoundsOf
      <3>3. Cardinality(Of(r, p)') \in Nat
        <4>1. Of(r, p)' = Of(r, p) \cup {Len(turns) + 1}
          BY <2>1, <1>7
        <4>2. IsFiniteSet(Of(r, p)) /\ Cardinality(Of(r, p)) \in Nat
          BY <1>0, OfFinite
        <4>3. Cardinality(Of(r, p) \cup {Len(turns) + 1}) \in Nat
          BY <4>2, OneMore
        <4> QED
          BY <4>1, <4>3, Zenon
      <3> QED
        BY <3>1, <3>2, <3>3, <1>0, <1>10, <2>1, Sizes
    <2>2. CASE ~(u = r /\ p = me[r].at /\ ~Talks(r))
      <3>1. Of(u, p)' = Of(u, p)
        BY <2>2, <1>7
      <3> QED
        BY <3>1 DEF IInv, ReviewRounds
    <2> QED
      BY <2>1, <2>2
  <1>13. PlanHeld'
    BY <1>4 DEF PlanHeld, IInv, hub
  <1> QED
    BY <1>4, <1>5, <1>8, <1>9, <1>11, <1>12, <1>13 DEF IInv, ReviewRounds, hub

LEMMA AgentSaysKeeps ==
  ASSUME IInv, NEW k, NEW s \in {"completed", "test_failed", "questions", "failed"}, AgentSays(k, s)
  PROVE  IInv'
  <1>1. SameTurns
    BY InPlace, SetStatus DEF AgentSays, IInv, TypeOK, TurnStatus
  <1>2. TypeOK'
    BY <1>1 DEF AgentSays, IInv, TypeOK, row, hub, SameTurns
  <1> QED
    BY <1>1, <1>2, NoRun DEF AgentSays, row, hub, IInv

\* The AbortController of one run is told.
LEMMA AbortKeeps ==
  ASSUME IInv, AbortFirst, UNCHANGED <<turns, pc, born, phase, registry, recovery, snap, crashes, approved>>,
         status' \in Status, route' \in {"none", "retry", "archive"}
  PROVE  IInv'
  <1>0. TypeOK /\ SameTurns /\ born \in Nat /\ born' = born
    BY TurnsStay, BoundsAssumption DEF IInv, TypeOK
  <1>1. CASE me' = me
    <2>1. TypeOK'
      BY <1>0, <1>1 DEF TypeOK
    <2> QED
      BY <1>0, <1>1, <2>1, NoRun DEF IInv
  <1>2. CASE me' # me
    <2>1. registry # <<>> /\ Live(registry[1]) /\ me' = [me EXCEPT ![registry[1]].aborted = TRUE]
      BY <1>2 DEF AbortFirst
    <2>2. PICK r \in Run : r = registry[1]
      BY <1>0, <2>1 DEF TypeOK
    <2>3. Live(r) /\ me' = [me EXCEPT ![r].aborted = TRUE] /\ me[r] \in Locals
      BY <1>0, <2>1, <2>2 DEF TypeOK
    <2>4. [me[r] EXCEPT !.aborted = TRUE] \in Locals
      BY <2>3 DEF Locals
    <2>5. TypeOK'
      BY <1>0, <2>3, <2>4 DEF TypeOK
    <2>6. /\ pc'[r] = pc[r] /\ me'[r].op = me[r].op /\ me'[r].at = me[r].at /\ me'[r].tries = me[r].tries
          /\ \A u \in Run \ {r} : pc'[u] = pc[u] /\ me'[u] = me[u]
      BY <1>0, <2>3 DEF TypeOK, Locals
    <2>7. PlaceOf(r)'
      BY <1>0, <2>3, <2>6, InPlace DEF PlaceOf, Live, Talks
    <2>8. RoundsOf(r)'
      <3>1. \A p : Of(r, p)' = Of(r, p)
        BY <1>0, OfStays
      <3> QED
        BY <3>1, <2>6, InPlace DEF RoundsOf, Fresh, Rounds, Live, Talks
    <2>9. PlanHeld'
      <3>1. \A u \in Run : me'[u].at = me[u].at
        BY <2>6
      <3> QED
        BY <3>1 DEF PlanHeld, IInv
    <2> QED
      BY <1>0, <2>5, <2>6, <2>7, <2>8, <2>9, OneRun DEF IInv
  <1> QED
    BY <1>1, <1>2

LEMMA StopKeeps == ASSUME IInv, Stop PROVE IInv'
  BY InPlace, AbortKeeps DEF Stop, row, hub, IInv, TypeOK

\* Only the status of the row and the route change.
LEMMA RowKeeps ==
  ASSUME IInv, UNCHANGED <<turns, pc, me, born, phase, registry, recovery, snap, crashes, approved>>,
         status' \in Status, route' \in {"none", "retry", "archive"}
  PROVE  IInv'
  <1>1. TypeOK'
    BY DEF IInv, TypeOK
  <1> QED
    BY <1>1, TurnsStay, NoRun DEF IInv

LEMMA RetryKeeps == ASSUME IInv, Retry PROVE IInv'
  <1>1. status' \in Status /\ route' \in {"none", "retry", "archive"}
    BY DEF Retry, IInv, TypeOK, Status
  <1> QED
    BY <1>1, AbortKeeps, RowKeeps DEF Retry

LEMMA ArchiveKeeps == ASSUME IInv, Archive PROVE IInv'
  <1>1. status' \in Status /\ route' \in {"none", "retry", "archive"}
    BY DEF Archive, IInv, TypeOK, Status
  <1> QED
    BY <1>1, AbortKeeps, RowKeeps DEF Archive

LEMMA CrashKeeps == ASSUME IInv, Crash PROVE IInv'
  <1>0. TypeOK /\ SameTurns /\ N \in Nat
    BY TurnsStay, Sizes DEF Crash, IInv
  <1>1. /\ pc' = [r \in Run |-> IF Live(r) THEN "ended" ELSE pc[r]] /\ me' = [r \in Run |-> Nobody]
        /\ born' = born /\ phase' = phase /\ status' = status /\ approved' = approved
        /\ recovery' = "due" /\ snap' = 0 /\ registry' = <<>> /\ route' = "none"
        /\ crashes < MaxCrashes /\ crashes' = crashes + 1
    BY DEF Crash, row
  <1>2. TypeOK'
    <2>1. Nobody \in Locals
      BY <1>0 DEF Nobody, Locals, Op
    <2>2. pc' \in [Run -> PC]
      BY <1>0, <1>1 DEF TypeOK, PC
    <2>3. crashes' \in 0..MaxCrashes
      BY <1>0, <1>1, BoundsAssumption DEF TypeOK
    <2>4. snap' \in 0..N
      BY <1>0, <1>1
    <2> QED
      BY <1>0, <1>1, <2>1, <2>2, <2>3, <2>4 DEF TypeOK, SameTurns
  <1>3. ASSUME NEW u \in Run PROVE PlaceOf(u)' /\ RoundsOf(u)'
    <2>1. pc'[u] \in {"none", "ended"} /\ me'[u] = Nobody /\ (pc'[u] = "none" => pc[u] = "none")
          /\ (pc[u] = "none" => pc'[u] = "none")
      BY <1>1, InPlace DEF Live
    <2>2. PlaceOf(u)'
      BY <2>1, <1>0, <1>1, InPlace DEF PlaceOf, Live, Talks, Nobody
    <2>3. \A p : Of(u, p)' = Of(u, p)
      BY <1>0, OfStays
    <2>4. RoundsOf(u)'
      BY <2>1, <2>3, InPlace, Sizes DEF RoundsOf, Fresh, Live, Talks, Nobody
    <2> QED
      BY <2>2, <2>4
  <1>4. ReviewRounds'
    BY <1>0, ReviewRoundsStays DEF IInv
  <1>5. PlanHeld'
    BY <1>1 DEF PlanHeld, IInv, Nobody, Planning
  <1> QED
    BY <1>1, <1>2, <1>3, <1>4, <1>5 DEF IInv

LEMMA RecoverBeginsKeeps == ASSUME IInv, RecoverBegins PROVE IInv'
  <1>1. TypeOK'
    BY Sizes DEF RecoverBegins, IInv, TypeOK, row
  <1>2. recovery' = "probing" => snap' > 0
    BY DEF RecoverBegins
  <1> QED
    BY <1>1, <1>2, TurnsStay, NoRun DEF RecoverBegins, row, IInv

LEMMA ResumeAtKeeps ==
  ASSUME IInv, NEW i \in 1..(N + 1), ResumeAt(i), PlanIsGated /\ ~approved => i <= Planning,
         recovery' = "idle", UNCHANGED <<route, snap, crashes, approved>>
  PROVE  IInv'
  <1>0. TypeOK /\ N \in Nat
    BY Sizes DEF IInv
  <1>1. CASE i > N
    <2>1. TypeOK'
      BY <1>0, <1>1 DEF ResumeAt, TypeOK, Status
    <2> QED
      BY <2>1, <1>1, TurnsStay, NoRun DEF ResumeAt, IInv
  <1>2. CASE i <= N
    <2>1. SameTurns /\ i \in 0..N
      BY <1>0, <1>2, Superseded DEF ResumeAt, SameTurns, TypeOK
    <2>2. PICK o \in {"recover"} : Called(o, i)
      BY <1>0, <1>2 DEF ResumeAt
    <2>3. o \in Op \ {"none", "loop"} /\ status' \in Status /\ phase' = i /\ approved' \in BOOLEAN
      BY <1>0, <1>2 DEF ResumeAt, Op, Status, TypeOK
    <2> QED
      BY <2>1, <2>2, <2>3, CalledKeeps
  <1> QED
    BY <1>0, <1>1, <1>2

LEMMA RecoverEndsKeeps == ASSUME IInv, RecoverEnds PROVE IInv'
  <1>0. /\ TypeOK /\ N \in Nat /\ snap \in Phase /\ recovery' = "idle"
        /\ UNCHANGED <<route, snap, crashes, approved>>
    BY Sizes DEF RecoverEnds, IInv, TypeOK, Phase
  <1>1. CASE /\ status' \in {"waiting_input", "phase_review"}
             /\ UNCHANGED <<phase, turns, born, pc, me, registry>>
    <2>1. TypeOK'
      BY <1>0, <1>1 DEF TypeOK, Status
    <2> QED
      BY <1>0, <1>1, <2>1, TurnsStay, NoRun
  <1>2. ASSUME PlanIsGated, ~approved
        PROVE  snap = Planning /\ AsksForReview(snap) /\ (Found # "completed" => TRUE \notin Complete)
    <2>1. snap = Planning
      BY <1>0, <1>2 DEF IInv, PlanHeld, Planning, Phase
    <2>2. AsksForReview(snap) /\ ~Phases[snap].pushVerify
      BY <2>1, <1>2 DEF AsksForReview, PlanIsGated, Planning
    <2>3. Found # "completed" => Complete = {FALSE}
      BY <2>2 DEF Complete
    <2> QED
      BY <2>1, <2>2, <2>3
  <1>3. CASE /\ Found = "test_failed" /\ Phases[snap].rollback > 0
             /\ ResumeAt(IF 1 < MaxSelfReview THEN Phases[snap].rollback ELSE snap + 1)
    <2>1. Phases[snap].rollback \in 0..N /\ Phases[snap].rollback < snap
      BY <1>0, PhaseOf
    <2>2. PICK i \in 1..(N + 1) : ResumeAt(i)
      <3>1. Phases[snap].rollback \in 1..(N + 1) /\ snap + 1 \in 1..(N + 1)
        BY <1>0, <1>3, <2>1 DEF Phase
      <3> QED
        <4>1. CASE 1 < MaxSelfReview
          BY <1>3, <3>1, <4>1
        <4>2. CASE ~(1 < MaxSelfReview)
          BY <1>3, <3>1, <4>2
        <4> QED
          BY <4>1, <4>2
    <2>3. snap # Planning
      BY <1>0, <1>3, <2>1 DEF Planning
    <2> QED
      BY <1>0, <1>2, <2>2, <2>3, ResumeAtKeeps
  <1>4. ASSUME Found # "questions", ~(Found = "completed" /\ AsksForReview(snap)), NEW complete \in Complete,
               IF complete THEN ResumeAt(snap + 1)
               ELSE /\ turns' = SupersedeRunning
                    /\ Called("recover", phase)
                    /\ UNCHANGED row
        PROVE  IInv'
    <2>1. CASE complete
      <3>1. ~(PlanIsGated /\ ~approved)
        <4>1. TRUE \in Complete
          <5>1. Complete \subseteq BOOLEAN
            BY DEF Complete
          <5> QED
            BY <1>4, <2>1, <5>1
        <4> QED
          BY <1>2, <1>4, <4>1
      <3>2. PICK i \in 1..(N + 1) : ResumeAt(i)
        BY <1>0, <1>4, <2>1 DEF Phase
      <3> QED
        BY <1>0, <3>1, <3>2, ResumeAtKeeps
    <2>2. CASE ~complete
      <3>1. SameTurns
        BY <1>0, <1>4, <2>2, Superseded DEF SameTurns, TypeOK
      <3>2. PICK o \in {"recover"} : Called(o, phase)
        BY <1>4, <2>2
      <3>3. o \in Op \ {"none", "loop"} /\ UNCHANGED <<status, phase>>
        BY <1>4, <2>2 DEF Op, row
      <3>4. phase \in 0..N /\ status \in Status /\ approved \in BOOLEAN
            /\ (PlanIsGated /\ ~approved => phase <= Planning)
        BY DEF IInv, TypeOK, PlanHeld
      <3> QED
        BY <1>0, <3>1, <3>2, <3>3, <3>4, CalledKeeps
    <2> QED
      BY <2>1, <2>2
  <1> QED
    BY <1>1, <1>3, <1>4 DEF RecoverEnds

LEMMA SweepKeeps == ASSUME IInv, Sweep PROVE IInv'
  <1>1. TypeOK'
    BY DEF Sweep, IInv, TypeOK, hub, Status
  <1> QED
    BY <1>1, TurnsStay, NoRun DEF Sweep, hub, IInv

-----------------------------------------------------------------------------

LEMMA InitHolds == Init => IInv
  <1> SUFFICES ASSUME Init PROVE IInv
    OBVIOUS
  <1>0. N \in Nat /\ Len(turns) = 0 /\ turns \in Seq(Turn) /\ registry \in Seq(Run)
    BY Sizes DEF Init
  <1>1. TypeOK
    <2>1. Nobody \in Locals
      BY <1>0 DEF Nobody, Locals, Op
    <2> QED
      <3>1. pc \in [Run -> PC] /\ me \in [Run -> Locals]
        BY <2>1 DEF Init, PC
      <3>2. born \in 0..MaxRuns /\ crashes \in 0..MaxCrashes /\ phase \in 0..N /\ snap \in 0..N
        BY <1>0, BoundsAssumption DEF Init
      <3>3. status \in Status /\ route \in {"none", "retry", "archive"}
            /\ recovery \in {"idle", "due", "probing"} /\ approved \in BOOLEAN
        BY DEF Init, Status
      <3> QED
        BY <1>0, <3>1, <3>2, <3>3 DEF TypeOK
  <1>2. ASSUME NEW r \in Run, NEW p PROVE Of(r, p) = {}
    BY <1>0 DEF Of
  <1>3. ASSUME NEW r \in Run PROVE PlaceOf(r) /\ RoundsOf(r)
    BY <1>0, <1>2, Sizes DEF Init, PlaceOf, RoundsOf, Live, Talks, Nobody
  <1>4. PlanHeld
    BY DEF Init, PlanHeld, Planning, Nobody
  <1>5. ReviewRounds
    BY <1>2, FS_EmptySet, Sizes DEF ReviewRounds
  <1> QED
    BY <1>1, <1>3, <1>4, <1>5 DEF Init, IInv

LEMMA StutterKeeps == ASSUME IInv, UNCHANGED vars PROVE IInv'
  <1>1. TypeOK' /\ SameTurns
    BY TurnsStay DEF vars, row, hub, IInv, TypeOK
  <1> QED
    BY <1>1, NoRun DEF vars, row, hub, IInv

LEMMA StepKeeps == IInv /\ [Next]_vars => IInv'
  <1> SUFFICES ASSUME IInv, [Next]_vars PROVE IInv'
    OBVIOUS
  <1>1. ASSUME NEW r \in Run, Runs(r) PROVE IInv'
    BY <1>1, ClaimKeeps, OpeningFailsKeeps, ResumeRefusedKeeps, RegisterKeeps, StartKeeps,
       BuildEnvelopeKeeps, SentKeeps, FailsKeeps, WaitEndsKeeps, ReadFollowUpKeeps,
       RejectKeeps, ConcludeKeeps, FinishKeeps DEF Runs
  <1>2. CASE Execute \/ FollowUp \/ Approve \/ RePlan \/ RejectPlan
    BY <1>2, ExecuteKeeps, FollowUpKeeps, ApproveKeeps, RePlanKeeps, RejectPlanKeeps
  <1>3. CASE Stop \/ Retry \/ Archive \/ Crash \/ RecoverBegins \/ RecoverEnds \/ Sweep
    BY <1>3, StopKeeps, RetryKeeps, ArchiveKeeps, CrashKeeps, RecoverBeginsKeeps,
       RecoverEndsKeeps, SweepKeeps
  <1>4. CASE \E k \in 1..Len(turns), s \in {"completed", "test_failed", "questions", "failed"} : AgentSays(k, s)
    BY <1>4, AgentSaysKeeps
  <1>5. CASE UNCHANGED vars
    BY <1>5, StutterKeeps
  <1> QED
    BY <1>1, <1>2, <1>3, <1>4, <1>5 DEF Next

\* For every unit type, and any number of runs, prompts and crashes: the row,
\* the runs and the turns stay of their shape, a run that is over has left
\* nothing, and plan and rounds are kept (IInv).
THEOREM Invariance == Spec => []IInv
  BY InitHolds, StepKeeps, PTL DEF Spec

\* Nothing but an approval takes a task past its plan, whatever follow-ups, second
\* runs, stops, crashes and recoveries come between.
THEOREM PlanNeedsApproval == Spec => []PlanIsApproved
  <1>1. IInv => PlanIsApproved
    BY Sizes DEF IInv, TypeOK, PlanHeld, PlanIsApproved, Planning
  <1> QED
    BY <1>1, Invariance, PTL

\* No loop gives a phase more turns than selfReviewMaxAttempts.
THEOREM RoundsAreBounded == Spec => []ReviewRounds
  <1>1. IInv => ReviewRounds
    BY DEF IInv
  <1> QED
    BY <1>1, Invariance, PTL

-----------------------------------------------------------------------------
(* The order of a run's turns *)

\* The turns of run u, of its loop and of its follow-ups, stay what they are and
\* in the phase they are of; those that are over stay over in the same way.
AllOf(u) == {k \in 1..Len(turns) : turns[k].run = u}
Kept(u) ==
    /\ AllOf(u)' = AllOf(u)
    /\ \A k \in AllOf(u) : /\ turns'[k].phase = turns[k].phase
                           /\ turns[k].status # "running" => turns'[k].status = turns[k].status

\* The newest and the oldest of a set of turns, when there is one.
LEMMA NewestIs ==
  ASSUME NEW S, S \subseteq Nat, NEW k \in S, \A j \in S : j <= k
  PROVE  Newest(S) = k
  <1>1. \A i \in S : (\A j \in S : j <= i) => i = k
    <2> SUFFICES ASSUME NEW i \in S, \A j \in S : j <= i PROVE i = k
      OBVIOUS
    <2>1. i <= k /\ k <= i /\ i \in Nat /\ k \in Nat
      OBVIOUS
    <2> QED
      BY <2>1
  <1> QED
    BY <1>1 DEF Newest

LEMMA OldestIs ==
  ASSUME NEW S, S \subseteq Nat, NEW k \in S, \A j \in S : k <= j
  PROVE  (CHOOSE i \in S : \A j \in S : i <= j) = k
  <1>1. \A i \in S : (\A j \in S : i <= j) => i = k
    <2> SUFFICES ASSUME NEW i \in S, \A j \in S : i <= j PROVE i = k
      OBVIOUS
    <2>1. i <= k /\ k <= i /\ i \in Nat /\ k \in Nat
      OBVIOUS
    <2> QED
      BY <2>1
  <1> QED
    BY <1>1

\* What is built from the turns of a run that keeps them.
LEMMA KeptOf ==
  ASSUME NEW u, Kept(u)
  PROVE  /\ \A p : Of(u, p)' = Of(u, p)
         /\ \A p : Newest(Of(u, p))' = Newest(Of(u, p))
         /\ LoopTurns(u)' = LoopTurns(u)
         /\ TurnOf(u)' = TurnOf(u)
  <1>1. ASSUME NEW p PROVE Of(u, p)' = Of(u, p)
    <2>1. Of(u, p) = {k \in AllOf(u) : turns[k].phase = p}
      BY DEF Of, AllOf
    <2>2. Of(u, p)' = {k \in AllOf(u)' : turns'[k].phase = p}
      BY DEF Of, AllOf
    <2> QED
      BY <2>1, <2>2 DEF Kept
  <1>2. LoopTurns(u)' = LoopTurns(u)
    BY <1>1 DEF LoopTurns, Phase
  <1>3. TurnOf(u) = Newest(AllOf(u)) /\ TurnOf(u)' = Newest(AllOf(u)')
    BY DEF TurnOf, AllOf, Newest
  <1>4. ASSUME NEW p PROVE Newest(Of(u, p))' = Newest(Of(u, p))
    <2>1. Newest(Of(u, p))' = Newest(Of(u, p)')
      BY DEF Newest
    <2> QED
      BY <2>1, <1>1
  <1> QED
    BY <1>1, <1>2, <1>3, <1>4 DEF Kept

\* The phase a loop began at is one of the unit type, and stays.
LEMMA FirstStays ==
  ASSUME NEW u, Kept(u), NEW k \in LoopTurns(u), \A j \in LoopTurns(u) : k <= j
  PROVE  FirstOf(u)' = FirstOf(u) /\ FirstOf(u) \in Phase
  <1>1. LoopTurns(u) \subseteq Nat
    BY DEF LoopTurns, Of
  <1>2. LoopTurns(u)' \subseteq Nat /\ k \in LoopTurns(u)' /\ \A j \in LoopTurns(u)' : k <= j
    BY <1>1, KeptOf
  <1>3. FirstOf(u) = turns[k].phase
    BY <1>1, OldestIs DEF FirstOf
  <1>4. FirstOf(u)' = turns'[k].phase
    BY <1>2, OldestIs DEF FirstOf
  <1>5. k \in AllOf(u) /\ turns[k].phase \in Phase
    BY DEF LoopTurns, Of, AllOf
  <1> QED
    BY <1>3, <1>4, <1>5 DEF Kept

\* A phase that has been earned stays earned while more attempts are used up.
LEMMA EarnedStays ==
  ASSUME NEW u, NEW p, Kept(u), Earned(u, p), FirstOf(u)' = FirstOf(u),
         me[u].tries \in Nat, me'[u].tries \in Nat, me'[u].tries >= me[u].tries
  PROVE  Earned(u, p)'
  <1> DEFINE k == Newest(Of(u, p))
  <1>1. Newest(Of(u, p))' = k /\ Newest(Of(u, p - 1))' = Newest(Of(u, p - 1)) /\ Of(u, p)' = Of(u, p)
    BY KeptOf
  <1>2. k \in Of(u, p) /\ k \in AllOf(u) /\ turns[k].status \in Concluded
    BY DEF Earned, Of, AllOf
  <1>3. turns'[k].status = turns[k].status
    BY <1>2 DEF Kept, Concluded
  <1>4. turns[k].status = "test_failed" /\ Phases[p].rollback > 0 => me[u].tries + 1 >= MaxSelfReview
    BY DEF Earned
  <1>5. turns[k].status = "test_failed" /\ Phases[p].rollback > 0 => me'[u].tries + 1 >= MaxSelfReview
    BY <1>4, BoundsAssumption
  <1>6. p > FirstOf(u) => k > Newest(Of(u, p - 1))
    BY DEF Earned
  <1>7. Earned(u, p)' <=>
            /\ Newest(Of(u, p))' \in Of(u, p)'
            /\ turns'[Newest(Of(u, p))'].status \in Concluded
            /\ turns'[Newest(Of(u, p))'].status = "test_failed" /\ Phases[p].rollback > 0
                   => me'[u].tries + 1 >= MaxSelfReview
            /\ p > FirstOf(u)' => Newest(Of(u, p))' > Newest(Of(u, p - 1))'
    BY DEF Earned
  <1> HIDE DEF k
  <1> QED
    BY <1>1, <1>2, <1>3, <1>5, <1>6, <1>7

\* The order of a run does not depend on what the others do, and a prompt that is
\* sent or waited for changes nothing about it.
LEMMA Undisturbed ==
  ASSUME NEW u \in Run, InOrder(u), Kept(u), me[u] \in Locals,
         me'[u].op = me[u].op, me'[u].at = me[u].at, me'[u].tries = me[u].tries,
         \/ pc'[u] = pc[u]
         \/ /\ pc[u] \in {"sending", "waiting"} /\ pc'[u] \in {"waiting", "reading"}
            /\ pc'[u] = "reading" => turns'[TurnOf(u)].status \in Concluded
  PROVE  InOrder(u)'
  <1>1. Live(u)' = Live(u) /\ Fresh(u)' = Fresh(u) /\ (pc'[u] = "prep" <=> pc[u] = "prep")
    BY DEF Live, Fresh, Talks
  <1>2. CASE ~(Live(u) /\ ~Fresh(u))
    BY <1>1, <1>2 DEF InOrder
  <1>3. CASE pc[u] = "prep" /\ LoopTurns(u) = {}
    BY <1>1, <1>3, KeptOf DEF InOrder
  <1>4. CASE /\ \E k \in LoopTurns(u) : \A j \in LoopTurns(u) : k <= j
             /\ \A p \in FirstOf(u)..(me[u].at - 1) : Earned(u, p)
             /\ pc[u] \in {"sending", "waiting", "reading"} => AtWork(u)
             /\ pc[u] = "reading" => turns[TurnOf(u)].status \in Concluded
    <2>1. FirstOf(u)' = FirstOf(u)
      BY <1>4, FirstStays
    <2>2. \E k \in LoopTurns(u)' : \A j \in LoopTurns(u)' : k <= j
      BY <1>4, KeptOf
    <2>3. ASSUME NEW p \in FirstOf(u)..(me[u].at - 1) PROVE Earned(u, p)'
      BY <1>4, <2>1, EarnedStays DEF Locals
    <2>4. AtWork(u) => AtWork(u)'
      BY <2>1, KeptOf DEF AtWork
    <2>5. ASSUME pc'[u] = "reading" PROVE (turns[TurnOf(u)].status \in Concluded)'
      <3>1. CASE pc[u] = "reading"
        <4>1. TurnOf(u) \in AllOf(u) /\ turns[TurnOf(u)].status # "running"
          BY <1>4, <3>1 DEF AtWork, Of, AllOf, Concluded
        <4> QED
          BY <1>4, <3>1, <4>1, KeptOf DEF Kept
      <3>2. CASE pc[u] # "reading"
        BY <2>5, <3>2, KeptOf
      <3> QED
        BY <3>1, <3>2
    <2>6. pc'[u] \in {"sending", "waiting", "reading"} => pc[u] \in {"sending", "waiting", "reading"}
      OBVIOUS
    <2> QED
      BY <1>1, <1>4, <2>1, <2>2, <2>3, <2>4, <2>5, <2>6 DEF InOrder
  <1> QED
    BY <1>2, <1>3, <1>4 DEF InOrder

\* What keeps the turns of a run.
LEMMA KeptSame ==
  ASSUME NEW u, UNCHANGED turns
  PROVE  Kept(u)
  BY DEF Kept, AllOf

LEMMA KeptSet ==
  ASSUME TypeOK, NEW u, NEW k, NEW s \in TurnStatus, NEW b \in BOOLEAN,
         \/ turns' = turns
         \/ turns' = [turns EXCEPT ![k].status = s]
         \/ turns' = [turns EXCEPT ![k].status = s, ![k].said = b],
         turns' = turns \/ k \notin AllOf(u) \/ turns[k].status = "running"
  PROVE  Kept(u)
  <1>1. SameTurns
    BY SetStatus DEF TypeOK
  <1>2. AllOf(u)' = AllOf(u)
    BY <1>1 DEF SameTurns, AllOf
  <1>3. ASSUME NEW j \in AllOf(u), turns[j].status # "running"
        PROVE  turns'[j].status = turns[j].status
    <2>1. turns' = turns \/ j # k
      BY <1>3
    <2>2. j \in 1..Len(turns) /\ turns \in [1..Len(turns) -> Turn]
      BY <1>3, LenProperties DEF AllOf, TypeOK
    <2> QED
      BY <2>1, <2>2
  <1> QED
    BY <1>1, <1>2, <1>3 DEF Kept, SameTurns, AllOf

LEMMA SupersededStatus ==
  ASSUME TypeOK, NEW k \in 1..Len(turns), turns[k].status # "running"
  PROVE  SupersedeRunning[k].status = turns[k].status
  BY DEF SupersedeRunning

LEMMA KeptSuperseded ==
  ASSUME TypeOK, NEW u, turns' = SupersedeRunning
  PROVE  Kept(u)
  BY Superseded, SupersededStatus DEF Kept, AllOf, TypeOK

\* A run that has no phase of its own yet, or is over, is in order.
LEMMA FreshInOrder ==
  ASSUME NEW u, ~Live(u)' \/ Fresh(u)'
  PROVE  InOrder(u)'
  BY DEF InOrder

\* A step of run r at most.
LEMMA OnlyOne ==
  ASSUME OrderInv, NEW r \in Run, InOrder(r)',
         \A u \in Run \ {r} : pc'[u] = pc[u] /\ me'[u] = me[u] /\ Kept(u)
  PROVE  Ordered'
  <1>1. ASSUME NEW u \in Run, u # r PROVE InOrder(u)'
    <2>1. me[u] \in Locals /\ InOrder(u)
      BY InPlace DEF OrderInv, Ordered
    <2> QED
      BY <1>1, <2>1, Undisturbed
  <1> QED
    BY <1>1 DEF Ordered

\* A step of none.
LEMMA NoneMoves ==
  ASSUME OrderInv, \A u \in Run : Kept(u) /\ pc'[u] = pc[u] /\ me'[u].op = me[u].op
                                  /\ me'[u].at = me[u].at /\ me'[u].tries = me[u].tries
  PROVE  Ordered'
  <1>1. ASSUME NEW u \in Run PROVE InOrder(u)'
    <2>1. me[u] \in Locals /\ InOrder(u)
      BY InPlace DEF OrderInv, Ordered
    <2> QED
      BY <2>1, Undisturbed
  <1> QED
    BY <1>1 DEF Ordered

\* A run that ends, and one that has not come to a phase of its own.
LEMMA OverOrder ==
  ASSUME OrderInv, NEW r \in Run, Over(r), \A u \in Run \ {r} : Kept(u)
  PROVE  Ordered'
  <1>1. pc'[r] = "ended" /\ \A u \in Run \ {r} : pc'[u] = pc[u] /\ me'[u] = me[u]
    BY DEF Over, OrderInv, IInv, TypeOK
  <1>2. InOrder(r)'
    BY <1>1, FreshInOrder DEF Live
  <1> QED
    BY <1>1, <1>2, OnlyOne

LEMMA FreshOrder ==
  ASSUME OrderInv, NEW r \in Run, NEW x, pc' = [pc EXCEPT ![r] = x],
         \/ x \in {"called", "opening", "starting"}
         \/ me' = me /\ Talks(r),
         \A u \in Run \ {r} : Kept(u) /\ me'[u] = me[u]
  PROVE  Ordered'
  <1>1. pc'[r] = x /\ \A u \in Run \ {r} : pc'[u] = pc[u]
    BY DEF OrderInv, IInv, TypeOK
  <1>2. Fresh(r)'
    BY <1>1 DEF Fresh, Talks
  <1> QED
    BY <1>1, <1>2, FreshInOrder, OnlyOne

LEMMA CalledOrder ==
  ASSUME OrderInv, NEW o, NEW i, Called(o, i), \A u \in Run : Kept(u)
  PROVE  Ordered'
  <1>1. PICK r \in Run : r = born + 1
    BY BoundsAssumption DEF OrderInv, IInv, TypeOK, Called, Run
  <1>2. PICK x \in {"called", "opening"} : pc' = [pc EXCEPT ![r] = x]
    BY <1>1 DEF Called
  <1>3. \A u \in Run \ {r} : me'[u] = me[u]
    BY <1>1 DEF Called, OrderInv, IInv, TypeOK
  <1> QED
    BY <1>2, <1>3, FreshOrder

-----------------------------------------------------------------------------
\* The loop of run r comes to phase i: it is new, or it has earned the phases before i.
LEMMA LoopHeadOrder ==
  ASSUME OrderInv, NEW r \in Run, NEW i \in 1..(N + 1), NEW n \in Nat, LoopHead(r, i, n),
         UNCHANGED turns, ~Talks(r),
         \/ LoopTurns(r) = {} /\ i <= N
         \/ /\ n >= me[r].tries
            /\ \E k \in LoopTurns(r) : \A j \in LoopTurns(r) : k <= j
            /\ \A p \in FirstOf(r)..(i - 1) : Earned(r, p)
  PROVE  Ordered'
  <1>0. N \in Nat /\ \A u \in Run : Kept(u)
    BY Sizes, KeptSame
  <1>1. CASE Over(r)
    BY <1>0, <1>1, OverOrder
  <1>2. ASSUME NEW x \in {"finishing", "prep"}, pc' = [pc EXCEPT ![r] = x],
               me' = [me EXCEPT ![r].at = i, ![r].tries = n], x = "finishing" => i = N + 1
        PROVE  Ordered'
    <2>1. /\ pc'[r] = x /\ me'[r].op = me[r].op /\ me'[r].at = i /\ me'[r].tries = n
          /\ \A u \in Run \ {r} : pc'[u] = pc[u] /\ me'[u] = me[u]
      BY <1>2 DEF OrderInv, IInv, TypeOK, Locals
    <2>2. InOrder(r)'
      <3>1. CASE LoopTurns(r) = {} /\ i <= N
        BY <1>0, <1>2, <2>1, <3>1, KeptOf DEF InOrder
      <3>2. CASE /\ n >= me[r].tries
                 /\ \E k \in LoopTurns(r) : \A j \in LoopTurns(r) : k <= j
                 /\ \A p \in FirstOf(r)..(i - 1) : Earned(r, p)
        <4>1. FirstOf(r)' = FirstOf(r) /\ me[r].tries \in Nat
          BY <1>0, <3>2, FirstStays, InPlace DEF OrderInv, Locals
        <4>2. ASSUME NEW p \in FirstOf(r)..(i - 1) PROVE Earned(r, p)'
          BY <1>0, <2>1, <3>2, <4>1, EarnedStays
        <4>3. \E k \in LoopTurns(r)' : \A j \in LoopTurns(r)' : k <= j
          BY <1>0, <3>2, KeptOf
        <4> QED
          BY <2>1, <4>1, <4>2, <4>3 DEF InOrder
      <3> QED
        BY <3>1, <3>2
    <2> QED
      BY <1>0, <2>1, <2>2, OnlyOne
  <1> QED
    BY <1>0, <1>1, <1>2 DEF LoopHead, End

LEMMA StartOrder == ASSUME OrderInv, NEW r \in Run, Start(r) PROVE Ordered'
  <1> DEFINE i == IF me[r].at = 0 THEN 1 ELSE me[r].at
  <1>1. ~Talks(r) /\ me[r].at \in 0..N /\ pc[r] = "starting" /\ N \in Nat /\ N >= 2
        /\ LoopTurns(r) = {}
    BY InPlace DEF Start, PlaceOf, Locals, OrderInv, LoopTurns, RoundsOf, Fresh
  <1>2. i \in 1..(N + 1) /\ LoopHead(r, i, 0) /\ i <= N
    BY <1>1 DEF Start
  <1> HIDE DEF i
  <1> QED
    BY <1>1, <1>2, LoopHeadOrder DEF Start

\* The envelope of run r is appended: the turns of every run, old and new.
LEMMA Appended ==
  ASSUME IInv, NEW r \in Run, BuildEnvelope(r)
  PROVE  /\ Len(turns) \in Nat /\ Len(turns) + 1 \in AllOf(r)'
         /\ turns'[Len(turns) + 1].phase = IF Talks(r) THEN 0 ELSE me[r].at
         /\ AllOf(r)' = AllOf(r) \cup {Len(turns) + 1}
         /\ \A u \in Run \ {r} : AllOf(u)' = AllOf(u)
         /\ \A k \in 1..Len(turns) :
               /\ turns'[k].phase = turns[k].phase
               /\ turns[k].status # "running" => turns'[k].status = turns[k].status
  <1> DEFINE t == [run |-> r, phase |-> IF Talks(r) THEN 0 ELSE me[r].at,
                   status |-> "running", said |-> FALSE]
             S == SupersedeRunning
  <1>0. TypeOK /\ turns \in Seq(Turn) /\ PlaceOf(r) /\ me[r].at \in 0..(N + 1) /\ N \in Nat
        /\ Len(turns) \in Nat /\ pc[r] = "prep"
    BY InPlace, LenProperties DEF BuildEnvelope, TypeOK, Locals
  <1>1. t \in Turn
    <2>1. ~Talks(r) => me[r].at \in Phase
      BY <1>0 DEF PlaceOf
    <2> QED
      BY <2>1, <1>0 DEF Turn, TurnStatus, Phase
  <1>2. /\ S \in Seq(Turn) /\ Len(S) = Len(turns)
        /\ \A k \in 1..Len(turns) : /\ S[k].run = turns[k].run /\ S[k].phase = turns[k].phase
                                    /\ turns[k].status # "running" => S[k].status = turns[k].status
    BY <1>0, Superseded, SupersededStatus
  <1>3. /\ Len(turns') = Len(turns) + 1
        /\ \A k \in 1..Len(turns) : turns'[k] = S[k]
        /\ turns'[Len(turns) + 1] = t
    <2>1. turns' = Append(S, t)
      BY DEF BuildEnvelope
    <2> HIDE DEF S, t
    <2> QED
      BY <2>1, <1>1, <1>2
  <1> HIDE DEF S
  <1>4. t.run = r /\ t.phase = IF Talks(r) THEN 0 ELSE me[r].at
    OBVIOUS
  <1> HIDE DEF t
  <1>5. ASSUME NEW u \in Run
        PROVE  AllOf(u)' = AllOf(u) \cup (IF u = r THEN {Len(turns) + 1} ELSE {})
    <2>1. 1..Len(turns') = 1..Len(turns) \cup {Len(turns) + 1}
      BY <1>0, <1>3
    <2> QED
      BY <2>1, <1>2, <1>3, <1>4 DEF AllOf
  <1>6. /\ AllOf(r)' = AllOf(r) \cup {Len(turns) + 1}
        /\ \A u \in Run \ {r} : AllOf(u)' = AllOf(u)
    BY <1>5
  <1>7. \A k \in 1..Len(turns) :
            /\ turns'[k].phase = turns[k].phase
            /\ turns[k].status # "running" => turns'[k].status = turns[k].status
    BY <1>2, <1>3
  <1> QED
    BY <1>0, <1>3, <1>4, <1>6, <1>7

LEMMA BuildEnvelopeOrder == ASSUME OrderInv, NEW r \in Run, BuildEnvelope(r) PROVE Ordered'
  <1> DEFINE new == Len(turns) + 1
  <1>0. /\ IInv /\ N \in Nat /\ InOrder(r) /\ pc[r] = "prep" /\ pc'[r] = "sending" /\ me' = me
        /\ pc' = [pc EXCEPT ![r] = "sending"] /\ Live(r) /\ me[r].at \in 0..(N + 1)
        /\ (~Talks(r) => me[r].at \in Phase)
    BY InPlace DEF OrderInv, Ordered, BuildEnvelope, Live, PlaceOf, Locals, TypeOK
  <1>1. \A u \in Run \ {r} : Kept(u) /\ me'[u] = me[u] /\ pc'[u] = pc[u]
    BY <1>0, Appended, InPlace DEF Kept, AllOf, TypeOK
  <1>2. CASE Talks(r)
    BY <1>0, <1>1, <1>2, FreshOrder
  <1>3. CASE ~Talks(r)
    <2>0. SUFFICES InOrder(r)'
      BY <1>1, OnlyOne
    <2>1. ASSUME NEW p \in Phase PROVE Of(r, p)' = Of(r, p) \cup (IF p = me[r].at THEN {new} ELSE {})
      <3>1. Of(r, p)' = {k \in AllOf(r)' : turns'[k].phase = p}
        BY DEF Of, AllOf
      <3>2. Of(r, p) = {k \in AllOf(r) : turns[k].phase = p} /\ AllOf(r) \subseteq 1..Len(turns)
        BY DEF Of, AllOf
      <3> QED
        BY <1>0, <1>3, <3>1, <3>2, Appended
    <2>2. LoopTurns(r)' = LoopTurns(r) \cup {new}
      BY <1>0, <1>3, <2>1 DEF LoopTurns
    <2>3. /\ new \in Nat /\ \A k \in AllOf(r) : k < new /\ k \in Nat
          /\ LoopTurns(r) \subseteq AllOf(r) /\ \A p : Of(r, p) \subseteq AllOf(r)
      BY <1>0, Appended DEF AllOf, LoopTurns, Of
    <2>4. TurnOf(r)' = new
      <3>1. AllOf(r)' \subseteq Nat /\ new \in AllOf(r)' /\ \A j \in AllOf(r)' : j <= new
        BY <1>0, <2>3, Appended
      <3>2. TurnOf(r)' = Newest(AllOf(r)')
        BY DEF TurnOf, AllOf, Newest
      <3> QED
        BY <3>1, <3>2, NewestIs
    <2>5. Newest(Of(r, me[r].at))' = new
      <3>1. Of(r, me[r].at)' = Of(r, me[r].at) \cup {new}
        BY <1>0, <1>3, <2>1
      <3>2. Of(r, me[r].at)' \subseteq Nat /\ new \in Of(r, me[r].at)' /\ \A j \in Of(r, me[r].at)' : j <= new
        BY <3>1, <2>3
      <3>3. Newest(Of(r, me[r].at)') = new
        BY <3>2, NewestIs
      <3> QED
        BY <3>3 DEF Newest
    <2>6. ~Fresh(r)
      BY <1>0, <1>3 DEF Fresh
    <2>7. CASE LoopTurns(r) = {}
      <3>1. LoopTurns(r)' = {new}
        BY <2>2, <2>7
      <3>2. FirstOf(r)' = turns'[new].phase
        <4>1. LoopTurns(r)' \subseteq Nat /\ new \in LoopTurns(r)' /\ \A j \in LoopTurns(r)' : new <= j
          BY <3>1, <2>3
        <4> QED
          BY <4>1, OldestIs DEF FirstOf
      <3>3. FirstOf(r)' = me[r].at
        BY <1>0, <1>3, <3>2, Appended
      <3>4. AtWork(r)'
        BY <1>0, <1>3, <2>1, <2>4, <2>5, <3>3 DEF AtWork, Phase
      <3>5. \A p \in FirstOf(r)'..(me'[r].at - 1) : FALSE
        BY <1>0, <1>3, <3>3 DEF Phase
      <3>6. \E k \in LoopTurns(r)' : \A j \in LoopTurns(r)' : k <= j
        BY <2>3, <3>1
      <3> QED
        BY <1>0, <3>4, <3>5, <3>6 DEF InOrder
    <2>8. CASE /\ \E k \in LoopTurns(r) : \A j \in LoopTurns(r) : k <= j
               /\ \A p \in FirstOf(r)..(me[r].at - 1) : Earned(r, p)
      <3>1. PICK k \in LoopTurns(r) : \A j \in LoopTurns(r) : k <= j
        BY <2>8
      <3>2. k \in LoopTurns(r)' /\ \A j \in LoopTurns(r)' : k <= j
        BY <2>2, <2>3, <3>1
      <3>3. FirstOf(r)' = FirstOf(r) /\ FirstOf(r) \in Phase
        <4>1. LoopTurns(r) \subseteq Nat /\ LoopTurns(r)' \subseteq Nat
          BY <2>2, <2>3
        <4>2. FirstOf(r) = turns[k].phase
          BY <4>1, <3>1, OldestIs DEF FirstOf
        <4>3. FirstOf(r)' = turns'[k].phase
          BY <4>1, <3>2, OldestIs DEF FirstOf
        <4>4. k \in 1..Len(turns) /\ turns[k].phase \in Phase
          BY <3>1 DEF LoopTurns, Of
        <4> QED
          BY <1>0, <4>2, <4>3, <4>4, Appended
      <3>4. ASSUME NEW p \in Phase, p < me[r].at
            PROVE  Of(r, p)' = Of(r, p) /\ Newest(Of(r, p))' = Newest(Of(r, p))
        <4>1. Of(r, p)' = Of(r, p)
          <5>1. p # me[r].at
            BY <3>4, <1>0 DEF Phase
          <5> QED
            BY <2>1, <5>1
        <4>2. Newest(Of(r, p))' = Newest(Of(r, p)')
          BY DEF Newest
        <4> QED
          BY <4>1, <4>2
      <3>5. ASSUME NEW p \in FirstOf(r)..(me[r].at - 1) PROVE Earned(r, p)'
        <4> DEFINE last == Newest(Of(r, p))
        <4>1. p \in Phase /\ p < me[r].at /\ Earned(r, p)
              /\ (p > FirstOf(r) => p - 1 \in Phase /\ p - 1 < me[r].at)
          BY <2>8, <3>3, <1>0, <1>3 DEF Phase
        <4>2. last \in Of(r, p) /\ turns[last].status \in Concluded /\ last \in 1..Len(turns)
              /\ (turns[last].status = "test_failed" /\ Phases[p].rollback > 0
                      => me[r].tries + 1 >= MaxSelfReview)
              /\ (p > FirstOf(r) => last > Newest(Of(r, p - 1)))
          BY <4>1 DEF Earned, Of
        <4>3. turns'[last].status = turns[last].status
          BY <4>2, <1>0, Appended DEF Concluded
        <4>4. Newest(Of(r, p))' = last /\ Of(r, p)' = Of(r, p)
              /\ (p > FirstOf(r) => Newest(Of(r, p - 1))' = Newest(Of(r, p - 1)))
          BY <3>4, <4>1
        <4> HIDE DEF last
        <4> QED
          BY <1>0, <3>3, <4>2, <4>3, <4>4 DEF Earned
      <3>6. AtWork(r)'
        <4>1. me[r].at > FirstOf(r) => new > Newest(Of(r, me[r].at - 1))'
          <5> SUFFICES ASSUME me[r].at > FirstOf(r) PROVE new > Newest(Of(r, me[r].at - 1))'
            OBVIOUS
          <5>1. me[r].at - 1 \in Phase /\ me[r].at - 1 < me[r].at /\ Earned(r, me[r].at - 1)
            BY <2>8, <3>3, <1>0, <1>3 DEF Phase
          <5>2. Newest(Of(r, me[r].at - 1)) \in AllOf(r)
            BY <5>1, <2>3 DEF Earned
          <5>3. Newest(Of(r, me[r].at - 1))' = Newest(Of(r, me[r].at - 1))
            BY <5>1, <1>0, <3>4
          <5> QED
            BY <5>2, <5>3, <2>3
        <4>2. new \in Of(r, me[r].at)'
          BY <1>0, <1>3, <2>1
        <4> QED
          BY <1>0, <2>4, <2>5, <3>3, <4>1, <4>2 DEF AtWork
      <3> QED
        BY <1>0, <3>2, <3>3, <3>5, <3>6 DEF InOrder
    <2> QED
      BY <1>0, <2>6, <2>7, <2>8 DEF InOrder
  <1> QED
    BY <1>2, <1>3

LEMMA WaitEndsOrder ==
  ASSUME OrderInv, NEW r \in Run, NEW c \in Class, WaitEnds(r, c)
  PROVE  Ordered'
  <1> DEFINE k == TurnOf(r)
             v == Verdict(turns[k].status, c)
             s == IF me[r].aborted THEN "aborted" ELSE Inferred(c)
  <1>0. /\ TypeOK /\ pc[r] = "waiting" /\ s \in TurnStatus /\ c \in Class
        /\ turns' = turns \/ (turns[k].status = "running" /\ turns' = [turns EXCEPT ![k].status = s])
    BY InPlace DEF OrderInv, WaitEnds, Inferred, Class, TurnStatus
  <1>1. \A u \in Run : Kept(u)
    BY <1>0, KeptSet
  <1>2. CASE Over(r)
    BY <1>1, <1>2, OverOrder
  <1>3. CASE pc' = [pc EXCEPT ![r] = "starting"] /\ me' = [me EXCEPT ![r].op = "loop"]
    BY <1>0, <1>1, <1>3, FreshOrder DEF TypeOK
  <1>4. CASE v = "phase_complete" /\ pc' = [pc EXCEPT ![r] = "reading"] /\ me' = me
    <2>1. CASE Talks(r)
      BY <1>1, <1>4, <2>1, FreshOrder
    <2>2. CASE ~Talks(r)
      <3>1. AtWork(r) /\ me[r] \in Locals /\ InOrder(r)
        BY <1>0, <2>2, InPlace DEF OrderInv, Ordered, InOrder, Live, Fresh
      <3>2. k \in 1..Len(turns) /\ turns \in [1..Len(turns) -> Turn]
        BY <1>0, <3>1, LenProperties DEF AtWork, Of, TypeOK
      <3>3. turns'[k].status \in Concluded
        <4>1. turns[k].status \in TurnStatus
          BY <3>2 DEF Turn
        <4>2. CASE turns[k].status = "running"
          <5>1. v = c
            BY <4>2 DEF Verdict
          <5>2. s \in Concluded
            BY <1>4, <5>1 DEF Inferred, Concluded
          <5>3. turns' = [turns EXCEPT ![k].status = s]
            BY <4>2 DEF WaitEnds
          <5> QED
            BY <3>2, <5>2, <5>3 DEF Turn
        <4>3. CASE turns[k].status # "running"
          <5>1. turns' = turns
            BY <4>3 DEF WaitEnds
          <5>2. turns[k].status \in Concluded
            BY <1>4, <4>1, <4>3 DEF Verdict, TurnStatus, Concluded
          <5> QED
            BY <5>1, <5>2
        <4> QED
          BY <4>2, <4>3
      <3>4. pc'[r] = "reading" /\ \A u \in Run \ {r} : pc'[u] = pc[u]
        BY <1>0, <1>4 DEF TypeOK
      <3>5. InOrder(r)'
        BY <1>0, <1>1, <1>4, <3>1, <3>3, <3>4, Undisturbed
      <3> QED
        BY <1>1, <1>4, <3>4, <3>5, OnlyOne
    <2> QED
      BY <2>1, <2>2
  <1> QED
    BY <1>0, <1>2, <1>3, <1>4 DEF WaitEnds, AfterFollowUp, End

LEMMA RejectOrder == ASSUME OrderInv, NEW r \in Run, Reject(r) PROVE Ordered'
  <1>1. TypeOK /\ AtWork(r) /\ Over(r)
    BY InPlace DEF OrderInv, Ordered, InOrder, Reject, Live, Fresh, End
  <1>2. ASSUME NEW u \in Run \ {r} PROVE Kept(u)
    <2>1. TurnOf(r) \notin AllOf(u)
      BY <1>1 DEF AtWork, Of, AllOf
    <2>2. turns' = [turns EXCEPT ![TurnOf(r)].status = "failed"]
      BY DEF Reject
    <2> QED
      BY <1>1, <2>1, <2>2, KeptSet DEF TurnStatus
  <1> QED
    BY <1>1, <1>2, OverOrder

\* A phase that is read to its end is earned, unless it is rolled back.
LEMMA ConcludeOrder == ASSUME OrderInv, NEW r \in Run, Conclude(r) PROVE Ordered'
  <1>0. /\ UNCHANGED turns /\ ~Talks(r) /\ me[r].at \in Phase /\ me[r].tries \in Nat /\ N \in Nat
        /\ \A u \in Run : Kept(u)
        /\ \E k \in LoopTurns(r) : \A j \in LoopTurns(r) : k <= j
        /\ \A p \in FirstOf(r)..(me[r].at - 1) : Earned(r, p)
        /\ AtWork(r) /\ turns[TurnOf(r)].status \in Concluded
    BY InPlace, KeptSame DEF OrderInv, Ordered, InOrder, Conclude, Live, Fresh, PlaceOf, Locals
  <1>1. CASE Over(r)
    BY <1>0, <1>1, OverOrder
  <1>2. FirstOf(r) \in Phase
    BY <1>0, FirstStays
  <1>3. CASE RollsBack(r) /\ LoopHead(r, Phases[me[r].at].rollback, me[r].tries + 1)
    <2> DEFINE i == Phases[me[r].at].rollback
               n == me[r].tries + 1
    <2>1. i \in 1..(N + 1) /\ i < me[r].at /\ n \in Nat /\ n >= me[r].tries
      BY <1>0, <1>3, PhaseOf DEF RollsBack
    <2>2. \A p \in FirstOf(r)..(i - 1) : Earned(r, p)
      BY <1>0, <1>2, <2>1 DEF Phase
    <2>3. LoopHead(r, i, n)
      BY <1>3
    <2> HIDE DEF i, n
    <2> QED
      BY <1>0, <2>1, <2>2, <2>3, LoopHeadOrder
  <1>4. CASE ~RollsBack(r) /\ LoopHead(r, me[r].at + 1, me[r].tries)
    <2> DEFINE i == me[r].at + 1
    <2>1. i \in 1..(N + 1) /\ LoopHead(r, i, me[r].tries)
      BY <1>0, <1>4 DEF Phase
    <2>2. Earned(r, me[r].at)
      <3>1. turns[TurnOf(r)].status = "test_failed" /\ Phases[me[r].at].rollback > 0
              => me[r].tries + 1 >= MaxSelfReview
        BY <1>0, <1>4, BoundsAssumption DEF RollsBack
      <3> QED
        BY <1>0, <3>1 DEF AtWork, Earned
    <2>3. \A p \in FirstOf(r)..(i - 1) : Earned(r, p)
      BY <1>0, <1>2, <2>2 DEF Phase
    <2> HIDE DEF i
    <2> QED
      BY <1>0, <2>1, <2>3, LoopHeadOrder
  <1> QED
    BY <1>1, <1>3, <1>4 DEF Conclude, AskForReview, End

\* The other steps of a run.
LEMMA RunOrder == ASSUME OrderInv, NEW r \in Run, Runs(r) PROVE Ordered'
  <1>0. TypeOK /\ (turns' = turns => \A u \in Run : Kept(u))
    BY KeptSame DEF OrderInv, IInv
  <1>1. CASE Claim(r) \/ OpeningFails(r) \/ ResumeRefused(r) \/ Fails(r) \/ Finish(r)
    <2>1. turns' = turns
      BY <1>1 DEF Claim, OpeningFails, ResumeRefused, Fails, Finish
    <2>2. Over(r) \/ (pc' = [pc EXCEPT ![r] = "opening"] /\ me' = me)
      BY <1>1 DEF Claim, OpeningFails, ResumeRefused, Fails, Finish, End
    <2> QED
      BY <1>0, <2>1, <2>2, OverOrder, FreshOrder
  <1>2. CASE Register(r)
    <2>1. PICK x \in {"prep", "starting"} : pc' = [pc EXCEPT ![r] = x] /\ (x = "prep" => Talks(r))
      BY <1>2 DEF Register
    <2> QED
      BY <1>0, <1>2, <2>1, FreshOrder DEF Register
  <1>3. CASE Sent(r)
    <2>1. /\ pc[r] = "sending" /\ pc'[r] = "waiting" /\ me' = me /\ turns' = turns
          /\ \A u \in Run \ {r} : pc'[u] = pc[u]
      BY <1>0, <1>3 DEF Sent, TypeOK
    <2>2. me[r] \in Locals /\ InOrder(r)
      BY InPlace DEF OrderInv, Ordered
    <2>3. InOrder(r)'
      BY <1>0, <2>1, <2>2, Undisturbed
    <2> QED
      BY <1>0, <2>1, <2>3, OnlyOne
  <1>4. CASE ReadFollowUp(r)
    <2>1. Over(r) \/ (pc' = [pc EXCEPT ![r] = "starting"] /\ me' = [me EXCEPT ![r].op = "loop"])
      BY <1>4 DEF ReadFollowUp, AskForReview, AfterFollowUp, End
    <2> QED
      BY <1>0, <1>4, <2>1, OverOrder, FreshOrder DEF ReadFollowUp, TypeOK
  <1> QED
    BY <1>1, <1>2, <1>3, <1>4, StartOrder, BuildEnvelopeOrder, WaitEndsOrder, RejectOrder,
       ConcludeOrder DEF Runs

\* The calls, and a step of none.
LEMMA CallOrder ==
  ASSUME OrderInv, Execute \/ FollowUp \/ Approve \/ RePlan \/ RecoverEnds
  PROVE  Ordered'
  <1>0. TypeOK
    BY DEF OrderInv, IInv
  <1>1. turns' \in {turns, SupersedeRunning}
    BY DEF Execute, FollowUp, Approve, RePlan, RecoverEnds, ResumeAt
  <1>2. \A u \in Run : Kept(u)
    BY <1>0, <1>1, KeptSame, KeptSuperseded
  <1>3. (\E o, i : Called(o, i)) \/ UNCHANGED <<pc, me>>
    BY DEF Execute, FollowUp, Approve, RePlan, RecoverEnds, ResumeAt
  <1> QED
    BY <1>2, <1>3, CalledOrder, NoneMoves

LEMMA RestOrder ==
  ASSUME OrderInv,
         \/ RejectPlan \/ Stop \/ Retry \/ Archive \/ RecoverBegins \/ Sweep \/ UNCHANGED vars
         \/ \E k \in 1..Len(turns), s \in {"completed", "test_failed", "questions", "failed"} : AgentSays(k, s)
  PROVE  Ordered'
  <1>0. TypeOK
    BY DEF OrderInv, IInv
  <1>1. CASE \/ RejectPlan \/ Stop \/ Retry \/ Archive \/ RecoverBegins \/ Sweep \/ UNCHANGED vars
    <2>1. UNCHANGED <<pc, turns>> /\ (me' = me \/ AbortFirst)
      BY <1>1 DEF RejectPlan, Stop, Retry, Archive, RecoverBegins, Sweep, vars
    <2>2. ASSUME NEW u \in Run
          PROVE  me'[u].op = me[u].op /\ me'[u].at = me[u].at /\ me'[u].tries = me[u].tries
      <3>1. me \in [Run -> Locals] /\ me[u] \in Locals
        BY <1>0 DEF TypeOK
      <3>2. me'[u] = me[u] \/ me'[u] = [me[u] EXCEPT !.aborted = TRUE]
        BY <2>1, <3>1 DEF AbortFirst
      <3> QED
        BY <3>1, <3>2 DEF Locals
    <2> QED
      BY <2>1, <2>2, KeptSame, NoneMoves
  <1>2. ASSUME NEW k, NEW s \in {"completed", "test_failed", "questions", "failed"}, AgentSays(k, s)
        PROVE  Ordered'
    <2>1. \A u \in Run : Kept(u)
      BY <1>0, <1>2, KeptSet DEF AgentSays, TurnStatus
    <2> QED
      BY <1>2, <2>1, NoneMoves DEF AgentSays
  <1> QED
    BY <1>1, <1>2

LEMMA CrashOrder == ASSUME OrderInv, Crash PROVE Ordered'
  <1>1. \A u \in Run : ~Live(u)'
    BY DEF Crash, Live
  <1> QED
    BY <1>1, FreshInOrder DEF Ordered

LEMMA OrderSteps == OrderInv /\ [Next]_vars => OrderInv'
  <1> SUFFICES ASSUME OrderInv, [Next]_vars PROVE OrderInv'
    OBVIOUS
  <1>1. IInv'
    BY StepKeeps DEF OrderInv
  <1>2. Ordered'
    BY RunOrder, CallOrder, RestOrder, CrashOrder DEF Next
  <1> QED
    BY <1>1, <1>2 DEF OrderInv, Ordered

\* For every unit type, and any number of runs, prompts and crashes: a loop has
\* earned the phases behind it in their order, whatever turns the other runs of
\* the task, its follow-ups and its agents put between (OrderInv).
THEOREM WorkIsOrdered == Spec => []OrderInv
  <1>1. Init => OrderInv
    <2> SUFFICES ASSUME Init PROVE OrderInv
      OBVIOUS
    <2>1. \A u \in Run : InOrder(u)
      BY DEF Init, InOrder, Live
    <2> QED
      BY <2>1, InitHolds DEF OrderInv, Ordered
  <1> QED
    BY <1>1, OrderSteps, PTL DEF Spec

\* A task goes to review by a loop that has worked through every phase from the
\* one it began at, each turn over and later than those of the phase before.
THEOREM ReviewsAreEarned == Spec => []ReviewIsEarned
  <1>1. OrderInv => ReviewIsEarned
    <2> SUFFICES ASSUME OrderInv, NEW r \in Run, pc[r] = "finishing"
                 PROVE  \A p \in FirstOf(r)..N : Earned(r, p)
      BY DEF ReviewIsEarned
    <2>1. ~Fresh(r) /\ Live(r) /\ me[r].at = N + 1 /\ N \in Nat
      BY InPlace DEF OrderInv, PlaceOf, Fresh, Live, Talks
    <2>2. \A p \in FirstOf(r)..(me[r].at - 1) : Earned(r, p)
      BY <2>1 DEF OrderInv, Ordered, InOrder
    <2> QED
      BY <2>1, <2>2
  <1> QED
    BY <1>1, WorkIsOrdered, PTL

=============================================================================
