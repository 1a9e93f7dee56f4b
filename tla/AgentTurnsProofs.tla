--------------------------- MODULE AgentTurnsProofs ---------------------------
(***************************************************************************)
(* Proofs about AgentTurns for any number of turns: its inductive          *)
(* invariant, what follows from it, and that it implements TurnPromise.    *)
(***************************************************************************)
EXTENDS AgentTurns, TLAPS

USE DEF Turn, HasProbe

LEMMA InitHolds == Init => IInv
  <1> SUFFICES ASSUME Init PROVE IInv
    OBVIOUS
  <1>1. TypeOK
    BY MaxTurnsAssumption DEF Init, TypeOK, Kind
  <1>2. ASSUME NEW t \in Turn PROVE RowOf(t) /\ WaitOf(t)
    BY MaxTurnsAssumption DEF Init, RowOf, WaitOf, Class
  <1> QED
    BY <1>1, <1>2 DEF IInv

LEMMA StartKeeps ==
  ASSUME IInv, NEW k \in Kind, NEW a \in BOOLEAN, Start(k, a)
  PROVE  IInv'
  <1> USE DEF IInv, TypeOK
  <1>0. last + 1 \in Turn /\ last \in Nat
    BY MaxTurnsAssumption DEF Start
  <1>1. TypeOK'
    BY <1>0, MaxTurnsAssumption DEF Start, SupersedeRunning, Kind, Ended
  <1>2. ASSUME NEW t \in Turn PROVE RowOf(t)'
    BY <1>0, MaxTurnsAssumption DEF Start, SupersedeRunning, RowOf, StatusOf, Signal
  <1>3. ASSUME NEW t \in Turn PROVE WaitOf(t)'
    <2>1. CASE t = last + 1
      <3>1. RowOf(t) /\ WaitOf(t)
        OBVIOUS
      <3>2. status[t] = "none" /\ said[t] = "none" /\ held[t] = <<>> /\ quiet[t] = "no" /\ result[t] = "none"
        BY <3>1, <2>1, <1>0 DEF RowOf, WaitOf
      <3>3. /\ status'[t] = "running" /\ pc'[t] = "sending" /\ stream'[t] = "open"
            /\ said'[t] = "none" /\ held'[t] = <<>> /\ quiet'[t] = "no" /\ result'[t] = "none"
        BY <3>2, <2>1, <1>0 DEF Start, SupersedeRunning
      <3> HIDE DEF IInv, TypeOK
      <3> QED
        BY <3>3 DEF WaitOf, Class
    <2>2. CASE t # last + 1
      <3>1. RowOf(t) /\ WaitOf(t)
        OBVIOUS
      <3>2. /\ pc'[t] = pc[t] /\ stream'[t] = stream[t] /\ said'[t] = said[t]
            /\ held'[t] = held[t] /\ quiet'[t] = quiet[t] /\ result'[t] = result[t] /\ kind'[t] = kind[t]
            /\ status'[t] = (IF status[t] = "running" THEN "superseded" ELSE status[t])
        BY <2>2, <1>0 DEF Start, SupersedeRunning
      <3> HIDE DEF IInv, TypeOK
      <3> QED
        BY <3>1, <3>2 DEF WaitOf, Class
    <2> QED
      BY <2>1, <2>2
  <1> QED
    BY <1>1, <1>2, <1>3

LEMMA SendFailsKeeps ==
  ASSUME IInv, NEW t \in Turn, SendFails(t)
  PROVE  IInv'
  <1> USE DEF IInv, TypeOK
  <1>1. TypeOK'
    BY DEF SendFails, row, Class
  <1>2. ASSUME NEW u \in Turn PROVE RowOf(u)' /\ WaitOf(u)'
    BY DEF SendFails, row, RowOf, WaitOf, StatusOf, Signal, Class, Marker
  <1> QED
    BY <1>1, <1>2

LEMMA PrepareProbeFailsKeeps ==
  ASSUME IInv, NEW t \in Turn, PrepareProbeFails(t)
  PROVE  IInv'
  <1> USE DEF IInv, TypeOK
  <1>1. TypeOK'
    BY DEF PrepareProbeFails, row, Class
  <1>2. ASSUME NEW u \in Turn PROVE RowOf(u)' /\ WaitOf(u)'
    BY DEF PrepareProbeFails, row, RowOf, WaitOf, StatusOf, Signal, Class, Marker, HasProbe
  <1> QED
    BY <1>1, <1>2

LEMMA WaitKeeps ==
  ASSUME IInv, NEW t \in Turn, Wait(t)
  PROVE  IInv'
  <1> USE DEF IInv, TypeOK
  <1>1. quiet'[t] = IF said[t] = "none" THEN "no" ELSE Marker(said[t])
    <2>1. held[t] = IF said[t] = "none" THEN <<>> ELSE <<said[t]>>
      BY DEF Wait, WaitOf
    <2>2. said[t] # "none" => held[t] # <<>> /\ Head(held[t]) = said[t]
      BY <2>1
    <2> QED
      BY <2>1, <2>2 DEF Wait
  <1>2. TypeOK'
    BY <1>1 DEF Wait, row, Marker
  <1>3. ASSUME NEW u \in Turn PROVE RowOf(u)'
    BY DEF Wait, row, RowOf, StatusOf, Signal
  <1>4. ASSUME NEW u \in Turn PROVE WaitOf(u)'
    BY <1>1 DEF Wait, row, WaitOf, Class, Marker
  <1> QED
    BY <1>2, <1>3, <1>4

LEMMA AgentSignalKeeps ==
  ASSUME IInv, NEW t \in Turn, NEW s \in Signal, AgentSignal(t, s)
  PROVE  IInv'
  <1>0. TypeOK /\ RowOf(t) /\ WaitOf(t)
    BY DEF IInv
  <1>1. /\ status[t] = "running" /\ said[t] = "none"
        /\ said'[t] = s /\ status'[t] = StatusOf(s) /\ source'[t] = "azitoctl"
        /\ pc'[t] = pc[t] /\ stream'[t] = stream[t] /\ result'[t] = result[t] /\ kind'[t] = kind[t]
    BY <1>0 DEF AgentSignal, RowOf, TypeOK
  <1>2. pc[t] = "sending" => held'[t] = <<s>> /\ quiet'[t] = quiet[t]
    <2>1. pc[t] = "sending" => stream[t] = "open" /\ held[t] = <<>>
      BY <1>0, <1>1 DEF WaitOf
    <2>2. Append(<<>>, s) = <<s>>
      OBVIOUS
    <2>3. pc[t] = "sending" /\ stream[t] = "open" => held' = [held EXCEPT ![t] = Append(held[t], s)] /\ quiet' = quiet
      BY DEF AgentSignal
    <2>4. pc[t] = "sending" => held'[t] = Append(held[t], s) /\ quiet'[t] = quiet[t]
      BY <2>1, <2>3, <1>0 DEF TypeOK
    <2> QED
      BY <2>1, <2>2, <2>4
  <1>3. pc[t] = "waiting" => quiet'[t] = Marker(s)
    BY <1>0, <1>1 DEF AgentSignal, TypeOK, WaitOf
  <1>4. pc[t] = "none" => FALSE
    BY <1>0, <1>1 DEF WaitOf
  <1>5. TypeOK'
    <2>1. held' \in [Turn -> Seq(Signal)]
      <3>1. held' = held \/ held' = [held EXCEPT ![t] = Append(held[t], s)]
        <4>1. CASE stream[t] = "open" /\ pc[t] = "waiting"
          BY <4>1 DEF AgentSignal
        <4>2. CASE stream[t] = "open" /\ pc[t] # "waiting"
          BY <4>2 DEF AgentSignal
        <4>3. CASE stream[t] # "open"
          BY <4>3 DEF AgentSignal
        <4> QED
          BY <4>1, <4>2, <4>3
      <3>2. held[t] \in Seq(Signal) /\ Append(held[t], s) \in Seq(Signal)
        BY <1>0 DEF TypeOK
      <3> DEFINE S == Seq(Signal)
      <3>3. held \in [Turn -> S] /\ Append(held[t], s) \in S
        BY <1>0, <3>2 DEF TypeOK
      <3> HIDE DEF S
      <3>4. [held EXCEPT ![t] = Append(held[t], s)] \in [Turn -> S]
        BY <3>3, ZenonT(30)
      <3>5. held' \in [Turn -> S]
        BY <3>1, <3>3, <3>4
      <3> QED
        BY <3>5 DEF S
    <2>2. quiet' \in [Turn -> {"no", "phase_complete", "question"}]
      BY <1>0 DEF AgentSignal, TypeOK, Marker
    <2> QED
      BY <2>1, <2>2, <1>0 DEF AgentSignal, TypeOK, StatusOf, Signal, Ended
  <1>6. RowOf(t)' /\ WaitOf(t)'
    <2>1. RowOf(t)'
      BY <1>0, <1>1 DEF AgentSignal, RowOf, StatusOf, Signal
    <2>2. WaitOf(t)'
      BY <1>0, <1>1, <1>2, <1>3, <1>4 DEF WaitOf, StatusOf, Signal, Class
    <2> QED
      BY <2>1, <2>2
  <1>7. ASSUME NEW u \in Turn, u # t PROVE RowOf(u)' /\ WaitOf(u)'
    <2>1. RowOf(u) /\ WaitOf(u)
      BY DEF IInv
    <2>2. /\ status'[u] = status[u] /\ source'[u] = source[u] /\ said'[u] = said[u] /\ last' = last
          /\ pc'[u] = pc[u] /\ stream'[u] = stream[u] /\ result'[u] = result[u]
          /\ held'[u] = held[u] /\ quiet'[u] = quiet[u] /\ kind'[u] = kind[u]
      BY ZenonT(30), <1>0, <1>7 DEF AgentSignal, TypeOK
    <2> QED
      BY <2>1, <2>2 DEF RowOf, WaitOf
  <1> QED
    BY <1>5, <1>6, <1>7 DEF IInv

LEMMA FinishKeeps ==
  ASSUME IInv, NEW t \in Turn, NEW c \in Class, NEW a \in BOOLEAN,
         pc[t] = "waiting", Finish(t, c, a), aborted' \in [Turn -> BOOLEAN]
  PROVE  IInv'
  <1>0. TypeOK /\ RowOf(t) /\ WaitOf(t)
    BY DEF IInv
  <1>1. Verdict(t, c) \in Class
    BY DEF Verdict, Class
  <1>2. TypeOK'
    BY <1>0, <1>1 DEF Finish, Inferred, Class, Ended, TypeOK
  <1>3. /\ pc'[t] = (IF Verdict(t, c) = "phase_complete" THEN "output" ELSE "done")
        /\ result'[t] = Verdict(t, c) /\ stream'[t] = "stopped" /\ said'[t] = said[t] /\ last' = last
    BY <1>0 DEF Finish, TypeOK
  <1>4. /\ status[t] = "running" => status'[t] \in Ended /\ source'[t] # "azitoctl"
        /\ status[t] # "running" => status'[t] = status[t] /\ source'[t] = source[t]
    <2>1. Inferred(c) \in Ended
      BY DEF Inferred, Class, Ended
    <2>2. CASE status[t] = "running"
      <3>1. status'[t] \in {"aborted", Inferred(c)} /\ source'[t] \in {"abort", "classifier"}
        BY <1>0, <2>2 DEF Finish, TypeOK
      <3> QED  BY <2>1, <2>2, <3>1 DEF Ended
    <2>3. CASE status[t] # "running"
      BY <2>3 DEF Finish
    <2> QED  BY <2>2, <2>3
  <1>5. RowOf(t)'
    BY <1>0, <1>3, <1>4 DEF RowOf, Ended
  <1>6. WaitOf(t)'
    BY <1>0, <1>1, <1>3, <1>4 DEF WaitOf, Ended, Class
  <1>7. ASSUME NEW u \in Turn, u # t PROVE RowOf(u)' /\ WaitOf(u)'
    <2>1. RowOf(u) /\ WaitOf(u)
      BY DEF IInv
    <2>2. /\ status'[u] = status[u] /\ source'[u] = source[u] /\ said'[u] = said[u] /\ last' = last
          /\ pc'[u] = pc[u] /\ stream'[u] = stream[u] /\ result'[u] = result[u]
          /\ held'[u] = held[u] /\ quiet'[u] = quiet[u] /\ kind'[u] = kind[u]
      <3>1. /\ status' = status \/ status' = [status EXCEPT ![t] = IF a THEN "aborted" ELSE Inferred(c)]
            /\ source' = source \/ source' = [source EXCEPT ![t] = IF a THEN "abort" ELSE "classifier"]
        BY DEF Finish
      <3>2. status'[u] = status[u] /\ source'[u] = source[u]
        BY ZenonT(30), <3>1, <1>0, <1>7 DEF TypeOK
      <3>3. /\ said'[u] = said[u] /\ last' = last /\ held'[u] = held[u] /\ pc'[u] = pc[u]
            /\ stream'[u] = stream[u] /\ result'[u] = result[u] /\ quiet'[u] = quiet[u] /\ kind'[u] = kind[u]
        BY <1>0, <1>7 DEF Finish, TypeOK
      <3> QED
        BY <3>2, <3>3
    <2> QED
      BY <2>1, <2>2 DEF RowOf, WaitOf
  <1> QED
    BY <1>2, <1>5, <1>6, <1>7 DEF IInv

LEMMA LookingKeeps ==
  ASSUME IInv, looking' \in [Turn -> BOOLEAN], probing' \in [Turn -> BOOLEAN],
         aborted' \in [Turn -> BOOLEAN],
         UNCHANGED <<row, stream, held, pc, quiet, result>>
  PROVE  IInv'
  BY DEF IInv, TypeOK, RowOf, WaitOf, row

LEMMA OutputKeeps ==
  ASSUME IInv, NEW t \in Turn, NEW f \in BOOLEAN, Output(t, f)
  PROVE  IInv'
  <1>0. TypeOK /\ RowOf(t) /\ WaitOf(t)
    BY DEF IInv
  <1>1. CASE kind[t] = "phase" /\ ~f /\ source[t] # "azitoctl"
    <2>1. /\ status' = [status EXCEPT ![t] = "failed"]
          /\ source' = [source EXCEPT ![t] = "classifier"]
          /\ result' = [result EXCEPT ![t] = "rejected"]
          /\ pc' = [pc EXCEPT ![t] = "done"] /\ pc[t] = "output"
          /\ UNCHANGED <<last, said, kind, stream, held, quiet, looking, probing, aborted>>
      BY <1>1 DEF Output
    <2>2. TypeOK'
      BY <1>0, <2>1 DEF TypeOK, Ended
    <2>3. ASSUME NEW u \in Turn PROVE RowOf(u)' /\ WaitOf(u)'
      <3>1. RowOf(u) /\ WaitOf(u)
        BY DEF IInv
      <3>2. CASE u = t
        <4>1. /\ status'[u] = "failed" /\ source'[u] = "classifier" /\ result'[u] = "rejected" /\ pc'[u] = "done"
          BY <1>0, <2>1, <3>2 DEF TypeOK
        <4>2. RowOf(u)'
          BY <1>1, <2>1, <3>1, <3>2, <4>1 DEF RowOf, WaitOf
        <4>3. WaitOf(u)'
          BY <1>1, <2>1, <3>1, <3>2, <4>1 DEF RowOf, WaitOf, Class
        <4> QED
          BY <4>2, <4>3
      <3>3. CASE u # t
        <4>1. /\ status'[u] = status[u] /\ source'[u] = source[u]
              /\ result'[u] = result[u] /\ pc'[u] = pc[u]
          BY <1>0, <2>1, <3>3 DEF TypeOK
        <4> QED
          BY <2>1, <3>1, <4>1 DEF RowOf, WaitOf
      <3> QED
        BY <3>2, <3>3
    <2> QED
      BY <2>2, <2>3 DEF IInv
  <1>2. CASE ~(kind[t] = "phase" /\ ~f /\ source[t] # "azitoctl")
    <2>1. /\ pc' = [pc EXCEPT ![t] = "done"] /\ pc[t] = "output"
          /\ UNCHANGED <<status, source, result, last, said, kind, stream, held, quiet, looking, probing, aborted>>
      BY <1>2 DEF Output
    <2>2. TypeOK'
      BY <1>0, <2>1 DEF TypeOK
    <2>3. ASSUME NEW u \in Turn PROVE RowOf(u)' /\ WaitOf(u)'
      <3>1. RowOf(u) /\ WaitOf(u) /\ pc'[u] = (IF u = t THEN "done" ELSE pc[u])
        BY <1>0, <2>1 DEF IInv, TypeOK
      <3> QED
        BY <2>1, <3>1 DEF RowOf, WaitOf
    <2> QED
      BY <2>2, <2>3 DEF IInv
  <1> QED
    BY <1>1, <1>2

LEMMA CrashKeeps ==
  ASSUME IInv, Crash
  PROVE  IInv'
  <1>0. TypeOK
    BY DEF IInv
  <1>1. TypeOK'
    BY <1>0 DEF Crash, row, Class, TypeOK
  <1>2. ASSUME NEW u \in Turn PROVE RowOf(u)' /\ WaitOf(u)'
    <2>1. RowOf(u) /\ WaitOf(u)
      BY DEF IInv
    <2>2. RowOf(u)'
      BY <2>1 DEF Crash, row, RowOf
    <2>3. /\ pc'[u] = (IF pc[u] \in {"sending", "waiting", "output"} THEN "gone" ELSE pc[u])
          /\ result'[u] = (IF pc[u] \in {"sending", "waiting"} THEN "lost" ELSE result[u])
          /\ stream'[u] = (IF stream[u] = "open" THEN "none" ELSE stream[u])
          /\ held'[u] = <<>> /\ quiet'[u] = "no" /\ status'[u] = status[u] /\ said'[u] = said[u]
      BY <1>0 DEF Crash, row, TypeOK
    <2>4. WaitOf(u)'
      BY <2>1, <2>3 DEF WaitOf, Class
    <2> QED
      BY <2>2, <2>4
  <1> QED
    BY <1>1, <1>2 DEF IInv

LEMMA RecoverKeeps ==
  ASSUME IInv, Recover
  PROVE  IInv'
  <1>0. TypeOK
    BY DEF IInv
  <1>1. TypeOK'
    BY <1>0 DEF Recover, SupersedeRunning, wait, Ended, TypeOK
  <1>2. ASSUME NEW u \in Turn PROVE RowOf(u)' /\ WaitOf(u)'
    <2>1. RowOf(u) /\ WaitOf(u) /\ pc[u] \in {"none", "done", "gone"}
      BY DEF IInv, Recover
    <2>2. status'[u] = (IF status[u] = "running" THEN "superseded" ELSE status[u])
      BY DEF Recover, SupersedeRunning
    <2>3. RowOf(u)'
      BY <2>1, <2>2 DEF Recover, RowOf, StatusOf, Signal
    <2>4. WaitOf(u)'
      BY <2>1, <2>2 DEF Recover, wait, WaitOf
    <2> QED
      BY <2>3, <2>4
  <1> QED
    BY <1>1, <1>2 DEF IInv

LEMMA StepKeeps == IInv /\ [Next]_vars => IInv'
  <1> SUFFICES ASSUME IInv, [Next]_vars PROVE IInv'
    OBVIOUS
  <1> USE DEF IInv
  <1>0. aborted \in [Turn -> BOOLEAN] /\ TypeOK
    BY DEF TypeOK
  <1>1. ASSUME NEW k \in Kind, NEW a \in BOOLEAN, Start(k, a) PROVE IInv'
    BY <1>1, StartKeeps
  <1>2. ASSUME NEW t \in Turn, SendFails(t) \/ PrepareProbeFails(t) PROVE IInv'
    BY <1>2, SendFailsKeeps, PrepareProbeFailsKeeps
  <1>3. ASSUME NEW t \in Turn, Wait(t) PROVE IInv'
    BY <1>3, WaitKeeps
  <1>4. ASSUME NEW t \in Turn, NEW s \in Signal, AgentSignal(t, s) PROVE IInv'
    BY <1>4, AgentSignalKeeps
  <1>5. ASSUME NEW t \in Turn, Waiting(t) PROVE IInv'
    <2>1. CASE QuiescenceEnds(t)
      <3>1. quiet[t] \in Class
        BY <2>1, <1>0 DEF QuiescenceEnds, TypeOK, Class
      <3> QED
        BY <2>1, <3>1, <1>0, FinishKeeps DEF QuiescenceEnds
    <2>2. CASE Look(t)
      BY <2>2, <1>0, LookingKeeps DEF Look, TypeOK
    <2>3. CASE LookAgain(t)
      BY <2>3, <1>0, LookingKeeps DEF LookAgain, TypeOK
    <2>4. CASE TimerFires(t)
      <3>1. CASE HasProbe(t)
        BY ZenonT(30), <2>4, <3>1, <1>0, LookingKeeps DEF TimerFires, TypeOK
      <3>2. CASE ~HasProbe(t)
        BY <2>4, <3>2, <1>0, FinishKeeps DEF TimerFires, Class
      <3> QED
        BY <3>1, <3>2
    <2>5. CASE StreamFails(t)
      BY <2>5, <1>0, FinishKeeps DEF StreamFails, Class
    <2>6. ASSUME NEW c \in Class, LookDecides(t, c) PROVE IInv'
      BY <2>6, <1>0, FinishKeeps DEF LookDecides
    <2>7. ASSUME NEW v \in BOOLEAN, ProbeEnds(t, v) PROVE IInv'
      BY <2>7, <1>0, FinishKeeps DEF ProbeEnds, Class
    <2> QED
      BY <1>5, <2>1, <2>2, <2>3, <2>4, <2>5, <2>6, <2>7 DEF Waiting
  <1>6. ASSUME NEW t \in Turn, Abort(t) PROVE IInv'
    <2>1. aborted' \in [Turn -> BOOLEAN]
      BY <1>6, <1>0 DEF Abort
    <2>2. CASE pc[t] = "waiting"
      BY <1>6, <2>1, <2>2, FinishKeeps DEF Abort, Class
    <2>3. CASE pc[t] # "waiting"
      BY <1>6, <1>0, <2>1, <2>3, LookingKeeps DEF Abort, wait, TypeOK
    <2> QED
      BY <2>2, <2>3
  <1>7. ASSUME NEW t \in Turn, NEW f \in BOOLEAN, Output(t, f) PROVE IInv'
    BY <1>7, OutputKeeps
  <1>8. CASE Crash
    BY <1>8, CrashKeeps
  <1>9. CASE Recover
    BY <1>9, RecoverKeeps
  <1>10. CASE UNCHANGED vars
    BY <1>10 DEF vars, row, wait, TypeOK, RowOf, WaitOf
  <1> QED
    BY <1>1, <1>2, <1>3, <1>4, <1>5, <1>6, <1>7, <1>8, <1>9, <1>10 DEF Next

\* The inductive invariant of the turns and their waits, for any number of
\* turns.
THEOREM Invariance == Spec => []IInv
  BY InitHolds, StepKeeps, PTL DEF Spec

\* At most one turn of a task runs, the newest one.
THEOREM NewestRuns == Spec => []OnlyNewestRuns
  <1>1. IInv => OnlyNewestRuns
    BY DEF IInv, RowOf, OnlyNewestRuns
  <1> QED
    BY <1>1, Invariance, PTL

\* An accepted signal is held for the run, or its wait is ending with it.
THEOREM SignalsAreKept == Spec => []SignalIsKept
  <1>1. IInv => SignalIsKept
    BY DEF IInv, RowOf, WaitOf, SignalIsKept
  <1> QED
    BY <1>1, Invariance, PTL

-----------------------------------------------------------------------------
(* The refinement *)

LEMMA ClassIsClass == Promise!Class = Class /\ Promise!Turn = Turn /\ Promise!Signal = Signal
  BY DEF Promise!Class, Class, Promise!Turn, Promise!Signal, Signal

LEMMA VerdictIsMeaning ==
  ASSUME IInv, NEW t \in Turn, NEW c, said[t] # "none"
  PROVE  Verdict(t, c) = Promise!Meaning(said[t])
  <1>1. said[t] \in Signal /\ status[t] = StatusOf(said[t])
    BY DEF IInv, TypeOK, RowOf
  <1> QED
    BY <1>1 DEF Verdict, Promise!Meaning, StatusOf, Signal

LEMMA FinishHears ==
  ASSUME IInv, NEW t \in Turn, NEW c \in Class, NEW a \in BOOLEAN,
         pc[t] = "waiting", Finish(t, c, a)
  PROVE  \E d \in Class : Promise!Hear(t, d)
  <1>1. result[t] = "none" /\ Verdict(t, c) \in Class
    BY DEF IInv, WaitOf, Verdict, Class
  <1>2. Promise!Hear(t, Verdict(t, c))
    BY <1>1, VerdictIsMeaning DEF Promise!Hear, Finish
  <1> QED
    BY <1>1, <1>2

LEMMA StepRefines == IInv /\ [Next]_vars => [Promise!Next]_<<said, result>>
  <1> SUFFICES ASSUME IInv, [Next]_vars PROVE Promise!Next \/ UNCHANGED <<said, result>>
    OBVIOUS
  <1> USE ClassIsClass
  <1>h. ASSUME NEW t \in Turn, NEW c \in Class, NEW a \in BOOLEAN, pc[t] = "waiting", Finish(t, c, a)
        PROVE Promise!Next
    BY <1>h, FinishHears DEF Promise!Next
  <1>1. ASSUME NEW k \in Kind, NEW a \in BOOLEAN, Start(k, a) PROVE UNCHANGED <<said, result>>
    BY <1>1 DEF Start
  <1>2. ASSUME NEW t \in Turn, SendFails(t) \/ PrepareProbeFails(t) PROVE Promise!Next
    <2>1. result[t] = "none"
      BY <1>2 DEF SendFails, PrepareProbeFails, IInv, WaitOf
    <2> QED
      BY <1>2, <2>1 DEF SendFails, PrepareProbeFails, row, Promise!Next, Promise!Unsent
  <1>3. ASSUME NEW t \in Turn, Wait(t) PROVE UNCHANGED <<said, result>>
    BY <1>3 DEF Wait, row
  <1>4. ASSUME NEW t \in Turn, NEW s \in Signal, AgentSignal(t, s) PROVE Promise!Next
    <2>1. said[t] = "none" /\ status[t] = "running" /\ result[t] \notin Class \cup {"rejected"}
      BY <1>4 DEF AgentSignal, IInv, RowOf, WaitOf
    <2>2. result[t] \in Promise!Deaf
      BY <2>1 DEF IInv, TypeOK, Promise!Deaf
    <2> QED
      BY <1>4, <2>1, <2>2 DEF AgentSignal, Promise!Next, Promise!Say
  <1>5. ASSUME NEW t \in Turn, Waiting(t) PROVE Promise!Next \/ UNCHANGED <<said, result>>
    <2>0. aborted[t] \in BOOLEAN
      BY DEF IInv, TypeOK
    <2>1. CASE QuiescenceEnds(t)
      <3>1. quiet[t] \in Class
        BY <2>1 DEF QuiescenceEnds, IInv, TypeOK, Class
      <3> QED
        BY <2>0, <2>1, <3>1, <1>h DEF QuiescenceEnds
    <2>2. CASE Look(t) \/ LookAgain(t)
      BY <2>2 DEF Look, LookAgain, row
    <2>3. CASE TimerFires(t)
      <3>1. CASE HasProbe(t)
        BY <2>3, <3>1 DEF TimerFires, row
      <3>2. CASE ~HasProbe(t)
        BY <2>0, <2>3, <3>2, <1>h DEF TimerFires, Class
      <3> QED
        BY <3>1, <3>2
    <2>4. CASE StreamFails(t)
      BY <2>0, <2>4, <1>h DEF StreamFails, Class
    <2>5. ASSUME NEW c \in Class, LookDecides(t, c) PROVE Promise!Next
      BY <2>0, <2>5, <1>h DEF LookDecides
    <2>6. ASSUME NEW v \in BOOLEAN, ProbeEnds(t, v) PROVE Promise!Next
      BY <2>0, <2>6, <1>h DEF ProbeEnds, Class
    <2> QED
      BY <1>5, <2>1, <2>2, <2>3, <2>4, <2>5, <2>6 DEF Waiting
  <1>6. ASSUME NEW t \in Turn, Abort(t) PROVE Promise!Next \/ UNCHANGED <<said, result>>
    <2>1. CASE pc[t] = "waiting"
      BY <1>6, <2>1, <1>h DEF Abort, Class
    <2>2. CASE pc[t] # "waiting"
      BY <1>6, <2>2 DEF Abort, row
    <2> QED
      BY <2>1, <2>2
  <1>7. ASSUME NEW t \in Turn, NEW f \in BOOLEAN, Output(t, f) PROVE Promise!Next \/ UNCHANGED <<said, result>>
    <2>1. CASE kind[t] = "phase" /\ ~f /\ source[t] # "azitoctl"
      <3>1. result[t] = "phase_complete" /\ said[t] = "none"
        BY <1>7, <2>1 DEF Output, IInv, RowOf, WaitOf
      <3> QED
        BY <1>7, <2>1, <3>1 DEF Output, Promise!Next, Promise!TakeBack
    <2>2. CASE ~(kind[t] = "phase" /\ ~f /\ source[t] # "azitoctl")
      BY <1>7, <2>2 DEF Output
    <2> QED
      BY <2>1, <2>2
  <1>8. CASE Crash
    <2> DEFINE L == {t \in Turn : pc[t] \in {"sending", "waiting"}}
    <2>1. L \in SUBSET {t \in Turn : result[t] = "none"}
      BY DEF IInv, WaitOf
    <2>2. result' = [t \in Turn |-> IF t \in L THEN "lost" ELSE result[t]]
      BY <1>8 DEF Crash
    <2>3. Promise!Lose
      BY <1>8, <2>1, <2>2 DEF Promise!Lose, Crash, row
    <2> QED
      BY <2>3 DEF Promise!Next
  <1>9. CASE Recover
    BY <1>9 DEF Recover
  <1>10. CASE UNCHANGED vars
    BY <1>10 DEF vars, row
  <1> QED
    BY <1>1, <1>2, <1>3, <1>4, <1>5, <1>6, <1>7, <1>8, <1>9, <1>10 DEF Next

\* The turns implement their promise: the run acts on a turn once, and on the
\* agent's first decisive word whenever there is one.
THEOREM Refinement == Spec => PromiseSpec
  <1>1. Init => Promise!Init
    BY DEF Init, Promise!Init, Promise!Turn
  <1> QED
    BY <1>1, StepRefines, Invariance, PTL DEF Spec, PromiseSpec, Promise!Spec

\* Once the agent has spoken, a run that acts on the turn, or has acted on it
\* after that, follows what it said (finalize reads the row and overrides the
\* classifier, WorkerWaiter), for any number of turns.
THEOREM WordDecides == Spec => []Promise!WordCounts
  <1>1. Init => Promise!WordCounts
    BY DEF Init, Promise!WordCounts, Promise!Turn, Turn
  <1>2. IInv /\ Promise!WordCounts /\ [Promise!Next]_<<said, result>> => Promise!WordCounts'
    <2> SUFFICES ASSUME IInv, Promise!WordCounts, [Promise!Next]_<<said, result>>,
                        NEW t \in Turn, said'[t] # "none", result'[t] \notin Promise!Deaf
                 PROVE  result'[t] = Promise!Meaning(said'[t])
      BY DEF Promise!WordCounts, Promise!Turn, Turn
    <2>0. /\ said \in [Turn -> Signal \cup {"none"}] /\ DOMAIN result = Turn
          /\ said[t] # "none" /\ result[t] \notin Promise!Deaf => result[t] = Promise!Meaning(said[t])
      BY DEF IInv, TypeOK, Promise!WordCounts, Promise!Turn, Turn
    <2>1. ASSUME NEW u \in Turn, NEW s, Promise!Say(u, s) PROVE said'[t] = said[t] /\ result' = result
      <3>1. u # t
        BY <2>1 DEF Promise!Say
      <3> QED
        BY <2>0, <2>1, <3>1 DEF Promise!Say
    <2>2. ASSUME NEW u \in Turn, NEW c, Promise!Hear(u, c)
          PROVE  said' = said /\ (result'[t] = result[t] \/ result'[t] = Promise!Meaning(said[t]))
      BY <2>0, <2>2 DEF Promise!Hear
    <2>3. ASSUME NEW u \in Turn, Promise!TakeBack(u) PROVE said' = said /\ result'[t] = result[t]
      BY <2>0, <2>3 DEF Promise!TakeBack
    <2>4. ASSUME NEW u \in Turn, Promise!Unsent(u) PROVE said' = said /\ result'[t] = result[t]
      BY <2>0, <2>4 DEF Promise!Unsent, Promise!Deaf
    <2>5. ASSUME Promise!Lose PROVE said' = said /\ result'[t] = result[t]
      BY <2>5 DEF Promise!Lose, Promise!Deaf, Promise!Turn, Turn
    <2>6. said' = said /\ result'[t] = result[t] => result'[t] = Promise!Meaning(said'[t])
      BY <2>0
    <2>7. said'[t] = said[t] /\ result' = result => result'[t] = Promise!Meaning(said'[t])
      BY <2>0
    <2> QED
      BY <2>1, <2>2, <2>3, <2>4, <2>5, <2>6, <2>7 DEF Promise!Next, Promise!Turn, Turn
  <1> QED
    BY <1>1, <1>2, Refinement, Invariance, PTL DEF Spec, PromiseSpec, Promise!Spec

\* A turn is acted on once: a second end of the wait, a late signal, an abort, a
\* crash or recovery changes nothing of it, except a guess that
\* rejectInferredCompletion takes back while the agent is silent.
THEOREM SettledTurnsStay == Spec => Promise!SettledOnce
  <1>1. IInv /\ [Promise!Next]_<<said, result>>
        => [\A t \in Promise!Turn :
              /\ result[t] # "none" =>
                     \/ result'[t] = result[t]
                     \/ result[t] = "phase_complete" /\ result'[t] = "rejected" /\ said'[t] = "none"
              /\ said[t] # "none" => said'[t] = said[t]]_<<said, result>>
    <2> SUFFICES ASSUME IInv, Promise!Next, NEW t \in Turn
                 PROVE  /\ result[t] # "none" =>
                               \/ result'[t] = result[t]
                               \/ result[t] = "phase_complete" /\ result'[t] = "rejected" /\ said'[t] = "none"
                        /\ said[t] # "none" => said'[t] = said[t]
      BY DEF Promise!Turn, Turn
    <2>0. DOMAIN said = Turn /\ DOMAIN result = Turn
      BY DEF IInv, TypeOK
    <2>1. ASSUME NEW u \in Turn, NEW s, Promise!Say(u, s)
          PROVE  result' = result /\ (said[t] # "none" => said'[t] = said[t])
      BY <2>0, <2>1 DEF Promise!Say
    <2>2. ASSUME NEW u \in Turn, NEW c, Promise!Hear(u, c)
          PROVE  said' = said /\ (result[t] # "none" => result'[t] = result[t])
      BY <2>0, <2>2 DEF Promise!Hear
    <2>3. ASSUME NEW u \in Turn, Promise!TakeBack(u)
          PROVE  /\ said' = said
                 /\ \/ result'[t] = result[t]
                    \/ result[t] = "phase_complete" /\ result'[t] = "rejected" /\ said[t] = "none"
      BY <2>0, <2>3 DEF Promise!TakeBack
    <2>4. ASSUME NEW u \in Turn, Promise!Unsent(u)
          PROVE  said' = said /\ (result[t] # "none" => result'[t] = result[t])
      BY <2>0, <2>4 DEF Promise!Unsent
    <2>5. ASSUME Promise!Lose PROVE said' = said /\ (result[t] # "none" => result'[t] = result[t])
      BY <2>5 DEF Promise!Lose, Promise!Turn, Turn
    <2> QED
      BY <2>1, <2>2, <2>3, <2>4, <2>5 DEF Promise!Next, Promise!Turn, Turn
  <1> QED
    BY <1>1, Refinement, Invariance, PTL DEF PromiseSpec, Promise!Spec, Promise!SettledOnce

-----------------------------------------------------------------------------
(* What a step may not do to a turn that ended *)

LEMMA StepEndsOnce ==
  IInv /\ [Next]_vars =>
      \A u \in Turn : status[u] \in Ended =>
          \/ status'[u] = status[u] /\ source'[u] = source[u]
          \/ source[u] # "azitoctl" /\ status'[u] = "failed"
  <1> SUFFICES ASSUME IInv, [Next]_vars, NEW u \in Turn, status[u] \in Ended
               PROVE  \/ status'[u] = status[u] /\ source'[u] = source[u]
                      \/ source[u] # "azitoctl" /\ status'[u] = "failed"
    OBVIOUS
  <1>0. TypeOK /\ RowOf(u) /\ status[u] \notin {"none", "running"}
    BY DEF IInv, Ended
  <1>s. UNCHANGED <<status, source>> => status'[u] = status[u] /\ source'[u] = source[u]
    OBVIOUS
  <1>h. ASSUME NEW t \in Turn, NEW c, NEW a, Finish(t, c, a)
        PROVE status'[u] = status[u] /\ source'[u] = source[u]
    <2>1. CASE status[t] = "running"
      <3>1. t # u
        BY <1>0, <2>1
      <3>2. /\ status' = [status EXCEPT ![t] = IF a THEN "aborted" ELSE Inferred(c)]
            /\ source' = [source EXCEPT ![t] = IF a THEN "abort" ELSE "classifier"]
        BY <1>h, <2>1 DEF Finish
      <3> QED
        BY <3>1, <3>2, <1>0 DEF TypeOK
    <2>2. CASE status[t] # "running"
      BY <1>h, <2>2 DEF Finish
    <2> QED
      BY <2>1, <2>2
  <1>1. ASSUME NEW k \in Kind, NEW a \in BOOLEAN, Start(k, a)
        PROVE status'[u] = status[u] /\ source'[u] = source[u]
    <2>1. u # last + 1
      BY <1>0, <1>1, MaxTurnsAssumption DEF RowOf, TypeOK
    <2>2. SupersedeRunning[u] = status[u] /\ DOMAIN SupersedeRunning = Turn
      BY <1>0 DEF SupersedeRunning
    <2>3. status' = [SupersedeRunning EXCEPT ![last + 1] = "running"] /\ source' = source
      BY <1>1 DEF Start
    <2>4. status'[u] = SupersedeRunning[u]
      BY <2>1, <2>2, <2>3
    <2> QED
      BY <2>2, <2>3, <2>4
  <1>2. ASSUME NEW t \in Turn, SendFails(t) \/ PrepareProbeFails(t) \/ Wait(t) PROVE UNCHANGED <<status, source>>
    BY <1>2 DEF SendFails, PrepareProbeFails, Wait, row
  <1>4. ASSUME NEW t \in Turn, NEW s \in Signal, AgentSignal(t, s)
        PROVE status'[u] = status[u] /\ source'[u] = source[u]
    <2>1. t # u
      BY <1>0, <1>4 DEF AgentSignal
    <2> QED
      BY <1>0, <1>4, <2>1 DEF AgentSignal, TypeOK
  <1>5. ASSUME NEW t \in Turn, Waiting(t) PROVE status'[u] = status[u] /\ source'[u] = source[u]
    <2>1. CASE QuiescenceEnds(t)
      BY <2>1, <1>h DEF QuiescenceEnds
    <2>2. CASE Look(t) \/ LookAgain(t)
      BY <2>2 DEF Look, LookAgain, row
    <2>3. CASE TimerFires(t)
      <3>1. CASE HasProbe(t)
        BY <2>3, <3>1 DEF TimerFires, row
      <3>2. CASE ~HasProbe(t)
        BY <2>3, <3>2, <1>h DEF TimerFires
      <3> QED
        BY <3>1, <3>2
    <2>4. CASE StreamFails(t)
      BY <2>4, <1>h DEF StreamFails
    <2>5. ASSUME NEW c \in Class, LookDecides(t, c) PROVE status'[u] = status[u] /\ source'[u] = source[u]
      BY <2>5, <1>h DEF LookDecides
    <2>6. ASSUME NEW v \in BOOLEAN, ProbeEnds(t, v) PROVE status'[u] = status[u] /\ source'[u] = source[u]
      BY <2>6, <1>h DEF ProbeEnds
    <2> QED
      BY <1>5, <2>1, <2>2, <2>3, <2>4, <2>5, <2>6 DEF Waiting
  <1>6. ASSUME NEW t \in Turn, Abort(t) PROVE status'[u] = status[u] /\ source'[u] = source[u]
    <2>1. CASE pc[t] = "waiting"
      BY <1>6, <2>1, <1>h DEF Abort
    <2>2. CASE pc[t] # "waiting"
      BY <1>6, <2>2 DEF Abort, row
    <2> QED
      BY <2>1, <2>2
  <1>7. ASSUME NEW t \in Turn, NEW f \in BOOLEAN, Output(t, f)
        PROVE \/ status'[u] = status[u] /\ source'[u] = source[u]
              \/ source[u] # "azitoctl" /\ status'[u] = "failed"
    <2>1. CASE kind[t] = "phase" /\ ~f /\ source[t] # "azitoctl"
      <3>1. /\ status' = [status EXCEPT ![t] = "failed"]
            /\ source' = [source EXCEPT ![t] = "classifier"]
        BY <1>7, <2>1 DEF Output
      <3>2. CASE u = t
        BY <1>0, <2>1, <3>1, <3>2 DEF TypeOK
      <3>3. CASE u # t
        BY <1>0, <3>1, <3>3 DEF TypeOK
      <3> QED
        BY <3>2, <3>3
    <2>2. CASE ~(kind[t] = "phase" /\ ~f /\ source[t] # "azitoctl")
      BY <1>7, <2>2 DEF Output
    <2> QED
      BY <2>1, <2>2
  <1>8. CASE Crash
    BY <1>8 DEF Crash, row
  <1>9. CASE Recover
    BY <1>0, <1>9 DEF Recover, SupersedeRunning
  <1>10. CASE UNCHANGED vars
    BY <1>10 DEF vars, row
  <1> QED
    BY <1>1, <1>2, <1>4, <1>5, <1>6, <1>7, <1>8, <1>9, <1>10 DEF Next

\* A turn that ended is not revived, and what the agent said is not replaced.
THEOREM TurnsEndOnce == Spec => EndsOnce
  <1>1. IInv /\ [Next]_vars =>
            [\A t \in Turn : status[t] \in Ended =>
                \/ status'[t] = status[t] /\ source'[t] = source[t]
                \/ source[t] # "azitoctl" /\ status'[t] = "failed"]_vars
    BY StepEndsOnce
  <1> QED
    BY <1>1, Invariance, PTL DEF Spec, EndsOnce

=============================================================================
