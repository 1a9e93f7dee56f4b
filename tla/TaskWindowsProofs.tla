-------------------------- MODULE TaskWindowsProofs --------------------------
(***************************************************************************)
(* Proofs about TaskWindows for every set of handlers and every bound on   *)
(* the generations: first for every choice of operations, then for the     *)
(* choices among RotationOps.                                              *)
(***************************************************************************)
EXTENDS TaskWindows, TLAPS

\* A handler's locals after one assignment, and after all are set at once.
LEMMA LetType ==
  ASSUME TypeOK, NEW h \in Handlers, NEW f, NEW v, [loc[h] EXCEPT ![f] = v] \in Local, Let(h, f, v)
  PROVE  loc' \in [Handlers -> Local]
BY DEF TypeOK, Let

LEMMA SetType ==
  ASSUME TypeOK, NEW h \in Handlers, NEW r \in Local, loc' = [loc EXCEPT ![h] = r]
  PROVE  loc' \in [Handlers -> Local]
BY DEF TypeOK

\* The locals keep their type under the assignments of the handlers.
LEMMA NoLocType == NoLoc \in Local
BY DEF Local, NoLoc

LEMMA OpUpdate == ASSUME NEW r \in Local, NEW o \in AllOps PROVE [r EXCEPT !.op = o] \in Local
BY DEF Local

LEMMA NameUpdate == ASSUME NEW r \in Local, NEW w \in Names \union {0} PROVE [r EXCEPT !.name = w] \in Local
BY DEF Local

LEMMA MissedUpdate == ASSUME NEW r \in Local PROVE [r EXCEPT !.missed = TRUE] \in Local
BY DEF Local

LEMMA TargetUpdate == ASSUME NEW r \in Local, NEW t \in Nat PROVE [r EXCEPT !.target = t] \in Local
BY DEF Local

LEMMA WinsUpdate == ASSUME NEW r \in Local, NEW ws \in SUBSET Names PROVE [r EXCEPT !.wins = ws] \in Local
BY DEF Local

LEMMA GenUpdate ==
  ASSUME NEW r \in Local, NEW g \in Gens, NEW w \in Names \union {0}
  PROVE  [r EXCEPT !.own = g, !.name = w] \in Local
BY DEF Local

LEMMA FoundUpdate ==
  ASSUME NEW r \in Local, NEW w \in Names \union {0}, NEW t \in Nat
  PROVE  [r EXCEPT !.name = w, !.target = t, !.woke = FALSE] \in Local
BY DEF Local

\* A row keeps its type when it is put to sleep or woken.
LEMMA SleepingUpdate ==
  ASSUME TypeOK
  PROVE  \A p \in prims, b \in BOOLEAN :
           [p EXCEPT !.sleeping = b] \in [id : Nat, window : Names, sleeping : BOOLEAN]
BY DEF TypeOK

\* A row keeps its type when it is given the name of a window.
LEMMA WindowUpdate ==
  ASSUME TypeOK, NEW w \in Names
  PROVE  \A p \in prims : [p EXCEPT !.window = w] \in [id : Nat, window : Names, sleeping : BOOLEAN]
BY DEF TypeOK

\* The primary row is a row of the table, or none.
LEMMA PrimaryType ==
  ASSUME TypeOK
  PROVE  Primary \in [id : Nat, window : Names \union {0}, sleeping : BOOLEAN]
BY DEF TypeOK, Primary, Oldest, NoRow, Names

\* A row keeps its type when its window is recorded.
LEMMA UpdateRowType ==
  ASSUME TypeOK, NEW id \in Nat, NEW w \in Names, UpdateRow(id, w)
  PROVE  prims' \subseteq [id : Nat, window : Names, sleeping : BOOLEAN]
<1>1. \A p \in prims : [p EXCEPT !.window = w, !.sleeping = FALSE] \in [id : Nat, window : Names, sleeping : BOOLEAN]
  BY DEF TypeOK
<1> QED  BY ZenonT(30), <1>1 DEF TypeOK, UpdateRow

\* The steps of a rotation: types.
LEMMA RotateType ==
  ASSUME TypeOK, SectionOK, NEW h \in Handlers, Rotate(h)
  PROVE  TypeOK'
<1> USE WindowsAssumption DEF TypeOK, SectionOK, Pcs, Section, Statuses, AllOps, Names, Gens, Respawns
<1>1. CASE ExecuteBegin(h)
  <2>1. [loc[h] EXCEPT !["op"] = "execute"] \in Local
    BY OpUpdate
  <2> QED  BY <1>1, <2>1, LetType DEF ExecuteBegin, Goto, db
<1>2. CASE ExecuteEnter(h)
  <2>1. [loc[h] EXCEPT !["name"] = row.window] \in Local
    BY NameUpdate
  <2> QED  BY <1>2, <2>1, LetType DEF ExecuteEnter, Goto, Enters, db
<1>3. CASE RestoreBegin(h)
  <2>1. [loc[h] EXCEPT !["op"] = "restore"] \in Local
    BY OpUpdate
  <2> QED  BY <1>3, <2>1, LetType DEF RestoreBegin, Goto, db
<1>4. CASE RestoreEnter(h)
  BY <1>4 DEF RestoreEnter, Goto, Keep, Enters, db, Local
<1>5. CASE RespawnBegin(h)
  <2>1. PICK p \in prims :
          loc' = [loc EXCEPT ![h] = [NoLoc EXCEPT !.op = "respawn", !.seen = row.window, !.target = p.id]]
    BY <1>5 DEF RespawnBegin, Local
  <2>2. [NoLoc EXCEPT !.op = "respawn", !.seen = row.window, !.target = p.id] \in Local
    BY DEF NoLoc, Local
  <2> QED  BY <1>5, <2>1, <2>2, SetType DEF RespawnBegin, Goto, db
<1>6. CASE RespawnEnter(h)
  <2>1. PICK p \in prims : Goto(h, "killOld") /\ Let(h, "name", p.window)
    BY <1>6 DEF RespawnEnter, Local
  <2>2. [loc[h] EXCEPT !["name"] = p.window] \in Local
    BY NameUpdate
  <2> QED  BY <1>6, <2>1, <2>2, LetType DEF RespawnEnter, Goto, Enters, db
<1>7. CASE RespawnGone(h)
  BY <1>7 DEF RespawnGone, Goto, Unlock, Leave, NoLoc, db, Local
<1>8. CASE KillOld(h)
  BY <1>8 DEF KillOld, Goto, Keep, Alive, db, Local
<1>9. CASE KillOldFails(h)
  BY <1>9 DEF KillOldFails, Goto, Unlock, Leave, Alive, NoLoc, db, Local
<1>10. CASE Refuse(h)
  BY <1>10 DEF Refuse, Goto, Unlock, Leave, NoLoc, db, Local
<1>11. CASE ServerChanged(h)
  BY <1>11 DEF ServerChanged, Goto, Unlock, Leave, WriteRow, NoLoc, Local
<1>12. CASE IssueGeneration(h)
  <2> DEFINE r == [loc[h] EXCEPT !.own = gen + 1, !.name = IF Respawns(h) THEN @ ELSE gen + 1]
  <2>1. gen + 1 \in Gens
    BY <1>12 DEF IssueGeneration, Local
  <2>2. loc' = [loc EXCEPT ![h] = r]
    BY <1>12 DEF IssueGeneration, Local
  <2>3. r \in Local
    <3>1. [loc[h] EXCEPT !.own = gen + 1, !.name = gen + 1] \in Local
      BY <2>1, GenUpdate
    <3>2. loc[h] \in Local /\ loc[h].name \in Names \union {0}
      BY DEF Local
    <3>3. [loc[h] EXCEPT !.own = gen + 1, !.name = loc[h].name] \in Local
      BY <2>1, <3>2, GenUpdate
    <3> QED  BY <3>1, <3>3
  <2> QED  BY <1>12, <2>1, <2>2, <2>3, SetType DEF IssueGeneration, Issue, Goto, db
<1>13. CASE OutOfGenerations(h)
  BY <1>13 DEF OutOfGenerations, Goto, Unlock, Leave, NoLoc, db, Local
<1>14. CASE Create(h)
  BY <1>14 DEF Create, Goto, Keep, db, Local
<1>15. CASE CreateFails(h)
  BY <1>15 DEF CreateFails, Goto, Unlock, Leave, NoLoc, db, Local
<1>16. CASE ExecutePersist(h)
  BY <1>16 DEF ExecutePersist, Goto, Keep, LeaveLock, WriteRow, AddRow, Local
<1>17. CASE RespawnPersist(h)
  <2> DEFINE r == [NoLoc EXCEPT !.op = "followUp", !.target = loc[h].target, !.woke = TRUE]
  <2>1. loc[h].name \in Names /\ loc[h].target \in Nat
    BY <1>17 DEF RespawnPersist, Local
  <2>2. r \in Local /\ NoLoc \in Local
    BY DEF NoLoc, Local
  <2>3. prims' \subseteq [id : Nat, window : Names, sleeping : BOOLEAN]
    BY <1>17, <2>1, UpdateRowType DEF RespawnPersist, Local
  <2>4. row' \in [window : Names \union {0}, status : Statuses]
    BY <1>17, <2>1 DEF RespawnPersist, RespawnWrites, Local
  <2>5. loc' = [loc EXCEPT ![h] = r] \/ loc' = [loc EXCEPT ![h] = NoLoc]
    BY <1>17 DEF RespawnPersist, Leave, Local
  <2>6. loc' \in [Handlers -> Local]
    <3>1. CASE loc' = [loc EXCEPT ![h] = r]
      BY <2>2, <3>1, SetType
    <3>2. CASE loc' = [loc EXCEPT ![h] = NoLoc]
      BY <2>2, <3>2, SetType
    <3> QED  BY <2>5, <3>1, <3>2
  <2> QED  BY ZenonT(30), <1>17, <2>3, <2>4, <2>6 DEF RespawnPersist, Leave, Goto, Unlock, Local
<1>18. CASE SetupFails(h)
  BY <1>18 DEF SetupFails, Goto, Keep, db, Local
<1>19. CASE RestoreRegister(h)
  <2>1. AddRow(loc[h].name) \in [id : Nat, window : Names, sleeping : BOOLEAN]
    BY <1>19 DEF RestoreRegister, AddRow, Local
  <2>2. [loc[h] EXCEPT !["target"] = rows + 1] \in Local
    <3>1. loc[h] \in Local /\ rows + 1 \in Nat
      OBVIOUS
    <3> QED  BY <3>1, TargetUpdate
  <2>3. loc' \in [Handlers -> Local]
    BY <1>19, <2>2, LetType DEF RestoreRegister
  <2>4. pc' = [pc EXCEPT ![h] = "label"]
    BY <1>19 DEF RestoreRegister, Goto
  <2> QED  BY <1>19, <2>1, <2>3, <2>4 DEF RestoreRegister
<1>20. CASE RestorePersist(h)
  BY <1>20 DEF RestorePersist, Goto, Unlock, Leave, WriteRow, NoLoc, Local
<1>21. CASE OldMissed(h)
  <2>1. [loc[h] EXCEPT !["missed"] = TRUE] \in Local
    BY MissedUpdate
  <2> QED  BY <1>21, <2>1, LetType DEF OldMissed, Goto, db
<1> QED  BY <1>1, <1>2, <1>3, <1>4, <1>5, <1>6, <1>7, <1>8, <1>9, <1>10, <1>11, <1>12, <1>13,
       <1>14, <1>15, <1>16, <1>17, <1>18, <1>19, <1>20, <1>21 DEF Rotate

\* The rollback of a window: types.
LEMMA RollbackType ==
  ASSUME TypeOK, SectionOK, NEW h \in Handlers, Rollback(h)
  PROVE  TypeOK'
<1> USE WindowsAssumption DEF TypeOK, SectionOK, Pcs, Section, Statuses, AllOps, Names, Gens, Respawns
<1>1. CASE Undo(h)
  BY <1>1 DEF Undo, Goto, Keep, db, Local
<1>2. CASE UndoFails(h)
  <2>1. row' \in [window : Names \union {0}, status : Statuses]
    BY <1>2 DEF UndoFails, RespawnWrites, Local
  <2>2. CASE Respawns(h)
    <3>1. loc[h].name \in Names
      BY <1>2, <2>2 DEF UndoFails, Local
    <3>2. \A p \in prims : [p EXCEPT !.window = loc[h].name] \in [id : Nat, window : Names, sleeping : BOOLEAN]
      BY <3>1, WindowUpdate
    <3> QED  BY <1>2, <2>1, <2>2, <3>2 DEF UndoFails, Leave, Goto, Unlock, NoLoc, Local
  <2>3. CASE ~Respawns(h)
    BY <1>2, <2>1, <2>3 DEF UndoFails, Leave, Goto, Unlock, NoLoc, Local
  <2> QED  BY <2>2, <2>3
<1>3. CASE Forget(h)
  BY <1>3 DEF Forget, Goto, Unlock, Leave, ClearIfMatches, NoLoc, Local
<1> QED  BY <1>1, <1>2, <1>3 DEF Rollback

\* The steps after the window is there, and a follow-up: types.
LEMMA RunType ==
  ASSUME TypeOK, SectionOK, NEW h \in Handlers, Run(h)
  PROVE  TypeOK'
<1> USE WindowsAssumption DEF TypeOK, SectionOK, Pcs, Section, Statuses, AllOps, Names, Gens, Respawns
<1>1. CASE PrepareFails(h)
  BY <1>1 DEF PrepareFails, Goto, Keep, FailIfWindowMatches, Local
<1>2. CASE Complete(h)
  <2>1. AddRow(loc[h].name) \in [id : Nat, window : Names, sleeping : BOOLEAN]
    BY <1>2 DEF Complete, AddRow, Local
  <2>2. \A p \in prims : [p EXCEPT !.sleeping = FALSE] \in [id : Nat, window : Names, sleeping : BOOLEAN]
    BY SleepingUpdate
  <2> DEFINE own == {p \in prims : p.window = loc[h].name}
  <2>3. CASE own = {}
    BY SMTT(30), <1>2, <2>1, <2>3 DEF Complete, Goto, Keep, Local
  <2>4. CASE own # {}
    BY SMTT(30), <1>2, <2>2, <2>4 DEF Complete, Goto, Keep, Local
  <2> QED  BY <2>3, <2>4
<1>3. CASE Abandon(h)
  BY <1>3 DEF Abandon, Goto, Unlock, Leave, Alive, NoLoc, db, Local
<1>4. CASE Launched(h)
  BY <1>4 DEF Launched, Goto, Unlock, Leave, NoLoc, db, Local
<1>5. CASE LaunchFails(h)
  <2>1. row' \in [window : Names \union {0}, status : Statuses]
    BY <1>5 DEF LaunchFails, WriteRow, Local
  <2>2. CASE loc[h].op = "followUp" /\ loc[h].own # 0
    BY ZenonT(30), <1>5, <2>1, <2>2 DEF LaunchFails, Goto, Keep, Local
  <2>3. CASE ~(loc[h].op = "followUp" /\ loc[h].own # 0)
    <3>1. loc' \in [Handlers -> Local]
      BY <1>5, <2>3, NoLocType, SetType DEF LaunchFails, Leave
    <3> QED  BY ZenonT(30), <1>5, <2>1, <2>3, <3>1 DEF LaunchFails, Leave, Goto, Unlock, Local
  <2> QED  BY <2>2, <2>3
<1>6. CASE FollowUpBegin(h)
  <2> DEFINE wakes == Primary # NoRow /\ (Primary.sleeping \/ ~Alive(Primary.window))
             w == [NoLoc EXCEPT !.op = "wake", !.seen = row.window, !.target = Primary.id]
             f == [NoLoc EXCEPT !.op = "followUp"]
  <2>1. w \in Local /\ f \in Local
    BY PrimaryType DEF NoLoc, Local
  <2>2. loc' = [loc EXCEPT ![h] = IF wakes THEN w ELSE f]
    BY <1>6 DEF FollowUpBegin, Local
  <2>3. loc' \in [Handlers -> Local]
    BY <2>1, <2>2, SetType
  <2>4. prims' \subseteq [id : Nat, window : Names, sleeping : BOOLEAN]
    <3>1. \A q \in prims : [q EXCEPT !.sleeping = TRUE] \in [id : Nat, window : Names, sleeping : BOOLEAN]
      BY SleepingUpdate
    <3>2. CASE wakes
      BY <1>6, <3>1, <3>2 DEF FollowUpBegin, Local
    <3>3. CASE ~wakes
      BY <1>6, <3>3 DEF FollowUpBegin, Local
    <3> QED  BY <3>2, <3>3
  <2> QED  BY <1>6, <2>3, <2>4 DEF FollowUpBegin, WriteRow, Goto, Local
<1>7. CASE FollowUpEnter(h)
  <2> DEFINE fresh == {p \in prims : loc[h].woke /\ p.id = loc[h].target /\ ~p.sleeping /\ Alive(p.window)}
             r == [loc[h] EXCEPT !.name = IF Primary = NoRow THEN row.window ELSE Primary.window,
                                 !.target = Primary.id, !.woke = FALSE]
  <2>1. CASE fresh # {}
    <3>1. PICK p \in fresh : Let(h, "name", p.window)
      BY <1>7, <2>1 DEF FollowUpEnter, Local
    <3>2. [loc[h] EXCEPT !["name"] = p.window] \in Local
      BY NameUpdate
    <3>3. loc' \in [Handlers -> Local]
      BY <3>1, <3>2, LetType
    <3> QED  BY ZenonT(30), <1>7, <2>1, <3>3 DEF FollowUpEnter, Goto, Enters, db, Local
  <2>2. CASE fresh = {}
    <3>1. r \in Local
      BY PrimaryType, FoundUpdate
    <3>2. loc' = [loc EXCEPT ![h] = r]
      BY <1>7, <2>2 DEF FollowUpEnter, Local
    <3>3. loc' \in [Handlers -> Local]
      BY <3>1, <3>2, SetType
    <3> QED  BY ZenonT(30), <1>7, <2>2, <3>3 DEF FollowUpEnter, Goto, Enters, db, Local
  <2> QED  BY <2>1, <2>2
<1>8. CASE FollowUpWoken(h)
  BY <1>8 DEF FollowUpWoken, Goto, Keep, LeaveLock, WriteRow, Local
<1>9. CASE FollowUpReuse(h)
  BY <1>9 DEF FollowUpReuse, Goto, Keep, LeaveLock, WriteRow, Alive, Local
<1>10. CASE FollowUpNoWindow(h)
  BY <1>10 DEF FollowUpNoWindow, Goto, Keep, Alive, db, Local
<1>11. CASE FollowUpPersist(h)
  <2>1. loc[h].name \in Names /\ loc[h].target \in Nat
    BY <1>11 DEF FollowUpPersist, Local
  <2>2. AddRow(loc[h].name) \in [id : Nat, window : Names, sleeping : BOOLEAN]
    BY <2>1 DEF AddRow, Local
  <2>3. CASE loc[h].target # 0
    BY <1>11, <2>1, <2>3, UpdateRowType DEF FollowUpPersist, LeaveLock, Goto, Keep, WriteRow, Local
  <2>4. CASE loc[h].target = 0
    BY <1>11, <2>2, <2>4 DEF FollowUpPersist, LeaveLock, Goto, Keep, WriteRow, Local
  <2> QED  BY <2>3, <2>4
<1>12. CASE DirectoryRejected(h)
  BY <1>12 DEF DirectoryRejected, Goto, Keep, WriteRow, Local
<1> QED  BY <1>1, <1>2, <1>3, <1>4, <1>5, <1>6, <1>7, <1>8, <1>9, <1>10, <1>11, <1>12 DEF Run

\* A window destroyed on request: types.
LEMMA DestroyType ==
  ASSUME TypeOK, SectionOK, NEW h \in Handlers, Destroy(h)
  PROVE  TypeOK'
<1> USE WindowsAssumption DEF TypeOK, SectionOK, Pcs, Section, Statuses, AllOps, Names, Gens, Respawns
<1>1. CASE RetryBegin(h)
  <2> DEFINE n == IF Primary = NoRow THEN row.window ELSE Primary.window
             r == [NoLoc EXCEPT !.op = "retry", !.seen = row.window, !.name = n]
  <2>1. n \in Names \union {0} /\ row.window \in Names \union {0}
    BY PrimaryType
  <2>2. r \in Local
    <3> HIDE DEF n
    <3> QED  BY <2>1 DEF NoLoc, Local
  <2>3. loc' = [loc EXCEPT ![h] = r]
    BY <1>1 DEF RetryBegin
  <2>4. loc' \in [Handlers -> Local]
    BY <2>2, <2>3, SetType
  <2> QED  BY <1>1, <2>4 DEF RetryBegin, Goto, db
<1>2. CASE DeleteBegin(h)
  <2>1. PICK p \in prims :
          loc' = [loc EXCEPT ![h] = [NoLoc EXCEPT !.op = "delete", !.seen = p.window, !.name = p.window, !.target = p.id]]
    BY <1>2 DEF DeleteBegin, Local
  <2>2. [NoLoc EXCEPT !.op = "delete", !.seen = p.window, !.name = p.window, !.target = p.id] \in Local
    BY DEF NoLoc, Local
  <2> QED  BY <1>2, <2>1, <2>2, SetType DEF DeleteBegin, Goto, db
<1>3. CASE DestroyEnter(h)
  BY <1>3 DEF DestroyEnter, Goto, Keep, Enters, db, Local
<1>4. CASE DestroyKill(h)
  BY <1>4 DEF DestroyKill, Goto, Keep, db, Local
<1>5. CASE DestroyFails(h)
  BY <1>5 DEF DestroyFails, Goto, Unlock, Leave, Alive, NoLoc, db, Local
<1>6. CASE Destroyed(h)
  <2>1. CASE loc[h].op = "retry"
    BY ZenonT(30), <1>6, <2>1 DEF Destroyed, LeaveLock, Goto, Keep, ClearIfMatches, Local
  <2>2. CASE loc[h].op # "retry"
    <3>1. loc' \in [Handlers -> Local]
      BY <1>6, <2>2, NoLocType, SetType DEF Destroyed, Leave
    <3> QED  BY ZenonT(30), <1>6, <2>2, <3>1 DEF Destroyed, Leave, Goto, Unlock, ClearIfMatches, Local
  <2> QED  BY <2>1, <2>2
<1>7. CASE RetryReset(h)
  BY <1>7 DEF RetryReset, Goto, Unlock, Leave, WriteRow, NoLoc, Local
<1>8. CASE SessionKillBegin(h)
  <2> DEFINE r == [NoLoc EXCEPT !.op = "sessionKill", !.wins = {p.window : p \in prims}]
  <2>1. r \in Local
    <3>1. NoLoc \in Local /\ {p.window : p \in prims} \in SUBSET Names
      BY NoLocType DEF Local
    <3> QED  BY <3>1, WinsUpdate, OpUpdate
  <2>2. loc' = [loc EXCEPT ![h] = r]
    BY <1>8 DEF SessionKillBegin
  <2>3. loc' \in [Handlers -> Local]
    BY <2>1, <2>2, SetType
  <2>4. pc' = [pc EXCEPT ![h] = "resolve"] \/ pc' = [pc EXCEPT ![h] = "queued"]
    BY <1>8 DEF SessionKillBegin, Goto
  <2>5. UNCHANGED <<row, prims, rows, live, gen, active, lock>>
    BY <1>8 DEF SessionKillBegin, db
  <2> QED  BY <2>3, <2>4, <2>5
<1>9. CASE SessionKillEnter(h)
  BY <1>9 DEF SessionKillEnter, Goto, Keep, Enters, db, Local
<1>10. CASE Resolve(h)
  <2>1. [loc[h] EXCEPT !["wins"] = {p.window : p \in prims}] \in Local
    <3>1. loc[h] \in Local /\ {p.window : p \in prims} \in SUBSET Names
      OBVIOUS
    <3> QED  BY <3>1, WinsUpdate
  <2> QED  BY ZenonT(30), <1>10, <2>1, LetType DEF Resolve, Goto, Unlock, db
<1>11. CASE GiveUp(h)
  BY <1>11 DEF GiveUp, Goto, Unlock, Leave, NoLoc, db, Local
<1>12. CASE SessionKill(h)
  BY <1>12 DEF SessionKill, Goto, Keep, db, Local
<1>13. CASE SessionKillFails(h)
  BY <1>13 DEF SessionKillFails, Goto, Unlock, Leave, NoLoc, db, Local
<1>14. CASE SessionKilled(h)
  BY <1>14 DEF SessionKilled, Goto, Unlock, Leave, NoLoc, Local
<1> QED  BY <1>1, <1>2, <1>3, <1>4, <1>5, <1>6, <1>7, <1>8, <1>9, <1>10, <1>11, <1>12, <1>13,
       <1>14 DEF Destroy

\* A task archived or put to sleep: types.
LEMMA PutType ==
  ASSUME TypeOK, SectionOK, NEW h \in Handlers, Put(h)
  PROVE  TypeOK'
<1> USE WindowsAssumption DEF TypeOK, SectionOK, Pcs, Section, Statuses, AllOps, Names, Gens, Respawns
<1>1. CASE ArchiveBegin(h)
  BY <1>1 DEF ArchiveBegin, Goto, NoLoc, db, Local
<1>2. CASE ArchiveClose(h)
  BY <1>2 DEF ArchiveClose, Goto, Keep, db, Local
<1>3. CASE ArchiveCloseFails(h)
  BY <1>3 DEF ArchiveCloseFails, Goto, Keep, db, Local
<1>4. CASE Archived(h)
  BY <1>4 DEF Archived, Goto, Unlock, Leave, SetStatus, NoLoc, Revoking, Local
<1>5. CASE SleepBegin(h)
  <2>1. PICK p \in prims :
          loc' = [loc EXCEPT ![h] = [NoLoc EXCEPT !.op = "sleep", !.name = p.window, !.target = p.id]]
    BY <1>5 DEF SleepBegin, Local
  <2>2. [NoLoc EXCEPT !.op = "sleep", !.name = p.window, !.target = p.id] \in Local
    BY DEF NoLoc, Local
  <2> QED  BY <1>5, <2>1, <2>2, SetType DEF SleepBegin, Goto, db
<1>6. CASE SleepKill(h)
  BY <1>6 DEF SleepKill, Goto, Keep, db, Local
<1>7. CASE SleepFails(h)
  BY <1>7 DEF SleepFails, Goto, Unlock, Leave, Alive, NoLoc, db, Local
<1>8. CASE Slept(h)
  <2>1. \A p \in prims : [p EXCEPT !.sleeping = TRUE] \in [id : Nat, window : Names, sleeping : BOOLEAN]
    BY SleepingUpdate
  <2> QED  BY <1>8, <2>1 DEF Slept, Leave, Goto, Unlock, NoLoc, Local
<1> QED  BY <1>1, <1>2, <1>3, <1>4, <1>5, <1>6, <1>7, <1>8 DEF Put

\* The steps of a rotation: the sections.
LEMMA RotateSection ==
  ASSUME TypeOK, SectionOK, NEW h \in Handlers, Rotate(h)
  PROVE  SectionOK'
<1> USE WindowsAssumption DEF TypeOK, SectionOK, Local, Pcs, Section, Statuses, AllOps, Names, Gens, Respawns
<1>1. CASE ExecuteBegin(h)
  BY <1>1 DEF ExecuteBegin, Goto, Let, db
<1>2. CASE ExecuteEnter(h)
  BY <1>2 DEF ExecuteEnter, Goto, Let, Enters, db
<1>3. CASE RestoreBegin(h)
  BY <1>3 DEF RestoreBegin, Goto, Let, db
<1>4. CASE RestoreEnter(h)
  BY <1>4 DEF RestoreEnter, Goto, Keep, Enters, db
<1>5. CASE RespawnBegin(h)
  BY <1>5 DEF RespawnBegin, Goto, NoLoc, db
<1>6. CASE RespawnEnter(h)
  BY <1>6 DEF RespawnEnter, Goto, Let, Enters, db
<1>7. CASE RespawnGone(h)
  BY <1>7 DEF RespawnGone, Goto, Unlock, Leave, NoLoc, db
<1>8. CASE KillOld(h)
  BY <1>8 DEF KillOld, Goto, Keep, Alive, db
<1>9. CASE KillOldFails(h)
  BY <1>9 DEF KillOldFails, Goto, Unlock, Leave, Alive, NoLoc, db
<1>10. CASE Refuse(h)
  BY <1>10 DEF Refuse, Goto, Unlock, Leave, NoLoc, db
<1>11. CASE ServerChanged(h)
  BY <1>11 DEF ServerChanged, Goto, Unlock, Leave, WriteRow, NoLoc
<1>12. CASE IssueGeneration(h)
  BY <1>12 DEF IssueGeneration, Goto, Issue, db
<1>13. CASE OutOfGenerations(h)
  BY <1>13 DEF OutOfGenerations, Goto, Unlock, Leave, NoLoc, db
<1>14. CASE Create(h)
  BY <1>14 DEF Create, Goto, Keep, db
<1>15. CASE CreateFails(h)
  BY <1>15 DEF CreateFails, Goto, Unlock, Leave, NoLoc, db
<1>16. CASE ExecutePersist(h)
  BY <1>16 DEF ExecutePersist, Goto, Keep, LeaveLock, WriteRow, AddRow
<1>17. CASE RespawnPersist(h)
  <2>1. CASE loc[h].op = "wake"
    BY <1>17, <2>1 DEF RespawnPersist, Goto
  <2>2. CASE loc[h].op # "wake"
    BY <1>17, <2>2 DEF RespawnPersist, Leave, Goto, Unlock, NoLoc
  <2> QED  BY <2>1, <2>2
<1>18. CASE SetupFails(h)
  BY <1>18 DEF SetupFails, Goto, Keep, db
<1>19. CASE RestoreRegister(h)
  BY <1>19 DEF RestoreRegister, Goto, Let, AddRow
<1>20. CASE RestorePersist(h)
  BY <1>20 DEF RestorePersist, Goto, Unlock, Leave, WriteRow, NoLoc
<1>21. CASE OldMissed(h)
  BY <1>21 DEF OldMissed, Goto, Let, db
<1> QED  BY <1>1, <1>2, <1>3, <1>4, <1>5, <1>6, <1>7, <1>8, <1>9, <1>10, <1>11, <1>12, <1>13,
       <1>14, <1>15, <1>16, <1>17, <1>18, <1>19, <1>20, <1>21 DEF Rotate

\* The rollback of a window: the sections.
LEMMA RollbackSection ==
  ASSUME TypeOK, SectionOK, NEW h \in Handlers, Rollback(h)
  PROVE  SectionOK'
<1> USE WindowsAssumption DEF TypeOK, SectionOK, Local, Pcs, Section, Statuses, AllOps, Names, Gens, Respawns
<1>1. CASE Undo(h)
  BY <1>1 DEF Undo, Goto, Keep, db
<1>2. CASE UndoFails(h)
  BY <1>2 DEF UndoFails, Goto, Unlock, Leave, RespawnWrites, Alive, NoLoc
<1>3. CASE Forget(h)
  BY <1>3 DEF Forget, Goto, Unlock, Leave, ClearIfMatches, NoLoc
<1> QED  BY <1>1, <1>2, <1>3 DEF Rollback

\* The steps after the window is there, and a follow-up: the sections.
LEMMA RunSection ==
  ASSUME TypeOK, SectionOK, NEW h \in Handlers, Run(h)
  PROVE  SectionOK'
<1> USE WindowsAssumption DEF TypeOK, SectionOK, Local, Pcs, Section, Statuses, AllOps, Names, Gens, Respawns
<1>1. CASE PrepareFails(h)
  BY <1>1 DEF PrepareFails, Goto, Keep, FailIfWindowMatches
<1>2. CASE Complete(h)
  BY <1>2 DEF Complete, Goto, Keep, AddRow
<1>3. CASE Abandon(h)
  BY <1>3 DEF Abandon, Goto, Unlock, Leave, Alive, NoLoc, db
<1>4. CASE Launched(h)
  BY <1>4 DEF Launched, Goto, Unlock, Leave, NoLoc, db
<1>5. CASE LaunchFails(h)
  BY <1>5 DEF LaunchFails, Goto, Keep, Unlock, Leave, WriteRow, NoLoc
<1>6. CASE FollowUpBegin(h)
  BY <1>6 DEF FollowUpBegin, Goto, WriteRow, Alive, Primary, Oldest, NoRow, NoLoc
<1>7. CASE FollowUpEnter(h)
  <2>1. lock = None /\ lock' = h /\ pc[h] = "queued" /\ loc[h].op = "followUp" /\ gen' = gen
    BY <1>7 DEF FollowUpEnter, Enters
  <2>2. \E p \in {"woken", "look"} : pc' = [pc EXCEPT ![h] = p]
    BY <1>7 DEF FollowUpEnter, Goto
  <2>3. \A g \in Handlers : g # h => loc'[g] = loc[g]
    BY <1>7 DEF FollowUpEnter, Let
  <2>4. loc'[h].op = "followUp"
    BY <1>7, <2>1 DEF FollowUpEnter, Let
  <2>5. \A g \in Handlers : pc[g] \notin Section
    BY <2>1
  <2> QED  BY <2>1, <2>2, <2>3, <2>4, <2>5
<1>8. CASE FollowUpWoken(h)
  BY <1>8 DEF FollowUpWoken, Goto, Keep, LeaveLock, WriteRow
<1>9. CASE FollowUpReuse(h)
  BY <1>9 DEF FollowUpReuse, Goto, Keep, LeaveLock, WriteRow, Alive
<1>10. CASE FollowUpNoWindow(h)
  <2>1. pc[h] = "look" /\ pc' = [pc EXCEPT ![h] = "issue"] /\ ~Respawns(h) /\ UNCHANGED <<loc, lock, gen>>
    BY <1>10 DEF FollowUpNoWindow, Goto, Keep
  <2> QED  BY <2>1
<1>11. CASE FollowUpPersist(h)
  BY ZenonT(30), <1>11 DEF FollowUpPersist, Goto, Keep, LeaveLock, WriteRow, AddRow, UpdateRow
<1>12. CASE DirectoryRejected(h)
  BY <1>12 DEF DirectoryRejected, Goto, Keep, WriteRow
<1> QED  BY <1>1, <1>2, <1>3, <1>4, <1>5, <1>6, <1>7, <1>8, <1>9, <1>10, <1>11, <1>12 DEF Run

\* A window destroyed on request: the sections.
LEMMA DestroySection ==
  ASSUME TypeOK, SectionOK, NEW h \in Handlers, Destroy(h)
  PROVE  SectionOK'
<1> USE WindowsAssumption DEF TypeOK, SectionOK, Local, Pcs, Section, Statuses, AllOps, Names, Gens, Respawns
<1>1. CASE RetryBegin(h)
  BY <1>1 DEF RetryBegin, Goto, Primary, Oldest, NoRow, NoLoc, db
<1>2. CASE DeleteBegin(h)
  BY <1>2 DEF DeleteBegin, Goto, NoLoc, db
<1>3. CASE DestroyEnter(h)
  BY <1>3 DEF DestroyEnter, Goto, Keep, Enters, db
<1>4. CASE DestroyKill(h)
  BY <1>4 DEF DestroyKill, Goto, Keep, db
<1>5. CASE DestroyFails(h)
  BY <1>5 DEF DestroyFails, Goto, Unlock, Leave, Alive, NoLoc, db
<1>6. CASE Destroyed(h)
  <2>1. CASE loc[h].op = "retry"
    BY <1>6, <2>1 DEF Destroyed, LeaveLock, Goto, Keep
  <2>2. CASE loc[h].op # "retry"
    BY <1>6, <2>2 DEF Destroyed, Leave, Goto, Unlock, NoLoc
  <2> QED  BY <2>1, <2>2
<1>7. CASE RetryReset(h)
  BY <1>7 DEF RetryReset, Goto, Unlock, Leave, WriteRow, NoLoc
<1>8. CASE SessionKillBegin(h)
  BY <1>8 DEF SessionKillBegin, Goto, NoLoc, db
<1>9. CASE SessionKillEnter(h)
  BY <1>9 DEF SessionKillEnter, Goto, Keep, Enters, db
<1>10. CASE Resolve(h)
  BY <1>10 DEF Resolve, Goto, Let, Unlock, db
<1>11. CASE GiveUp(h)
  BY <1>11 DEF GiveUp, Goto, Unlock, Leave, NoLoc, db
<1>12. CASE SessionKill(h)
  BY <1>12 DEF SessionKill, Goto, Keep, db
<1>13. CASE SessionKillFails(h)
  BY <1>13 DEF SessionKillFails, Goto, Unlock, Leave, NoLoc, db
<1>14. CASE SessionKilled(h)
  BY <1>14 DEF SessionKilled, Goto, Unlock, Leave, NoLoc
<1> QED  BY <1>1, <1>2, <1>3, <1>4, <1>5, <1>6, <1>7, <1>8, <1>9, <1>10, <1>11, <1>12, <1>13,
       <1>14 DEF Destroy

\* A task archived or put to sleep: the sections.
LEMMA PutSection ==
  ASSUME TypeOK, SectionOK, NEW h \in Handlers, Put(h)
  PROVE  SectionOK'
<1> USE WindowsAssumption DEF TypeOK, SectionOK, Local, Pcs, Section, Statuses, AllOps, Names, Gens, Respawns
<1>1. CASE ArchiveBegin(h)
  BY <1>1 DEF ArchiveBegin, Goto, NoLoc, db
<1>2. CASE ArchiveClose(h)
  BY <1>2 DEF ArchiveClose, Goto, Keep, db
<1>3. CASE ArchiveCloseFails(h)
  BY <1>3 DEF ArchiveCloseFails, Goto, Keep, db
<1>4. CASE Archived(h)
  BY <1>4 DEF Archived, Goto, Unlock, Leave, SetStatus, NoLoc, Revoking
<1>5. CASE SleepBegin(h)
  BY <1>5 DEF SleepBegin, Goto, NoLoc, db
<1>6. CASE SleepKill(h)
  BY <1>6 DEF SleepKill, Goto, Keep, db
<1>7. CASE SleepFails(h)
  BY <1>7 DEF SleepFails, Goto, Unlock, Leave, Alive, NoLoc, db
<1>8. CASE Slept(h)
  BY <1>8 DEF Slept, Goto, Unlock, Leave, NoLoc
<1> QED  BY <1>1, <1>2, <1>3, <1>4, <1>5, <1>6, <1>7, <1>8 DEF Put

-----------------------------------------------------------------------------

\* An operation, an accident or a stuttering step keeps the invariant.
LEMMA NextKeeps ==
  TypeOK /\ SectionOK /\ [Next]_vars => TypeOK' /\ SectionOK'
<1> SUFFICES ASSUME TypeOK, SectionOK, [Next]_vars
             PROVE  TypeOK' /\ SectionOK'
  OBVIOUS
<1>1. ASSUME NEW h \in Handlers, Rotate(h) \/ Rollback(h) \/ Run(h) \/ Destroy(h) \/ Put(h)
      PROVE  TypeOK' /\ SectionOK'
  BY <1>1, RotateType, RotateSection, RollbackType, RollbackSection, RunType, RunSection,
     DestroyType, DestroySection, PutType, PutSection
<1>2. CASE PutStatus
  <2>1. TypeOK'
    BY <1>2 DEF PutStatus, SetStatus, TypeOK
  <2>2. SectionOK'
    BY <1>2 DEF PutStatus, SectionOK, Respawns
  <2> QED  BY <2>1, <2>2
<1>3. CASE Die
  <2>1. TypeOK'
    BY <1>3 DEF Die, db, TypeOK
  <2>2. SectionOK'
    BY <1>3 DEF Die, SectionOK, Respawns
  <2> QED  BY <2>1, <2>2
<1>4. CASE Restart
  <2>1. TypeOK'
    BY <1>4, NoLocType DEF Restart, db, TypeOK, Pcs
  <2>2. SectionOK'
    BY <1>4 DEF Restart, SectionOK, Section, Respawns, NoLoc
  <2> QED  BY <2>1, <2>2
<1>5. CASE UNCHANGED vars
  BY <1>5 DEF vars, TypeOK, SectionOK, Respawns
<1> QED  BY <1>1, <1>2, <1>3, <1>4, <1>5 DEF Next

\* The types hold, and whoever is between two writes of a section runs alone,
\* with the newest generation and a name for its window.
THEOREM Invariance == Spec => []IInv
<1>1. Init => TypeOK /\ SectionOK
  BY WindowsAssumption, NoLocType DEF Init, TypeOK, SectionOK, Section, Statuses, Pcs, Names,
       Gens, NoLoc, Respawns
<1> QED  BY <1>1, NextKeeps, PTL DEF Spec, IInv

\* The row, the rows of the windows table, the multiplexer and every handler's
\* locals keep their types, for any number of handlers, names and generations.
THEOREM TypeCorrect == Spec => []TypeOK
BY Invariance, PTL DEF IInv

\* At any time at most one generation of the token is valid, the last issued:
\* every write of the token table is an issue or a revocation.
THEOREM OneCredentialHolds == Spec => []OneCredential
<1>1. Init => OneCredential
  BY DEF Init, OneCredential
<1>2. OneCredential /\ [Next]_vars => OneCredential'
  <2> SUFFICES ASSUME OneCredential, [Next]_vars PROVE OneCredential'
    OBVIOUS
  <2> USE DEF OneCredential
  <2>1. ASSUME NEW h \in Handlers, Rotate(h) PROVE OneCredential'
    BY <2>1 DEF Rotate, ExecuteBegin, ExecuteEnter, RestoreBegin, RestoreEnter, RespawnBegin,
       RespawnEnter, RespawnGone, KillOld, OldMissed, KillOldFails, Refuse, ServerChanged,
       IssueGeneration, OutOfGenerations, Create, CreateFails, ExecutePersist, RespawnPersist,
       SetupFails, RestoreRegister, RestorePersist, Issue
  <2>2. ASSUME NEW h \in Handlers, Rollback(h) PROVE OneCredential'
    BY <2>2 DEF Rollback, Undo, UndoFails, Forget
  <2>3. ASSUME NEW h \in Handlers, Run(h) PROVE OneCredential'
    BY <2>3 DEF Run, PrepareFails, Complete, Abandon, Launched, LaunchFails, FollowUpBegin,
       FollowUpEnter, FollowUpWoken, FollowUpReuse, FollowUpNoWindow, FollowUpPersist,
       DirectoryRejected
  <2>4. ASSUME NEW h \in Handlers, Destroy(h) PROVE OneCredential'
    BY <2>4 DEF Destroy, RetryBegin, DeleteBegin, DestroyEnter, DestroyKill, DestroyFails,
       Destroyed, RetryReset, SessionKillBegin, SessionKillEnter, Resolve, GiveUp, SessionKill,
       SessionKillFails, SessionKilled
  <2>5. ASSUME NEW h \in Handlers, Put(h) PROVE OneCredential'
    BY <2>5 DEF Put, ArchiveBegin, ArchiveClose, ArchiveCloseFails, Archived, SleepBegin,
       SleepKill, SleepFails, Slept, SetStatus
  <2>6. ASSUME PutStatus \/ Die \/ Restart \/ UNCHANGED vars PROVE OneCredential'
    BY <2>6 DEF PutStatus, SetStatus, Die, Restart, vars
  <2> QED  BY <2>1, <2>2, <2>3, <2>4, <2>5, <2>6 DEF Next
<1> QED  BY <1>1, <1>2, PTL DEF Spec

-----------------------------------------------------------------------------

\* A step of one handler moves no other.
LEMMA OthersStay ==
  ASSUME TypeOK, NEW h \in Handlers, Rotate(h) \/ Rollback(h) \/ Run(h) \/ Destroy(h) \/ Put(h),
         NEW g \in Handlers, g # h
  PROVE  pc'[g] = pc[g]
<1>1. CASE Rotate(h)
  BY <1>1 DEF TypeOK, Rotate, Goto, Leave, LeaveLock, ExecuteBegin, ExecuteEnter, RestoreBegin,
       RestoreEnter, RespawnBegin, RespawnEnter, RespawnGone, KillOld, OldMissed, KillOldFails, Refuse,
       ServerChanged, IssueGeneration, OutOfGenerations, Create, CreateFails, ExecutePersist,
       RespawnPersist, SetupFails, RestoreRegister, RestorePersist
<1>2. CASE Rollback(h)
  BY <1>2 DEF TypeOK, Rollback, Goto, Leave, LeaveLock, Undo, UndoFails, Forget
<1>3. CASE Run(h)
  BY <1>3 DEF TypeOK, Run, Goto, Leave, LeaveLock, PrepareFails, Complete, Abandon, Launched,
       LaunchFails, FollowUpBegin, FollowUpEnter, FollowUpWoken, FollowUpReuse,
       FollowUpNoWindow, FollowUpPersist, DirectoryRejected
<1>4. CASE Destroy(h)
  BY <1>4 DEF TypeOK, Destroy, Goto, Leave, LeaveLock, RetryBegin, DeleteBegin, DestroyEnter,
       DestroyKill, DestroyFails, Destroyed, RetryReset, SessionKillBegin, SessionKillEnter,
       Resolve, GiveUp, SessionKill, SessionKillFails, SessionKilled
<1>5. CASE Put(h)
  BY <1>5 DEF TypeOK, Put, Goto, Leave, LeaveLock, ArchiveBegin, ArchiveClose,
       ArchiveCloseFails, Archived, SleepBegin, SleepKill, SleepFails, Slept
<1> QED  BY <1>1, <1>2, <1>3, <1>4, <1>5

\* From "prepare" a handler comes to its rollback by PrepareFails alone.
LEMMA OnlyPrepareFails ==
  ASSUME TypeOK, NEW h \in Handlers, Rotate(h) \/ Rollback(h) \/ Run(h) \/ Destroy(h) \/ Put(h),
         pc[h] = "prepare", pc'[h] = "undo"
  PROVE  PrepareFails(h)
<1>1. CASE Rotate(h)
  BY <1>1 DEF TypeOK, Rotate, Goto, Leave, LeaveLock, Enters, ExecuteBegin, ExecuteEnter,
       RestoreBegin, RestoreEnter, RespawnBegin, RespawnEnter, RespawnGone, KillOld,
       OldMissed, KillOldFails, Refuse, ServerChanged, IssueGeneration, OutOfGenerations, Create,
       CreateFails, ExecutePersist, RespawnPersist, SetupFails, RestoreRegister, RestorePersist
<1>2. CASE Rollback(h)
  BY <1>2 DEF TypeOK, Rollback, Goto, Leave, LeaveLock, Undo, UndoFails, Forget
<1>3. CASE Run(h)
  BY <1>3 DEF TypeOK, Run, Goto, Leave, LeaveLock, Enters, ExecuteBegin, Complete, Abandon,
       Launched, LaunchFails, FollowUpBegin,
     FollowUpEnter, FollowUpWoken, FollowUpReuse, FollowUpNoWindow, FollowUpPersist, DirectoryRejected
<1>4. CASE Destroy(h)
  BY <1>4 DEF TypeOK, Destroy, Goto, Leave, LeaveLock, Enters, RetryBegin, DeleteBegin,
       DestroyEnter, DestroyKill, DestroyFails, Destroyed, RetryReset, SessionKillBegin,
       SessionKillEnter, Resolve, GiveUp, SessionKill, SessionKillFails, SessionKilled
<1>5. CASE Put(h)
  BY <1>5 DEF TypeOK, Put, Goto, Leave, LeaveLock, ArchiveBegin, ArchiveClose,
       ArchiveCloseFails, Archived, SleepBegin, SleepKill, SleepFails, Slept
<1> QED  BY <1>1, <1>2, <1>3, <1>4, <1>5

\* The rollback of an execution stops no execution that has taken over: the
\* status is written only while its generation is the newest.
THEOREM StatusStaysCurrent == Spec => StatusIsCurrent
<1>1. TypeOK /\ [Next]_vars
      => [\A h \in Handlers :
            pc[h] = "prepare" /\ pc'[h] = "undo" /\ row'.status # row.status => loc[h].own = gen]_vars
  <2> SUFFICES ASSUME TypeOK, Next, NEW g \in Handlers,
                      pc[g] = "prepare", pc'[g] = "undo", row'.status # row.status
               PROVE  loc[g].own = gen
    BY DEF vars
  <2>1. ASSUME NEW h \in Handlers, Rotate(h) \/ Rollback(h) \/ Run(h) \/ Destroy(h) \/ Put(h)
        PROVE  loc[g].own = gen
    <3>1. h = g
      BY <2>1, OthersStay
    <3>2. PrepareFails(g)
      BY <2>1, <3>1, OnlyPrepareFails
    <3> QED  BY <3>2 DEF PrepareFails, FailIfWindowMatches
  <2>2. CASE PutStatus \/ Die
    BY <2>2 DEF PutStatus, Die
  <2>3. CASE Restart
    BY <2>3 DEF Restart
  <2> QED  BY <2>1, <2>2, <2>3 DEF Next
<1>2. Spec => []TypeOK
  BY TypeCorrect, PTL
<1> QED  BY <1>1, <1>2, PTL DEF Spec, StatusIsCurrent

\* A handler ends its rollback by Forget alone.
LEMMA OnlyForget ==
  ASSUME TypeOK, NEW h \in Handlers, Rotate(h) \/ Rollback(h) \/ Run(h) \/ Destroy(h) \/ Put(h),
         pc[h] = "undone", pc'[h] = "idle"
  PROVE  Forget(h)
<1>1. CASE Rotate(h)
  BY <1>1 DEF TypeOK, Rotate, Goto, Leave, LeaveLock, Enters, ExecuteBegin, ExecuteEnter,
       RestoreBegin, RestoreEnter, RespawnBegin, RespawnEnter, RespawnGone, KillOld,
       OldMissed, KillOldFails, Refuse, ServerChanged, IssueGeneration, OutOfGenerations, Create,
       CreateFails, ExecutePersist, RespawnPersist, SetupFails, RestoreRegister, RestorePersist
<1>2. CASE Rollback(h)
  BY <1>2 DEF TypeOK, Rollback, Goto, Leave, LeaveLock, Undo, UndoFails
<1>3. CASE Run(h)
  BY <1>3 DEF TypeOK, Run, Goto, Leave, LeaveLock, Enters, PrepareFails, Complete, Abandon,
       Launched, LaunchFails, FollowUpBegin, FollowUpEnter, FollowUpWoken, FollowUpReuse,
       FollowUpNoWindow, FollowUpPersist, DirectoryRejected
<1>4. CASE Destroy(h)
  BY <1>4 DEF TypeOK, Destroy, Goto, Leave, LeaveLock, Enters, RetryBegin, DeleteBegin,
       DestroyEnter, DestroyKill, DestroyFails, Destroyed, RetryReset, SessionKillBegin,
       SessionKillEnter, Resolve, GiveUp, SessionKill, SessionKillFails, SessionKilled
<1>5. CASE Put(h)
  BY <1>5 DEF TypeOK, Put, Goto, Leave, LeaveLock, ArchiveBegin, ArchiveClose,
       ArchiveCloseFails, Archived, SleepBegin, SleepKill, SleepFails, Slept
<1> QED  BY <1>1, <1>2, <1>3, <1>4, <1>5

\* A rollback, in the lock or outside, revokes its own generation and no other.
THEOREM RollbackIsItsOwn == Spec => RollbackRevokesItsOwn
<1>1. TypeOK /\ [Next]_vars
      => [\A h \in Handlers : pc[h] = "undone" /\ pc'[h] = "idle" => active \ active' \subseteq {loc[h].own}]_vars
  <2> SUFFICES ASSUME TypeOK, Next, NEW g \in Handlers, pc[g] = "undone", pc'[g] = "idle"
               PROVE  active \ active' \subseteq {loc[g].own}
    BY DEF vars
  <2>1. ASSUME NEW h \in Handlers, Rotate(h) \/ Rollback(h) \/ Run(h) \/ Destroy(h) \/ Put(h)
        PROVE  active \ active' \subseteq {loc[g].own}
    <3>1. h = g
      BY <2>1, OthersStay
    <3>2. Forget(g)
      BY <2>1, <3>1, OnlyForget
    <3> QED  BY <3>2 DEF Forget
  <2>2. CASE PutStatus \/ Die
    BY <2>2 DEF PutStatus, Die
  <2>3. CASE Restart
    BY <2>3 DEF Restart
  <2> QED  BY <2>1, <2>2, <2>3 DEF Next
<1>2. Spec => []TypeOK
  BY TypeCorrect, PTL
<1> QED  BY <1>1, <1>2, PTL DEF Spec, RollbackRevokesItsOwn

-----------------------------------------------------------------------------
(* An instance without restores, respawns, follow-ups, overlapping          *)
(* executions and restarts                                                 *)

\* The operations, and the accidents, of the run windows_rotation.
RotationOps == {"execute", "retry", "delete", "archive", "sleep", "sessionKill", "put", "die", "listFails",
                "killFails"}

\* The steps of an execution, and those at which it has a window of its own.
Executing == {"killOld", "issue", "create", "persist", "prepare", "launch", "undo", "undone"}
HasOwn == {"create", "persist", "prepare", "launch", "undo", "undone"}

\* What a handler may rely on at each of its steps: who kills the window that
\* the task names, and that a window it opens has the name of its generation.
HandlerOK(h) ==
  /\ loc[h].op \in {"none", "execute", "retry", "delete", "archive", "sleep", "sessionKill"}
  /\ pc[h] \notin {"label", "woken", "look"}
  /\ pc[h] = "idle" => loc[h].op = "none"
  /\ lock = h => pc[h] \in Section \union {"resolve", "session", "killed"}
  /\ pc[h] = "queued" /\ loc[h].op = "sessionKill" => loc[h].wins # {}
  /\ pc[h] \in Executing => loc[h].op = "execute"
  /\ pc[h] \in {"destroy", "destroyed"} => loc[h].op \in {"retry", "delete"}
  /\ loc[h].op \in {"retry", "delete"} => loc[h].name = loc[h].seen /\ loc[h].name \in Names
  /\ pc[h] \in {"resolve", "session", "killed"} => loc[h].op = "sessionKill" /\ (lock = h <=> loc[h].wins # {})
  /\ pc[h] \in HasOwn => loc[h].own = loc[h].name /\ loc[h].name \in Names

HandlerSees(h) ==
  /\ pc[h] = "killOld" => loc[h].name = row.window
  /\ pc[h] = "issue" => loc[h].missed \/ ~Alive(row.window)
  /\ pc[h] \in {"prepare", "launch", "undo", "undone"} => row.window \in {loc[h].name, 0}
  /\ pc[h] \in {"session", "killed"} => \A w \in loc[h].wins : row.window \in {w, 0}

\* One execution at a time; a valid token and a primary row belong to the
\* window that the task names.
OneExecutes == \A g, h \in Handlers : loc[g].op = "execute" /\ loc[h].op = "execute" => g = h
TokenNamed == active # {} => row.window = gen \/ \E h \in Handlers : pc[h] \in {"create", "persist"}
RowsNamed == \A p \in prims : row.window \in {p.window, 0}

RotationInv ==
  /\ \A h \in Handlers : HandlerOK(h) /\ HandlerSees(h)
  /\ OneExecutes /\ TokenNamed /\ RowsNamed /\ OneCredential

-----------------------------------------------------------------------------
(* A handler that moves, and the others *)

\* No step of the handler h concerns another.
OthersSame(h) ==
  \A g \in Handlers \ {h} : pc'[g] = pc[g] /\ loc'[g] = loc[g] /\ (lock' = g <=> lock = g)

\* Windows only die.
LiveShrinks == \A n \in Names : live'[n] \in {live[n], 0}

\* What the invariant has to hold on to.
RotationBase == TypeOK /\ SectionOK /\ RotationInv

\* A handler that leaves forgets its locals and holds no lock.
LEMMA LeaveFacts ==
  ASSUME TypeOK, NEW h \in Handlers, Leave(h)
  PROVE  OthersSame(h) /\ pc'[h] = "idle" /\ loc'[h] = NoLoc /\ lock' # h
BY WindowsAssumption DEF WindowsAssumption, TypeOK, Leave, Goto, Unlock, OthersSame

\* A handler that goes on with its locals as they are.
LEMMA GotoFacts ==
  ASSUME TypeOK, NEW h \in Handlers, NEW p, Goto(h, p), Keep(h)
  PROVE  /\ pc'[h] = p /\ loc' = loc
         /\ UNCHANGED lock => OthersSame(h)
         /\ lock = h /\ lock' = None => OthersSame(h)
         /\ lock = None /\ lock' = h => OthersSame(h)
         /\ Unlock(h) => OthersSame(h)
BY WindowsAssumption DEF WindowsAssumption, TypeOK, Goto, Keep, Unlock, OthersSame

\* A handler that goes on with new locals.
LEMMA Set ==
  ASSUME TypeOK, NEW h \in Handlers, NEW p, Goto(h, p), NEW r, loc' = [loc EXCEPT ![h] = r]
  PROVE  /\ pc'[h] = p /\ loc'[h] = r
         /\ UNCHANGED lock => OthersSame(h)
         /\ lock = None /\ lock' = h => OthersSame(h)
         /\ Unlock(h) => OthersSame(h)
BY WindowsAssumption DEF WindowsAssumption, TypeOK, Goto, Unlock, OthersSame

\* A handler that has left relies on nothing.
LEMMA LeftOK ==
  ASSUME NEW h \in Handlers, pc'[h] = "idle", loc'[h] = NoLoc, lock' # h
  PROVE  HandlerOK(h)' /\ HandlerSees(h)'
BY DEF NoLoc, HandlerOK, HandlerSees, Executing, HasOwn

\* A handler that does not move keeps what it relies on while windows only
\* die and the task's window is at most cleared.
LEMMA OtherKeeps ==
  ASSUME RotationBase, NEW g \in Handlers, pc'[g] = pc[g], loc'[g] = loc[g], lock' = g <=> lock = g, LiveShrinks,
         row'.window = row.window \/ (row'.window = 0 /\ pc[g] # "killOld")
  PROVE  HandlerOK(g)' /\ HandlerSees(g)'
<1>1. HandlerOK(g) /\ HandlerSees(g)
  BY DEF RotationBase, RotationInv
<1>2. HandlerOK(g)'
  BY <1>1 DEF HandlerOK
<1>3. ~Alive(row.window) => ~Alive(row.window)'
  BY DEF Alive, LiveShrinks, RotationBase, TypeOK
<1>4. HandlerSees(g)'
  BY <1>1, <1>3 DEF HandlerSees
<1> QED  BY <1>2, <1>4

\* A step that opens no window, issues no generation and leaves the task's
\* window.
LEMMA Steady ==
  ASSUME RotationBase, NEW h \in Handlers, pc[h] \notin {"create", "persist"}, OthersSame(h), LiveShrinks,
         row'.window = row.window, active' \subseteq active, gen' = gen,
         \A p \in prims' : row.window \in {p.window, 0},
         loc'[h].op = "execute" => loc[h].op = "execute",
         HandlerOK(h)', HandlerSees(h)'
  PROVE  RotationInv'
<1>1. \A g \in Handlers : HandlerOK(g)' /\ HandlerSees(g)'
  BY OtherKeeps DEF OthersSame
<1>2. OneExecutes'
  BY DEF RotationBase, RotationInv, OneExecutes, OthersSame
<1>3. TokenNamed'
  BY DEF RotationBase, RotationInv, TokenNamed, OthersSame
<1>4. RowsNamed' /\ OneCredential'
  BY DEF RotationBase, RotationInv, RowsNamed, OneCredential
<1> QED  BY <1>1, <1>2, <1>3, <1>4 DEF RotationInv

\* A handler that leaves without having opened or cleared a window.
LEMMA Leaves ==
  ASSUME RotationBase, NEW h \in Handlers, pc[h] \notin {"create", "persist"}, Leave(h), LiveShrinks,
         row'.window = row.window, active' \subseteq active, gen' = gen,
         \A p \in prims' : row.window \in {p.window, 0}
  PROVE  RotationInv'
<1>1. OthersSame(h) /\ pc'[h] = "idle" /\ loc'[h] = NoLoc /\ lock' # h
  BY LeaveFacts DEF RotationBase
<1> QED  BY <1>1, LeftOK, Steady DEF NoLoc

\* No window changes.
LEMMA Still == ASSUME UNCHANGED live PROVE LiveShrinks
BY DEF LiveShrinks

-----------------------------------------------------------------------------
(* The operations that an instance without the others allows *)

RotationStep(h) ==
  \/ ExecuteBegin(h) \/ ExecuteEnter(h) \/ KillOld(h) \/ OldMissed(h) \/ KillOldFails(h) \/ Refuse(h)
  \/ ServerChanged(h)
  \/ IssueGeneration(h) \/ OutOfGenerations(h) \/ Create(h) \/ CreateFails(h) \/ ExecutePersist(h)
  \/ PrepareFails(h) \/ Complete(h) \/ Abandon(h) \/ Launched(h) \/ LaunchFails(h)
  \/ Rollback(h) \/ Destroy(h) \/ Put(h)

\* Without restores, respawns and follow-ups their steps never happen.
LEMMA OnlyRotation ==
  ASSUME Ops \subseteq RotationOps, RotationBase, NEW h \in Handlers,
         Rotate(h) \/ Rollback(h) \/ Run(h) \/ Destroy(h) \/ Put(h)
  PROVE  RotationStep(h)
<1>1. "restore" \notin Ops /\ "respawn" \notin Ops /\ "followUp" \notin Ops
  BY DEF RotationOps
<1>2. /\ loc[h].op \notin {"restore", "respawn", "wake", "followUp"}
      /\ pc[h] \notin {"label", "woken", "look"}
  BY DEF RotationBase, RotationInv, HandlerOK
<1>3. /\ ~RestoreBegin(h) /\ ~RestoreEnter(h) /\ ~RespawnBegin(h) /\ ~RespawnEnter(h) /\ ~RespawnGone(h)
      /\ ~RespawnPersist(h) /\ ~SetupFails(h) /\ ~RestoreRegister(h) /\ ~RestorePersist(h)
  BY <1>1, <1>2 DEF RestoreBegin, RestoreEnter, RespawnBegin, RespawnEnter, RespawnGone, RespawnPersist, SetupFails,
       RestoreRegister, RestorePersist, Enters, Respawns
<1>4. /\ ~FollowUpBegin(h) /\ ~FollowUpEnter(h) /\ ~FollowUpWoken(h) /\ ~FollowUpReuse(h) /\ ~FollowUpNoWindow(h)
      /\ ~FollowUpPersist(h) /\ ~DirectoryRejected(h)
  BY <1>1, <1>2 DEF FollowUpBegin, FollowUpEnter, FollowUpWoken, FollowUpReuse, FollowUpNoWindow, FollowUpPersist,
       DirectoryRejected, Enters
<1> QED  BY <1>3, <1>4 DEF Rotate, Run, RotationStep

-----------------------------------------------------------------------------
(* The steps *)

\* What holds of the rows and of the handler before the step.
LEMMA Before ==
  ASSUME RotationBase, NEW h \in Handlers
  PROVE  /\ TypeOK /\ HandlerOK(h) /\ HandlerSees(h)
         /\ \A p \in prims : row.window \in {p.window, 0}
         /\ pc[h] \in Section => lock = h
         /\ \A g \in Handlers : g # h /\ pc[g] \in Section => lock # h
BY DEF RotationBase, RotationInv, RowsNamed, SectionOK

\* runExclusiveForTask of an execution: asked for, and entered.
LEMMA ExecuteStarts ==
  ASSUME Ops \subseteq RotationOps, RotationBase, NEW h \in Handlers, ExecuteBegin(h) \/ ExecuteEnter(h)
  PROVE  RotationInv'
<1>0. TypeOK /\ HandlerOK(h) /\ HandlerSees(h) /\ (\A p \in prims : row.window \in {p.window, 0})
  BY Before
<1>1. CASE ExecuteBegin(h)
  <2>1. \A g \in Handlers : loc[g].op # "execute"
    BY <1>1 DEF ExecuteBegin, RotationOps
  <2>2. pc[h] = "idle" /\ pc'[h] = "queued" /\ loc'[h] = [loc[h] EXCEPT !.op = "execute"] /\ OthersSame(h)
    BY <1>0, <1>1 DEF ExecuteBegin, Goto, Let, OthersSame, TypeOK, Local
  <2>3. loc'[h].op = "execute"
    BY <1>0, <2>2 DEF TypeOK, Local
  <2>4. HandlerOK(h)' /\ HandlerSees(h)'
    BY <1>0, <1>1, <2>2, <2>3 DEF ExecuteBegin, HandlerOK, HandlerSees, Executing, HasOwn, Section
  <2>5. \A g \in Handlers : HandlerOK(g)' /\ HandlerSees(g)'
    BY <1>1, <2>2, <2>4, OtherKeeps, Still DEF OthersSame, ExecuteBegin, db
  <2>6. OneExecutes'
    BY <2>1, <2>2 DEF OneExecutes, OthersSame
  <2>7. \A g \in Handlers : (pc'[g] \in {"create", "persist"} <=> pc[g] \in {"create", "persist"})
                            /\ (pc'[g] = "persist" => pc[g] = "persist" /\ loc'[g] = loc[g])
                            /\ (pc[g] = "persist" => pc'[g] = "persist" /\ loc'[g] = loc[g])
    BY <2>2 DEF OthersSame
  <2>8. TokenNamed' /\ RowsNamed' /\ OneCredential'
    BY <1>1, <2>7 DEF RotationBase, RotationInv, ExecuteBegin, db, TokenNamed, RowsNamed, OneCredential
  <2> QED  BY <2>5, <2>6, <2>8 DEF RotationInv
<1>2. CASE ExecuteEnter(h)
  <2>1. pc[h] = "queued" /\ loc[h].op = "execute" /\ lock = None /\ lock' = h
    BY <1>2 DEF ExecuteEnter, Enters
  <2>2. pc'[h] = "killOld" /\ loc'[h] = [loc[h] EXCEPT !.name = row.window] /\ OthersSame(h)
    BY <1>0, <1>2, <2>1, WindowsAssumption DEF WindowsAssumption, ExecuteEnter, Goto, Let, OthersSame, TypeOK, Local
  <2>3. loc'[h].name = row.window /\ loc'[h].op = "execute"
    BY <1>0, <2>1, <2>2 DEF TypeOK, Local
  <2>4. HandlerOK(h)' /\ HandlerSees(h)'
    BY <1>2, <2>1, <2>2, <2>3 DEF ExecuteEnter, db, HandlerOK, HandlerSees, Executing, HasOwn, Section
  <2> QED  BY <1>0, <1>2, <2>1, <2>2, <2>4, Steady, Still DEF ExecuteEnter, db
<1> QED  BY <1>1, <1>2

\* The old window is killed, or it is not in the list: the window that the
\* task names is gone, or the handler has not been shown it.
LEMMA OldKilled == ASSUME RotationBase, NEW h \in Handlers, KillOld(h) \/ OldMissed(h) PROVE RotationInv'
<1>0. TypeOK /\ HandlerOK(h) /\ HandlerSees(h) /\ (\A p \in prims : row.window \in {p.window, 0})
  BY Before
<1>1. CASE KillOld(h)
  <2>1. pc[h] = "killOld" /\ pc'[h] = "issue" /\ loc' = loc /\ OthersSame(h) /\ loc[h].name = row.window
    BY <1>0, <1>1, GotoFacts DEF KillOld, HandlerSees
  <2>2. LiveShrinks
    BY <1>0, <1>1 DEF KillOld, LiveShrinks, TypeOK
  <2>3. ~Alive(row.window)'
    BY <1>0, <1>1, <2>1 DEF KillOld, db, Alive, TypeOK
  <2>4. HandlerOK(h)' /\ HandlerSees(h)'
    BY <1>0, <1>1, <2>1, <2>3 DEF KillOld, HandlerOK, HandlerSees, Executing, HasOwn, Section
  <2> QED  BY <1>0, <1>1, <2>1, <2>2, <2>4, Steady DEF KillOld, db
<1>2. CASE OldMissed(h)
  <2> DEFINE r == [loc[h] EXCEPT !.missed = TRUE]
  <2>1. r.missed /\ r.op = loc[h].op /\ r.name = loc[h].name /\ r.seen = loc[h].seen
    BY <1>0 DEF TypeOK, Local
  <2>2. loc' = [loc EXCEPT ![h] = r]
    BY <1>2 DEF OldMissed, Let
  <2> HIDE DEF r
  <2>3. pc[h] = "killOld" /\ pc'[h] = "issue" /\ loc'[h] = r /\ OthersSame(h)
    BY <1>0, <1>2, <2>2, Set DEF OldMissed
  <2>4. HandlerOK(h)' /\ HandlerSees(h)'
    BY <1>0, <1>2, <2>1, <2>3 DEF OldMissed, HandlerOK, HandlerSees, Executing, HasOwn, Section
  <2> QED  BY <1>0, <1>2, <2>1, <2>3, <2>4, Steady, Still DEF OldMissed, db
<1> QED  BY <1>1, <1>2

\* An execution that is refused, that fails or that is done.
LEMMA RotationLeaves ==
  ASSUME RotationBase, NEW h \in Handlers,
         KillOldFails(h) \/ Refuse(h) \/ ServerChanged(h) \/ OutOfGenerations(h) \/ Abandon(h) \/ Launched(h)
           \/ LaunchFails(h)
  PROVE  RotationInv'
<1>0. HandlerOK(h) /\ (\A p \in prims : row.window \in {p.window, 0})
  BY Before
<1>1. pc[h] \in {"killOld", "issue", "prepare", "launch"} /\ loc[h].op = "execute"
  BY <1>0 DEF KillOldFails, Refuse, ServerChanged, OutOfGenerations, Abandon, Launched, LaunchFails, HandlerOK, Executing
<1>2. Leave(h) /\ UNCHANGED <<prims, live, gen, active>> /\ row'.window = row.window
  <2>1. CASE ServerChanged(h) \/ LaunchFails(h)
    BY <1>1, <2>1 DEF ServerChanged, LaunchFails, WriteRow, Respawns
  <2>2. CASE ~(ServerChanged(h) \/ LaunchFails(h))
    BY <2>2 DEF KillOldFails, Refuse, OutOfGenerations, Abandon, Launched, db
  <2> QED  BY <2>1, <2>2
<1> QED  BY <1>0, <1>1, <1>2, Leaves, Still

\* A new generation, for a window that nobody has opened yet.
LEMMA Issued == ASSUME RotationBase, NEW h \in Handlers, IssueGeneration(h) PROVE RotationInv'
<1>0. TypeOK /\ HandlerOK(h) /\ HandlerSees(h)
  BY Before
<1>1. pc[h] = "issue" /\ loc[h].op = "execute" /\ ~Respawns(h) /\ gen + 1 \in Names
  BY <1>0, WindowsAssumption DEF WindowsAssumption, IssueGeneration, HandlerOK, Executing, Respawns, TypeOK, Names
<1> DEFINE r == [loc[h] EXCEPT !.own = gen + 1, !.name = gen + 1]
<1>2. loc' = [loc EXCEPT ![h] = r]
  BY <1>0, <1>1 DEF IssueGeneration, TypeOK, Local
<1>3. r.own = gen + 1 /\ r.name = gen + 1 /\ r.op = "execute"
  BY <1>0, <1>1 DEF TypeOK, Local
<1> HIDE DEF r
<1>4. pc'[h] = "create" /\ loc'[h] = r /\ OthersSame(h)
  BY <1>0, <1>2, Set DEF IssueGeneration
<1>5. HandlerOK(h)' /\ HandlerSees(h)'
  BY <1>0, <1>1, <1>3, <1>4 DEF IssueGeneration, HandlerOK, HandlerSees, Executing, HasOwn, Section
<1>6. \A g \in Handlers : HandlerOK(g)' /\ HandlerSees(g)'
  BY <1>4, <1>5, OtherKeeps, Still DEF OthersSame, IssueGeneration, db
<1>7. OneExecutes'
  BY <1>1, <1>3, <1>4 DEF RotationBase, RotationInv, OneExecutes, OthersSame
<1>8. TokenNamed' /\ OneCredential'
  BY <1>4 DEF IssueGeneration, Issue, TokenNamed, OneCredential
<1>9. RowsNamed'
  BY DEF IssueGeneration, db, RowsNamed, RotationBase, RotationInv
<1> QED  BY <1>6, <1>7, <1>8, <1>9 DEF RotationInv

\* Nobody else executes or is in the lock when the window is there.
LEMMA OnlyOne ==
  ASSUME RotationBase, NEW h \in Handlers, pc[h] \in {"create", "persist"}, NEW g \in Handlers, g # h
  PROVE  pc[g] \notin Section /\ pc[g] \notin Executing
<1>1. loc[h].op = "execute" /\ lock = h
  BY DEF RotationBase, RotationInv, HandlerOK, Executing, SectionOK, Section
<1>2. pc[g] \notin Section
  BY <1>1 DEF RotationBase, SectionOK
<1>3. pc[g] \notin Executing
  BY <1>1 DEF RotationBase, RotationInv, HandlerOK, OneExecutes
<1> QED  BY <1>2, <1>3

\* A handler that is neither in the lock nor executes sees nothing of the
\* window but when it kills the session, for which it has the lock or no name.
LEMMA BystanderKeeps ==
  ASSUME RotationBase, NEW g \in Handlers, pc'[g] = pc[g], loc'[g] = loc[g], lock' = g <=> lock = g, lock # g,
         pc[g] \notin Section, pc[g] \notin Executing
  PROVE  HandlerOK(g)' /\ HandlerSees(g)'
<1>1. HandlerOK(g) /\ HandlerSees(g)
  BY DEF RotationBase, RotationInv
<1>2. pc[g] \in {"session", "killed"} => loc[g].wins = {}
  BY <1>1 DEF HandlerOK
<1>3. HandlerOK(g)'
  BY <1>1 DEF HandlerOK
<1>4. HandlerSees(g)'
  BY <1>2 DEF HandlerSees, Section, Executing
<1> QED  BY <1>3, <1>4

\* The window opened: no other handler is in the lock or executes.
LEMMA Created == ASSUME RotationBase, NEW h \in Handlers, Create(h) PROVE RotationInv'
<1>0. TypeOK /\ HandlerOK(h) /\ HandlerSees(h) /\ lock = h
  BY Before DEF Create, Section
<1>1. pc[h] = "create" /\ pc'[h] = "persist" /\ loc' = loc /\ OthersSame(h)
  BY <1>0, GotoFacts DEF Create
<1>2. HandlerOK(h)' /\ HandlerSees(h)'
  BY <1>0, <1>1 DEF HandlerOK, HandlerSees, Executing, HasOwn, Section
<1>3. ASSUME NEW g \in Handlers, g # h PROVE HandlerOK(g)' /\ HandlerSees(g)'
  <2>1. pc[g] \notin Section /\ pc[g] \notin Executing /\ lock # g
    BY <1>0, <1>1, <1>3, OnlyOne DEF Section, Executing
  <2> QED  BY <1>1, <1>3, <2>1, BystanderKeeps DEF OthersSame
<1>4. OneExecutes' /\ RowsNamed' /\ OneCredential'
  BY <1>1 DEF Create, db, RotationBase, RotationInv, OneExecutes, RowsNamed, OneCredential
<1>5. TokenNamed'
  BY <1>1 DEF TokenNamed
<1> QED  BY <1>2, <1>3, <1>4, <1>5 DEF RotationInv

\* The window could not be opened: its generation is revoked.
LEMMA NotCreated == ASSUME RotationBase, NEW h \in Handlers, CreateFails(h) PROVE RotationInv'
<1>0. TypeOK /\ HandlerOK(h) /\ HandlerSees(h)
  BY Before
<1>1. OthersSame(h) /\ pc'[h] = "idle" /\ loc'[h] = NoLoc /\ lock' # h
  BY <1>0, LeaveFacts DEF CreateFails
<1>2. active' = {}
  BY DEF CreateFails, RotationBase, RotationInv, OneCredential, SectionOK
<1>3. \A g \in Handlers : HandlerOK(g)' /\ HandlerSees(g)'
  BY <1>1, LeftOK, OtherKeeps, Still DEF OthersSame, CreateFails, db
<1>4. OneExecutes'
  BY <1>1 DEF RotationBase, RotationInv, OneExecutes, OthersSame, NoLoc
<1>5. TokenNamed' /\ OneCredential'
  BY <1>2 DEF TokenNamed, OneCredential
<1>6. RowsNamed'
  BY DEF CreateFails, db, RowsNamed, RotationBase, RotationInv
<1> QED  BY <1>3, <1>4, <1>5, <1>6 DEF RotationInv

\* The window recorded: the task names the generation it was opened for.
LEMMA Persisted == ASSUME RotationBase, NEW h \in Handlers, ExecutePersist(h) PROVE RotationInv'
<1>0. TypeOK /\ HandlerOK(h) /\ HandlerSees(h) /\ lock = h
  BY Before DEF ExecutePersist, Section
<1>1. pc[h] = "persist" /\ pc'[h] = "prepare" /\ loc' = loc /\ OthersSame(h)
  BY <1>0, GotoFacts DEF ExecutePersist, LeaveLock
<1>2. loc[h].name \in Names /\ loc[h].name # 0 /\ loc[h].own = loc[h].name /\ loc[h].own = gen
  BY <1>0, <1>1 DEF HandlerOK, HasOwn, RotationBase, SectionOK, Names
<1>3. row'.window = loc[h].name
  BY <1>2 DEF ExecutePersist, WriteRow
<1>4. HandlerOK(h)' /\ HandlerSees(h)'
  BY <1>0, <1>1, <1>3, WindowsAssumption DEF WindowsAssumption, ExecutePersist, LeaveLock, HandlerOK, HandlerSees, Executing, HasOwn
<1>5. ASSUME NEW g \in Handlers, g # h PROVE HandlerOK(g)' /\ HandlerSees(g)'
  <2>1. pc[g] \notin Section /\ pc[g] \notin Executing /\ lock # g
    BY <1>0, <1>1, <1>5, OnlyOne DEF Section, Executing
  <2> QED  BY <1>1, <1>5, <2>1, BystanderKeeps DEF OthersSame
<1>6. OneExecutes' /\ OneCredential'
  BY <1>1 DEF ExecutePersist, RotationBase, RotationInv, OneExecutes, OneCredential
<1>7. TokenNamed'
  BY <1>2, <1>3 DEF ExecutePersist, TokenNamed
<1>8. RowsNamed'
  BY <1>3 DEF ExecutePersist, AddRow, RowsNamed
<1> QED  BY <1>4, <1>5, <1>6, <1>7, <1>8 DEF RotationInv

\* The distribution or the worktree fails: the rollback begins.
LEMMA PreparationFails == ASSUME RotationBase, NEW h \in Handlers, PrepareFails(h) PROVE RotationInv'
<1>0. TypeOK /\ HandlerOK(h) /\ HandlerSees(h) /\ (\A p \in prims : row.window \in {p.window, 0})
  BY Before
<1>1. pc[h] = "prepare" /\ pc'[h] = "undo" /\ loc' = loc /\ OthersSame(h)
  BY <1>0, GotoFacts DEF PrepareFails
<1>2. row'.window = row.window
  BY <1>0 DEF PrepareFails, FailIfWindowMatches, TypeOK
<1>3. HandlerOK(h)' /\ HandlerSees(h)'
  BY <1>0, <1>1, <1>2 DEF PrepareFails, HandlerOK, HandlerSees, Executing, HasOwn, Section
<1> QED  BY <1>0, <1>1, <1>2, <1>3, Steady, Still DEF PrepareFails

\* The row of its own window is completed and the others are removed.
LEMMA Completed == ASSUME RotationBase, NEW h \in Handlers, Complete(h) PROVE RotationInv'
<1>0. TypeOK /\ HandlerOK(h) /\ HandlerSees(h)
  BY Before
<1>1. pc[h] = "prepare" /\ pc'[h] = "launch" /\ loc' = loc /\ OthersSame(h)
  BY <1>0, GotoFacts DEF Complete
<1>2. \A p \in prims' : p.window = loc[h].name
  <2> DEFINE own == {p \in prims : p.window = loc[h].name}
  <2>1. CASE own = {}
    BY <2>1 DEF Complete, AddRow
  <2>2. CASE own # {}
    <3>1. PICK p \in own : prims' = {[p EXCEPT !.sleeping = FALSE]}
      BY <2>2 DEF Complete
    <3>2. p \in [id : Nat, window : Names, sleeping : BOOLEAN] /\ p.window = loc[h].name
      BY <1>0 DEF TypeOK
    <3> QED  BY <3>1, <3>2
  <2> QED  BY <2>1, <2>2
<1>3. \A p \in prims' : row.window \in {p.window, 0}
  BY <1>0, <1>1, <1>2 DEF HandlerSees
<1>4. HandlerOK(h)' /\ HandlerSees(h)'
  BY <1>0, <1>1 DEF Complete, HandlerOK, HandlerSees, Executing, HasOwn, Section
<1> QED  BY <1>0, <1>1, <1>3, <1>4, Steady, Still DEF Complete

\* The rollback kills the window of its own execution, or fails to.
LEMMA Undone == ASSUME RotationBase, NEW h \in Handlers, Undo(h) \/ UndoFails(h) PROVE RotationInv'
<1>0. TypeOK /\ HandlerOK(h) /\ HandlerSees(h) /\ (\A p \in prims : row.window \in {p.window, 0})
  BY Before
<1>1. pc[h] = "undo" /\ loc[h].op = "execute" /\ loc[h].name \in Names
  BY <1>0 DEF Undo, UndoFails, HandlerOK, Executing, HasOwn
<1>2. CASE Undo(h)
  <2>1. pc'[h] = "undone" /\ loc' = loc /\ OthersSame(h)
    BY <1>0, <1>2, GotoFacts DEF Undo
  <2>2. LiveShrinks
    BY <1>0, <1>1, <1>2 DEF Undo, LiveShrinks, TypeOK
  <2>3. HandlerOK(h)' /\ HandlerSees(h)'
    BY <1>0, <1>1, <1>2, <2>1, <2>2 DEF Undo, db, HandlerOK, HandlerSees, Executing, HasOwn, Section
  <2> QED  BY <1>0, <1>1, <1>2, <2>1, <2>2, <2>3, Steady DEF Undo, db
<1>3. CASE UndoFails(h)
  BY <1>0, <1>1, <1>3, Leaves, Still DEF UndoFails, Respawns
<1> QED  BY <1>2, <1>3

-----------------------------------------------------------------------------
(* The window of the task cleared *)

\* The task's window is cleared, and its token with it.
LEMMA Clears ==
  ASSUME RotationBase, NEW h \in Handlers, pc[h] \notin {"create", "persist"}, OthersSame(h), UNCHANGED live,
         row'.window = 0, active' = {},
         \A g \in Handlers \ {h} : pc[g] # "killOld",
         loc'[h].op = "execute" => loc[h].op = "execute",
         HandlerOK(h)', HandlerSees(h)'
  PROVE  RotationInv'
<1>1. \A g \in Handlers : HandlerOK(g)' /\ HandlerSees(g)'
  BY OtherKeeps, Still DEF OthersSame
<1>2. OneExecutes'
  BY DEF RotationBase, RotationInv, OneExecutes, OthersSame
<1>3. TokenNamed' /\ OneCredential' /\ RowsNamed'
  BY DEF TokenNamed, OneCredential, RowsNamed
<1> QED  BY <1>1, <1>2, <1>3 DEF RotationInv

\* The rollback clears the row, and revokes, only what is its own.
LEMMA Forgotten == ASSUME RotationBase, NEW h \in Handlers, Forget(h) PROVE RotationInv'
<1>0. TypeOK /\ HandlerOK(h) /\ HandlerSees(h) /\ (\A p \in prims : row.window \in {p.window, 0})
  BY Before
<1>1. pc[h] = "undone" /\ loc[h].op = "execute" /\ loc[h].own = loc[h].name /\ loc[h].name \in Names
  BY <1>0 DEF Forget, HandlerOK, HandlerSees, Executing, HasOwn
<1>2. ClearIfMatches(loc[h].name) /\ prims' \subseteq prims /\ active' = active \ {loc[h].own}
      /\ Leave(h) /\ UNCHANGED <<live, gen>>
  BY <1>1 DEF Forget
<1>3. CASE row.window = loc[h].name
  <2>1. \A g \in Handlers \ {h} : pc[g] \notin Executing
    BY <1>1 DEF RotationBase, RotationInv, HandlerOK, OneExecutes
  <2>2. active' = {}
    BY <1>1, <1>2, <1>3, <2>1 DEF RotationBase, RotationInv, TokenNamed, OneCredential, Executing
  <2>3. OthersSame(h) /\ pc'[h] = "idle" /\ loc'[h] = NoLoc /\ lock' # h
    BY <1>0, <1>2, LeaveFacts
  <2>4. row'.window = 0
    BY <1>0, <1>2, <1>3 DEF ClearIfMatches, TypeOK
  <2> QED  BY <1>1, <1>2, <1>3, <2>1, <2>2, <2>3, <2>4, LeftOK, Clears DEF NoLoc, Executing
<1>4. CASE row.window # loc[h].name
  BY <1>0, <1>1, <1>2, <1>4, Leaves, Still DEF ClearIfMatches
<1> QED  BY <1>3, <1>4

\* A retry and the deletion of a row name the window that the task names.
LEMMA DestroyStarts ==
  ASSUME RotationBase, NEW h \in Handlers, RetryBegin(h) \/ DeleteBegin(h) \/ DestroyEnter(h)
  PROVE  RotationInv'
<1>0. TypeOK /\ HandlerOK(h) /\ HandlerSees(h) /\ (\A p \in prims : row.window \in {p.window, 0})
  BY Before
<1>1. CASE RetryBegin(h)
  <2> DEFINE n == IF Primary = NoRow THEN row.window ELSE Primary.window
             r == [NoLoc EXCEPT !.op = "retry", !.seen = row.window, !.name = n]
  <2>1. row.window # 0 /\ row.window \in Names
    BY <1>0, <1>1 DEF RetryBegin, TypeOK
  <2>2. Primary = NoRow \/ Primary \in prims
    BY DEF Primary, Oldest
  <2>3. n = row.window
    BY <1>0, <2>1, <2>2
  <2>4. r.op = "retry" /\ r.seen = row.window /\ r.name = row.window
    BY <2>3 DEF NoLoc
  <2>5. Goto(h, "queued") /\ loc' = [loc EXCEPT ![h] = r] /\ UNCHANGED lock
    BY <1>1 DEF RetryBegin
  <2> HIDE DEF n, r
  <2>6. pc'[h] = "queued" /\ loc'[h] = r /\ OthersSame(h)
    BY <1>0, <2>5, Set
  <2>7. HandlerOK(h)' /\ HandlerSees(h)'
    BY <1>0, <1>1, <2>1, <2>4, <2>6 DEF RetryBegin, HandlerOK, HandlerSees, Executing, HasOwn, Section
  <2> QED  BY <1>0, <1>1, <2>4, <2>6, <2>7, Steady, Still DEF RetryBegin, db
<1>2. CASE DeleteBegin(h)
  <2>1. PICK p \in prims : loc' = [loc EXCEPT ![h] = [NoLoc EXCEPT !.op = "delete", !.seen = p.window,
                                                                   !.name = p.window, !.target = p.id]]
    BY <1>2 DEF DeleteBegin
  <2> DEFINE r == [NoLoc EXCEPT !.op = "delete", !.seen = p.window, !.name = p.window, !.target = p.id]
  <2>2. r.op = "delete" /\ r.seen = r.name /\ r.name \in Names
    BY <1>0 DEF NoLoc, TypeOK
  <2> HIDE DEF r
  <2>3. pc'[h] = "queued" /\ loc'[h] = r /\ OthersSame(h)
    BY <1>0, <1>2, <2>1, Set DEF DeleteBegin, r
  <2>4. HandlerOK(h)' /\ HandlerSees(h)'
    BY <1>0, <1>2, <2>2, <2>3 DEF DeleteBegin, HandlerOK, HandlerSees, Executing, HasOwn, Section
  <2> QED  BY <1>0, <1>2, <2>2, <2>3, <2>4, Steady, Still DEF DeleteBegin, db
<1>3. CASE DestroyEnter(h)
  <2>1. pc[h] = "queued" /\ loc[h].op \in {"retry", "delete"} /\ pc'[h] = "destroy" /\ loc' = loc /\ OthersSame(h)
    BY <1>0, <1>3, GotoFacts DEF DestroyEnter, Enters
  <2>2. HandlerOK(h)' /\ HandlerSees(h)'
    BY <1>0, <2>1 DEF HandlerOK, HandlerSees, Executing, HasOwn, Section
  <2> QED  BY <1>0, <1>3, <2>1, <2>2, Steady, Still DEF DestroyEnter, db
<1> QED  BY <1>1, <1>2, <1>3

\* The window destroyed on request, or not.
LEMMA WindowDestroyed ==
  ASSUME RotationBase, NEW h \in Handlers, DestroyKill(h) \/ DestroyFails(h) \/ RetryReset(h)
  PROVE  RotationInv'
<1>0. TypeOK /\ HandlerOK(h) /\ HandlerSees(h) /\ (\A p \in prims : row.window \in {p.window, 0})
      /\ (pc[h] \in Section => lock = h)
  BY Before
<1>1. CASE DestroyKill(h)
  <2>1. pc[h] = "destroy" /\ pc'[h] = "destroyed" /\ loc' = loc /\ OthersSame(h) /\ lock = h
    BY <1>0, <1>1, GotoFacts DEF DestroyKill, Section
  <2>2. LiveShrinks
    BY <1>0, <1>1 DEF DestroyKill, LiveShrinks, TypeOK
  <2>3. HandlerOK(h)' /\ HandlerSees(h)'
    BY <1>0, <1>1, <2>1 DEF DestroyKill, db, HandlerOK, HandlerSees, Executing, HasOwn, Section
  <2> QED  BY <1>0, <1>1, <2>1, <2>2, <2>3, Steady DEF DestroyKill, db
<1>2. CASE DestroyFails(h)
  BY <1>0, <1>2, Leaves, Still DEF DestroyFails, db
<1>3. CASE RetryReset(h)
  BY <1>0, <1>3, Leaves, Still DEF RetryReset, WriteRow
<1> QED  BY <1>1, <1>2, <1>3

\* Row and token go together when the window is still the task's.
LEMMA DestroyEnds == ASSUME RotationBase, NEW h \in Handlers, Destroyed(h) PROVE RotationInv'
<1>0. TypeOK /\ HandlerOK(h) /\ HandlerSees(h) /\ (\A p \in prims : row.window \in {p.window, 0}) /\ lock = h
      /\ (\A g \in Handlers : g # h => pc[g] \notin Section)
  BY Before DEF Destroyed, Section
<1>1. pc[h] = "destroyed" /\ loc[h].op \in {"retry", "delete"} /\ loc[h].seen \in Names
  BY <1>0 DEF Destroyed, HandlerOK
<1>2. /\ pc'[h] \in {"reset", "idle"} /\ OthersSame(h) /\ lock' # h
      /\ loc'[h].op # "execute" /\ HandlerOK(h)' /\ HandlerSees(h)'
  <2>1. CASE loc[h].op = "retry"
    <3>1. pc'[h] = "reset" /\ loc' = loc /\ OthersSame(h) /\ lock' # h
      BY <1>0, <2>1, GotoFacts, WindowsAssumption DEF WindowsAssumption, Destroyed, LeaveLock
    <3> QED  BY <1>0, <2>1, <3>1 DEF HandlerOK, HandlerSees, Executing, HasOwn, Section
  <2>2. CASE loc[h].op # "retry"
    BY <1>0, <2>2, LeaveFacts, LeftOK DEF Destroyed, NoLoc
  <2> QED  BY <2>1, <2>2
<1>3. prims' \subseteq prims /\ UNCHANGED <<live, gen>>
  BY DEF Destroyed
<1>4. CASE row.window = loc[h].seen
  <2>1. row'.window = 0 /\ active' = {}
    BY <1>0, <1>4 DEF Destroyed, ClearIfMatches, TypeOK
  <2> QED  BY <1>0, <1>1, <1>2, <1>3, <1>4, <2>1, Clears DEF Section
<1>5. CASE row.window # loc[h].seen
  BY <1>0, <1>1, <1>2, <1>3, <1>5, Steady, Still DEF Destroyed, ClearIfMatches
<1> QED  BY <1>4, <1>5

-----------------------------------------------------------------------------
(* The session killed *)

\* The kill of a session takes the lock if it has found a window.
LEMMA SessionKillStarts ==
  ASSUME RotationBase, NEW h \in Handlers, SessionKillBegin(h) \/ SessionKillEnter(h)
  PROVE  RotationInv'
<1>0. TypeOK /\ HandlerOK(h) /\ HandlerSees(h) /\ (\A p \in prims : row.window \in {p.window, 0})
  BY Before
<1>1. CASE SessionKillBegin(h)
  <2> DEFINE w == {p.window : p \in prims}
             r == [NoLoc EXCEPT !.op = "sessionKill", !.wins = w]
             to == IF prims = {} THEN "resolve" ELSE "queued"
  <2>1. r.op = "sessionKill" /\ r.wins = w /\ (w = {} <=> prims = {})
    BY DEF NoLoc
  <2>2. to \in {"resolve", "queued"} /\ (to = "resolve" <=> prims = {})
    OBVIOUS
  <2> HIDE DEF w, r, to
  <2>3. Goto(h, to) /\ loc' = [loc EXCEPT ![h] = r] /\ UNCHANGED lock /\ pc[h] = "idle"
    BY <1>1 DEF SessionKillBegin, to, r, w
  <2>4. pc'[h] = to /\ loc'[h] = r /\ OthersSame(h)
    BY <1>0, <2>3, Set
  <2>5. HandlerOK(h)' /\ HandlerSees(h)'
    BY <1>0, <2>1, <2>2, <2>3, <2>4 DEF HandlerOK, HandlerSees, Executing, HasOwn, Section
  <2> QED  BY <1>0, <1>1, <2>1, <2>3, <2>4, <2>5, Steady, Still DEF SessionKillBegin, db
<1>2. CASE SessionKillEnter(h)
  <2>1. pc[h] = "queued" /\ loc[h].op = "sessionKill" /\ pc'[h] = "resolve" /\ loc' = loc /\ OthersSame(h) /\ lock' = h
    BY <1>0, <1>2, GotoFacts DEF SessionKillEnter, Enters
  <2>2. HandlerOK(h)' /\ HandlerSees(h)'
    BY <1>0, <2>1 DEF HandlerOK, HandlerSees, Executing, HasOwn, Section
  <2> QED  BY <1>0, <1>2, <2>1, <2>2, Steady, Still DEF SessionKillEnter, db
<1> QED  BY <1>1, <1>2

\* The windows resolved again are those on the rows now.
LEMMA Resolved == ASSUME RotationBase, NEW h \in Handlers, Resolve(h) \/ GiveUp(h) PROVE RotationInv'
<1>0. TypeOK /\ HandlerOK(h) /\ HandlerSees(h) /\ (\A p \in prims : row.window \in {p.window, 0})
  BY Before
<1>1. CASE Resolve(h)
  <2> DEFINE w == {p.window : p \in prims}
             r == [loc[h] EXCEPT !.wins = w]
             same == (prims = {}) = (loc[h].wins = {})
             to == IF same THEN "session" ELSE IF prims = {} THEN "resolve" ELSE "queued"
  <2>1. pc[h] = "resolve" /\ loc[h].op = "sessionKill" /\ (lock = h <=> loc[h].wins # {})
    BY <1>0, <1>1 DEF Resolve, HandlerOK
  <2>2. r.op = "sessionKill" /\ r.wins = w /\ (w = {} <=> prims = {}) /\ (\A n \in w : row.window \in {n, 0})
    <3>1. loc[h] \in Local
      BY <1>0 DEF TypeOK
    <3>2. (w = {} <=> prims = {}) /\ (\A n \in w : row.window \in {n, 0})
      BY <1>0
    <3> HIDE DEF w
    <3> QED  BY <2>1, <3>1, <3>2 DEF Local
  <2>3. /\ to \in {"session", "resolve", "queued"} /\ (to = "session" <=> same)
        /\ (to = "resolve" => prims = {}) /\ (to = "queued" => prims # {})
    OBVIOUS
  <2>4. loc' = [loc EXCEPT ![h] = r]
    BY <1>0, <1>1 DEF Resolve, Let, TypeOK, Local
  <2>5. Goto(h, to) /\ (same => UNCHANGED lock) /\ (~same => Unlock(h))
    BY <1>1 DEF Resolve
  <2>6. same => (prims = {} <=> loc[h].wins = {})
    OBVIOUS
  <2> HIDE DEF w, r, to, same
  <2>7. pc'[h] = to /\ loc'[h] = r /\ OthersSame(h)
    BY <1>0, <2>4, <2>5, Set
  <2>8. ~same => lock' # h
    BY <2>5, WindowsAssumption DEF WindowsAssumption, Unlock
  <2>9. HandlerOK(h)' /\ HandlerSees(h)'
    BY <1>1, <2>1, <2>2, <2>3, <2>5, <2>6, <2>7, <2>8 DEF Resolve, db, HandlerOK, HandlerSees, Executing, HasOwn, Section
  <2> QED  BY <1>0, <1>1, <2>1, <2>2, <2>7, <2>9, Steady, Still DEF Resolve, db
<1>2. CASE GiveUp(h)
  BY <1>0, <1>2, Leaves, Still DEF GiveUp, db
<1> QED  BY <1>1, <1>2

\* The session killed: no window lives.
LEMMA SessionGone == ASSUME RotationBase, NEW h \in Handlers, SessionKill(h) \/ SessionKillFails(h) PROVE RotationInv'
<1>0. TypeOK /\ HandlerOK(h) /\ HandlerSees(h) /\ (\A p \in prims : row.window \in {p.window, 0})
  BY Before
<1>1. CASE SessionKill(h)
  <2>1. pc[h] = "session" /\ pc'[h] = "killed" /\ loc' = loc /\ OthersSame(h)
    BY <1>0, <1>1, GotoFacts DEF SessionKill
  <2>2. LiveShrinks
    BY <1>1 DEF SessionKill, LiveShrinks
  <2>3. HandlerOK(h)' /\ HandlerSees(h)'
    BY <1>0, <1>1, <2>1, <2>2 DEF SessionKill, db, HandlerOK, HandlerSees, Executing, HasOwn, Section
  <2> QED  BY <1>0, <1>1, <2>1, <2>2, <2>3, Steady DEF SessionKill, db
<1>2. CASE SessionKillFails(h)
  BY <1>0, <1>2, Leaves, Still DEF SessionKillFails, db
<1> QED  BY <1>1, <1>2

\* The row and the token of a task whose window was resolved are cleared.
LEMMA SessionCleared == ASSUME RotationBase, NEW h \in Handlers, SessionKilled(h) PROVE RotationInv'
<1>0. TypeOK /\ HandlerOK(h) /\ HandlerSees(h) /\ (\A p \in prims : row.window \in {p.window, 0})
  BY Before
<1>1. pc[h] = "killed" /\ loc[h].op = "sessionKill" /\ Leave(h) /\ prims' \subseteq prims /\ UNCHANGED <<live, gen>>
  BY <1>0 DEF SessionKilled, HandlerOK
<1>2. CASE row.window \in loc[h].wins
  <2>1. row.window \in Names /\ row.window # 0
    BY <1>0, <1>2 DEF TypeOK, Local, Names
  <2>2. lock = h
    BY <1>0, <1>1, <1>2 DEF HandlerOK, HandlerSees
  <2>3. row'.window = 0 /\ active' = {}
    BY <1>0, <1>2, <2>1 DEF SessionKilled, TypeOK
  <2>4. \A g \in Handlers \ {h} : pc[g] # "killOld"
    BY <2>2, Before DEF Section
  <2>5. OthersSame(h) /\ pc'[h] = "idle" /\ loc'[h] = NoLoc /\ lock' # h
    BY <1>0, <1>1, LeaveFacts
  <2> QED  BY <1>1, <2>1, <2>3, <2>4, <2>5, LeftOK, Clears DEF NoLoc
<1>3. CASE row.window \notin loc[h].wins
  BY <1>0, <1>1, <1>3, Leaves, Still DEF SessionKilled
<1> QED  BY <1>2, <1>3

-----------------------------------------------------------------------------
(* Kills without the lock, accidents *)

\* An archive and a sleep kill without the lock; they clear no row's window.
LEMMA PutSteps == ASSUME RotationBase, NEW h \in Handlers, Put(h) PROVE RotationInv'
<1>0. TypeOK /\ HandlerOK(h) /\ HandlerSees(h) /\ (\A p \in prims : row.window \in {p.window, 0})
  BY Before
<1>1. CASE ArchiveBegin(h)
  <2> DEFINE r == [NoLoc EXCEPT !.op = "archive", !.name = row.window]
  <2>1. r.op = "archive"
    BY DEF NoLoc
  <2> HIDE DEF r
  <2>2. pc[h] = "idle" /\ pc'[h] = "close" /\ loc'[h] = r /\ OthersSame(h)
    BY <1>0, <1>1, Set DEF ArchiveBegin, r
  <2>3. HandlerOK(h)' /\ HandlerSees(h)'
    BY <1>0, <1>1, <2>1, <2>2 DEF ArchiveBegin, HandlerOK, HandlerSees, Executing, HasOwn, Section
  <2> QED  BY <1>0, <1>1, <2>1, <2>2, <2>3, Steady, Still DEF ArchiveBegin, db
<1>2. CASE ArchiveClose(h) \/ ArchiveCloseFails(h)
  <2>1. pc[h] = "close" /\ pc'[h] = "archive" /\ loc' = loc /\ OthersSame(h) /\ lock' = lock
    BY <1>0, <1>2, GotoFacts DEF ArchiveClose, ArchiveCloseFails
  <2>2. LiveShrinks
    BY <1>2 DEF ArchiveClose, ArchiveCloseFails, LiveShrinks
  <2>3. HandlerOK(h)' /\ HandlerSees(h)'
    BY <1>0, <2>1 DEF HandlerOK, HandlerSees, Executing, HasOwn, Section
  <2> QED  BY <1>0, <1>2, <2>1, <2>2, <2>3, Steady DEF ArchiveClose, ArchiveCloseFails, db
<1>3. CASE Archived(h)
  <2>1. row'.window = row.window /\ active' \subseteq active
    BY <1>0, <1>3 DEF Archived, SetStatus, TypeOK
  <2> QED  BY <1>3, <2>1, Leaves, Still DEF Archived
<1>4. CASE SleepBegin(h)
  <2>1. PICK p \in prims : loc' = [loc EXCEPT ![h] = [NoLoc EXCEPT !.op = "sleep", !.name = p.window, !.target = p.id]]
    BY <1>4 DEF SleepBegin
  <2> DEFINE r == [NoLoc EXCEPT !.op = "sleep", !.name = p.window, !.target = p.id]
  <2>2. r.op = "sleep"
    BY DEF NoLoc
  <2> HIDE DEF r
  <2>3. pc[h] = "idle" /\ pc'[h] = "sleep" /\ loc'[h] = r /\ OthersSame(h)
    BY <1>0, <1>4, <2>1, Set DEF SleepBegin, r
  <2>4. HandlerOK(h)' /\ HandlerSees(h)'
    BY <1>0, <1>4, <2>2, <2>3 DEF SleepBegin, HandlerOK, HandlerSees, Executing, HasOwn, Section
  <2> QED  BY <1>0, <1>4, <2>2, <2>3, <2>4, Steady, Still DEF SleepBegin, db
<1>5. CASE SleepKill(h)
  <2>1. pc[h] = "sleep" /\ pc'[h] = "asleep" /\ loc' = loc /\ OthersSame(h) /\ lock' = lock
    BY <1>0, <1>5, GotoFacts DEF SleepKill
  <2>2. LiveShrinks
    BY <1>0, <1>5 DEF SleepKill, LiveShrinks, TypeOK
  <2>3. HandlerOK(h)' /\ HandlerSees(h)'
    BY <1>0, <2>1 DEF HandlerOK, HandlerSees, Executing, HasOwn, Section
  <2> QED  BY <1>0, <1>5, <2>1, <2>2, <2>3, Steady DEF SleepKill, db
<1>6. CASE SleepFails(h)
  BY <1>0, <1>6, Leaves, Still DEF SleepFails, db
<1>7. CASE Slept(h)
  <2>1. \A p \in prims : [p EXCEPT !.sleeping = TRUE].window = p.window
    BY <1>0 DEF TypeOK
  <2>2. \A p \in prims' : row.window \in {p.window, 0}
    BY <1>0, <1>7, <2>1 DEF Slept
  <2> QED  BY <1>7, <2>2, Leaves, Still DEF Slept
<1> QED  BY <1>1, <1>2, <1>3, <1>4, <1>5, <1>6, <1>7 DEF Put

\* What happens beside the handlers.
LEMMA Beside ==
  ASSUME RotationBase, UNCHANGED <<pc, loc, lock, prims, gen>>, LiveShrinks, row'.window = row.window, active' \subseteq active
  PROVE  RotationInv'
<1>1. \A g \in Handlers : HandlerOK(g)' /\ HandlerSees(g)'
  BY OtherKeeps
<1>2. OneExecutes' /\ TokenNamed' /\ RowsNamed' /\ OneCredential'
  BY DEF RotationBase, RotationInv, OneExecutes, TokenNamed, RowsNamed, OneCredential
<1> QED  BY <1>1, <1>2 DEF RotationInv

\* Nothing has been opened.
LEMMA RotationInit == ASSUME Init PROVE RotationInv
BY WindowsAssumption DEF WindowsAssumption, Init, RotationInv, HandlerOK, HandlerSees, OneExecutes, TokenNamed, RowsNamed,
   OneCredential, NoLoc, Section, Executing, HasOwn

\* An operation, an accident or a stuttering step keeps the invariant.
LEMMA RotationNext == ASSUME Ops \subseteq RotationOps, RotationBase, [Next]_vars PROVE RotationInv'
<1>1. ASSUME NEW h \in Handlers, Rotate(h) \/ Rollback(h) \/ Run(h) \/ Destroy(h) \/ Put(h) PROVE RotationInv'
  <2>1. RotationStep(h)
    BY <1>1, OnlyRotation
  <2>2. CASE ExecuteBegin(h) \/ ExecuteEnter(h)
    BY <2>2, ExecuteStarts
  <2>3. CASE KillOld(h) \/ OldMissed(h)
    BY <2>3, OldKilled
  <2>4. CASE KillOldFails(h) \/ Refuse(h) \/ ServerChanged(h) \/ OutOfGenerations(h) \/ Abandon(h) \/ Launched(h)
             \/ LaunchFails(h)
    BY <2>4, RotationLeaves
  <2>5. CASE IssueGeneration(h) \/ Create(h) \/ CreateFails(h) \/ ExecutePersist(h)
    BY <2>5, Issued, Created, NotCreated, Persisted
  <2>6. CASE PrepareFails(h) \/ Complete(h) \/ Rollback(h)
    BY <2>6, PreparationFails, Completed, Undone, Forgotten DEF Rollback
  <2>7. CASE Destroy(h)
    BY <2>7, DestroyStarts, WindowDestroyed, DestroyEnds, SessionKillStarts, Resolved, SessionGone, SessionCleared
    DEF Destroy
  <2>8. CASE Put(h)
    BY <2>8, PutSteps
  <2> QED  BY <2>1, <2>2, <2>3, <2>4, <2>5, <2>6, <2>7, <2>8 DEF RotationStep
<1>2. CASE PutStatus
  <2>1. row'.window = row.window /\ active' \subseteq active
    BY <1>2 DEF PutStatus, SetStatus, RotationBase, TypeOK
  <2> QED  BY <1>2, <2>1, Beside, Still DEF PutStatus
<1>3. CASE Die
  <2>1. LiveShrinks
    BY <1>3 DEF Die, LiveShrinks, RotationBase, TypeOK
  <2> QED  BY <1>3, <2>1, Beside DEF Die, db
<1>4. ~Restart
  BY DEF Restart, RotationOps
<1>5. CASE UNCHANGED vars
  BY <1>5, Beside, Still DEF vars
<1> QED  BY <1>1, <1>2, <1>3, <1>4, <1>5 DEF Next

\* Where a task is executed, retried, deleted, archived, put to sleep and its
\* session killed, each handler can rely on what the code relies on: the
\* window it kills is the one that the task names, and the valid token is the
\* one of the window on the task's row.
THEOREM RotationInvariance == ASSUME Ops \subseteq RotationOps PROVE Spec => []RotationBase
<1>1. Spec => []RotationInv
  <2>1. Init => RotationInv
    BY RotationInit
  <2>2. (TypeOK /\ SectionOK) /\ RotationInv /\ [Next]_vars => RotationInv'
    BY RotationNext DEF RotationBase
  <2> QED  BY <2>1, <2>2, Invariance, PTL DEF Spec, IInv
<1> QED  BY <1>1, Invariance, PTL DEF RotationBase, IInv

\* A task read outside the lock with no window has no valid token: whoever
\* calls clearTmuxWindowIfMatches revokes in the same section, and a rotation
\* that fails (createRotatedWindowInLock) revokes what it has issued.
THEOREM NoTokenWithoutWindow == ASSUME Ops \subseteq RotationOps PROVE Spec => []NullHasNoToken
<1>1. RotationBase => NullHasNoToken
  <2> SUFFICES ASSUME RotationBase, lock = None, row.window = 0 PROVE active = {}
    BY DEF NullHasNoToken
  <2>1. \A h \in Handlers : pc[h] \notin {"create", "persist"}
    BY WindowsAssumption DEF WindowsAssumption, RotationBase, SectionOK, Section
  <2>2. active # {} => gen = 0
    BY <2>1 DEF RotationBase, RotationInv, TokenNamed
  <2> QED  BY <2>2 DEF RotationBase, RotationInv, OneCredential, TypeOK, Gens
<1> QED  BY <1>1, RotationInvariance, PTL

\* createRotatedWindowInLock issues a generation while the window that the task
\* names is alive only if the list did not show that window to the rotation: a
\* kill that was not confirmed has stopped it.
THEOREM RotatesOnlyGone == ASSUME Ops \subseteq RotationOps PROVE Spec => RotatesWhenGone
<1>1. RotationBase /\ [Next]_vars
      => [\A h \in Handlers : pc[h] = "issue" /\ pc'[h] = "create" => ~Alive(row.window) \/ loc[h].missed]_vars
  BY DEF RotationBase, RotationInv, HandlerSees
<1> QED  BY <1>1, RotationInvariance, PTL DEF Spec, RotatesWhenGone

\* A handler ends the kill of a session by SessionKilled alone.
LEMMA OnlySessionKilled ==
  ASSUME TypeOK, NEW h \in Handlers, Rotate(h) \/ Rollback(h) \/ Run(h) \/ Destroy(h) \/ Put(h),
         pc[h] = "killed", pc'[h] = "idle"
  PROVE  SessionKilled(h)
<1>1. CASE Rotate(h)
  BY <1>1 DEF TypeOK, Rotate, Goto, Leave, LeaveLock, Enters, ExecuteBegin, ExecuteEnter,
       RestoreBegin, RestoreEnter, RespawnBegin, RespawnEnter, RespawnGone, KillOld,
       OldMissed, KillOldFails, Refuse, ServerChanged, IssueGeneration, OutOfGenerations, Create,
       CreateFails, ExecutePersist, RespawnPersist, SetupFails, RestoreRegister, RestorePersist
<1>2. CASE Rollback(h)
  BY <1>2 DEF Rollback, Undo, UndoFails, Forget
<1>3. CASE Run(h)
  BY <1>3 DEF Run, Enters, PrepareFails, Complete, Abandon, Launched, LaunchFails, FollowUpBegin, FollowUpEnter,
       FollowUpWoken, FollowUpReuse, FollowUpNoWindow, FollowUpPersist, DirectoryRejected
<1>4. CASE Destroy(h)
  BY <1>4 DEF Destroy, Enters, RetryBegin, DeleteBegin, DestroyEnter, DestroyKill, DestroyFails, Destroyed, RetryReset,
       SessionKillBegin, SessionKillEnter, Resolve, GiveUp, SessionKill, SessionKillFails
<1>5. CASE Put(h)
  BY <1>5 DEF Put, ArchiveBegin, ArchiveClose, ArchiveCloseFails, Archived, SleepBegin, SleepKill, SleepFails, Slept
<1> QED  BY <1>1, <1>2, <1>3, <1>4, <1>5

\* The kill of a session that holds the task's lock leaves no valid token: what
\* it has resolved inside the lock is what the row names.
THEOREM SessionKillLeavesNoToken == ASSUME Ops \subseteq RotationOps PROVE Spec => SessionKillRevokes
<1>1. RotationBase /\ [Next]_vars => [\A h \in Handlers : pc[h] = "killed" /\ pc'[h] = "idle" /\ lock = h => active' = {}]_vars
  <2> SUFFICES ASSUME RotationBase, Next, NEW g \in Handlers, pc[g] = "killed", pc'[g] = "idle", lock = g
               PROVE  active' = {}
    BY DEF vars
  <2>0. TypeOK
    BY DEF RotationBase
  <2>1. ASSUME NEW h \in Handlers, Rotate(h) \/ Rollback(h) \/ Run(h) \/ Destroy(h) \/ Put(h)
        PROVE  active' = {}
    <3>1. h = g
      BY <2>0, <2>1, OthersStay
    <3>2. SessionKilled(g)
      BY <2>0, <2>1, <3>1, OnlySessionKilled
    <3>3. loc[g].wins # {} /\ (\A w \in loc[g].wins : w \in Names /\ w # 0 /\ row.window \in {w, 0})
      BY <2>0 DEF RotationBase, RotationInv, HandlerOK, HandlerSees, TypeOK, Local, Names
    <3>4. \A h1 \in Handlers : pc[h1] \notin {"create", "persist"}
      BY DEF RotationBase, SectionOK, Section
    <3>5. row.window = 0 => active = {}
      BY <2>0, <3>4 DEF RotationBase, RotationInv, TokenNamed, OneCredential, TypeOK, Gens
    <3>6. row.window # 0 => row.window \in loc[g].wins
      BY <3>3
    <3> QED  BY <3>2, <3>5, <3>6 DEF SessionKilled
  <2>2. CASE PutStatus \/ Die
    BY <2>2 DEF PutStatus, Die
  <2>3. CASE Restart
    BY <2>3 DEF Restart, RotationOps
  <2> QED  BY <2>1, <2>2, <2>3 DEF Next
<1> QED  BY <1>1, RotationInvariance, PTL DEF Spec, SessionKillRevokes

=============================================================================
