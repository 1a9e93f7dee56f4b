----------------------------- MODULE TaskWindows -----------------------------
(***************************************************************************)
(* The primary window of one task and the generations of its token: every  *)
(* operation that opens, kills, records or forgets the window, step by     *)
(* step between its awaits.                                                *)
(*                                                                         *)
(* A window is known by its tmux name.  A new name is numbered by the      *)
(* generation it was first opened for; a respawn opens the old name again  *)
(* for a new generation.  The per-task lock is a plain mutual exclusion    *)
(* here: TaskLocks shows that the code's promise chains provide it.        *)
(* A respawn that was not shown the old window opens a second one of its   *)
(* name: the newest window of a name is the one that "live" knows.         *)
(* Only tmux windows: a misao window is known by an id never used again,   *)
(* its panes carry labels that can fail to be set, and its program starts  *)
(* with the window.                                                        *)
(***************************************************************************)
EXTENDS Naturals, FiniteSets

CONSTANTS
  Handlers,   \* requests and background runs on the task
  None,       \* nobody holds the lock
  Ops,        \* the operations, and the accidents, that an instance allows
  MaxGen      \* bound: generations issued

AllOps ==
  {"execute", "followUp", "respawn", "restore", "retry", "delete", "archive",
   "sleep", "sessionKill", "put", "overlap", "die", "restart", "listFails", "killFails"}

ASSUME WindowsAssumption ==
  /\ None \notin Handlers
  /\ Ops \subseteq AllOps
  /\ MaxGen \in Nat

Names == 1 .. MaxGen
Gens  == 1 .. MaxGen

VARIABLES
  row,      \* the tasks row: the window it names (0: NULL) and its status
  prims,    \* the primary rows of the windows table
  rows,     \* rows ever added to it
  live,     \* the mux: the generation in the environment of each window, 0: dead
  gen,      \* the last generation issued
  active,   \* the generations that are not revoked
  lock,     \* who runs inside runExclusiveForTask
  pc, loc   \* each handler's next step and local variables

db   == <<row, prims, rows>>
vars == <<row, prims, rows, live, gen, active, lock, pc, loc>>

\* "open" stands for every status that is none of the others
Statuses == {"open", "in_progress", "failed", "done", "archived"}
Revoking == {"done", "archived"}

NoRow == [id |-> 0, window |-> 0, sleeping |-> FALSE]
NoLoc == [op |-> "none", seen |-> 0, own |-> 0, name |-> 0, target |-> 0, woke |-> FALSE,
          missed |-> FALSE, wins |-> {}]

Oldest == {p \in prims : \A q \in prims : p.id <= q.id}

\* windowRepo.findByTask(..).find(isPrimaryTaskWindow)
Primary == IF Oldest = {} THEN NoRow ELSE CHOOSE p \in Oldest : TRUE

Respawns(h) == loc[h].op \in {"respawn", "wake"}

Alive(n) == n # 0 /\ live[n] # 0

Init ==
  /\ row  = [window |-> 0, status |-> "open"]
  /\ prims = {} /\ rows = 0
  /\ live = [n \in Names |-> 0]
  /\ gen = 0 /\ active = {}
  /\ lock = None
  /\ pc   = [h \in Handlers |-> "idle"]
  /\ loc  = [h \in Handlers |-> NoLoc]

-----------------------------------------------------------------------------
(* Control *)

Goto(h, p)     == pc' = [pc EXCEPT ![h] = p]
Let(h, f, v)   == loc' = [loc EXCEPT ![h][f] = v]
Keep(h)        == loc' = loc
Unlock(h)      == lock' = IF lock = h THEN None ELSE lock

\* the handler returns or throws
Leave(h) == Goto(h, "idle") /\ loc' = [loc EXCEPT ![h] = NoLoc] /\ Unlock(h)

\* the section ends and the handler goes on outside
LeaveLock(h, p) == Goto(h, p) /\ Keep(h) /\ lock' = None

\* faulty: the section starts although another runs
EntersUnlocked(h, op) ==
  /\ pc[h] = "queued" /\ loc[h].op \in op
  /\ lock' = h

Enters(h, op) ==
  /\ pc[h] = "queued" /\ loc[h].op \in op
  /\ lock = None /\ lock' = h

-----------------------------------------------------------------------------
(* The stores *)

\* faulty: the older generations stay valid
IssueKeepingOld == gen' = gen + 1 /\ active' = active \union {gen + 1}

\* issueNextGeneration
Issue == gen' = gen + 1 /\ active' = {gen + 1}

\* update({status}): done and archived revoke, in the same transaction
SetStatus(s) ==
  /\ row' = [row EXCEPT !.status = s]
  /\ active' = IF s \in Revoking THEN {} ELSE active

\* update({status, tmuxWindow}): null does not clear the column
WriteRow(s, w) == row' = [window |-> IF w = 0 THEN row.window ELSE w, status |-> s]

AddRow(w) == [id |-> rows + 1, window |-> w, sleeping |-> FALSE]

UpdateRow(id, w) ==
  prims' = {IF p.id = id THEN [p EXCEPT !.window = w, !.sleeping = FALSE] ELSE p : p \in prims}

\* faulty: whatever window the row names is cleared
ClearAlways(w) == row' = [row EXCEPT !.window = 0]

\* clearTmuxWindowIfMatches
ClearIfMatches(w) == row' = IF row.window = w THEN [row EXCEPT !.window = 0] ELSE row

\* faulty: NULL is taken for permission
FailIfMatchesOrNull(w, g) ==
  row' = IF row.window \in {w, 0} THEN [row EXCEPT !.status = "failed"] ELSE row

\* updateStatusIfWindowMatches: only while no newer generation has been issued
FailIfWindowMatches(w, g) ==
  row' = IF row.window \in {w, 0} /\ gen = g THEN [row EXCEPT !.status = "failed"] ELSE row

-----------------------------------------------------------------------------
(* The rotation, inside the lock *)

ExecuteBegin(h) ==
  /\ "execute" \in Ops /\ pc[h] = "idle" /\ gen < MaxGen
  /\ "overlap" \in Ops \/ \A g \in Handlers : loc[g].op # "execute"
  /\ Goto(h, "queued") /\ Let(h, "op", "execute")
  /\ UNCHANGED <<db, live, gen, active, lock>>

\* the window to replace is read again inside the lock
ExecuteEnter(h) ==
  /\ Enters(h, {"execute"})
  /\ Goto(h, "killOld") /\ Let(h, "name", row.window)
  /\ UNCHANGED <<db, live, gen, active>>

RestoreBegin(h) ==
  /\ "restore" \in Ops /\ pc[h] = "idle" /\ gen < MaxGen
  /\ row.status = "archived"
  /\ Goto(h, "queued") /\ Let(h, "op", "restore")
  /\ UNCHANGED <<db, live, gen, active, lock>>

\* a restore kills nothing: archiving has
RestoreEnter(h) ==
  /\ Enters(h, {"restore"})
  /\ Goto(h, "issue") /\ Keep(h)
  /\ UNCHANGED <<db, live, gen, active>>

RespawnBegin(h) ==
  /\ "respawn" \in Ops /\ pc[h] = "idle" /\ gen < MaxGen
  /\ \E p \in prims :
       loc' = [loc EXCEPT ![h] = [NoLoc EXCEPT !.op = "respawn", !.seen = row.window, !.target = p.id]]
  /\ Goto(h, "queued")
  /\ UNCHANGED <<db, live, gen, active, lock>>

\* the row is read again inside the lock, the task is not
RespawnEnter(h) ==
  /\ Enters(h, {"respawn", "wake"})
  /\ \E p \in prims :
       /\ p.id = loc[h].target
       /\ Goto(h, "killOld") /\ Let(h, "name", p.window)
  /\ UNCHANGED <<db, live, gen, active>>

RespawnGone(h) ==
  /\ pc[h] = "queued" /\ Respawns(h) /\ lock = None
  /\ \A p \in prims : p.id # loc[h].target
  /\ Leave(h)
  /\ UNCHANGED <<db, live, gen, active>>

\* faulty: the rotation goes on although the kill has failed
KillOldUnconfirmed(h) ==
  /\ pc[h] = "killOld"
  /\ Goto(h, "issue") /\ Keep(h)
  /\ UNCHANGED <<db, live, gen, active, lock>>

\* a window that is in the list is killed, and the kill is confirmed
KillOld(h) ==
  /\ pc[h] = "killOld"
  /\ IF Alive(loc[h].name) THEN live' = [live EXCEPT ![loc[h].name] = 0] ELSE live' = live
  /\ Goto(h, "issue") /\ Keep(h)
  /\ UNCHANGED <<db, gen, active, lock>>

\* the list of a mux that could not be asked reads as no windows: there is
\* nothing to kill or to confirm
OldMissed(h) ==
  /\ "listFails" \in Ops
  /\ pc[h] = "killOld" /\ loc[h].name # 0
  /\ Goto(h, "issue") /\ Let(h, "missed", TRUE)
  /\ UNCHANGED <<db, live, gen, active, lock>>

\* the list throws, or the kill fails
KillOldFails(h) ==
  /\ pc[h] = "killOld"
  /\ \/ "listFails" \in Ops /\ loc[h].name # 0
     \/ "killFails" \in Ops /\ Alive(loc[h].name)
  /\ Leave(h)
  /\ UNCHANGED <<db, live, gen, active>>

\* the gate in the lock refuses: before the kill in a respawn, after it in an
\* execution
Refuse(h) ==
  /\ pc[h] = IF Respawns(h) THEN "killOld" ELSE "issue"
  /\ Leave(h)
  /\ UNCHANGED <<db, live, gen, active>>

\* the server's row has changed since the handler read it
ServerChanged(h) ==
  /\ pc[h] = IF loc[h].op \in {"followUp", "restore"} THEN "issue" ELSE "killOld"
  /\ IF Respawns(h) THEN row' = row ELSE WriteRow("failed", 0)
  /\ Leave(h)
  /\ UNCHANGED <<prims, rows, live, gen, active>>

IssueGeneration(h) ==
  /\ pc[h] = "issue" /\ gen < MaxGen
  /\ Issue
  /\ loc' = [loc EXCEPT ![h].own = gen + 1,
                        ![h].name = IF Respawns(h) THEN @ ELSE gen + 1]
  /\ Goto(h, "create")
  /\ UNCHANGED <<db, live, lock>>

\* at the bound of the model a rotation gives up
OutOfGenerations(h) ==
  /\ pc[h] = "issue" /\ gen = MaxGen
  /\ Leave(h)
  /\ UNCHANGED <<db, live, gen, active>>

Create(h) ==
  /\ pc[h] = "create"
  /\ live' = [live EXCEPT ![loc[h].name] = loc[h].own]
  /\ Goto(h, "persist") /\ Keep(h)
  /\ UNCHANGED <<db, gen, active, lock>>

\* the call throws or returns non-zero: the generation it was issued is revoked
CreateFails(h) ==
  /\ pc[h] = "create"
  /\ active' = active \ {loc[h].own}
  /\ Leave(h)
  /\ UNCHANGED <<db, live, gen>>

ExecutePersist(h) ==
  /\ pc[h] = "persist" /\ loc[h].op = "execute"
  /\ prims' = {AddRow(loc[h].name)} /\ rows' = rows + 1
  /\ WriteRow("in_progress", loc[h].name)
  /\ LeaveLock(h, "prepare")
  /\ UNCHANGED <<live, gen, active>>

\* the name is compared with the task read before the lock
RespawnWrites(h) ==
  row' = IF loc[h].seen # loc[h].name THEN [row EXCEPT !.window = loc[h].name] ELSE row

RespawnPersist(h) ==
  /\ pc[h] = "persist" /\ Respawns(h)
  /\ UpdateRow(loc[h].target, loc[h].name)
  /\ RespawnWrites(h)
  /\ IF loc[h].op = "wake"
     THEN /\ Goto(h, "queued") /\ lock' = None
          /\ loc' = [loc EXCEPT ![h] = [NoLoc EXCEPT !.op = "followUp", !.target = loc[h].target, !.woke = TRUE]]
     ELSE Leave(h)
  /\ UNCHANGED <<rows, live, gen, active>>

\* the panes of the new window cannot be set up, or the environment of a
\* restored one cannot be prepared
SetupFails(h) ==
  /\ pc[h] = "persist" /\ loc[h].op \in {"respawn", "wake", "restore"}
  /\ Goto(h, "undo") /\ Keep(h)
  /\ UNCHANGED <<db, live, gen, active, lock>>

RestoreRegister(h) ==
  /\ pc[h] = "persist" /\ loc[h].op = "restore"
  /\ prims' = {AddRow(loc[h].name)} /\ rows' = rows + 1
  /\ Let(h, "target", rows + 1)
  /\ Goto(h, "label")
  /\ UNCHANGED <<row, live, gen, active, lock>>

RestorePersist(h) ==
  /\ pc[h] = "label"
  /\ WriteRow("open", loc[h].name)
  /\ Leave(h)
  /\ UNCHANGED <<prims, rows, live, gen, active>>

-----------------------------------------------------------------------------
(* The rollback of a window of one's own, in the lock or outside *)

Undo(h) ==
  /\ pc[h] = "undo"
  /\ live' = [live EXCEPT ![loc[h].name] = 0]
  /\ Goto(h, "undone") /\ Keep(h)
  /\ UNCHANGED <<db, gen, active, lock>>

\* the window that is still alive keeps its token; a respawn records it
UndoFails(h) ==
  /\ "killFails" \in Ops
  /\ pc[h] = "undo" /\ Alive(loc[h].name)
  /\ IF Respawns(h)
     THEN RespawnWrites(h) /\ prims' = {IF p.id = loc[h].target THEN [p EXCEPT !.window = loc[h].name] ELSE p : p \in prims}
     ELSE UNCHANGED <<row, prims>>
  /\ Leave(h)
  /\ UNCHANGED <<rows, live, gen, active>>

\* faulty: every generation of the task is revoked, not only its own
ForgetAll(h) ==
  /\ pc[h] = "undone"
  /\ active' = {}
  /\ IF loc[h].op \in {"execute", "followUp"} THEN ClearIfMatches(loc[h].name) ELSE row' = row
  /\ prims' = CASE loc[h].op = "execute" -> {p \in prims : p.window # loc[h].name}
                [] loc[h].op = "restore" -> {p \in prims : p.id # loc[h].target}
                [] OTHER -> prims
  /\ Leave(h)
  /\ UNCHANGED <<rows, live, gen>>

\* onGone and the revocation of the handler's own generation
Forget(h) ==
  /\ pc[h] = "undone"
  /\ active' = active \ {loc[h].own}
  /\ CASE loc[h].op = "execute" -> /\ ClearIfMatches(loc[h].name)
                                   /\ prims' = {p \in prims : p.window # loc[h].name}
       [] loc[h].op = "followUp" -> ClearIfMatches(loc[h].name) /\ prims' = prims
       [] loc[h].op = "restore" -> row' = row /\ prims' = {p \in prims : p.id # loc[h].target}
       [] OTHER -> UNCHANGED <<row, prims>>
  /\ Leave(h)
  /\ UNCHANGED <<rows, live, gen>>

-----------------------------------------------------------------------------
(* execute, after its window: distribution, worktree, launch *)

PrepareFails(h) ==
  /\ pc[h] = "prepare"
  /\ FailIfWindowMatches(loc[h].name, loc[h].own)
  /\ Goto(h, "undo") /\ Keep(h)
  /\ UNCHANGED <<prims, rows, live, gen, active, lock>>

\* the row of its own window is completed, every other primary row removed
Complete(h) ==
  /\ pc[h] = "prepare"
  /\ LET own == {p \in prims : p.window = loc[h].name} IN
     IF own = {}
     THEN prims' = {AddRow(loc[h].name)} /\ rows' = rows + 1
     ELSE /\ \E p \in own : (\A q \in own : p.id <= q.id) /\ prims' = {[p EXCEPT !.sleeping = FALSE]}
          /\ rows' = rows
  /\ Goto(h, "launch") /\ Keep(h)
  /\ UNCHANGED <<row, live, gen, active, lock>>

\* the pane cannot be resolved: the error leaves everything as it is
Abandon(h) ==
  /\ pc[h] \in {"prepare", "launch"} /\ ~Alive(loc[h].name)
  /\ Leave(h)
  /\ UNCHANGED <<db, live, gen, active>>

Launched(h) ==
  /\ pc[h] = "launch"
  /\ Leave(h)
  /\ UNCHANGED <<db, live, gen, active>>

\* a follow-up rolls back the window it has opened; an execution keeps its own
LaunchFails(h) ==
  /\ pc[h] = "launch"
  /\ WriteRow("failed", 0)
  /\ IF loc[h].op = "followUp" /\ loc[h].own # 0
     THEN Goto(h, "undo") /\ Keep(h) /\ UNCHANGED lock
     ELSE Leave(h)
  /\ UNCHANGED <<prims, rows, live, gen, active>>

-----------------------------------------------------------------------------
(* followUp *)

\* a primary window that sleeps, or is not there, is woken first
FollowUpBegin(h) ==
  /\ "followUp" \in Ops /\ pc[h] = "idle" /\ gen < MaxGen
  /\ WriteRow("in_progress", 0)
  /\ LET p == Primary
         wakes == p # NoRow /\ (p.sleeping \/ ~Alive(p.window))
     IN
     /\ prims' = IF wakes THEN {IF q = p THEN [q EXCEPT !.sleeping = TRUE] ELSE q : q \in prims} ELSE prims
     /\ loc' = [loc EXCEPT ![h] =
          IF wakes THEN [NoLoc EXCEPT !.op = "wake", !.seen = row.window, !.target = p.id]
                   ELSE [NoLoc EXCEPT !.op = "followUp"]]
  /\ Goto(h, "queued")
  /\ UNCHANGED <<rows, live, gen, active, lock>>

\* the window woken is taken when it still lives; else the primary row's
\* window, else the one the task names
FollowUpEnter(h) ==
  /\ Enters(h, {"followUp"})
  /\ LET fresh == {p \in prims : loc[h].woke /\ p.id = loc[h].target /\ ~p.sleeping /\ Alive(p.window)} IN
     IF fresh # {}
     THEN /\ \E p \in fresh : Let(h, "name", p.window)
          /\ Goto(h, "woken")
     ELSE /\ loc' = [loc EXCEPT ![h].name = IF Primary = NoRow THEN row.window ELSE Primary.window,
                                ![h].target = Primary.id, ![h].woke = FALSE]
          /\ Goto(h, "look")
  /\ UNCHANGED <<db, live, gen, active>>

\* it counts as a window that was not there, with no token of its own
FollowUpWoken(h) ==
  /\ pc[h] = "woken"
  /\ WriteRow(row.status, loc[h].name)
  /\ LeaveLock(h, "launch")
  /\ UNCHANGED <<prims, rows, live, gen, active>>

\* resumed without a rotation
FollowUpReuse(h) ==
  /\ pc[h] = "look" /\ Alive(loc[h].name)
  /\ WriteRow(row.status, loc[h].name)
  /\ LeaveLock(h, "launch")
  /\ UNCHANGED <<prims, rows, live, gen, active>>

\* not listed, or the list could not be had
FollowUpNoWindow(h) ==
  /\ pc[h] = "look" /\ (~Alive(loc[h].name) \/ "listFails" \in Ops)
  /\ Goto(h, "issue") /\ Keep(h)
  /\ UNCHANGED <<db, live, gen, active, lock>>

FollowUpPersist(h) ==
  /\ pc[h] = "persist" /\ loc[h].op = "followUp"
  /\ WriteRow(row.status, loc[h].name)
  /\ IF loc[h].target # 0
     THEN UpdateRow(loc[h].target, loc[h].name) /\ rows' = rows
     ELSE prims' = prims \union {AddRow(loc[h].name)} /\ rows' = rows + 1
  /\ LeaveLock(h, "launch")
  /\ UNCHANGED <<live, gen, active>>

\* the working directory is refused: a new or woken window is rolled back
DirectoryRejected(h) ==
  /\ pc[h] = "launch" /\ loc[h].op = "followUp" /\ (loc[h].own # 0 \/ loc[h].woke)
  /\ WriteRow("failed", 0)
  /\ Goto(h, "undo") /\ Keep(h)
  /\ UNCHANGED <<prims, rows, live, gen, active, lock>>

-----------------------------------------------------------------------------
(* The window destroyed on request *)

\* retry names the task's window and kills the primary row's, if there is one
RetryBegin(h) ==
  /\ "retry" \in Ops /\ pc[h] = "idle"
  /\ row.status \in {"in_progress", "failed"} /\ row.window # 0
  /\ Goto(h, "queued")
  /\ loc' = [loc EXCEPT ![h] = [NoLoc EXCEPT !.op = "retry", !.seen = row.window,
                                !.name = IF Primary = NoRow THEN row.window ELSE Primary.window]]
  /\ UNCHANGED <<db, live, gen, active, lock>>

DeleteBegin(h) ==
  /\ "delete" \in Ops /\ pc[h] = "idle"
  /\ \E p \in prims :
       loc' = [loc EXCEPT ![h] = [NoLoc EXCEPT !.op = "delete", !.seen = p.window, !.name = p.window, !.target = p.id]]
  /\ Goto(h, "queued")
  /\ UNCHANGED <<db, live, gen, active, lock>>

DestroyEnter(h) ==
  /\ Enters(h, {"retry", "delete"})
  /\ Goto(h, "destroy") /\ Keep(h)
  /\ UNCHANGED <<db, live, gen, active>>

DestroyKill(h) ==
  /\ pc[h] = "destroy"
  /\ live' = [live EXCEPT ![loc[h].name] = 0]
  /\ Goto(h, "destroyed") /\ Keep(h)
  /\ UNCHANGED <<db, gen, active, lock>>

DestroyFails(h) ==
  /\ "killFails" \in Ops
  /\ pc[h] = "destroy" /\ Alive(loc[h].name)
  /\ Leave(h)
  /\ UNCHANGED <<db, live, gen, active>>

\* the row is cleared, and the token revoked, if the window is still the task's
Destroyed(h) ==
  /\ pc[h] = "destroyed"
  /\ ClearIfMatches(loc[h].seen)
  /\ active' = IF row.window = loc[h].seen THEN {} ELSE active
  /\ prims' = IF loc[h].op = "delete" THEN {p \in prims : p.id # loc[h].target} ELSE prims
  /\ IF loc[h].op = "retry" THEN LeaveLock(h, "reset") ELSE Leave(h)
  /\ UNCHANGED <<rows, live, gen>>

RetryReset(h) ==
  /\ pc[h] = "reset"
  /\ WriteRow("open", 0)
  /\ Leave(h)
  /\ UNCHANGED <<prims, rows, live, gen, active>>

-----------------------------------------------------------------------------
(* The whole session killed: the lock is taken for the tasks resolved *)

\* with no window of the task resolved, its lock is not waited for
SessionKillBegin(h) ==
  /\ "sessionKill" \in Ops /\ pc[h] = "idle"
  /\ loc' = [loc EXCEPT ![h] = [NoLoc EXCEPT !.op = "sessionKill", !.wins = {p.window : p \in prims}]]
  /\ Goto(h, IF prims = {} THEN "resolve" ELSE "queued")
  /\ UNCHANGED <<db, live, gen, active, lock>>

SessionKillEnter(h) ==
  /\ Enters(h, {"sessionKill"})
  /\ Goto(h, "resolve") /\ Keep(h)
  /\ UNCHANGED <<db, live, gen, active>>

\* faulty: what was resolved before the lock is what is destroyed
ResolveOnce(h) ==
  /\ pc[h] = "resolve"
  /\ Goto(h, "session") /\ Keep(h) /\ lock' = lock
  /\ UNCHANGED <<db, live, gen, active>>

\* resolved again: when the task has come or gone, the lock is taken anew
Resolve(h) ==
  /\ pc[h] = "resolve"
  /\ Let(h, "wins", {p.window : p \in prims})
  /\ IF (prims = {}) = (loc[h].wins = {})
     THEN Goto(h, "session") /\ lock' = lock
     ELSE Goto(h, IF prims = {} THEN "resolve" ELSE "queued") /\ Unlock(h)
  /\ UNCHANGED <<db, live, gen, active>>

\* five times at most in the code, any number of times here
GiveUp(h) ==
  /\ pc[h] = "resolve" /\ (prims = {}) # (loc[h].wins = {})
  /\ Leave(h)
  /\ UNCHANGED <<db, live, gen, active>>

\* every window of the session dies, recorded or not
SessionKill(h) ==
  /\ pc[h] = "session"
  /\ live' = [n \in Names |-> 0]
  /\ Goto(h, "killed") /\ Keep(h)
  /\ UNCHANGED <<db, gen, active, lock>>

SessionKillFails(h) ==
  /\ "killFails" \in Ops
  /\ pc[h] = "session"
  /\ Leave(h)
  /\ UNCHANGED <<db, live, gen, active>>

\* afterwards the route also removes rows it had not resolved, unless they
\* are younger than the kill
SessionKilled(h) ==
  /\ pc[h] = "killed"
  /\ row' = IF row.window \in loc[h].wins THEN [row EXCEPT !.window = 0] ELSE row
  /\ active' = IF row.window # 0 /\ row.window \in loc[h].wins THEN {} ELSE active
  /\ \E old \in SUBSET prims : prims' = {p \in prims \ old : p.window \notin loc[h].wins}
  /\ Leave(h)
  /\ UNCHANGED <<rows, live, gen>>

-----------------------------------------------------------------------------
(* Kills without the lock, the ends of a task, accidents *)

ArchiveBegin(h) ==
  /\ "archive" \in Ops /\ pc[h] = "idle" /\ row.status # "archived"
  /\ loc' = [loc EXCEPT ![h] = [NoLoc EXCEPT !.op = "archive", !.name = row.window]]
  /\ Goto(h, "close")
  /\ UNCHANGED <<db, live, gen, active, lock>>

\* a failed kill is logged only
ArchiveClose(h) ==
  /\ pc[h] = "close"
  /\ live' = [n \in Names |-> IF n = loc[h].name THEN 0 ELSE live[n]]
  /\ Goto(h, "archive") /\ Keep(h)
  /\ UNCHANGED <<db, gen, active, lock>>

ArchiveCloseFails(h) ==
  /\ "killFails" \in Ops
  /\ pc[h] = "close"
  /\ Goto(h, "archive") /\ Keep(h)
  /\ UNCHANGED <<db, live, gen, active, lock>>

Archived(h) ==
  /\ pc[h] = "archive"
  /\ prims' = {}
  /\ SetStatus("archived")
  /\ Leave(h)
  /\ UNCHANGED <<rows, live, gen>>

\* PUT /api/tasks/:id
PutStatus ==
  /\ "put" \in Ops
  /\ \E s \in Statuses : SetStatus(s)
  /\ UNCHANGED <<prims, rows, live, gen, lock, pc, loc>>

\* the window is killed, the row and the token are kept for the wake
SleepBegin(h) ==
  /\ "sleep" \in Ops /\ pc[h] = "idle"
  /\ \E p \in prims :
       /\ ~p.sleeping
       /\ loc' = [loc EXCEPT ![h] = [NoLoc EXCEPT !.op = "sleep", !.name = p.window, !.target = p.id]]
  /\ Goto(h, "sleep")
  /\ UNCHANGED <<db, live, gen, active, lock>>

SleepKill(h) ==
  /\ pc[h] = "sleep"
  /\ live' = [live EXCEPT ![loc[h].name] = 0]
  /\ Goto(h, "asleep") /\ Keep(h)
  /\ UNCHANGED <<db, gen, active, lock>>

SleepFails(h) ==
  /\ "killFails" \in Ops
  /\ pc[h] = "sleep" /\ Alive(loc[h].name)
  /\ Leave(h)
  /\ UNCHANGED <<db, live, gen, active>>

Slept(h) ==
  /\ pc[h] = "asleep"
  /\ prims' = {IF p.id = loc[h].target THEN [p EXCEPT !.sleeping = TRUE] ELSE p : p \in prims}
  /\ Leave(h)
  /\ UNCHANGED <<row, rows, live, gen, active>>

\* a window ends without the hub
Die ==
  /\ "die" \in Ops
  /\ \E n \in Names : live[n] # 0 /\ live' = [live EXCEPT ![n] = 0]
  /\ UNCHANGED <<db, gen, active, lock, pc, loc>>

\* the hub restarts: the database and the mux stay
Restart ==
  /\ "restart" \in Ops
  /\ \E h \in Handlers : pc[h] # "idle"
  /\ pc' = [h \in Handlers |-> "idle"] /\ loc' = [h \in Handlers |-> NoLoc] /\ lock' = None
  /\ UNCHANGED <<db, live, gen, active>>

-----------------------------------------------------------------------------

Rotate(h) ==
  \/ ExecuteBegin(h) \/ ExecuteEnter(h) \/ RestoreBegin(h) \/ RestoreEnter(h)
  \/ RespawnBegin(h) \/ RespawnEnter(h) \/ RespawnGone(h)
  \/ KillOld(h) \/ OldMissed(h) \/ KillOldFails(h) \/ Refuse(h) \/ ServerChanged(h) \/ IssueGeneration(h) \/ OutOfGenerations(h)
  \/ Create(h) \/ CreateFails(h) \/ ExecutePersist(h) \/ RespawnPersist(h) \/ SetupFails(h)
  \/ RestoreRegister(h) \/ RestorePersist(h)

Rollback(h) == Undo(h) \/ UndoFails(h) \/ Forget(h)

Run(h) ==
  \/ PrepareFails(h) \/ Complete(h) \/ Abandon(h) \/ Launched(h) \/ LaunchFails(h)
  \/ FollowUpBegin(h) \/ FollowUpEnter(h) \/ FollowUpWoken(h) \/ FollowUpReuse(h)
  \/ FollowUpNoWindow(h) \/ FollowUpPersist(h) \/ DirectoryRejected(h)

Destroy(h) ==
  \/ RetryBegin(h) \/ DeleteBegin(h) \/ DestroyEnter(h) \/ DestroyKill(h) \/ DestroyFails(h)
  \/ Destroyed(h) \/ RetryReset(h)
  \/ SessionKillBegin(h) \/ SessionKillEnter(h) \/ Resolve(h) \/ GiveUp(h) \/ SessionKill(h)
  \/ SessionKillFails(h) \/ SessionKilled(h)

Put(h) ==
  \/ ArchiveBegin(h) \/ ArchiveClose(h) \/ ArchiveCloseFails(h) \/ Archived(h)
  \/ SleepBegin(h) \/ SleepKill(h) \/ SleepFails(h) \/ Slept(h)

Next == (\E h \in Handlers : Rotate(h) \/ Rollback(h) \/ Run(h) \/ Destroy(h) \/ Put(h))
        \/ PutStatus \/ Die \/ Restart

Spec == Init /\ [][Next]_vars

-----------------------------------------------------------------------------

Pcs ==
  {"idle", "queued", "killOld", "issue", "create", "persist", "label", "undo", "undone", "prepare", "launch",
   "woken", "look", "destroy", "destroyed", "reset", "resolve", "session", "killed", "close", "archive",
   "sleep", "asleep"}

Local ==
  [op : AllOps \union {"none", "wake"}, seen : Names \union {0}, own : Gens \union {0},
   name : Names \union {0}, target : Nat, woke : BOOLEAN, missed : BOOLEAN, wins : SUBSET Names]

TypeOK ==
  /\ row \in [window : Names \union {0}, status : Statuses]
  /\ prims \subseteq [id : Nat, window : Names, sleeping : BOOLEAN]
  /\ rows \in Nat
  /\ live \in [Names -> Gens \union {0}]
  /\ gen \in 0 .. MaxGen /\ active \subseteq Gens
  /\ lock \in Handlers \union {None}
  /\ pc \in [Handlers -> Pcs]
  /\ loc \in [Handlers -> Local]

\* At any time at most one generation of the task's token is valid, and it is
\* the last one issued.
OneCredential == active \subseteq {gen}

\* The steps that only the holder of the lock takes.
Section == {"killOld", "issue", "create", "persist", "label", "woken", "look", "destroy", "destroyed"}

\* What the lock holder relies on: it is alone, the generation it has issued
\* is the newest, and the window it is about to record has a name.
SectionOK ==
  \A h \in Handlers :
    /\ pc[h] \in Section => lock = h
    /\ pc[h] \in {"create", "persist", "label"} => loc[h].own = gen
    /\ \/ pc[h] \in {"create", "persist", "label", "prepare"}
       \/ Respawns(h) /\ pc[h] \in {"killOld", "issue", "undo"}
       => loc[h].name \in Names
    /\ pc[h] = "look" => ~Respawns(h)

IInv == TypeOK /\ SectionOK

\* The rollback of an execution fails the task only while its own generation
\* is the newest: an execution that has taken over is not stopped.
StatusIsCurrent ==
  [][\A h \in Handlers :
       pc[h] = "prepare" /\ pc'[h] = "undo" /\ row'.status # row.status => loc[h].own = gen]_vars

\* A rollback revokes nothing but the generation its own call has issued.
RollbackRevokesItsOwn ==
  [][\A h \in Handlers : pc[h] = "undone" /\ pc'[h] = "idle" => active \ active' \subseteq {loc[h].own}]_vars

\* The kill of a whole session leaves no valid token when it has waited for
\* the task's lock, also when the window was replaced while it waited.
SessionKillRevokes ==
  [][\A h \in Handlers : pc[h] = "killed" /\ pc'[h] = "idle" /\ lock = h => active' = {}]_vars

\* Nobody outside the lock reads a task without a window and with a valid
\* token.
NullHasNoToken == lock = None /\ row.window = 0 => active = {}

\* A generation is issued while the window that the task names is alive only
\* if the list did not show it: a kill that fails stops the rotation, and the
\* pane that lives keeps its token.
RotatesWhenGone ==
  [][\A h \in Handlers :
       pc[h] = "issue" /\ pc'[h] = "create" => ~Alive(row.window) \/ loc[h].missed]_vars
=============================================================================
