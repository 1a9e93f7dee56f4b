--------------------------- MODULE SupervisorLink ---------------------------
(***************************************************************************)
(* The link between the hub and the supervisors of one pane: the launches  *)
(* the hub issues for the pane's target (supervisor_launches), the one     *)
(* connection it keeps for it (SupervisorRegistry), the client in each     *)
(* supervisor process (HubClient) and one prompt sent through it           *)
(* (WorkerInputService).                                                   *)
(*                                                                         *)
(* Process l > 0 was started with launch l and its bootstrap token,        *)
(* process Manual by hand without one.  A token is right or absent: a      *)
(* client holds a session token from the moment it reads it, and never     *)
(* goes back to the bootstrap.  A process has one socket at a time, a pair *)
(* of queues whose two ends may see it close at different times: what was  *)
(* sent is lost or read before its client connects again (a second later   *)
(* at least), and a socket it has left matters only while the hub still    *)
(* takes it for the connection.                                            *)
(***************************************************************************)
EXTENDS Naturals, Sequences, SequencesExt, FiniteSets, FiniteSetsExt

CONSTANTS
  MaxLaunch,   \* bound: launches issued for the target
  MaxFault,    \* bound: losses of a connection and restarts of the hub
  MaxPrompt,   \* bound: prompts (none or one)
  MaxQueue,    \* bound: frames a client has under way when it reports activity
  ByHand,      \* a supervisor can be started by hand
  ScopedAuth,  \* AZITO_SCOPED_AUTH: a connection without a launch has no authority
  None

ASSUME LinkAssumption ==
  /\ MaxLaunch \in Nat /\ MaxFault \in Nat /\ MaxQueue \in Nat /\ MaxPrompt \in {0, 1}
  /\ ScopedAuth \in BOOLEAN /\ ByHand \in BOOLEAN
  /\ None \notin [proc : Nat, launch : Nat, bound : BOOLEAN, left : BOOLEAN]

Manual == 0
Launches == 1..MaxLaunch
Procs == Launches \union (IF ByHand THEN {Manual} ELSE {})

VARIABLES
  row,       \* the launches issued, oldest first
  conn,      \* the registry's connection for the target, or None
  tier0,     \* the activity monitor has a supervisor's verdict for the target
  exited,    \* the exit marker of the target
  resolved,  \* the launch a window's destruction is about to expire, or 0
  proc,      \* the supervisor processes
  sock,      \* the socket of each process
  cmd,       \* the prompt
  typed,     \* how often its text was written to the worker of each process
  submitted, \* how often an Enter submitted it
  faults

hub == <<conn, tier0, exited>>
wrote == <<typed, submitted>>
prompt == <<cmd, wrote>>
vars == <<row, hub, resolved, proc, sock, prompt, faults>>

Credentials == {"bootstrap", "session", "manual"}
Frames == Credentials \union
  {"activity", "child_exit", "register_ack", "ack", "nack", "registered", "issued", "inject"}

-----------------------------------------------------------------------------
(* The launches *)

Outstanding(l) == l \in DOMAIN row /\ row[l].status \in {"pending", "active"}

\* SELECT ... status IN ('pending', 'active') ORDER BY id DESC LIMIT 1
Current == Max({0} \union {l \in DOMAIN row : Outstanding(l)})

NewRow == [status |-> "pending", minted |-> FALSE, fresh |-> TRUE]
\* tokens and age are of no account once a launch is neither pending nor active
SetStatus(l, s) == row' = [row EXCEPT ![l] = [status |-> s, minted |-> s = "active", fresh |-> FALSE]]

\* faulty: the launches before the new one stay valid
AddLaunch == row' = Append(row, NewRow)

Supersede ==
  row' = Append([l \in DOMAIN row |->
                   IF Outstanding(l) THEN [status |-> "replaced", minted |-> FALSE, fresh |-> FALSE] ELSE row[l]], NewRow)

VerifySession(l) == Outstanding(l) /\ row[l].minted
VerifyBootstrap(l) == l \in DOMAIN row /\ row[l].status = "pending" /\ row[l].fresh

\* faulty: the bootstrap token is consumed when the session token is made
ConsumeBootstrap(l) == row' = [row EXCEPT ![l].minted = TRUE, ![l].status = "active"]

ActivateWithSession(l) == row' = [row EXCEPT ![l].minted = TRUE]
TouchRegistered(l) == SetStatus(l, "active")

-----------------------------------------------------------------------------
(* Sockets *)

Closed == [client |-> FALSE, hub |-> "closed", up |-> <<>>, down |-> <<>>]
IsConn(p) == conn # None /\ conn.proc = p /\ ~conn.left

\* frames a client writes
Write(so, p, frames) ==
  IF so[p].client /\ so[p].hub = "open" THEN [so EXCEPT ![p].up = @ \o frames] ELSE so

HubEnd(so, p) == [so EXCEPT ![p] = IF @.client THEN [@ EXCEPT !.hub = "closed", !.up = <<>>] ELSE Closed]
ClientEnd(so, p) ==
  [so EXCEPT ![p] = IF @.hub = "closed" THEN Closed ELSE [@ EXCEPT !.client = FALSE, !.down = <<>>]]
CloseConn(so) == IF conn = None THEN so ELSE IF conn.left THEN so ELSE HubEnd(so, conn.proc)

\* faulty: they are rejected as not sent
RejectAsNotSent == IF cmd = "waiting" THEN "fallback" ELSE cmd

\* every command that waits for an ack of the connection is rejected as written:
\* its sender takes it as delivered
RejectPending == IF cmd = "waiting" THEN "done" ELSE cmd

-----------------------------------------------------------------------------
(* The hub issues and expires launches *)

\* faulty: the monitor is not told
DowngradeSilently ==
  IF conn # None /\ conn.bound
  THEN conn' = [conn EXCEPT !.bound = FALSE, !.launch = 0] /\ tier0' = tier0
  ELSE UNCHANGED <<conn, tier0>>

DowngradeToUnbound ==
  IF conn # None /\ conn.bound
  THEN conn' = [conn EXCEPT !.bound = FALSE, !.launch = 0] /\ tier0' = FALSE
  ELSE UNCHANGED <<conn, tier0>>

IssueLaunch ==
  /\ Len(row) < MaxLaunch
  /\ Supersede
  /\ DowngradeToUnbound
  /\ UNCHANGED <<exited, resolved, proc, sock, prompt, faults>>

\* before a launch is typed into the pane
ClearExitMarker ==
  /\ exited /\ exited' = FALSE
  /\ UNCHANGED <<row, conn, tier0, resolved, proc, sock, prompt, faults>>

\* a bootstrap token older than PENDING_BOOTSTRAP_TTL_MS
TimeToLivePasses(l) ==
  /\ row[l].status = "pending" /\ row[l].fresh
  /\ row' = [row EXCEPT ![l].fresh = FALSE]
  /\ UNCHANGED <<hub, resolved, proc, sock, prompt, faults>>

\* before a window is killed and after
ResolveLaunchForExpiry ==
  /\ resolved = 0 /\ Current # 0
  /\ resolved' = Current
  /\ UNCHANGED <<row, hub, proc, sock, prompt, faults>>

\* faulty: looked up again when the window is gone
ExpireCurrent == IF Current # 0 THEN SetStatus(Current, "expired") ELSE row' = row

ExpireResolved == SetStatus(resolved, "expired")

ExpireResolvedLaunch ==
  /\ resolved # 0
  /\ ExpireResolved
  /\ resolved' = 0
  /\ UNCHANGED <<hub, proc, sock, prompt, faults>>

-----------------------------------------------------------------------------
(* The hub reads a register *)

Authenticated(l, cred) ==
  CASE cred = "manual" -> TRUE
    [] cred = "session" -> VerifySession(l)
    [] cred = "bootstrap" -> ~(conn # None /\ conn.launch = l) /\ VerifyBootstrap(l)

\* faulty: anyone who connects takes over
RetainedNever(cred) == FALSE

\* a bound connection of a launch is left only for one that has authenticated
\* another launch
Retained(cred) == conn # None /\ conn.bound /\ conn.launch # 0 /\ cred = "manual"

\* faulty: the connection that is there is closed
RefuseConnection(p) == IF conn = None THEN HubEnd(sock, p) ELSE CloseConn(sock)

Refuse(p) == HubEnd(sock, p)

AcceptRegister(p, cred) ==
  /\ Authenticated(p, cred) /\ ~Retained(cred)
  /\ CASE cred = "session" -> TouchRegistered(p)
       [] cred = "bootstrap" -> ActivateWithSession(p)
       [] OTHER -> row' = row
  /\ conn' = [proc |-> p, launch |-> p, bound |-> cred # "manual" \/ ~ScopedAuth, left |-> FALSE]
  /\ exited' = FALSE /\ tier0' = tier0
  /\ cmd' = RejectPending
  /\ sock' = [CloseConn(sock) EXCEPT
                ![p].up = Tail(@), ![p].down = Append(@, IF cred = "bootstrap" THEN "issued" ELSE "registered")]
  /\ UNCHANGED <<resolved, proc, wrote, faults>>

\* the socket is closed, the connection that was there stays
RejectRegister(p, cred) ==
  /\ ~Authenticated(p, cred) \/ Retained(cred)
  /\ sock' = Refuse(p)
  /\ UNCHANGED <<row, hub, resolved, proc, prompt, faults>>

Register(p) ==
  /\ sock[p].hub = "open" /\ sock[p].up # <<>> /\ Head(sock[p].up) \in Credentials
  /\ \/ AcceptRegister(p, Head(sock[p].up))
     \/ RejectRegister(p, Head(sock[p].up))

-----------------------------------------------------------------------------
(* The hub reads a frame of the connection; other sockets are ignored *)

Reads(p, frame) ==
  /\ sock[p].hub = "open" /\ sock[p].up # <<>> /\ Head(sock[p].up) = frame
  /\ sock' = [sock EXCEPT ![p].up = Tail(@)]
  /\ UNCHANGED <<resolved, proc, wrote, faults>>

Ignored(p) ==
  /\ ~IsConn(p)
  /\ \E frame \in Frames \ Credentials : Reads(p, frame)
  /\ UNCHANGED <<row, hub, cmd>>

\* only a bound connection has a say
Activity(p) ==
  /\ IsConn(p) /\ Reads(p, "activity")
  /\ tier0' = (tier0 \/ conn.bound)
  /\ UNCHANGED <<row, conn, exited, cmd>>

\* the launch is over: its tokens expire and the connection is forgotten
ChildExitRead(p) ==
  /\ IsConn(p) /\ Reads(p, "child_exit")
  /\ exited' = TRUE /\ tier0' = FALSE /\ conn' = None
  /\ cmd' = RejectPending
  /\ IF conn.launch # 0 THEN SetStatus(conn.launch, "expired") ELSE row' = row

RegisterAck(p) ==
  /\ IsConn(p) /\ Reads(p, "register_ack")
  /\ IF conn.launch # 0 /\ VerifySession(conn.launch) THEN TouchRegistered(conn.launch) ELSE row' = row
  /\ UNCHANGED <<hub, cmd>>

\* an ack that nobody waits for is dropped
Ack(p) ==
  /\ IsConn(p) /\ Reads(p, "ack")
  /\ cmd' = IF cmd = "waiting" THEN "done" ELSE cmd
  /\ UNCHANGED <<row, hub>>

\* the client has not applied the command: it is sent as keys
Nack(p) ==
  /\ IsConn(p) /\ Reads(p, "nack")
  /\ cmd' = IF cmd = "waiting" THEN "fallback" ELSE cmd
  /\ UNCHANGED <<row, hub>>

HubReads(p) ==
  \/ Register(p) \/ Ignored(p) \/ Activity(p) \/ ChildExitRead(p) \/ RegisterAck(p) \/ Ack(p) \/ Nack(p)

-----------------------------------------------------------------------------
(* The hub loses a socket *)

\* an error: what is under way is lost, and the close event comes later
HubLoses(p) ==
  /\ faults < MaxFault /\ faults' = faults + 1
  /\ sock[p].client /\ sock[p].hub = "open"
  /\ sock' = [sock EXCEPT ![p].hub = "closing", ![p].up = <<>>, ![p].down = <<>>]
  /\ UNCHANGED <<row, hub, resolved, proc, prompt>>

\* also when the client is gone, at the latest after two pings without an answer
SocketClosed(p) ==
  /\ sock[p].hub = "closing" \/ (sock[p].hub = "open" /\ ~sock[p].client)
  /\ sock' = HubEnd(sock, p)
  /\ IF IsConn(p) THEN conn' = None /\ tier0' = FALSE /\ cmd' = RejectPending
                  ELSE UNCHANGED <<conn, tier0, cmd>>
  /\ UNCHANGED <<row, exited, resolved, proc, wrote, faults>>

LeftClosed ==
  /\ conn # None /\ conn.left
  /\ conn' = None /\ tier0' = FALSE /\ cmd' = RejectPending
  /\ UNCHANGED <<row, exited, resolved, proc, sock, wrote, faults>>

\* the table of launches is all that survives
HubRestart ==
  /\ faults < MaxFault /\ faults' = faults + 1
  /\ conn' = None /\ tier0' = FALSE /\ exited' = FALSE /\ resolved' = 0
  /\ sock' = [p \in Procs |-> [Closed EXCEPT !.client = sock[p].client]]
  /\ cmd' = IF cmd = "new" THEN "new" ELSE "done"
  /\ UNCHANGED <<row, proc, wrote>>

-----------------------------------------------------------------------------
(* A supervisor process and its client *)

\* a process outlives its worker
Running == {"up", "dead", "exiting"}
Over == {"dead", "exiting", "gone"}

NoProcess == [state |-> "none", token |-> FALSE, registered |-> FALSE, held |-> FALSE, inject |-> "no"]

\* the line that was typed into the pane is executed, or never
Start(p) ==
  /\ proc[p].state = "none" /\ (p = Manual \/ p \in DOMAIN row)
  /\ proc' = [proc EXCEPT ![p].state = "up"]
  /\ UNCHANGED <<row, hub, resolved, sock, prompt, faults>>

Credential(p) == IF p = Manual THEN "manual" ELSE IF proc[p].token THEN "session" ELSE "bootstrap"

Connect(p) ==
  /\ proc[p].state \in Running /\ ~sock[p].client
  /\ sock' = [sock EXCEPT ![p] = [client |-> TRUE, hub |-> "open", up |-> <<Credential(p)>>, down |-> <<>>]]
  /\ conn' = IF IsConn(p) THEN [conn EXCEPT !.left = TRUE] ELSE conn
  /\ UNCHANGED <<row, tier0, exited, resolved, proc, prompt, faults>>

Receives(p, frames) ==
  /\ sock[p].client /\ sock[p].down # <<>> /\ Head(sock[p].down) \in frames
  /\ UNCHANGED <<row, hub, resolved, prompt, faults>>

\* confirms a new session token at once, reports the exit that was held back
\* and the present activity
Registered(p) ==
  /\ Receives(p, {"registered", "issued"})
  /\ LET issued == Head(sock[p].down) = "issued"
     IN /\ proc' = [proc EXCEPT ![p].registered = TRUE, ![p].held = FALSE, ![p].token = @ \/ issued]
        /\ sock' = Write([sock EXCEPT ![p].down = Tail(@)], p,
             (IF issued THEN <<"register_ack">> ELSE <<>>)
             \o (IF proc[p].held THEN <<"child_exit">> ELSE <<>>) \o <<"activity">>)

\* waits for the worker to have booted before it writes
Injected(p) ==
  /\ Receives(p, {"inject"})
  /\ proc' = [proc EXCEPT ![p].inject = "ready"]
  /\ sock' = [sock EXCEPT ![p].down = Tail(@)]

\* the ack goes out on the socket of the moment
Answers(p, frame) ==
  /\ proc' = [proc EXCEPT ![p].inject = "no"]
  /\ sock' = Write(sock, p, <<frame>>)

\* the text is pasted; a write to a worker that is gone is lost, or throws
Paste(p) ==
  /\ proc[p].inject = "ready" /\ proc[p].state \in Running
  /\ \/ proc' = [proc EXCEPT ![p].inject = "pasted"] /\ sock' = sock
     \/ proc[p].state # "up" /\ Answers(p, "nack")
  /\ typed' = IF proc[p].state = "up" THEN [typed EXCEPT ![p] = @ + 1] ELSE typed
  /\ UNCHANGED <<row, hub, resolved, cmd, submitted, faults>>

\* after a delay, in which the worker can end: the text is written then and the
\* command is refused
Enter(p) ==
  /\ proc[p].inject = "pasted" /\ proc[p].state \in Running
  /\ Answers(p, "ack") \/ (proc[p].state # "up" /\ Answers(p, "nack"))
  /\ submitted' = IF proc[p].state = "up" THEN submitted + 1 ELSE submitted
  /\ UNCHANGED <<row, hub, resolved, cmd, typed, faults>>

SendActivity(p) ==
  /\ proc[p].registered /\ Len(sock[p].up) < MaxQueue
  /\ sock' = Write(sock, p, <<"activity">>)
  /\ UNCHANGED <<row, hub, resolved, proc, prompt, faults>>

WorkerExits(p) ==
  /\ proc[p].state = "up"
  /\ proc' = [proc EXCEPT ![p].state = "dead"]
  /\ UNCHANGED <<row, hub, resolved, sock, prompt, faults>>

\* held back while not connected
SendChildExit(p) ==
  /\ proc[p].state = "dead"
  /\ proc' = [proc EXCEPT ![p].state = "exiting", ![p].held = ~proc[p].registered]
  /\ sock' = IF proc[p].registered THEN Write(sock, p, <<"child_exit">>) ELSE sock
  /\ UNCHANGED <<row, hub, resolved, prompt, faults>>

\* 150 ms after its worker, or at once when it is killed itself
ProcessEnds(p) ==
  /\ proc[p].state \in Running
  /\ proc' = [proc EXCEPT ![p] = [NoProcess EXCEPT !.state = "gone"]]
  /\ sock' = ClientEnd(sock, p)
  /\ UNCHANGED <<row, hub, resolved, prompt, faults>>

Disconnected(p) ==
  /\ sock[p].client
  /\ sock' = ClientEnd(sock, p)
  /\ proc' = [proc EXCEPT ![p].registered = FALSE]
  /\ UNCHANGED <<row, hub, resolved, prompt>>

\* the hub has closed it and what it sent before has been read
ClientSees(p) == sock[p].hub # "open" /\ sock[p].down = <<>> /\ Disconnected(p) /\ UNCHANGED faults

ClientLoses(p) == sock[p].hub = "open" /\ faults < MaxFault /\ faults' = faults + 1 /\ Disconnected(p)

-----------------------------------------------------------------------------
(* A prompt for the worker of the pane *)

\* through a bound supervisor, as keys without one or when its socket is closing
SendPrompt ==
  /\ cmd = "new" /\ MaxPrompt > 0
  /\ IF conn = None THEN cmd' = "fallback" /\ sock' = sock
     ELSE \E open \in IF conn.left THEN BOOLEAN ELSE {sock[conn.proc].hub = "open"} :
            IF conn.bound /\ open
            THEN cmd' = "waiting" /\ sock' = IF conn.left THEN sock ELSE [sock EXCEPT ![conn.proc].down = Append(@, "inject")]
            ELSE cmd' = "fallback" /\ sock' = sock
  /\ UNCHANGED <<row, hub, resolved, proc, wrote, faults>>

\* the outcome is unknown: taken as delivered
AckTimeout ==
  /\ cmd = "waiting" /\ cmd' = "done"
  /\ UNCHANGED <<row, hub, resolved, proc, sock, wrote, faults>>

\* refused when the pane shows a bare shell
TypeText ==
  /\ cmd = "fallback"
  /\ \/ \E p \in Procs :
          /\ proc[p].state = "up"
          /\ typed' = [typed EXCEPT ![p] = @ + 1]
          /\ cmd' = "typed"
     \/ (\A p \in Procs : proc[p].state # "up") /\ typed' = typed /\ cmd' = "done"
  /\ UNCHANGED <<row, hub, resolved, proc, sock, submitted, faults>>

\* a command of its own: it submits if it finds the text in a worker's input
TypeEnter ==
  /\ cmd = "typed" /\ cmd' = "done"
  /\ \E p \in Procs : submitted' = IF proc[p].state = "up" /\ typed[p] > 0 THEN submitted + 1 ELSE submitted
  /\ UNCHANGED <<row, hub, resolved, proc, sock, typed, faults>>

-----------------------------------------------------------------------------
Init ==
  /\ row = <<>> /\ conn = None /\ tier0 = FALSE /\ exited = FALSE /\ resolved = 0
  /\ proc = [p \in Procs |-> NoProcess]
  /\ sock = [p \in Procs |-> Closed]
  /\ cmd = "new" /\ typed = [p \in Procs |-> 0] /\ submitted = 0 /\ faults = 0

HubActs ==
  \/ IssueLaunch \/ ClearExitMarker \/ ResolveLaunchForExpiry \/ ExpireResolvedLaunch \/ HubRestart
  \/ \E l \in DOMAIN row : TimeToLivePasses(l)
  \/ LeftClosed
  \/ \E p \in Procs : HubReads(p) \/ HubLoses(p) \/ SocketClosed(p)

ProcessActs == \E p \in Procs :
  \/ Start(p) \/ Connect(p) \/ ClientSees(p) \/ ClientLoses(p) \/ Registered(p)
  \/ Injected(p) \/ Paste(p) \/ Enter(p) \/ SendActivity(p) \/ WorkerExits(p) \/ SendChildExit(p) \/ ProcessEnds(p)

Next == HubActs \/ ProcessActs \/ SendPrompt \/ AckTimeout \/ TypeText \/ TypeEnter

Spec == Init /\ [][Next]_vars

\* the event loops of both sides run, a client always connects again, the hub
\* pings every 15 s
Fairness ==
  /\ WF_vars(LeftClosed)
  /\ \A p \in Procs :
       /\ WF_vars(Connect(p)) /\ WF_vars(ClientSees(p)) /\ WF_vars(Registered(p) \/ Injected(p))
       /\ WF_vars(HubReads(p)) /\ WF_vars(SocketClosed(p))

FairSpec == Spec /\ Fairness

-----------------------------------------------------------------------------
(* Properties *)

LaunchRows == [status : {"pending", "active", "replaced", "expired"}, minted : BOOLEAN, fresh : BOOLEAN]
Processes == [state : {"none", "gone"} \union Running, token : BOOLEAN, registered : BOOLEAN,
              held : BOOLEAN, inject : {"no", "ready", "pasted"}]
Sockets == [client : BOOLEAN, hub : {"open", "closing", "closed"}, up : Seq(Frames), down : Seq(Frames)]

TypeOK ==
  /\ row \in Seq(LaunchRows)
  /\ Len(row) <= MaxLaunch
  /\ conn \in [proc : Procs, launch : 0..MaxLaunch, bound : BOOLEAN, left : BOOLEAN] \union {None}
  /\ tier0 \in BOOLEAN /\ exited \in BOOLEAN /\ resolved \in 0..MaxLaunch
  /\ proc \in [Procs -> Processes]
  /\ sock \in [Procs -> Sockets]
  /\ \A p \in Procs : IsConn(p) => sock[p].hub # "closed"
  /\ cmd \in {"new", "waiting", "fallback", "typed", "done"} /\ typed \in [Procs -> Nat] /\ submitted \in Nat
  /\ faults \in 0..MaxFault

\* The activity monitor keeps a supervisor's verdict only while a connection
\* has the authority to refresh it, and the exit marker only while nobody has
\* registered.
MonitorAgrees ==
  /\ tier0 => conn # None /\ conn.bound
  /\ exited => conn = None

\* The newest launch is the only one whose tokens the hub accepts, and the only
\* one a bound connection can act for.
OnlyNewestLaunch ==
  /\ \A l \in DOMAIN row : Outstanding(l) => l = Len(row)
  /\ conn # None /\ conn.launch # 0 => conn.bound /\ conn.launch = Len(row)

\* A supervisor registers first on each socket, and one without a launch as
\* such: the hub never reads a register on the connection it keeps.
RegistersFirst ==
  \A p \in Procs : \A i \in DOMAIN sock[p].up :
    sock[p].up[i] \in Credentials
      => i = 1 /\ ~IsConn(p) /\ (sock[p].up[i] = "manual" <=> p = Manual)

\* With scoped authentication nothing is bound without a launch.
BoundHasLaunch == ScopedAuth /\ conn # None /\ conn.bound => conn.launch # 0

\* What every step preserves.
IInv == TypeOK /\ MonitorAgrees /\ OnlyNewestLaunch /\ RegistersFirst /\ BoundHasLaunch

\* A prompt is submitted to the workers of the pane at most once, and no worker
\* is given its text twice, whatever is lost between the paste, its Enter, the
\* ack and the keys that follow a refusal.
SubmittedOnce == submitted <= 1 /\ \A p \in Procs : typed[p] <= 1

\* The destruction of a window expires no launch issued after it began.
ExpiresItsOwn ==
  [][resolved # 0 /\ resolved' = 0 /\ faults' = faults
       => \A l \in DOMAIN row : row'[l] # row[l] => l = resolved]_vars

\* A supervisor started by hand never takes the place of a launched one.
ByHandTakesNoPlace ==
  [][conn # None /\ conn.launch # 0 /\ conn' # None /\ conn'.proc # conn.proc => conn'.launch # 0]_vars

\* What the table and the registry make of the launches: the link keeps the promise.
life == [l \in Launches |->
           IF l \notin DOMAIN row THEN "unissued" ELSE IF Outstanding(l) THEN "open" ELSE "over"]
holder == IF conn = None THEN 0 ELSE conn.launch

\* Authority over the pane goes from launch to launch as LaunchPromise says,
\* whatever older rows, tokens, sockets and processes are still about.
Promise == INSTANCE LaunchPromise
AuthoritySpec == Promise!Spec

\* A supervisor with the newest launch gets its connection, whatever was lost
\* on the way, unless the launch ends or its bootstrap token grows too old
\* before the supervisor has read its session token.
LaunchBinds ==
  \A l \in Launches :
    proc[l].state = "up" /\ Outstanding(l)
      ~> \/ conn # None /\ conn.launch = l
         \/ proc[l].state # "up" \/ ~Outstanding(l) \/ (~row[l].fresh /\ ~proc[l].token)
=============================================================================
