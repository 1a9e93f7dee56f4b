----------------------- MODULE SupervisorPromptProofs -----------------------
(***************************************************************************)
(* A prompt is submitted to the workers of a pane at most once, and no     *)
(* worker is given its text twice, proved for every number of launches,    *)
(* losses and frames.  The argument follows the command: it is in the      *)
(* queue of one socket or with one client.  While it is there nothing has  *)
(* been submitted and nobody has refused it, and what has been written is  *)
(* the text of the paste under way.  A refusal comes from a client whose   *)
(* worker has ended, so a text it has written is read by nobody when the   *)
(* keys follow.                                                            *)
(***************************************************************************)
EXTENDS SupervisorLinkProofs

Holds(s, f) == \E i \in DOMAIN s : s[i] = f
Single(s) == \A i, j \in DOMAIN s : s[i] = "inject" /\ s[j] = "inject" => i = j

Under(p) == Holds(sock[p].down, "inject")
Carried(p) == Under(p) \/ proc[p].inject # "no"
Refused(p) == Holds(sock[p].up, "nack")

InOnePlace ==
  /\ \A p \in Procs : Single(sock[p].down) /\ ~(Under(p) /\ proc[p].inject # "no")
  /\ \A p, q \in Procs : Carried(p) /\ Carried(q) => p = q

\* What process p has written of a command it carries.
Pasted(p) == IF proc[p].inject = "pasted" THEN {0, 1} ELSE {0}

\* What was written was written to workers that have ended.
Spent == \A q \in Procs : typed[q] = 0 \/ proc[q].state \in Over

\* The command is in one place at most.  Where it is, only its paste has been
\* written and no client has refused it; a refusal that is waited for, and the
\* keys that follow it, find nothing submitted and no worker with the text.
Once ==
  /\ InOnePlace
  /\ \A p \in Procs : Carried(p) =>
       /\ submitted = 0 /\ cmd \in {"waiting", "done"}
       /\ typed[p] \in Pasted(p) /\ \A q \in Procs \ {p} : typed[q] = 0
       /\ \A q \in Procs : ~Refused(q)
  /\ \A p \in Procs : Refused(p) => cmd # "new" /\ (cmd = "waiting" => submitted = 0 /\ Spent)
  /\ cmd \in {"new", "fallback"} => submitted = 0 /\ Spent
  /\ cmd = "new" => \A q \in Procs : typed[q] = 0
  /\ cmd = "typed" => submitted = 0
  /\ submitted \in {0, 1} /\ \A q \in Procs : typed[q] \in {0, 1}

-----------------------------------------------------------------------------
(* Queues *)

LEMMA TailHolds ==
  ASSUME NEW s \in Seq(Frames), s # <<>>
  PROVE  /\ \A f : Holds(Tail(s), f) => Holds(s, f)
         /\ Single(s) => Single(Tail(s))
         /\ Single(s) /\ Head(s) = "inject" => Holds(s, "inject") /\ ~Holds(Tail(s), "inject")
         /\ Holds(s, Head(s))
<1>1. /\ DOMAIN s = 1..Len(s) /\ Len(s) \in Nat /\ 1 \in DOMAIN s /\ s[1] = Head(s)
      /\ \A i \in DOMAIN Tail(s) : i \in Nat /\ i + 1 \in DOMAIN s /\ i + 1 # 1 /\ Tail(s)[i] = s[i + 1]
  OBVIOUS
<1>2. \A f : Holds(Tail(s), f) => Holds(s, f)
  BY <1>1 DEF Holds
<1>3. Single(s) => Single(Tail(s))
  <2> SUFFICES ASSUME Single(s), NEW i \in DOMAIN Tail(s), NEW j \in DOMAIN Tail(s),
                      Tail(s)[i] = "inject", Tail(s)[j] = "inject"
               PROVE  i = j
    BY DEF Single
  <2>1. i + 1 = j + 1
    BY <1>1 DEF Single
  <2> QED  BY <1>1, <2>1
<1>4. ASSUME Single(s), Head(s) = "inject" PROVE Holds(s, "inject") /\ ~Holds(Tail(s), "inject")
  BY <1>1, <1>4 DEF Single, Holds
<1> QED  BY <1>1, <1>2, <1>3, <1>4 DEF Holds

LEMMA AppendHolds ==
  ASSUME NEW s \in Seq(Frames), NEW e \in Frames
  PROVE  /\ \A f : Holds(Append(s, e), f) => Holds(s, f) \/ f = e
         /\ Single(s) /\ (e # "inject" \/ ~Holds(s, "inject")) => Single(Append(s, e))
<1>1. /\ DOMAIN s = 1..Len(s) /\ Len(s) \in Nat
      /\ \A i \in DOMAIN Append(s, e) : \/ i \in DOMAIN s /\ Append(s, e)[i] = s[i]
                                        \/ i = Len(s) + 1 /\ Append(s, e)[i] = e
  OBVIOUS
<1>2. \A f : Holds(Append(s, e), f) => Holds(s, f) \/ f = e
  BY <1>1 DEF Holds
<1>3. ASSUME Single(s), e # "inject" \/ ~Holds(s, "inject") PROVE Single(Append(s, e))
  <2> SUFFICES ASSUME NEW i \in DOMAIN Append(s, e), NEW j \in DOMAIN Append(s, e),
                      Append(s, e)[i] = "inject", Append(s, e)[j] = "inject"
               PROVE  i = j
    BY DEF Single
  <2>1. CASE e # "inject"
    BY <1>1, <1>3, <2>1 DEF Single
  <2>2. CASE ~Holds(s, "inject")
    BY <1>1, <2>2 DEF Holds
  <2> QED  BY <1>3, <2>1, <2>2
<1> QED  BY <1>2, <1>3

LEMMA ConcatHolds ==
  ASSUME NEW s \in Seq(Frames), NEW t \in Seq(Frames), NEW f
  PROVE  Holds(s \o t, f) => Holds(s, f) \/ Holds(t, f)
<1>1. \A i \in DOMAIN (s \o t) : \/ i \in DOMAIN s /\ (s \o t)[i] = s[i]
                                 \/ i - Len(s) \in DOMAIN t /\ (s \o t)[i] = t[i - Len(s)]
  OBVIOUS
<1> QED  BY <1>1 DEF Holds

LEMMA EmptyHolds == Single(<<>>) /\ \A f : ~Holds(<<>>, f)
BY DEF Single, Holds

-----------------------------------------------------------------------------
(* Sockets on which neither a prompt nor a refusal is added *)

Thins(new, old) ==
  \A p \in Procs :
    /\ Holds(new[p].down, "inject") => Holds(old[p].down, "inject")
    /\ Single(old[p].down) => Single(new[p].down)
    /\ Holds(new[p].up, "nack") => Holds(old[p].up, "nack")

LEMMA HubEndThins ==
  ASSUME NEW so \in [Procs -> Sockets], NEW p \in Procs
  PROVE  Thins(HubEnd(so, p), so)
<1>1. so[p] \in Sockets
  OBVIOUS
<1>2. [so[p] EXCEPT !.hub = "closed", !.up = <<>>].down = so[p].down
      /\ [so[p] EXCEPT !.hub = "closed", !.up = <<>>].up = <<>>
  BY <1>1 DEF Sockets
<1>3. Closed.down = <<>> /\ Closed.up = <<>>
  BY DEF Closed
<1>4. /\ HubEnd(so, p)[p].down \in {so[p].down, <<>>} /\ HubEnd(so, p)[p].up = <<>>
      /\ \A q \in Procs \ {p} : HubEnd(so, p)[q] = so[q]
  BY <1>2, <1>3 DEF HubEnd
<1> QED  BY <1>4, EmptyHolds DEF Thins

LEMMA ClientEndThins ==
  ASSUME NEW so \in [Procs -> Sockets], NEW p \in Procs
  PROVE  Thins(ClientEnd(so, p), so)
<1>1. so[p] \in Sockets
  OBVIOUS
<1>2. [so[p] EXCEPT !.client = FALSE, !.down = <<>>].down = <<>>
      /\ [so[p] EXCEPT !.client = FALSE, !.down = <<>>].up = so[p].up
  BY <1>1 DEF Sockets
<1>3. Closed.down = <<>> /\ Closed.up = <<>>
  BY DEF Closed
<1>4. /\ ClientEnd(so, p)[p].up \in {so[p].up, <<>>} /\ ClientEnd(so, p)[p].down = <<>>
      /\ \A q \in Procs \ {p} : ClientEnd(so, p)[q] = so[q]
  BY <1>2, <1>3 DEF ClientEnd
<1> QED  BY <1>4, EmptyHolds DEF Thins

LEMMA CloseConnThins == ASSUME IInv PROVE Thins(CloseConn(sock), sock)
<1>1. CASE conn = None \/ (conn # None /\ conn.left)
  BY <1>1 DEF CloseConn, Thins
<1>2. CASE conn # None /\ ~conn.left
  <2>1. conn.proc \in Procs /\ sock \in [Procs -> Sockets]
    BY <1>2, Parts DEF Link, Connections, Queues
  <2> QED  BY <1>2, <2>1, HubEndThins DEF CloseConn
<1> QED  BY <1>1, <1>2

\* A frame is taken off what the hub has to read.
LEMMA ReadsThins ==
  ASSUME NEW so \in [Procs -> Sockets], NEW p \in Procs, so[p].up # <<>>
  PROVE  /\ Thins([so EXCEPT ![p].up = Tail(@)], so)
         /\ Holds(so[p].up, Head(so[p].up))
<1>1. so[p] \in Sockets /\ so[p].up \in Seq(Frames)
  BY DEF Sockets
<1>2. [so[p] EXCEPT !.up = Tail(so[p].up)].down = so[p].down
      /\ [so[p] EXCEPT !.up = Tail(so[p].up)].up = Tail(so[p].up)
  BY <1>1 DEF Sockets
<1>3. \A q \in Procs \ {p} : [so EXCEPT ![p].up = Tail(@)][q] = so[q]
  OBVIOUS
<1>4. (Holds(Tail(so[p].up), "nack") => Holds(so[p].up, "nack")) /\ Holds(so[p].up, Head(so[p].up))
  BY <1>1, TailHolds
<1>5. [so EXCEPT ![p].up = Tail(@)][p].down = so[p].down /\ [so EXCEPT ![p].up = Tail(@)][p].up = Tail(so[p].up)
  BY <1>2
<1> QED  BY <1>3, <1>4, <1>5 DEF Thins

\* A frame is taken off what the client has to read.
LEMMA ReceiveThins ==
  ASSUME NEW so \in [Procs -> Sockets], NEW p \in Procs, so[p].down # <<>>
  PROVE  /\ Thins([so EXCEPT ![p].down = Tail(@)], so)
         /\ [so EXCEPT ![p].down = Tail(@)][p].down = Tail(so[p].down)
         /\ [so EXCEPT ![p].down = Tail(@)][p].up = so[p].up
         /\ \A q \in Procs \ {p} : [so EXCEPT ![p].down = Tail(@)][q] = so[q]
<1>1. so[p] \in Sockets /\ so[p].down \in Seq(Frames)
  BY DEF Sockets
<1>2. [so[p] EXCEPT !.down = Tail(so[p].down)].up = so[p].up
      /\ [so[p] EXCEPT !.down = Tail(so[p].down)].down = Tail(so[p].down)
  BY <1>1 DEF Sockets
<1> QED  BY <1>1, <1>2, TailHolds DEF Thins

\* What a client writes.
LEMMA WriteHolds ==
  ASSUME NEW so \in [Procs -> Sockets], NEW p \in Procs, NEW fs \in Seq(Frames)
  PROVE  /\ \A q \in Procs : Write(so, p, fs)[q].down = so[q].down
         /\ \A q \in Procs \ {p} : Write(so, p, fs)[q] = so[q]
         /\ ~Holds(fs, "nack") => Thins(Write(so, p, fs), so)
<1>1. so[p] \in Sockets /\ so[p].up \in Seq(Frames)
  BY DEF Sockets
<1>2. [so[p] EXCEPT !.up = so[p].up \o fs].down = so[p].down
      /\ [so[p] EXCEPT !.up = so[p].up \o fs].up = so[p].up \o fs
  BY <1>1 DEF Sockets
<1>3. /\ \A q \in Procs : Write(so, p, fs)[q].down = so[q].down
      /\ \A q \in Procs \ {p} : Write(so, p, fs)[q] = so[q]
      /\ Write(so, p, fs)[p].up \in {so[p].up, so[p].up \o fs}
  BY <1>2 DEF Write
<1>4. ASSUME ~Holds(fs, "nack") PROVE Thins(Write(so, p, fs), so)
  <2>1. Holds(so[p].up \o fs, "nack") => Holds(so[p].up, "nack")
    BY <1>1, <1>4, ConcatHolds
  <2> QED  BY <1>3, <2>1 DEF Thins
<1> QED  BY <1>3, <1>4

LEMMA ThinsOn ==
  ASSUME NEW a, NEW b, NEW c, Thins(a, b), Thins(b, c)
  PROVE  Thins(a, c)
BY DEF Thins

-----------------------------------------------------------------------------
(* Steps *)

\* What a process carries is as it was or gone, and an ended worker stays so.
Lasts ==
  \A p \in Procs : /\ proc'[p].inject # "no" => proc'[p].inject = proc[p].inject
                   /\ proc[p].state \in Over => proc'[p].state \in Over

\* A step that adds no prompt and no refusal, and at most ends the wait.
LEMMA Quiet ==
  ASSUME Once, UNCHANGED wrote, cmd' \in {cmd, "done"}, Thins(sock', sock), Lasts
  PROVE  Once'
<1>1. \A p \in Procs : (Under(p)' => Under(p)) /\ (Carried(p)' => Carried(p)) /\ (Refused(p)' => Refused(p))
  BY DEF Thins, Under, Carried, Refused, Lasts
<1>2. InOnePlace'
  BY <1>1 DEF Once, InOnePlace, Thins, Lasts
<1>3. typed' = typed /\ submitted' = submitted
  BY DEF wrote
<1>4. ASSUME NEW p \in Procs, Carried(p)' PROVE typed[p] \in Pasted(p)'
  <2>1. typed[p] \in Pasted(p) /\ ~(Under(p) /\ proc[p].inject # "no")
    BY <1>1, <1>4 DEF Once, InOnePlace
  <2>2. proc'[p].inject = proc[p].inject \/ (Under(p) /\ proc'[p].inject = "no")
    BY <1>1, <1>4 DEF Carried, Lasts
  <2> QED  BY <2>1, <2>2 DEF Pasted
<1>5. Spent => Spent'
  BY <1>3 DEF Spent, Lasts
<1> QED  BY <1>1, <1>2, <1>3, <1>4, <1>5 DEF Once

LEMMA SameThins == ASSUME UNCHANGED sock PROVE Thins(sock', sock)
BY DEF Thins

LEMMA HubQuiet ==
  ASSUME IInv, Once,
         \/ IssueLaunch \/ ClearExitMarker \/ ResolveLaunchForExpiry \/ ExpireResolvedLaunch \/ LeftClosed
         \/ \E l \in DOMAIN row : TimeToLivePasses(l)
  PROVE  Once'
<1>1. UNCHANGED <<proc, sock, wrote>> /\ cmd' \in {cmd, "done"}
  BY DEF IssueLaunch, ClearExitMarker, ResolveLaunchForExpiry, ExpireResolvedLaunch, LeftClosed, TimeToLivePasses,
         RejectPending, prompt
<1> QED  BY <1>1, SameThins, Quiet DEF Lasts

LEMMA RestartQuiet == ASSUME IInv, Once, HubRestart PROVE Once'
<1>1. \A p \in Procs : sock'[p].down = <<>> /\ sock'[p].up = <<>>
  BY DEF HubRestart, Closed
<1>2. Thins(sock', sock)
  BY <1>1, EmptyHolds DEF Thins
<1> QED  BY <1>2, Quiet DEF Lasts, HubRestart

LEMMA LosesQuiet == ASSUME IInv, Once, NEW p \in Procs, HubLoses(p) \/ SocketClosed(p) PROVE Once'
<1>1. sock \in [Procs -> Sockets] /\ sock[p] \in Sockets
  BY Parts DEF Queues
<1>2. Thins(sock', sock)
  <2>1. CASE HubLoses(p)
    <3>1. [sock[p] EXCEPT !.hub = "closing", !.up = <<>>, !.down = <<>>].up = <<>>
          /\ [sock[p] EXCEPT !.hub = "closing", !.up = <<>>, !.down = <<>>].down = <<>>
      BY <1>1 DEF Sockets
    <3>2. sock' = [sock EXCEPT ![p] = [sock[p] EXCEPT !.hub = "closing", !.up = <<>>, !.down = <<>>]]
      BY <2>1, <1>1 DEF HubLoses
    <3>3. sock'[p].up = <<>> /\ sock'[p].down = <<>> /\ \A q \in Procs \ {p} : sock'[q] = sock[q]
      BY <1>1, <3>1, <3>2
    <3> QED  BY <3>3, EmptyHolds DEF Thins
  <2>2. CASE SocketClosed(p)
    BY <1>1, <2>2, HubEndThins DEF SocketClosed
  <2> QED  BY <2>1, <2>2
<1> QED  BY <1>2, Quiet DEF Lasts, HubLoses, SocketClosed, RejectPending, prompt

\* A register: the frame is read, the connection before it may be closed and
\* its commands are given up.
LEMMA RegisterQuiet == ASSUME IInv, Once, NEW p \in Procs, Register(p) PROVE Once'
<1>1. PICK cred \in Credentials : sock[p].up # <<>> /\ (AcceptRegister(p, cred) \/ RejectRegister(p, cred))
  BY DEF Register
<1>2. CASE AcceptRegister(p, cred)
  <2> DEFINE so == CloseConn(sock)
             f == IF cred = "bootstrap" THEN "issued" ELSE "registered"
             new == [so[p] EXCEPT !.up = Tail(so[p].up), !.down = Append(so[p].down, f)]
  <2>1. ~IsConn(p) /\ so \in [Procs -> Sockets] /\ so[p] = sock[p]
    BY CloseConnType, RegisterIsFirst DEF Register
  <2>2. so[p] \in Sockets /\ so[p].up \in Seq(Frames) /\ so[p].down \in Seq(Frames) /\ so[p].up # <<>>
    BY <1>1, <2>1 DEF Sockets
  <2>3. sock' = [so EXCEPT ![p] = new]
    BY <1>2 DEF AcceptRegister
  <2>4. new.up = Tail(so[p].up) /\ new.down = Append(so[p].down, f)
    BY <2>2 DEF Sockets
  <2>5. f \in Frames /\ f # "inject"
    BY DEF Frames
  <2> HIDE DEF so, f, new
  <2>6. sock'[p] = new /\ \A q \in Procs \ {p} : sock'[q] = so[q]
    BY <2>1, <2>3
  <2>7. Thins(sock', so)
    <3>1. Holds(Append(so[p].down, f), "inject") => Holds(so[p].down, "inject")
      BY <2>2, <2>5, AppendHolds
    <3>2. Single(so[p].down) => Single(Append(so[p].down, f))
      BY <2>2, <2>5, AppendHolds
    <3>3. Holds(Tail(so[p].up), "nack") => Holds(so[p].up, "nack")
      BY <2>2, TailHolds
    <3> QED  BY <2>4, <2>6, <3>1, <3>2, <3>3 DEF Thins
  <2>8. Thins(sock', sock)
    BY <2>7, CloseConnThins, ThinsOn DEF so
  <2> QED  BY <1>2, <2>8, Quiet DEF Lasts, AcceptRegister, RejectPending
<1>3. CASE RejectRegister(p, cred)
  <2>1. Thins(sock', sock)
    BY <1>3, HubEndThins, Parts DEF RejectRegister, Refuse, Queues
  <2> QED  BY <1>3, <2>1, Quiet DEF Lasts, RejectRegister, prompt
<1> QED  BY <1>1, <1>2, <1>3

\* A refusal is read only while nothing has been written.
LEMMA ReadsKeeps ==
  ASSUME IInv, Once, NEW p \in Procs,
         Ignored(p) \/ Activity(p) \/ ChildExitRead(p) \/ RegisterAck(p) \/ Ack(p) \/ Nack(p)
  PROVE  Once'
<1>1. PICK f : Reads(p, f) /\ (Nack(p) => f = "nack")
  BY DEF Ignored, Activity, ChildExitRead, RegisterAck, Ack, Nack
<1>2. /\ Thins(sock', sock) /\ Holds(sock[p].up, f) /\ UNCHANGED <<proc, wrote>>
  BY <1>1, ReadsThins, Parts DEF Reads, Queues
<1>3. CASE ~Nack(p)
  <2>1. cmd' \in {cmd, "done"}
    BY <1>3 DEF Ignored, Activity, ChildExitRead, RegisterAck, Ack, RejectPending
  <2> QED  BY <1>2, <2>1, Quiet DEF Lasts
<1>4. CASE Nack(p)
  <2>1. Refused(p)
    BY <1>1, <1>2, <1>4 DEF Refused
  <2>2. \A q \in Procs : ~Carried(q)
    BY <2>1 DEF Once
  <2>3. \A q \in Procs : ~Carried(q)'
    BY <1>2, <2>2 DEF Carried, Under, Thins
  <2>4. InOnePlace'
    BY <1>2, <2>3 DEF Once, InOnePlace, Carried, Thins
  <2>5. cmd' = IF cmd = "waiting" THEN "fallback" ELSE cmd
    BY <1>4 DEF Nack
  <2>6. cmd # "new" /\ (cmd = "waiting" => submitted = 0 /\ Spent)
    BY <2>1 DEF Once
  <2>7. typed' = typed /\ submitted' = submitted /\ (Spent => Spent') /\ \A q \in Procs : Refused(q)' => Refused(q)
    BY <1>2 DEF wrote, Spent, Thins, Refused
  <2> QED  BY <1>2, <2>3, <2>4, <2>5, <2>6, <2>7 DEF Once
<1> QED  BY <1>3, <1>4

LEMMA ProcessQuiet ==
  ASSUME IInv, Once, NEW p \in Procs,
         Start(p) \/ Connect(p) \/ ClientSees(p) \/ ClientLoses(p) \/ SendActivity(p)
         \/ WorkerExits(p) \/ SendChildExit(p) \/ ProcessEnds(p)
  PROVE  Once'
<1>1. sock \in [Procs -> Sockets] /\ proc \in [Procs -> Processes]
  BY Parts DEF Queues, Others
<1>2. UNCHANGED <<cmd, wrote>>
  BY DEF Start, Connect, ClientSees, ClientLoses, Disconnected, SendActivity, WorkerExits, SendChildExit, ProcessEnds,
         prompt
<1>3. Lasts
  <2>1. CASE ProcessEnds(p)
    BY <1>1, <2>1 DEF ProcessEnds, NoProcess, Lasts, Over
  <2>2. CASE ~ProcessEnds(p)
    BY <1>1, <2>2 DEF Start, Connect, ClientSees, ClientLoses, Disconnected, SendActivity, WorkerExits, SendChildExit,
                      Processes, Lasts, Over
  <2> QED  BY <2>1, <2>2
<1>4. Thins(sock', sock)
  <2>1. CASE Start(p) \/ WorkerExits(p)
    BY <2>1, SameThins DEF Start, WorkerExits
  <2>2. CASE Connect(p)
    <3>1. Credential(p) # "nack"
      BY DEF Credential
    <3>2. sock'[p].up = <<Credential(p)>> /\ sock'[p].down = <<>> /\ \A q \in Procs \ {p} : sock'[q] = sock[q]
      BY <1>1, <2>2 DEF Connect
    <3>3. ~Holds(sock'[p].up, "nack")
      BY <3>1, <3>2 DEF Holds
    <3> QED  BY <3>2, <3>3, EmptyHolds DEF Thins
  <2>3. CASE ClientSees(p) \/ ClientLoses(p) \/ ProcessEnds(p)
    BY <1>1, <2>3, ClientEndThins DEF ClientSees, ClientLoses, Disconnected, ProcessEnds
  <2>4. ASSUME NEW f \in {"activity", "child_exit"} PROVE Thins(Write(sock, p, <<f>>), sock)
    <3>1. <<f>> \in Seq(Frames) /\ ~Holds(<<f>>, "nack")
      BY DEF Frames, Holds
    <3> QED  BY <1>1, <3>1, WriteHolds
  <2>5. CASE SendActivity(p) \/ SendChildExit(p)
    BY <2>4, <2>5, SameThins DEF SendActivity, SendChildExit
  <2> QED  BY <2>1, <2>2, <2>3, <2>5
<1> QED  BY <1>2, <1>3, <1>4, Quiet

LEMMA RegisteredQuiet == ASSUME IInv, Once, NEW p \in Procs, Registered(p) PROVE Once'
<1> DEFINE issued == Head(sock[p].down) = "issued"
           so == [sock EXCEPT ![p].down = Tail(@)]
           confirm == IF issued THEN <<"register_ack">> ELSE <<>>
           exit == IF proc[p].held THEN <<"child_exit">> ELSE <<>>
           fs == confirm \o exit \o <<"activity">>
           Reports == Frames \ {"nack"}
<1>1. sock[p].down # <<>> /\ UNCHANGED <<cmd, wrote>> /\ sock' = Write(so, p, fs)
  BY DEF Registered, Receives, prompt
<1>2. sock \in [Procs -> Sockets] /\ so \in [Procs -> Sockets]
  BY <1>1, ReceivesType, Parts DEF Queues
<1>3. Thins(so, sock)
  BY <1>1, <1>2, ReceiveThins
<1>4. fs \in Seq(Reports)
  <2>1. {"register_ack", "child_exit", "activity"} \subseteq Reports
    BY DEF Frames
  <2>2. <<>> \in Seq(Reports) /\ \A f \in Reports : <<f>> \in Seq(Reports)
    OBVIOUS
  <2>3. confirm \in Seq(Reports) /\ exit \in Seq(Reports) /\ <<"activity">> \in Seq(Reports)
    BY <2>1, <2>2
  <2> HIDE DEF Reports, confirm, exit
  <2> QED  BY <2>3, ThreeParts
<1> HIDE DEF fs, so
<1>5. fs \in Seq(Frames) /\ ~Holds(fs, "nack")
  BY <1>4 DEF Holds
<1>6. Thins(sock', sock)
  BY <1>1, <1>2, <1>3, <1>5, WriteHolds, ThinsOn
<1>7. Lasts
  BY Parts DEF Registered, Others, Processes, Lasts
<1> QED  BY <1>1, <1>6, <1>7, Quiet

\* The command leaves the queue for the client.
LEMMA InjectedKeeps == ASSUME IInv, Once, NEW p \in Procs, Injected(p) PROVE Once'
<1>1. /\ sock \in [Procs -> Sockets] /\ proc \in [Procs -> Processes]
      /\ sock[p].down \in Seq(Frames) /\ sock[p].down # <<>> /\ Head(sock[p].down) = "inject"
      /\ UNCHANGED <<cmd, typed, submitted>>
  BY Parts DEF Queues, Others, Sockets, Injected, Receives, prompt, wrote
<1>2. Under(p) /\ Single(sock[p].down) /\ ~Holds(Tail(sock[p].down), "inject") /\ Single(Tail(sock[p].down))
  BY <1>1, TailHolds DEF Once, InOnePlace, Under
<1>3. /\ Thins(sock', sock) /\ sock'[p].down = Tail(sock[p].down)
  BY <1>1, ReceiveThins DEF Injected
<1>4. \A q \in Procs : q # p => ~Carried(q) /\ proc'[q] = proc[q]
  BY <1>1, <1>2 DEF Once, InOnePlace, Carried, Injected
<1>5. \A q \in Procs : q # p => ~Carried(q)'
  BY <1>3, <1>4 DEF Carried, Under, Thins
<1>6. ~Under(p)'
  BY <1>2, <1>3 DEF Under
<1>7. InOnePlace'
  BY <1>3, <1>5, <1>6 DEF Once, InOnePlace, Carried, Thins
<1>8. \A q \in Procs : Refused(q)' => Refused(q)
  BY <1>3 DEF Refused, Thins
<1>9. /\ submitted = 0 /\ cmd \in {"waiting", "done"} /\ \A q \in Procs : ~Refused(q)
      /\ \A q \in Procs : typed[q] = 0
  <2>1. Carried(p) /\ proc[p].inject = "no"
    BY <1>2 DEF Once, InOnePlace, Carried
  <2> QED  BY <2>1 DEF Once, Pasted
<1>10. 0 \in Pasted(p)'
  BY DEF Pasted
<1> QED  BY <1>1, <1>5, <1>7, <1>8, <1>9, <1>10 DEF Once

\* A client that has the command has it alone.
LEMMA OnlyCarrier ==
  ASSUME IInv, Once, NEW p \in Procs, proc[p].inject # "no"
  PROVE  /\ submitted = 0 /\ cmd \in {"waiting", "done"} /\ \A q \in Procs : ~Refused(q)
         /\ ~Under(p) /\ \A q \in Procs \ {p} : ~Carried(q) /\ typed[q] = 0
         /\ typed[p] \in Pasted(p)
BY DEF Once, InOnePlace, Carried

\* The command is answered: it is nowhere then, and a refusal is that of a
\* client whose worker has ended.
LEMMA AnswersKeep ==
  ASSUME IInv, Once, NEW p \in Procs, proc[p].inject # "no", NEW f \in {"ack", "nack"}, Answers(p, f),
         proc[p].state \in Running, UNCHANGED <<cmd, typed>>, submitted' \in {0, 1}, f = "nack" => submitted' = 0 /\ proc[p].state # "up"
  PROVE  Once'
<1>1. sock \in [Procs -> Sockets] /\ proc \in [Procs -> Processes] /\ typed \in [Procs -> Nat]
  BY Parts DEF Queues, Others
<1>2. /\ proc'[p].inject = "no" /\ proc'[p].state = proc[p].state
      /\ \A q \in Procs : q # p => proc'[q] = proc[q]
  BY <1>1 DEF Answers, Processes
<1>3. /\ \A q \in Procs : sock'[q].down = sock[q].down
      /\ f = "ack" => Thins(sock', sock)
  <2> DEFINE fs == <<f>>
  <2>1. fs \in Seq(Frames) /\ (f = "ack" => ~Holds(fs, "nack"))
    BY DEF Frames, Holds
  <2>2. sock' = Write(sock, p, fs)
    BY DEF Answers
  <2> HIDE DEF fs
  <2> QED  BY <1>1, <2>1, <2>2, WriteHolds
<1>4. \A q \in Procs : ~Carried(q)'
  BY <1>2, <1>3, OnlyCarrier DEF Carried, Under
<1>5. InOnePlace'
  BY <1>3, <1>4 DEF Once, InOnePlace, Carried
<1>6. \A q \in Procs : typed'[q] \in {0, 1}
  BY DEF Once
<1>7. CASE f = "ack"
  <2>1. \A q \in Procs : ~Refused(q)'
    BY <1>3, <1>7, OnlyCarrier DEF Refused, Thins
  <2> QED  BY <1>4, <1>5, <1>6, <2>1, OnlyCarrier DEF Once
<1>8. CASE f = "nack"
  <2>1. typed[p] = 0 \/ proc[p].state \in Over
    BY <1>8 DEF Running, Over
  <2>2. Spent'
    BY <1>2, <1>8, <2>1, OnlyCarrier DEF Spent
  <2> QED  BY <1>4, <1>5, <1>6, <1>8, <2>2, OnlyCarrier DEF Once
<1> QED  BY <1>7, <1>8

\* The text is written to a worker that has none.
LEMMA PasteKeeps == ASSUME IInv, Once, NEW p \in Procs, Paste(p) PROVE Once'
<1>1. /\ sock \in [Procs -> Sockets] /\ proc \in [Procs -> Processes] /\ typed \in [Procs -> Nat]
      /\ proc[p].inject = "ready" /\ UNCHANGED <<cmd, submitted>>
  BY Parts DEF Queues, Others, Paste
<1>2. \A q \in Procs : typed[q] = 0
  BY <1>1, OnlyCarrier DEF Pasted
<1>3. CASE proc[p].state # "up" /\ Answers(p, "nack")
  <2>1. UNCHANGED <<cmd, typed>> /\ submitted' = 0
    BY <1>1, <1>3, OnlyCarrier DEF Paste
  <2> QED  BY <1>1, <1>3, <2>1, AnswersKeep DEF Paste
<1>4. CASE proc' = [proc EXCEPT ![p].inject = "pasted"] /\ sock' = sock
  <2>1. proc'[p].inject = "pasted" /\ \A q \in Procs \ {p} : proc'[q] = proc[q] /\ ~Carried(q)
    BY <1>1, <1>4, OnlyCarrier DEF Processes
  <2>2. \A q \in Procs : Under(q)' = Under(q) /\ Refused(q)' = Refused(q)
    BY <1>4 DEF Under, Refused
  <2>3. Carried(p)' /\ \A q \in Procs \ {p} : ~Carried(q)'
    BY <2>1, <2>2 DEF Carried
  <2>4. InOnePlace'
    BY <1>1, <1>4, <2>1, <2>2, <2>3, OnlyCarrier DEF Once, InOnePlace, Carried
  <2>5. typed'[p] \in {0, 1} /\ \A q \in Procs \ {p} : typed'[q] = 0
    BY <1>1, <1>2 DEF Paste
  <2>6. typed'[p] \in Pasted(p)'
    BY <2>1, <2>5 DEF Pasted
  <2> QED  BY <1>1, <2>2, <2>3, <2>4, <2>5, <2>6, OnlyCarrier DEF Once
<1> QED  BY <1>3, <1>4 DEF Paste

\* It is submitted where it was pasted.
LEMMA EnterKeeps == ASSUME IInv, Once, NEW p \in Procs, Enter(p) PROVE Once'
<1>1. proc[p].inject # "no" /\ proc[p].state \in Running /\ UNCHANGED <<cmd, typed>>
  BY DEF Enter
<1>2. submitted' \in {0, 1} /\ (proc[p].state # "up" => submitted' = 0)
  BY <1>1, OnlyCarrier DEF Enter
<1> QED  BY <1>1, <1>2, AnswersKeep DEF Enter

\* The command is sent once.
LEMMA SendKeeps == ASSUME IInv, Once, SendPrompt PROVE Once'
<1>1. UNCHANGED <<proc, typed, submitted>> /\ cmd = "new" /\ cmd' \in {"waiting", "fallback"}
  BY DEF SendPrompt, wrote
<1>2. /\ submitted = 0 /\ \A q \in Procs : typed[q] = 0 /\ ~Carried(q) /\ ~Refused(q) /\ 0 \in Pasted(q)'
      /\ Spent'
  BY <1>1 DEF Once, Pasted, Spent
<1>3. CASE sock' = sock
  <2>1. \A q \in Procs : ~Carried(q)' /\ ~Refused(q)'
    BY <1>1, <1>2, <1>3 DEF Carried, Under, Refused
  <2>2. InOnePlace'
    BY <1>3, <2>1 DEF Once, InOnePlace, Carried
  <2> QED  BY <1>1, <1>2, <2>1, <2>2 DEF Once
<1>4. CASE sock' # sock
  <2>1. conn # None /\ cmd' = "waiting" /\ sock' = [sock EXCEPT ![conn.proc].down = Append(@, "inject")]
    BY <1>4 DEF SendPrompt
  <2> DEFINE p == conn.proc
             new == [sock[p] EXCEPT !.down = Append(sock[p].down, "inject")]
  <2>2. p \in Procs /\ sock \in [Procs -> Sockets] /\ sock[p] \in Sockets /\ sock[p].down \in Seq(Frames)
    BY <2>1, Parts DEF Link, Connections, Queues, Sockets
  <2>3. sock' = [sock EXCEPT ![p] = new] /\ new.up = sock[p].up /\ new.down = Append(sock[p].down, "inject")
    BY <2>1, <2>2 DEF Sockets
  <2> HIDE DEF p, new
  <2>4. sock'[p] = new /\ \A q \in Procs : q # p => sock'[q] = sock[q]
    BY <2>2, <2>3
  <2>5. \A q \in Procs : sock'[q].up = sock[q].up
    BY <2>3, <2>4
  <2>6. \A q \in Procs : ~Refused(q)' /\ proc'[q].inject = "no"
    BY <1>1, <1>2, <2>5 DEF Refused, Carried
  <2>7. \A q \in Procs : q # p => ~Carried(q)'
    BY <1>1, <1>2, <2>4 DEF Carried, Under
  <2>8. Single(sock'[p].down)
    <3>1. Single(sock[p].down) /\ ~Holds(sock[p].down, "inject") /\ "inject" \in Frames
      BY <1>2, <2>2 DEF Once, InOnePlace, Carried, Under, Frames
    <3> QED  BY <2>2, <2>3, <2>4, <3>1, AppendHolds
  <2>9. InOnePlace'
    BY <2>2, <2>4, <2>6, <2>7, <2>8 DEF Once, InOnePlace
  <2> QED  BY <1>1, <1>2, <2>1, <2>6, <2>9 DEF Once
<1> QED  BY <1>3, <1>4

\* As keys it is typed when no command is on its way, to a worker that has none.
LEMMA EndsKeeps == ASSUME IInv, Once, AckTimeout \/ TypeText \/ TypeEnter PROVE Once'
<1>1. UNCHANGED <<proc, sock>> /\ cmd' \in {"typed", "done"} /\ typed \in [Procs -> Nat]
  BY Parts DEF AckTimeout, TypeText, TypeEnter, Others
<1>2. CASE AckTimeout
  BY <1>1, <1>2, SameThins, Quiet DEF AckTimeout, Lasts
<1>3. CASE TypeText \/ TypeEnter
  <2>1. submitted = 0 /\ \A q \in Procs : ~Carried(q)
    BY <1>3 DEF TypeText, TypeEnter, Once
  <2>2. /\ submitted' \in {0, 1} /\ (cmd' = "typed" => submitted' = 0)
    BY <1>3, <2>1 DEF TypeText, TypeEnter
  <2>3. \A q \in Procs : typed'[q] \in {0, 1}
    <3>1. CASE TypeText
      <4>1. Spent
        BY <3>1 DEF TypeText, Once
      <4>2. \A q \in Procs : proc[q].state = "up" => typed[q] = 0
        BY <4>1 DEF Spent, Over
      <4> QED  BY <1>1, <3>1, <4>2 DEF TypeText, Once
    <3>2. CASE TypeEnter
      BY <3>2 DEF TypeEnter, Once
    <3> QED  BY <1>3, <3>1, <3>2
  <2>4. \A q \in Procs : ~Carried(q)'
    BY <1>1, <2>1 DEF Carried, Under
  <2>5. InOnePlace'
    BY <1>1, <2>4 DEF Once, InOnePlace, Carried
  <2> QED  BY <1>1, <2>2, <2>3, <2>4, <2>5 DEF Once
<1> QED  BY <1>2, <1>3

-----------------------------------------------------------------------------

LEMMA OnceInitially == Init => Once
<1> SUFFICES ASSUME Init PROVE Once
  OBVIOUS
<1>1. \A p \in Procs : sock[p].down = <<>> /\ sock[p].up = <<>> /\ proc[p].inject = "no"
  BY DEF Init, Closed, NoProcess
<1>2. \A p \in Procs : ~Carried(p) /\ ~Refused(p)
  BY <1>1, EmptyHolds DEF Carried, Under, Refused
<1> QED  BY <1>1, <1>2, EmptyHolds DEF Init, Once, InOnePlace, Spent

LEMMA OnceKept == IInv /\ Once /\ [Next]_vars => Once'
<1> SUFFICES ASSUME IInv, Once, [Next]_vars PROVE Once'
  OBVIOUS
<1>1. CASE HubActs
  BY <1>1, HubQuiet, RestartQuiet, LosesQuiet, RegisterQuiet, ReadsKeeps DEF HubActs, HubReads
<1>2. CASE ProcessActs
  BY <1>2, ProcessQuiet, RegisteredQuiet, InjectedKeeps, PasteKeeps, EnterKeeps DEF ProcessActs
<1>3. CASE SendPrompt \/ AckTimeout \/ TypeText \/ TypeEnter
  BY <1>3, SendKeeps, EndsKeeps
<1>4. CASE UNCHANGED vars
  <2>1. UNCHANGED <<proc, sock, cmd, wrote>>
    BY <1>4 DEF vars, prompt
  <2> QED  BY <2>1, SameThins, Quiet DEF Lasts
<1> QED  BY <1>1, <1>2, <1>3, <1>4 DEF Next

\* A prompt is submitted at most once and no worker is given its text twice,
\* whatever is lost between the command and its ack and whatever ends between
\* the paste and its Enter (WorkerInputService, HubClient).
THEOREM SubmitsOnce == Spec => []SubmittedOnce
<1>1. Once => SubmittedOnce
  BY DEF Once, SubmittedOnce
<1>2. IInv /\ Once /\ [Next]_vars => Once'
  BY OnceKept
<1> QED  BY <1>1, <1>2, OnceInitially, Invariance, PTL DEF Spec
=============================================================================
