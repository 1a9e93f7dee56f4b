------------------------ MODULE SupervisorLinkProofs ------------------------
(***************************************************************************)
(* Proofs about SupervisorLink for every number of launches, losses and    *)
(* frames, with and without scoped authentication and supervisors started  *)
(* by hand.                                                                *)
(***************************************************************************)
EXTENDS SupervisorLink, TLAPS

Unbounded == [proc : Nat, launch : Nat, bound : BOOLEAN, left : BOOLEAN]
Connections == [proc : Procs, launch : 0..MaxLaunch, bound : BOOLEAN, left : BOOLEAN]

\* No connection is mistaken for none.
LEMMA ConnectionsAreSome == None \notin Connections
BY LinkAssumption DEF LinkAssumption, Connections, Procs, Launches, Manual

-----------------------------------------------------------------------------
(* The table of launches *)

\* A status written to a launch that is in use, or that takes it out of use.
LEMMA SetStatusType ==
  ASSUME TypeOK, OnlyNewestLaunch, NEW l \in Nat,
         NEW s \in {"pending", "active", "replaced", "expired"}, SetStatus(l, s),
         Outstanding(l) \/ s = "expired"
  PROVE  /\ row' \in Seq(LaunchRows) /\ Len(row') = Len(row)
         /\ \A k \in DOMAIN row' : Outstanding(k)' => k = Len(row')
<1> DEFINE new == [status |-> s, minted |-> s = "active", fresh |-> FALSE]
<1>1. Len(row) \in Nat /\ DOMAIN row = 1..Len(row) /\ \A k \in DOMAIN row : row[k] \in LaunchRows
  BY DEF TypeOK
<1>2. new \in LaunchRows
  BY DEF LaunchRows
<1>3. row' \in [1..Len(row) -> LaunchRows]
  BY <1>1, <1>2 DEF SetStatus
<1>4. row' \in Seq(LaunchRows) /\ Len(row') = Len(row)
  BY <1>1, <1>3
<1>5. \A k \in DOMAIN row' : Outstanding(k)' => Outstanding(k)
  BY <1>1, <1>4 DEF SetStatus, Outstanding
<1> QED  BY <1>4, <1>5, <1>1, <1>3 DEF OnlyNewestLaunch

\* The launch in use is the newest, or none.
LEMMA CurrentIsNewest ==
  ASSUME TypeOK, OnlyNewestLaunch
  PROVE  Current \in {0, Len(row)} /\ (Current # 0 => Outstanding(Current))
<1> DEFINE S == {0} \union {l \in DOMAIN row : Outstanding(l)}
<1>1. \A l \in S : l = 0 \/ (l = Len(row) /\ Outstanding(l))
  BY DEF OnlyNewestLaunch
<1>2. Len(row) \in Nat
  BY DEF TypeOK
<1>3. \E x \in S : \A y \in S : x >= y
  <2>1. CASE S = {0}
    BY <2>1
  <2>2. CASE Len(row) \in S
    BY <2>2, <1>1, <1>2
  <2> QED  BY <2>1, <2>2, <1>1
<1>4. Max(S) \in S
  BY <1>3 DEF Max
<1> QED  BY <1>1, <1>4 DEF Current

\* A new launch is the only one in use.
LEMMA SupersedeType ==
  ASSUME TypeOK, Len(row) < MaxLaunch, Supersede
  PROVE  /\ row' \in Seq(LaunchRows) /\ Len(row') = Len(row) + 1 /\ Len(row') <= MaxLaunch
         /\ \A k \in DOMAIN row' : Outstanding(k)' => k = Len(row')
<1> DEFINE old == [l \in DOMAIN row |->
                     IF Outstanding(l) THEN [status |-> "replaced", minted |-> FALSE, fresh |-> FALSE] ELSE row[l]]
<1>1. old \in Seq(LaunchRows) /\ Len(old) = Len(row)
  <2>1. Len(row) \in Nat /\ DOMAIN row = 1..Len(row) /\ \A l \in DOMAIN row : row[l] \in LaunchRows
    BY DEF TypeOK
  <2>2. old \in [1..Len(row) -> LaunchRows]
    BY <2>1 DEF LaunchRows
  <2> QED  BY <2>1, <2>2
<1>2. NewRow \in LaunchRows
  BY DEF NewRow, LaunchRows
<1>3. row' = Append(old, NewRow)
  BY DEF Supersede
<1>4. \A l \in DOMAIN old : old[l].status \notin {"pending", "active"}
  BY DEF Outstanding
<1>5. Len(row') = Len(row) + 1 /\ \A l \in 1..Len(row) : row'[l] = old[l]
  BY <1>1, <1>2, <1>3
<1>6. \A k \in DOMAIN row' : Outstanding(k)' => k = Len(row')
  BY <1>1, <1>3, <1>4, <1>5 DEF Outstanding, TypeOK
<1> QED  BY LinkAssumption, <1>1, <1>2, <1>3, <1>5, <1>6 DEF LinkAssumption, TypeOK

-----------------------------------------------------------------------------
(* Sockets *)

\* A queue can be empty.
LEMMA EmptyQueue == <<>> \in Seq(Frames)
OBVIOUS

\* What the hub's end of a socket does to the sockets when it closes.
LEMMA HubEndType ==
  ASSUME NEW so \in [Procs -> Sockets], NEW p \in Procs
  PROVE  /\ HubEnd(so, p) \in [Procs -> Sockets]
         /\ HubEnd(so, p)[p].up = <<>>
         /\ \A q \in Procs \ {p} : HubEnd(so, p)[q] = so[q]
<1>1. Closed \in Sockets /\ Closed.up = <<>>
  BY DEF Closed, Sockets
<1>2. so[p] \in Sockets
  OBVIOUS
<1>3. [so[p] EXCEPT !.hub = "closed", !.up = <<>>] \in Sockets
  BY <1>2, EmptyQueue DEF Sockets
<1>4. [so[p] EXCEPT !.hub = "closed", !.up = <<>>].up = <<>>
  BY <1>2 DEF Sockets
<1>5. HubEnd(so, p)
        = [so EXCEPT ![p] = IF so[p].client THEN [so[p] EXCEPT !.hub = "closed", !.up = <<>>] ELSE Closed]
  BY DEF HubEnd
<1> QED  BY <1>1, <1>3, <1>4, <1>5

\* And the client's end.
LEMMA ClientEndType ==
  ASSUME NEW so \in [Procs -> Sockets], NEW p \in Procs
  PROVE  /\ ClientEnd(so, p) \in [Procs -> Sockets]
         /\ \A q \in Procs : /\ ClientEnd(so, p)[q].hub = so[q].hub
                             /\ ClientEnd(so, p)[q].up \in {so[q].up, <<>>}
<1>1. Closed \in Sockets /\ Closed.up = <<>> /\ Closed.hub = "closed"
  BY DEF Closed, Sockets
<1>2. so[p] \in Sockets
  OBVIOUS
<1>3. [so[p] EXCEPT !.client = FALSE, !.down = <<>>] \in Sockets
  BY <1>2, EmptyQueue DEF Sockets
<1>4. /\ [so[p] EXCEPT !.client = FALSE, !.down = <<>>].up = so[p].up
      /\ [so[p] EXCEPT !.client = FALSE, !.down = <<>>].hub = so[p].hub
  BY <1>2 DEF Sockets
<1>5. ClientEnd(so, p)
        = [so EXCEPT ![p] = IF so[p].hub = "closed" THEN Closed ELSE [so[p] EXCEPT !.client = FALSE, !.down = <<>>]]
  BY DEF ClientEnd
<1> QED  BY <1>1, <1>3, <1>4, <1>5

\* Frames that are no register, written by a client.
LEMMA WriteType ==
  ASSUME NEW so \in [Procs -> Sockets], NEW p \in Procs, NEW fs \in Seq(Frames \ Credentials)
  PROVE  /\ Write(so, p, fs) \in [Procs -> Sockets]
         /\ \A q \in Procs : Write(so, p, fs)[q].hub = so[q].hub
         /\ \A q \in Procs : \A i \in DOMAIN Write(so, p, fs)[q].up :
              Write(so, p, fs)[q].up[i] \in Credentials
                => i \in DOMAIN so[q].up /\ so[q].up[i] = Write(so, p, fs)[q].up[i]
<1>1. so[p].up \in Seq(Frames) /\ fs \in Seq(Frames)
  <2>1. fs \in Seq(Frames)
    BY DEF Frames
  <2> QED  BY <2>1 DEF Sockets
<1>2. so[p].up \o fs \in Seq(Frames)
  BY <1>1
<1>3. \A i \in DOMAIN (so[p].up \o fs) :
        (so[p].up \o fs)[i] \in Credentials => i \in DOMAIN so[p].up /\ so[p].up[i] = (so[p].up \o fs)[i]
  BY <1>1
<1> QED  BY <1>2, <1>3 DEF Write, Sockets
\* A frame read from the queue of a socket, and one put on the other.
LEMMA TailType ==
  ASSUME NEW so \in [Procs -> Sockets], NEW p \in Procs, so[p].up # <<>>,
         \A i \in DOMAIN so[p].up : so[p].up[i] \in Credentials => i = 1
  PROVE  /\ Tail(so[p].up) \in Seq(Frames)
         /\ \A i \in DOMAIN Tail(so[p].up) : Tail(so[p].up)[i] \notin Credentials
<1>1. so[p].up \in Seq(Frames)
  BY DEF Sockets
<1>2. /\ Tail(so[p].up) \in Seq(Frames)
      /\ \A i \in DOMAIN Tail(so[p].up) : i + 1 \in DOMAIN so[p].up /\ i + 1 # 1 /\ Tail(so[p].up)[i] = so[p].up[i + 1]
  BY <1>1
<1> QED  BY <1>2

-----------------------------------------------------------------------------
(* The invariant in four parts, and steps that disturb some of them *)

Rows ==
  /\ row \in Seq(LaunchRows) /\ Len(row) <= MaxLaunch
  /\ \A l \in DOMAIN row : Outstanding(l) => l = Len(row)

Link ==
  /\ conn \in Connections \union {None} /\ tier0 \in BOOLEAN /\ exited \in BOOLEAN
  /\ tier0 => conn # None /\ conn.bound
  /\ exited => conn = None
  /\ conn # None /\ conn.launch # 0 => conn.bound /\ conn.launch = Len(row)
  /\ ScopedAuth /\ conn # None /\ conn.bound => conn.launch # 0

Queues ==
  /\ sock \in [Procs -> Sockets]
  /\ \A p \in Procs : IsConn(p) => sock[p].hub # "closed"
  /\ \A p \in Procs : \A i \in DOMAIN sock[p].up :
       sock[p].up[i] \in Credentials => i = 1 /\ ~IsConn(p) /\ (sock[p].up[i] = "manual" <=> p = Manual)

Others ==
  /\ resolved \in 0..MaxLaunch /\ proc \in [Procs -> Processes]
  /\ cmd \in {"new", "waiting", "fallback", "typed", "done"} /\ typed \in [Procs -> Nat] /\ submitted \in Nat
  /\ faults \in 0..MaxFault

\* The four parts are the invariant, before a step and after.
LEMMA Parts == IInv <=> Rows /\ Link /\ Queues /\ Others
BY DEF IInv, TypeOK, MonitorAgrees, OnlyNewestLaunch, RegistersFirst, BoundHasLaunch, Rows, Link, Queues, Others, Connections

LEMMA PartsAfter == IInv' <=> Rows' /\ Link' /\ Queues' /\ Others'
BY DEF IInv, TypeOK, MonitorAgrees, OnlyNewestLaunch, RegistersFirst, BoundHasLaunch, Rows, Link, Queues, Others, Connections

\* The launches stay.
LEMMA RowsStay == ASSUME Rows, UNCHANGED row PROVE Rows'
BY DEF Rows, Outstanding

\* The connection and what the monitor knows of it stay.
LEMMA LinkStays == ASSUME Link, UNCHANGED hub, Len(row') = Len(row) PROVE Link'
BY DEF Link, hub

\* The connection is forgotten, and the monitor is told.
LEMMA LinkForgotten == ASSUME conn' = None, tier0' = FALSE, exited' \in BOOLEAN PROVE Link'
BY DEF Link

\* No queue gets a register, no socket of the connection is closed.
LEMMA QueuesShrink ==
  ASSUME Queues, sock' \in [Procs -> Sockets],
         \A p \in Procs :
           /\ IsConn(p)' => IsConn(p) /\ sock'[p].hub # "closed"
           /\ \A i \in DOMAIN sock'[p].up :
                sock'[p].up[i] \in Credentials => i \in DOMAIN sock[p].up /\ sock[p].up[i] = sock'[p].up[i]
  PROVE  Queues'
BY DEF Queues

\* The sockets stay, with the connection or with less of it.
LEMMA QueuesStay ==
  ASSUME Queues, UNCHANGED sock, \A p \in Procs : IsConn(p)' => IsConn(p)
  PROVE  Queues'
BY DEF Queues

\* No connection is one of no process.
LEMMA NoConnection == ASSUME conn' = None PROVE \A p \in Procs : ~IsConn(p)'
BY DEF IsConn

LEMMA SameConnection == ASSUME UNCHANGED conn PROVE \A p \in Procs : IsConn(p)' <=> IsConn(p)
BY DEF IsConn

-----------------------------------------------------------------------------
(* The steps of the hub *)

\* A new launch takes the authority from the connection.
LEMMA IssueLaunchStep == ASSUME IInv, IssueLaunch PROVE IInv'
<1> USE Parts
<1>1. Rows'
  BY SupersedeType DEF IssueLaunch, IInv, Rows
<1>2. Link' /\ \A p \in Procs : IsConn(p)' => IsConn(p)
  <2>1. CASE conn # None /\ conn.bound
    <3>1. conn' = [conn EXCEPT !.bound = FALSE, !.launch = 0] /\ tier0' = FALSE /\ exited' = exited
      BY <2>1 DEF IssueLaunch, DowngradeToUnbound
    <3>2. conn \in Connections /\ 0 \in 0..MaxLaunch
      BY <2>1, LinkAssumption DEF Link, LinkAssumption
    <3>3. conn' \in Connections
      BY <3>1, <3>2 DEF Connections
    <3>4. conn'.launch = 0 /\ ~conn'.bound /\ conn'.proc = conn.proc /\ conn'.left = conn.left
      BY <3>1, <3>2 DEF Connections
    <3> QED  BY <2>1, <3>1, <3>3, <3>4, ConnectionsAreSome DEF Link, IsConn
  <2>2. CASE ~(conn # None /\ conn.bound)
    BY <2>2, SameConnection DEF IssueLaunch, DowngradeToUnbound, Link
  <2> QED  BY <2>1, <2>2
<1>3. Queues'
  BY <1>2, QueuesStay DEF IssueLaunch
<1>4. Others'
  BY DEF IssueLaunch, Others, prompt, wrote
<1> QED  BY <1>1, <1>2, <1>3, <1>4, PartsAfter

\* The hub's own steps that touch only a marker or the age of a launch.
LEMMA ClearExitMarkerStep == ASSUME IInv, ClearExitMarker PROVE IInv'
<1>1. Link'
  BY Parts DEF ClearExitMarker, Link
<1> QED  BY <1>1, Parts, PartsAfter, RowsStay, QueuesStay, SameConnection DEF ClearExitMarker, Others, prompt, wrote

LEMMA ResolveStep == ASSUME IInv, ResolveLaunchForExpiry PROVE IInv'
<1>1. Current \in 0..MaxLaunch
  BY CurrentIsNewest, LinkAssumption DEF IInv, TypeOK, LinkAssumption
<1>2. Others'
  BY <1>1, Parts DEF ResolveLaunchForExpiry, Others, prompt, wrote
<1> QED  BY <1>2, Parts, PartsAfter, RowsStay, LinkStays, QueuesStay, SameConnection DEF ResolveLaunchForExpiry, hub

LEMMA TimeToLiveStep == ASSUME IInv, NEW l \in DOMAIN row, TimeToLivePasses(l) PROVE IInv'
<1>1. Rows' /\ Len(row') = Len(row)
  <2>1. Len(row) \in Nat /\ DOMAIN row = 1..Len(row) /\ \A k \in DOMAIN row : row[k] \in LaunchRows
    BY Parts DEF Rows
  <2>2. row' = [row EXCEPT ![l] = [row[l] EXCEPT !.fresh = FALSE]]
    BY DEF TimeToLivePasses
  <2>3. [row[l] EXCEPT !.fresh = FALSE] \in LaunchRows /\ [row[l] EXCEPT !.fresh = FALSE].status = row[l].status
    BY <2>1 DEF LaunchRows
  <2>4. row' \in [1..Len(row) -> LaunchRows] /\ \A k \in 1..Len(row) : row'[k].status = row[k].status
    BY <2>1, <2>2, <2>3
  <2>5. row' \in Seq(LaunchRows) /\ Len(row') = Len(row)
    BY <2>1, <2>4
  <2> QED  BY <2>1, <2>4, <2>5, Parts DEF Rows, Outstanding
<1> QED  BY <1>1, Parts, PartsAfter, LinkStays, QueuesStay, SameConnection DEF TimeToLivePasses, Others, prompt, wrote, hub

\* A window is gone, and the launch it had with it.
LEMMA ExpireStep == ASSUME IInv, ExpireResolvedLaunch PROVE IInv'
<1>1. Rows' /\ Len(row') = Len(row)
  <2>1. resolved \in Nat /\ SetStatus(resolved, "expired")
    BY LinkAssumption DEF IInv, TypeOK, ExpireResolvedLaunch, ExpireResolved, LinkAssumption
  <2> QED  BY <2>1, SetStatusType DEF IInv, TypeOK, Rows
<1>2. Others'
  BY Parts, LinkAssumption DEF ExpireResolvedLaunch, Others, prompt, wrote, LinkAssumption
<1> QED  BY <1>1, <1>2, Parts, PartsAfter, LinkStays, QueuesStay, SameConnection DEF ExpireResolvedLaunch, hub

\* The hub loses a socket, its connection or everything but the launches.
LEMMA HubLosesStep == ASSUME IInv, NEW p \in Procs, HubLoses(p) PROVE IInv'
<1>1. sock' \in [Procs -> Sockets] /\ sock'[p].hub = "closing" /\ sock'[p].up = <<>>
      /\ \A q \in Procs \ {p} : sock'[q] = sock[q]
  <2>1. sock[p] \in Sockets /\ sock' = [sock EXCEPT ![p] = [sock[p] EXCEPT !.hub = "closing", !.up = <<>>, !.down = <<>>]]
    BY Parts DEF HubLoses, Queues
  <2>2. [sock[p] EXCEPT !.hub = "closing", !.up = <<>>, !.down = <<>>] \in Sockets
    BY <2>1, EmptyQueue DEF Sockets
  <2> QED  BY <2>1, <2>2, Parts DEF Queues, Sockets
<1>2. Queues'
  BY <1>1, Parts, QueuesShrink, SameConnection DEF HubLoses, hub, Queues
<1>3. Others'
  BY Parts, LinkAssumption DEF HubLoses, Others, prompt, wrote, LinkAssumption
<1> QED  BY <1>2, <1>3, Parts, PartsAfter, RowsStay, LinkStays DEF HubLoses

LEMMA SocketClosedStep == ASSUME IInv, NEW p \in Procs, SocketClosed(p) PROVE IInv'
<1>1. /\ sock' \in [Procs -> Sockets] /\ sock'[p].up = <<>>
      /\ \A q \in Procs \ {p} : sock'[q] = sock[q]
  BY HubEndType, Parts DEF SocketClosed, Queues
<1>2. CASE IsConn(p)
  <2>1. Link'
    BY <1>2, Parts, LinkForgotten DEF SocketClosed, Link
  <2>2. Queues'
    BY <1>1, <1>2, Parts, NoConnection, QueuesShrink DEF SocketClosed
  <2> QED  BY <1>2, <2>1, <2>2, Parts, PartsAfter, RowsStay DEF SocketClosed, Others, wrote, RejectPending
<1>3. CASE ~IsConn(p)
  <2>1. UNCHANGED hub /\ UNCHANGED cmd /\ UNCHANGED conn
    BY <1>3 DEF SocketClosed, hub
  <2>2. Queues'
    BY <1>1, <1>3, <2>1, Parts, SameConnection, QueuesShrink DEF Queues
  <2> QED  BY <2>1, <2>2, Parts, PartsAfter, RowsStay, LinkStays DEF SocketClosed, Others, wrote
<1> QED  BY <1>2, <1>3

LEMMA LeftClosedStep == ASSUME IInv, LeftClosed PROVE IInv'
<1>1. Link' /\ Queues'
  BY Parts, LinkForgotten, NoConnection, QueuesStay DEF LeftClosed, Link
<1> QED  BY <1>1, Parts, PartsAfter, RowsStay DEF LeftClosed, Others, wrote, RejectPending

LEMMA HubRestartStep == ASSUME IInv, HubRestart PROVE IInv'
<1>1. /\ sock' \in [Procs -> Sockets] /\ \A q \in Procs : sock'[q].up = <<>>
  <2>1. \A q \in Procs : sock[q].client \in BOOLEAN
    BY Parts DEF Queues, Sockets
  <2>2. \A b \in BOOLEAN : [Closed EXCEPT !.client = b] \in Sockets /\ [Closed EXCEPT !.client = b].up = <<>>
    BY EmptyQueue DEF Closed, Sockets
  <2> QED  BY <2>1, <2>2 DEF HubRestart
<1>2. Queues'
  BY <1>1, Parts, NoConnection, QueuesShrink DEF HubRestart
<1>3. Link'
  BY LinkForgotten DEF HubRestart
<1>4. Others'
  BY Parts, LinkAssumption DEF HubRestart, Others, wrote, LinkAssumption
<1> QED  BY <1>2, <1>3, <1>4, Parts, PartsAfter, RowsStay DEF HubRestart

-----------------------------------------------------------------------------
(* The hub reads *)

\* A frame that is read leaves the rest of its queue.
LEMMA ReadsType ==
  ASSUME IInv, NEW p \in Procs, NEW f, Reads(p, f)
  PROVE  /\ sock' \in [Procs -> Sockets]
         /\ \A q \in Procs : sock'[q].hub = sock[q].hub
         /\ \A q \in Procs \ {p} : sock'[q] = sock[q]
         /\ \A i \in DOMAIN sock'[p].up : sock'[p].up[i] \notin Credentials
<1>1. /\ sock[p] \in Sockets /\ sock[p].up # <<>>
      /\ sock' = [sock EXCEPT ![p] = [sock[p] EXCEPT !.up = Tail(sock[p].up)]]
      /\ sock \in [Procs -> Sockets]
  BY Parts DEF Reads, Queues
<1>2. Tail(sock[p].up) \in Seq(Frames) /\ \A i \in DOMAIN Tail(sock[p].up) : Tail(sock[p].up)[i] \notin Credentials
  BY <1>1, TailType, Parts DEF Queues
<1>3. [sock[p] EXCEPT !.up = Tail(sock[p].up)] \in Sockets
  BY <1>1, <1>2 DEF Sockets
<1> QED  BY <1>1, <1>2, <1>3 DEF Sockets

LEMMA ReadsQueues ==
  ASSUME IInv, NEW p \in Procs, NEW f, Reads(p, f), \A q \in Procs : IsConn(q)' => IsConn(q)
  PROVE  Queues'
<1>1. \A q \in Procs : IsConn(q)' => IsConn(q) /\ sock'[q].hub # "closed"
  BY ReadsType, Parts DEF Queues
<1>2. \A q \in Procs : \A i \in DOMAIN sock'[q].up :
        sock'[q].up[i] \in Credentials => i \in DOMAIN sock[q].up /\ sock[q].up[i] = sock'[q].up[i]
  BY ReadsType
<1> QED  BY <1>1, <1>2, ReadsType, Parts, QueuesShrink

\* The connection is bound to the newest launch: what the hub writes to the
\* table on its behalf is about that launch.
LEMMA ConnectionsLaunch ==
  ASSUME IInv, conn # None, conn.launch # 0
  PROVE  conn.launch \in Nat /\ conn.launch = Len(row)
BY Parts, LinkAssumption DEF Link, Connections, LinkAssumption

LEMMA IgnoredStep == ASSUME IInv, NEW p \in Procs, Ignored(p) PROVE IInv'
<1> PICK f \in Frames \ Credentials : Reads(p, f)
  BY DEF Ignored
<1>1. Queues'
  BY ReadsQueues, SameConnection DEF Ignored, hub
<1> QED  BY <1>1, Parts, PartsAfter, RowsStay, LinkStays DEF Ignored, Reads, Others, wrote

LEMMA ActivityStep == ASSUME IInv, NEW p \in Procs, Activity(p) PROVE IInv'
<1>1. Queues'
  BY ReadsQueues, SameConnection DEF Activity
<1>2. Link'
  <2>1. conn # None
    BY DEF Activity, IsConn
  <2> QED  BY <2>1, Parts DEF Activity, Link, Connections
<1> QED  BY <1>1, <1>2, Parts, PartsAfter, RowsStay DEF Activity, Reads, Others, wrote

LEMMA ChildExitStep == ASSUME IInv, NEW p \in Procs, ChildExitRead(p) PROVE IInv'
<1>1. Queues'
  BY ReadsQueues, NoConnection DEF ChildExitRead
<1>2. Link'
  BY LinkForgotten DEF ChildExitRead
<1>3. Rows'
  <2>1. conn # None
    BY DEF ChildExitRead, IsConn
  <2>2. CASE conn.launch # 0
    BY <2>1, <2>2, ConnectionsLaunch, SetStatusType DEF ChildExitRead, IInv, Rows, TypeOK
  <2>3. CASE conn.launch = 0
    BY <2>3, Parts, RowsStay DEF ChildExitRead
  <2> QED  BY <2>2, <2>3
<1> QED  BY <1>1, <1>2, <1>3, Parts, PartsAfter DEF ChildExitRead, Reads, Others, wrote, RejectPending

LEMMA RegisterAckStep == ASSUME IInv, NEW p \in Procs, RegisterAck(p) PROVE IInv'
<1>1. Queues'
  BY ReadsQueues, SameConnection DEF RegisterAck, hub
<1>2. Rows' /\ Len(row') = Len(row)
  <2>1. conn # None
    BY DEF RegisterAck, IsConn
  <2>2. CASE conn.launch # 0 /\ VerifySession(conn.launch)
    BY <2>1, <2>2, ConnectionsLaunch, SetStatusType DEF RegisterAck, TouchRegistered, VerifySession, IInv, Rows, TypeOK
  <2>3. CASE ~(conn.launch # 0 /\ VerifySession(conn.launch))
    BY <2>3, Parts, RowsStay DEF RegisterAck
  <2> QED  BY <2>2, <2>3
<1> QED  BY <1>1, <1>2, Parts, PartsAfter, LinkStays DEF RegisterAck, Reads, Others, wrote

LEMMA AckStep == ASSUME IInv, NEW p \in Procs, Ack(p) \/ Nack(p) PROVE IInv'
<1>1. Queues'
  BY ReadsQueues, SameConnection DEF Ack, Nack, hub
<1> QED  BY <1>1, Parts, PartsAfter, RowsStay, LinkStays DEF Ack, Nack, Reads, Others, wrote

\* The supervisor registers as its first frame: nothing behind it is a
\* register, and its socket is not the connection's.
LEMMA RegisterIsFirst ==
  ASSUME IInv, NEW p \in Procs, sock[p].hub = "open", sock[p].up # <<>>, Head(sock[p].up) \in Credentials
  PROVE  ~IsConn(p) /\ (Head(sock[p].up) = "manual" <=> p = Manual)
<1>1. sock[p].up \in Seq(Frames)
  BY Parts DEF Queues, Sockets
<1>2. 1 \in DOMAIN sock[p].up /\ sock[p].up[1] = Head(sock[p].up)
  BY <1>1
<1> QED  BY <1>2, Parts DEF Queues

\* The connection before is closed, unless the client has left it.
LEMMA CloseConnType ==
  ASSUME IInv
  PROVE  /\ CloseConn(sock) \in [Procs -> Sockets]
         /\ \A q \in Procs : CloseConn(sock)[q].up \in {sock[q].up, <<>>}
         /\ \A q \in Procs : ~IsConn(q) => CloseConn(sock)[q] = sock[q]
<1>1. CASE conn = None \/ (conn # None /\ conn.left)
  BY <1>1, Parts DEF CloseConn, Queues
<1>2. CASE conn # None /\ ~conn.left
  <2>1. conn.proc \in Procs
    BY <1>2, Parts DEF Link, Connections
  <2>2. CloseConn(sock) = HubEnd(sock, conn.proc)
    BY <1>2 DEF CloseConn
  <2> QED  BY <1>2, <2>1, <2>2, HubEndType, Parts DEF Queues, IsConn
<1> QED  BY <1>1, <1>2

\* A launch that authenticates is in use, and so is the newest.
LEMMA AuthenticatedIsNewest ==
  ASSUME IInv, NEW p \in Procs, NEW cred \in {"session", "bootstrap"}, Authenticated(p, cred)
  PROVE  p \in Nat /\ p # 0 /\ Outstanding(p) /\ p = Len(row) /\ p \in 0..MaxLaunch
<1>1. Outstanding(p)
  BY DEF Authenticated, VerifySession, VerifyBootstrap, Outstanding
<1>2. p \in DOMAIN row /\ p = Len(row) /\ Len(row) \in Nat /\ DOMAIN row = 1..Len(row) /\ Len(row) <= MaxLaunch
  BY <1>1, Parts DEF Outstanding, Rows
<1> QED  BY <1>1, <1>2, LinkAssumption DEF LinkAssumption

LEMMA AcceptStep ==
  ASSUME IInv, NEW p \in Procs, sock[p].hub = "open", sock[p].up # <<>>, NEW cred \in Credentials,
         cred = Head(sock[p].up), AcceptRegister(p, cred)
  PROVE  IInv'
<1>1. ~IsConn(p) /\ (cred = "manual" <=> p = Manual)
  BY RegisterIsFirst
<1>2. Authenticated(p, cred) /\ ~Retained(cred)
  BY DEF AcceptRegister
<1>3. Rows' /\ Len(row') = Len(row)
  <2>1. CASE cred = "session"
    BY <1>2, <2>1, AuthenticatedIsNewest, SetStatusType DEF AcceptRegister, TouchRegistered, IInv, Rows, TypeOK
  <2>2. CASE cred = "bootstrap"
    <3>1. Outstanding(p) /\ p \in DOMAIN row
      BY <1>2, <2>2, AuthenticatedIsNewest DEF Outstanding
    <3>2. row' = [row EXCEPT ![p] = [row[p] EXCEPT !.minted = TRUE]]
      BY <2>2 DEF AcceptRegister, ActivateWithSession
    <3>3. Len(row) \in Nat /\ DOMAIN row = 1..Len(row) /\ \A k \in DOMAIN row : row[k] \in LaunchRows
      BY Parts DEF Rows
    <3>4. [row[p] EXCEPT !.minted = TRUE] \in LaunchRows /\ [row[p] EXCEPT !.minted = TRUE].status = row[p].status
      BY <3>1, <3>3 DEF LaunchRows
    <3>5. row' \in [1..Len(row) -> LaunchRows] /\ \A k \in 1..Len(row) : row'[k].status = row[k].status
      BY <3>1, <3>2, <3>3, <3>4
    <3>6. row' \in Seq(LaunchRows) /\ Len(row') = Len(row)
      BY <3>3, <3>5
    <3> QED  BY <3>3, <3>5, <3>6, Parts DEF Rows, Outstanding
  <2>3. CASE cred = "manual"
    BY <2>3, Parts, RowsStay DEF AcceptRegister
  <2> QED  BY <2>1, <2>2, <2>3 DEF Credentials
<1>4. Link'
  <2>1. conn' = [proc |-> p, launch |-> p, bound |-> cred # "manual" \/ ~ScopedAuth, left |-> FALSE]
    BY DEF AcceptRegister
  <2>2. p \in 0..MaxLaunch
    BY LinkAssumption DEF Procs, Launches, Manual, LinkAssumption
  <2>3. conn' \in Connections /\ conn' # None
    <3>1. \A b \in BOOLEAN : [proc |-> p, launch |-> p, bound |-> b, left |-> FALSE] \in Connections
      BY <2>2 DEF Connections
    <3>2. (cred # "manual" \/ ~ScopedAuth) \in BOOLEAN
      OBVIOUS
    <3> QED  BY <2>1, <3>1, <3>2, ConnectionsAreSome
  <2>4. tier0' = tier0 /\ exited' = FALSE
    BY DEF AcceptRegister
  <2>5. conn'.launch # 0 => conn'.bound /\ conn'.launch = Len(row)
    BY <1>1, <1>2, <2>1, AuthenticatedIsNewest DEF Manual, Credentials
  <2>6. tier0 => conn'.bound
    BY <1>2, <2>1, Parts DEF Retained, Link
  <2>7. ScopedAuth /\ conn'.bound => conn'.launch # 0
    BY <1>1, <2>1 DEF Manual
  <2> QED  BY <1>3, <2>3, <2>4, <2>5, <2>6, <2>7, Parts DEF Link
<1>5. Queues'
  <2> DEFINE so == CloseConn(sock)
             answer == IF cred = "bootstrap" THEN "issued" ELSE "registered"
             new == [so[p] EXCEPT !.up = Tail(so[p].up), !.down = Append(so[p].down, answer)]
  <2>1. so \in [Procs -> Sockets] /\ so[p] = sock[p] /\ \A q \in Procs : so[q].up \in {sock[q].up, <<>>}
    BY <1>1, CloseConnType
  <2>2. sock' = [so EXCEPT ![p] = new]
    BY DEF AcceptRegister
  <2>3. Tail(so[p].up) \in Seq(Frames) /\ \A i \in DOMAIN Tail(so[p].up) : Tail(so[p].up)[i] \notin Credentials
    BY <2>1, TailType, Parts DEF Queues
  <2>4. Append(so[p].down, answer) \in Seq(Frames)
    <3>1. so[p].down \in Seq(Frames) /\ answer \in Frames
      BY <2>1 DEF Sockets, Frames
    <3> QED  BY <3>1
  <2>5. new \in Sockets /\ new.up = Tail(so[p].up) /\ new.hub = "open"
    BY <2>1, <2>3, <2>4 DEF Sockets
  <2>6. \A q \in Procs : IsConn(q)' => q = p
    BY DEF IsConn, AcceptRegister
  <2>7. sock'[p] = new /\ \A q \in Procs \ {p} : sock'[q].up \in {sock[q].up, <<>>}
    BY <2>1, <2>2
  <2>8. sock' \in [Procs -> Sockets]
    BY <2>1, <2>2, <2>5
  <2>9. \A q \in Procs \ {p} : \A i \in DOMAIN sock'[q].up :
          sock'[q].up[i] \in Credentials => i = 1 /\ ~IsConn(q)' /\ (sock'[q].up[i] = "manual" <=> q = Manual)
    BY <2>6, <2>7, Parts DEF Queues
  <2> QED  BY <2>3, <2>5, <2>6, <2>7, <2>8, <2>9 DEF Queues
<1>6. Others'
  BY Parts DEF AcceptRegister, Others, wrote, RejectPending
<1> QED  BY <1>3, <1>4, <1>5, <1>6, PartsAfter

LEMMA RejectStep ==
  ASSUME IInv, NEW p \in Procs, sock[p].hub = "open", sock[p].up # <<>>, Head(sock[p].up) \in Credentials,
         NEW cred, RejectRegister(p, cred)
  PROVE  IInv'
<1>1. ~IsConn(p)
  BY RegisterIsFirst
<1>2. /\ sock' \in [Procs -> Sockets] /\ sock'[p].up = <<>> /\ \A q \in Procs \ {p} : sock'[q] = sock[q]
  BY HubEndType, Parts DEF RejectRegister, Refuse, Queues
<1>3. \A q \in Procs : IsConn(q)' => IsConn(q) /\ q # p
  BY <1>1, SameConnection DEF RejectRegister, hub
<1>4. Queues'
  BY <1>2, <1>3, Parts, QueuesShrink DEF Queues
<1> QED  BY <1>4, Parts, PartsAfter, RowsStay, LinkStays DEF RejectRegister, Others, prompt, wrote

LEMMA HubReadsStep == ASSUME IInv, NEW p \in Procs, HubReads(p) PROVE IInv'
BY AcceptStep, RejectStep, IgnoredStep, ActivityStep, ChildExitStep, RegisterAckStep, AckStep DEF HubReads, Register

-----------------------------------------------------------------------------
(* The steps of a supervisor, its client and the sender of a prompt *)

\* A process is changed, its socket and the hub are not.
LEMMA StartStep == ASSUME IInv, NEW p \in Procs, Start(p) PROVE IInv'
<1>1. Others'
  BY Parts DEF Start, Others, Processes, Running, prompt, wrote
<1> QED  BY <1>1, Parts, PartsAfter, RowsStay, LinkStays, QueuesStay, SameConnection DEF Start, hub

\* A new socket, on which the client registers; the one it had is left.
LEMMA ConnectStep == ASSUME IInv, NEW p \in Procs, Connect(p) PROVE IInv'
<1>1. Credential(p) \in Credentials /\ (Credential(p) = "manual" <=> p = Manual)
  BY DEF Credential, Credentials
<1>2. ~IsConn(p)' /\ \A q \in Procs : IsConn(q)' => IsConn(q)
  <2>1. CASE IsConn(p)
    <3>1. conn \in Connections /\ conn' = [conn EXCEPT !.left = TRUE]
      BY <2>1, Parts DEF Connect, Link, IsConn
    <3>2. conn'.left
      BY <3>1 DEF Connections
    <3> QED  BY <3>2 DEF IsConn
  <2>2. CASE ~IsConn(p)
    BY <2>2, SameConnection DEF Connect
  <2> QED  BY <2>1, <2>2
<1>3. Link'
  <2>1. CASE IsConn(p)
    <3>1. conn # None /\ conn \in Connections /\ conn' = [conn EXCEPT !.left = TRUE]
      BY <2>1, Parts DEF Connect, Link, IsConn
    <3>2. /\ conn' \in Connections /\ conn' # None /\ conn'.bound = conn.bound /\ conn'.launch = conn.launch
      BY <3>1, ConnectionsAreSome DEF Connections
    <3> QED  BY <3>1, <3>2, Parts DEF Connect, Link
  <2>2. CASE ~IsConn(p)
    BY <2>2, Parts DEF Connect, Link
  <2> QED  BY <2>1, <2>2
<1>4. Queues'
  <2> DEFINE new == [client |-> TRUE, hub |-> "open", up |-> <<Credential(p)>>, down |-> <<>>]
  <2>1. new \in Sockets
    <3>1. <<Credential(p)>> \in Seq(Frames)
      BY <1>1 DEF Frames
    <3> QED  BY <3>1, EmptyQueue DEF Sockets
  <2>2. sock' = [sock EXCEPT ![p] = new] /\ sock \in [Procs -> Sockets]
    BY Parts DEF Connect, Queues
  <2>3. sock' \in [Procs -> Sockets] /\ sock'[p] = new /\ \A q \in Procs \ {p} : sock'[q] = sock[q]
    BY <2>1, <2>2
  <2>4. \A i \in DOMAIN new.up : i = 1 /\ new.up[i] = Credential(p)
    OBVIOUS
  <2>5. \A q \in Procs : IsConn(q)' => sock'[q].hub # "closed"
    BY <1>2, <2>3, Parts DEF Queues
  <2>6. \A q \in Procs : \A i \in DOMAIN sock'[q].up :
          sock'[q].up[i] \in Credentials => i = 1 /\ ~IsConn(q)' /\ (sock'[q].up[i] = "manual" <=> q = Manual)
    BY <1>1, <1>2, <2>3, <2>4, Parts DEF Queues
  <2> QED  BY <2>3, <2>5, <2>6 DEF Queues
<1>5. Others'
  BY Parts DEF Connect, Others, prompt, wrote
<1> QED  BY <1>3, <1>4, <1>5, Parts, PartsAfter, RowsStay DEF Connect

\* What a client writes after it has registered, and its end of the socket,
\* leave the registers and the hub's end as they are.
LEMMA ClientQueues ==
  ASSUME IInv, UNCHANGED conn, sock' \in [Procs -> Sockets],
         \A q \in Procs : sock'[q].hub = sock[q].hub,
         \A q \in Procs : \A i \in DOMAIN sock'[q].up :
           sock'[q].up[i] \in Credentials => i \in DOMAIN sock[q].up /\ sock[q].up[i] = sock'[q].up[i]
  PROVE  Queues'
BY Parts, SameConnection, QueuesShrink DEF Queues

\* The frame at the head of what the hub sent is taken off.
LEMMA ReceivesType ==
  ASSUME IInv, NEW p \in Procs, sock[p].down # <<>>
  PROVE  LET so == [sock EXCEPT ![p].down = Tail(@)]
         IN  so \in [Procs -> Sockets] /\ \A q \in Procs : so[q].hub = sock[q].hub /\ so[q].up = sock[q].up
<1>1. sock[p] \in Sockets /\ Tail(sock[p].down) \in Seq(Frames)
  BY Parts DEF Queues, Sockets
<1>2. [sock[p] EXCEPT !.down = Tail(sock[p].down)] \in Sockets
  BY <1>1 DEF Sockets
<1>3. /\ [sock[p] EXCEPT !.down = Tail(sock[p].down)].hub = sock[p].hub
      /\ [sock[p] EXCEPT !.down = Tail(sock[p].down)].up = sock[p].up
  BY <1>1 DEF Sockets
<1> QED  BY <1>2, <1>3, Parts DEF Queues

\* Queues put together are a queue.
LEMMA ThreeParts ==
  ASSUME NEW S, NEW a \in Seq(S), NEW b \in Seq(S), NEW c \in Seq(S)
  PROVE  a \o b \o c \in Seq(S)
OBVIOUS

LEMMA RegisteredStep == ASSUME IInv, NEW p \in Procs, Registered(p) PROVE IInv'
<1> DEFINE issued == Head(sock[p].down) = "issued"
           so == [sock EXCEPT ![p].down = Tail(@)]
           confirm == IF issued THEN <<"register_ack">> ELSE <<>>
           exit == IF proc[p].held THEN <<"child_exit">> ELSE <<>>
           fs == confirm \o exit \o <<"activity">>
<1>1. sock[p].down # <<>> /\ UNCHANGED <<row, hub, resolved, prompt, faults>>
  BY DEF Registered, Receives
<1>2. so \in [Procs -> Sockets] /\ \A q \in Procs : so[q].hub = sock[q].hub /\ so[q].up = sock[q].up
  BY <1>1, ReceivesType
<1>3. fs \in Seq(Frames \ Credentials)
  <2> DEFINE Reports == Frames \ Credentials
  <2>1. {"register_ack", "child_exit", "activity"} \subseteq Reports
    BY DEF Frames, Credentials
  <2>2. <<>> \in Seq(Reports) /\ \A f \in Reports : <<f>> \in Seq(Reports)
    OBVIOUS
  <2>3. confirm \in Seq(Reports) /\ exit \in Seq(Reports) /\ <<"activity">> \in Seq(Reports)
    BY <2>1, <2>2
  <2> HIDE DEF Reports, confirm, exit
  <2>4. fs \in Seq(Reports)
    BY <2>3, ThreeParts
  <2> QED  BY <2>4 DEF Reports
<1>4. sock' = Write(so, p, fs)
  BY DEF Registered
<1>5. Queues'
  <2> HIDE DEF so, fs
  <2>1. UNCHANGED conn
    BY <1>1 DEF hub
  <2> QED  BY <1>2, <1>3, <1>4, <2>1, WriteType, ClientQueues
<1>6. Others'
  <2>1. proc[p] \in Processes
    BY Parts DEF Others
  <2>2. proc' = [proc EXCEPT ![p] = [proc[p] EXCEPT !.registered = TRUE, !.held = FALSE, !.token = proc[p].token \/ issued]]
    BY Parts DEF Registered, Others, Processes
  <2>3. (proc[p].token \/ issued) \in BOOLEAN
    OBVIOUS
  <2>4. [proc[p] EXCEPT !.registered = TRUE, !.held = FALSE, !.token = proc[p].token \/ issued] \in Processes
    BY <2>1, <2>3 DEF Processes
  <2> QED  BY <1>1, <2>2, <2>4, Parts DEF Others, prompt, wrote
<1> QED  BY <1>1, <1>5, <1>6, Parts, PartsAfter, RowsStay, LinkStays

LEMMA InjectedStep == ASSUME IInv, NEW p \in Procs, Injected(p) PROVE IInv'
<1>1. sock[p].down # <<>> /\ UNCHANGED <<row, hub, resolved, prompt, faults>>
  BY DEF Injected, Receives
<1>2. Queues'
  <2>1. sock' = [sock EXCEPT ![p].down = Tail(@)] /\ UNCHANGED conn
    BY <1>1 DEF Injected, hub
  <2>2. sock' \in [Procs -> Sockets] /\ \A q \in Procs : sock'[q].hub = sock[q].hub /\ sock'[q].up = sock[q].up
    BY <1>1, <2>1, ReceivesType
  <2> QED  BY <2>1, <2>2, ClientQueues
<1>3. Others'
  <2>1. proc[p] \in Processes /\ proc' = [proc EXCEPT ![p] = [proc[p] EXCEPT !.inject = "ready"]]
    BY Parts DEF Injected, Others
  <2>2. [proc[p] EXCEPT !.inject = "ready"] \in Processes
    BY <2>1 DEF Processes
  <2> QED  BY <1>1, <2>1, <2>2, Parts DEF Others, prompt, wrote
<1> QED  BY <1>1, <1>2, <1>3, Parts, PartsAfter, RowsStay, LinkStays

\* One frame written by the client of a process.
LEMMA WriteQueues ==
  ASSUME IInv, NEW p \in Procs, NEW f \in Frames \ Credentials, UNCHANGED hub, sock' = Write(sock, p, <<f>>)
  PROVE  Queues'
<1> DEFINE fs == <<f>>
<1>1. fs \in Seq(Frames \ Credentials) /\ sock \in [Procs -> Sockets] /\ UNCHANGED conn /\ sock' = Write(sock, p, fs)
  BY Parts DEF Queues, hub
<1> HIDE DEF fs
<1>2. /\ Write(sock, p, fs) \in [Procs -> Sockets]
      /\ \A q \in Procs : Write(sock, p, fs)[q].hub = sock[q].hub
      /\ \A q \in Procs : \A i \in DOMAIN Write(sock, p, fs)[q].up :
           Write(sock, p, fs)[q].up[i] \in Credentials
             => i \in DOMAIN sock[q].up /\ sock[q].up[i] = Write(sock, p, fs)[q].up[i]
  <2>1. sock \in [Procs -> Sockets] /\ fs \in Seq(Frames \ Credentials)
    BY <1>1
  <2> QED  BY <2>1, WriteType
<1> QED  BY <1>1, <1>2, ClientQueues

\* A command that is answered leaves its client.
LEMMA AnswersStep ==
  ASSUME IInv, NEW p \in Procs, NEW f \in {"ack", "nack"}, Answers(p, f), UNCHANGED <<row, hub, resolved, cmd, faults>>,
         typed' \in [Procs -> Nat], submitted' \in Nat
  PROVE  IInv'
<1>1. Queues'
  <2>1. f \in Frames \ Credentials
    BY DEF Frames, Credentials
  <2> QED  BY <2>1, WriteQueues DEF Answers
<1>2. Others'
  <2>1. proc[p] \in Processes /\ proc' = [proc EXCEPT ![p] = [proc[p] EXCEPT !.inject = "no"]]
    BY Parts DEF Answers, Others
  <2>2. [proc[p] EXCEPT !.inject = "no"] \in Processes
    BY <2>1 DEF Processes
  <2> QED  BY <2>1, <2>2, Parts DEF Others
<1> QED  BY <1>1, <1>2, Parts, PartsAfter, RowsStay, LinkStays

LEMMA PasteStep == ASSUME IInv, NEW p \in Procs, Paste(p) PROVE IInv'
<1>1. typed' \in [Procs -> Nat] /\ submitted' \in Nat /\ UNCHANGED <<row, hub, resolved, cmd, faults>>
  BY Parts DEF Paste, Others
<1>2. CASE Answers(p, "nack")
  BY <1>1, <1>2, AnswersStep
<1>3. CASE proc' = [proc EXCEPT ![p].inject = "pasted"] /\ sock' = sock
  <2>1. proc[p] \in Processes /\ proc' = [proc EXCEPT ![p] = [proc[p] EXCEPT !.inject = "pasted"]]
    BY <1>3, Parts DEF Others
  <2>2. [proc[p] EXCEPT !.inject = "pasted"] \in Processes
    BY <2>1 DEF Processes
  <2>3. Others'
    BY <1>1, <2>1, <2>2, Parts DEF Others
  <2> QED  BY <1>1, <1>3, <2>3, Parts, PartsAfter, RowsStay, LinkStays, QueuesStay, SameConnection DEF hub
<1> QED  BY <1>2, <1>3 DEF Paste

LEMMA EnterStep == ASSUME IInv, NEW p \in Procs, Enter(p) PROVE IInv'
<1>1. typed' \in [Procs -> Nat] /\ submitted' \in Nat /\ UNCHANGED <<row, hub, resolved, cmd, faults>>
  BY Parts DEF Enter, Others
<1> QED  BY <1>1, AnswersStep DEF Enter

LEMMA SendActivityStep == ASSUME IInv, NEW p \in Procs, SendActivity(p) PROVE IInv'
<1>1. Queues'
  <2>1. "activity" \in Frames \ Credentials
    BY DEF Frames, Credentials
  <2> QED  BY <2>1, WriteQueues DEF SendActivity
<1> QED  BY <1>1, Parts, PartsAfter, RowsStay, LinkStays DEF SendActivity, Others, prompt, wrote

LEMMA WorkerExitsStep == ASSUME IInv, NEW p \in Procs, WorkerExits(p) PROVE IInv'
<1>1. Others'
  BY Parts DEF WorkerExits, Others, Processes, Running, prompt, wrote
<1> QED  BY <1>1, Parts, PartsAfter, RowsStay, LinkStays, QueuesStay, SameConnection DEF WorkerExits, hub

LEMMA SendChildExitStep == ASSUME IInv, NEW p \in Procs, SendChildExit(p) PROVE IInv'
<1>1. Queues'
  <2>1. CASE proc[p].registered
    BY <2>1, WriteQueues DEF SendChildExit, Frames, Credentials
  <2>2. CASE ~proc[p].registered
    BY <2>2, Parts, QueuesStay, SameConnection DEF SendChildExit, hub
  <2> QED  BY <2>1, <2>2
<1>2. Others'
  <2>1. proc[p] \in Processes /\ proc[p].registered \in BOOLEAN
    BY Parts DEF Others, Processes
  <2>2. [proc[p] EXCEPT !.state = "exiting", !.held = ~proc[p].registered] \in Processes
    BY <2>1 DEF Processes, Running
  <2>3. proc' = [proc EXCEPT ![p] = [proc[p] EXCEPT !.state = "exiting", !.held = ~proc[p].registered]]
    BY DEF SendChildExit
  <2> QED  BY <2>2, <2>3, Parts DEF SendChildExit, Others, prompt, wrote
<1> QED  BY <1>1, <1>2, Parts, PartsAfter, RowsStay, LinkStays DEF SendChildExit

\* The client's end of a socket closes.
LEMMA ClientEndQueues ==
  ASSUME IInv, NEW p \in Procs, UNCHANGED hub, sock' = ClientEnd(sock, p)
  PROVE  Queues'
<1>1. sock \in [Procs -> Sockets] /\ UNCHANGED conn
  BY Parts DEF Queues, hub
<1>2. /\ sock' \in [Procs -> Sockets]
      /\ \A q \in Procs : sock'[q].hub = sock[q].hub /\ sock'[q].up \in {sock[q].up, <<>>}
  BY <1>1, ClientEndType
<1>3. \A q \in Procs : \A i \in DOMAIN sock'[q].up :
        sock'[q].up[i] \in Credentials => i \in DOMAIN sock[q].up /\ sock[q].up[i] = sock'[q].up[i]
  BY <1>2
<1> QED  BY <1>1, <1>2, <1>3, ClientQueues

LEMMA ProcessEndsStep == ASSUME IInv, NEW p \in Procs, ProcessEnds(p) PROVE IInv'
<1>1. Queues'
  BY ClientEndQueues DEF ProcessEnds
<1>2. Others'
  <2>1. [NoProcess EXCEPT !.state = "gone"] \in Processes
    BY DEF NoProcess, Processes
  <2> QED  BY <2>1, Parts DEF ProcessEnds, Others, prompt, wrote
<1> QED  BY <1>1, <1>2, Parts, PartsAfter, RowsStay, LinkStays DEF ProcessEnds

LEMMA DisconnectedStep == ASSUME IInv, NEW p \in Procs, ClientSees(p) \/ ClientLoses(p) PROVE IInv'
<1>1. Disconnected(p) /\ faults' \in 0..MaxFault
  BY Parts, LinkAssumption DEF ClientSees, ClientLoses, Others, LinkAssumption
<1>2. Queues'
  BY <1>1, ClientEndQueues DEF Disconnected
<1>3. Others'
  BY <1>1, Parts DEF Disconnected, Others, prompt, wrote, Processes
<1> QED  BY <1>1, <1>2, <1>3, Parts, PartsAfter, RowsStay, LinkStays DEF Disconnected

\* The prompt goes down the socket of the connection, or nowhere.
LEMMA SendPromptStep == ASSUME IInv, SendPrompt PROVE IInv'
<1>1. UNCHANGED <<row, hub, resolved, proc, wrote, faults>> /\ cmd' \in {"waiting", "fallback"}
  BY DEF SendPrompt
<1>2. \/ sock' = sock
      \/ conn # None /\ sock' = [sock EXCEPT ![conn.proc].down = Append(@, "inject")]
  BY DEF SendPrompt
<1>3. Queues'
  <2>1. CASE sock' = sock
    BY <1>1, <2>1, Parts, QueuesStay, SameConnection DEF hub
  <2>2. CASE conn # None /\ sock' = [sock EXCEPT ![conn.proc].down = Append(@, "inject")]
    <3> DEFINE p == conn.proc
               new == [sock[p] EXCEPT !.down = Append(sock[p].down, "inject")]
    <3>1. p \in Procs /\ sock[p] \in Sockets
      BY <2>2, Parts DEF Link, Connections, Queues
    <3>2. Append(sock[p].down, "inject") \in Seq(Frames)
      BY <3>1 DEF Sockets, Frames
    <3>3. new \in Sockets /\ new.hub = sock[p].hub /\ new.up = sock[p].up
      BY <3>1, <3>2 DEF Sockets
    <3>4. sock' = [sock EXCEPT ![p] = new]
      BY <2>2
    <3>5. /\ sock' \in [Procs -> Sockets]
          /\ \A q \in Procs : sock'[q].hub = sock[q].hub /\ sock'[q].up = sock[q].up
      BY <3>1, <3>3, <3>4, Parts DEF Queues
    <3> QED  BY <1>1, <3>5, ClientQueues DEF hub
  <2> QED  BY <1>2, <2>1, <2>2
<1> QED  BY <1>1, <1>3, Parts, PartsAfter, RowsStay, LinkStays DEF Others, wrote

LEMMA PromptEndsStep == ASSUME IInv, AckTimeout \/ TypeText \/ TypeEnter PROVE IInv'
<1>1. Others' /\ UNCHANGED <<row, hub, sock>>
  <2>1. CASE AckTimeout
    BY <2>1, Parts DEF AckTimeout, Others, wrote
  <2>2. CASE TypeText
    BY <2>2, Parts DEF TypeText, Others
  <2>3. CASE TypeEnter
    BY <2>3, Parts DEF TypeEnter, Others
  <2> QED  BY <2>1, <2>2, <2>3
<1> QED  BY <1>1, Parts, PartsAfter, RowsStay, LinkStays, QueuesStay, SameConnection DEF hub

-----------------------------------------------------------------------------
(* Theorems *)

LEMMA Initially == Init => IInv
<1> SUFFICES ASSUME Init PROVE IInv
  OBVIOUS
<1> USE LinkAssumption DEF LinkAssumption
<1>1. Rows
  BY DEF Init, Rows
<1>2. Link
  BY DEF Init, Link
<1>3. Queues
  BY EmptyQueue DEF Init, Queues, IsConn, Closed, Sockets
<1>4. Others
  BY DEF Init, Others, NoProcess, Processes
<1> QED  BY <1>1, <1>2, <1>3, <1>4, Parts

LEMMA EveryStep == IInv /\ [Next]_vars => IInv'
<1> SUFFICES ASSUME IInv, [Next]_vars PROVE IInv'
  OBVIOUS
<1>1. CASE HubActs
  BY <1>1, IssueLaunchStep, ClearExitMarkerStep, ResolveStep, ExpireStep, HubRestartStep, TimeToLiveStep,
     LeftClosedStep, HubReadsStep, HubLosesStep, SocketClosedStep DEF HubActs
<1>2. CASE ProcessActs
  BY <1>2, StartStep, ConnectStep, DisconnectedStep, RegisteredStep, InjectedStep, PasteStep, EnterStep,
     SendActivityStep, WorkerExitsStep, SendChildExitStep, ProcessEndsStep DEF ProcessActs
<1>3. CASE SendPrompt
  BY <1>3, SendPromptStep
<1>4. CASE AckTimeout \/ TypeText \/ TypeEnter
  BY <1>4, PromptEndsStep
<1>5. CASE UNCHANGED vars
  BY <1>5, Parts, PartsAfter, RowsStay, LinkStays, QueuesStay, SameConnection DEF vars, hub, prompt, wrote, Others
<1> QED  BY <1>1, <1>2, <1>3, <1>4, <1>5 DEF Next

\* What the table, the registry, the monitor and the sockets say of each other
\* holds in every state: the strengthening the next theorems follow from.
THEOREM Invariance == Spec => []IInv
BY Initially, EveryStep, PTL DEF Spec

\* The newest launch is the only one with authority, for every number of
\* launches and losses (SupervisorLaunchRepository, SupervisorRegistry.register).
THEOREM OneAuthority == Spec => []OnlyNewestLaunch
BY Invariance, PTL DEF IInv

\* The monitor has a verdict only from a connection that has authority
\* (SupervisorRegistry, the bridges in buildServer).
THEOREM MonitorFollows == Spec => []MonitorAgrees
BY Invariance, PTL DEF IInv

\* A supervisor started by hand never takes the place of a launched one
\* (SupervisorRegistry.register).
THEOREM LaunchedKeepsItsPlace == Spec => ByHandTakesNoPlace
<1>1. IInv /\ [Next]_vars
      => [conn # None /\ conn.launch # 0 /\ conn' # None /\ conn'.proc # conn.proc => conn'.launch # 0]_vars
  <2> SUFFICES ASSUME IInv, Next, conn # None, conn.launch # 0, conn' # None, conn'.proc # conn.proc
               PROVE  conn'.launch # 0
    BY DEF vars
  <2>1. conn \in Connections /\ conn.bound
    BY Parts DEF Link
  <2>2. ASSUME NEW p \in Procs, HubReads(p) PROVE conn'.launch # 0
    <3>1. PICK cred \in Credentials :
            sock[p].hub = "open" /\ sock[p].up # <<>> /\ cred = Head(sock[p].up) /\ AcceptRegister(p, cred)
      BY <2>2 DEF HubReads, Register, RejectRegister, Ignored, Activity, ChildExitRead, RegisterAck, Ack, Nack, Reads, hub
    <3>2. cred # "manual"
      BY <2>1, <3>1 DEF AcceptRegister, Retained
    <3>3. p # Manual
      BY <3>1, <3>2, RegisterIsFirst
    <3> QED  BY <3>1, <3>3 DEF AcceptRegister, Manual
  <2>3. ASSUME NEW p \in Procs, Connect(p) PROVE conn'.proc = conn.proc
    BY <2>1, <2>3 DEF Connect, Connections
  <2>4. CASE IssueLaunch
    BY <2>1, <2>4 DEF IssueLaunch, DowngradeToUnbound, Connections
  <2>5. CASE HubActs /\ ~IssueLaunch /\ ~(\E p \in Procs : HubReads(p))
    BY <2>5 DEF HubActs, ClearExitMarker, ResolveLaunchForExpiry, ExpireResolvedLaunch, HubRestart, TimeToLivePasses,
         LeftClosed, HubLoses, SocketClosed, hub
  <2>6. CASE ProcessActs /\ ~(\E p \in Procs : Connect(p))
    BY <2>6 DEF ProcessActs, Start, ClientSees, ClientLoses, Disconnected, Registered, Receives, Injected, Paste, Enter, Answers, WorkerExits,
         SendActivity, SendChildExit, ProcessEnds, hub
  <2>7. CASE SendPrompt \/ AckTimeout \/ TypeText \/ TypeEnter
    BY <2>7 DEF SendPrompt, AckTimeout, TypeText, TypeEnter, hub
  <2> QED  BY <2>2, <2>3, <2>4, <2>5, <2>6, <2>7 DEF Next
<1> QED  BY <1>1, Invariance, PTL DEF Spec, ByHandTakesNoPlace

\* The destruction of a window expires the launch it resolved before it began,
\* never one issued since (SupervisorRegistry.expireResolvedLaunch).
THEOREM DestructionIsItsOwn == Spec => ExpiresItsOwn
<1>1. IInv /\ [Next]_vars
      => [resolved # 0 /\ resolved' = 0 /\ faults' = faults
            => \A l \in DOMAIN row : row'[l] # row[l] => l = resolved]_vars
  <2> SUFFICES ASSUME IInv, Next, resolved # 0, resolved' = 0, faults' = faults,
                      NEW l \in DOMAIN row, row'[l] # row[l]
               PROVE  l = resolved
    BY DEF vars
  <2>1. CASE ExpireResolvedLaunch
    BY <2>1 DEF ExpireResolvedLaunch, ExpireResolved, SetStatus
  <2>2. CASE HubRestart
    BY <2>2, Parts, LinkAssumption DEF HubRestart, Others, LinkAssumption
  <2>3. CASE HubActs /\ ~ExpireResolvedLaunch /\ ~HubRestart
    BY ZenonT(30), <2>3, CurrentIsNewest DEF HubActs, IssueLaunch, ClearExitMarker, ResolveLaunchForExpiry, TimeToLivePasses,
         LeftClosed, HubLoses, SocketClosed, HubReads, Register, AcceptRegister, RejectRegister, Ignored, Activity,
         ChildExitRead, RegisterAck, Ack, Nack, Reads
  <2>4. CASE ProcessActs
    BY <2>4 DEF ProcessActs, Start, Connect, ClientSees, ClientLoses, Disconnected, Registered, Receives, Injected,
         Paste, Enter, Answers, WorkerExits, SendActivity, SendChildExit, ProcessEnds
  <2>5. CASE SendPrompt \/ AckTimeout \/ TypeText \/ TypeEnter
    BY <2>5 DEF SendPrompt, AckTimeout, TypeText, TypeEnter
  <2> QED  BY <2>1, <2>2, <2>3, <2>4, <2>5 DEF Next
<1> QED  BY <1>1, Invariance, PTL DEF Spec, ExpiresItsOwn

-----------------------------------------------------------------------------
(* The link keeps its promise *)

\* The life of a launch, and who is listened to, in the next state.
LEMMA Lives ==
  /\ \A l \in Launches : life[l] = IF l \notin DOMAIN row THEN "unissued" ELSE IF Outstanding(l) THEN "open" ELSE "over"
  /\ \A l \in Launches : life'[l] = IF l \notin DOMAIN row' THEN "unissued" ELSE IF Outstanding(l)' THEN "open" ELSE "over"
  /\ Promise!Launches = Launches
BY DEF life, Promise!Launches, Launches

\* Launches that stay in the table, in use or not.
LEMMA LifeStays ==
  ASSUME DOMAIN row' = DOMAIN row, \A l \in DOMAIN row : Outstanding(l)' <=> Outstanding(l)
  PROVE  life' = life
BY DEF life

LEMMA RowStays ==
  ASSUME UNCHANGED row
  PROVE  life' = life
BY LifeStays DEF Outstanding

\* A launch in use is used, and one that ends is over.
LEMMA UsedStays ==
  ASSUME IInv, NEW l \in DOMAIN row, Outstanding(l), SetStatus(l, "active")
  PROVE  life' = life
<1>1. row' = [row EXCEPT ![l] = [status |-> "active", minted |-> TRUE, fresh |-> FALSE]]
  BY DEF SetStatus
<1>2. DOMAIN row' = DOMAIN row
  BY <1>1
<1>3. \A k \in DOMAIN row : Outstanding(k)' <=> Outstanding(k)
  BY <1>1, <1>2 DEF Outstanding
<1> QED  BY <1>2, <1>3, LifeStays

LEMMA EndedIsOver ==
  ASSUME IInv, NEW l \in DOMAIN row, SetStatus(l, "expired")
  PROVE  life' = [life EXCEPT ![l] = "over"] /\ l \in Launches
<1>1. row' = [row EXCEPT ![l] = [status |-> "expired", minted |-> FALSE, fresh |-> FALSE]]
  BY DEF SetStatus
<1>2. DOMAIN row' = DOMAIN row
  BY <1>1
<1>3. \A k \in DOMAIN row : Outstanding(k)' <=> (Outstanding(k) /\ k # l)
  BY <1>1, <1>2 DEF Outstanding
<1>4. l \in Launches
  BY Parts, LinkAssumption DEF Rows, Launches, LinkAssumption
<1> QED  BY <1>2, <1>3, <1>4 DEF life

\* A connection of no launch, or of the newest.
LEMMA HolderIs ==
  ASSUME IInv
  PROVE  holder = 0 \/ (holder \in DOMAIN row /\ holder \in Launches /\ conn # None /\ holder = conn.launch)
<1>1. CASE conn # None /\ conn.launch # 0
  <2>1. conn.launch \in Nat /\ conn.launch = Len(row) /\ Len(row) <= MaxLaunch /\ DOMAIN row = 1..Len(row)
    BY <1>1, ConnectionsLaunch, Parts DEF Rows
  <2> QED  BY <1>1, <2>1, LinkAssumption DEF holder, Launches, LinkAssumption
<1>2. CASE ~(conn # None /\ conn.launch # 0)
  BY <1>2 DEF holder
<1> QED  BY <1>1, <1>2

\* The connection changes neither its launch nor the table.
LEMMA Stutters ==
  ASSUME UNCHANGED row, UNCHANGED conn
  PROVE  UNCHANGED <<life, holder>>
BY RowStays DEF holder

LEMMA Releases ==
  ASSUME UNCHANGED row, conn' = None
  PROVE  Promise!Release
BY RowStays DEF Promise!Release, holder

\* A new launch.
LEMMA IssueRefines == ASSUME IInv, IssueLaunch PROVE \E l \in Launches : Promise!Issue(l)
<1> DEFINE new == Len(row) + 1
           old == [l \in DOMAIN row |->
                     IF Outstanding(l) THEN [status |-> "replaced", minted |-> FALSE, fresh |-> FALSE] ELSE row[l]]
<1>1. Len(row) \in Nat /\ DOMAIN row = 1..Len(row) /\ new \in Launches /\ Len(row) < MaxLaunch
  BY Parts, LinkAssumption DEF Rows, IssueLaunch, Launches, LinkAssumption
<1>2. /\ Len(row') = new /\ DOMAIN row' = 1..new
      /\ \A k \in DOMAIN row' : Outstanding(k)' <=> k = new
  <2>1. row' \in Seq(LaunchRows) /\ Len(row') = new /\ \A k \in DOMAIN row' : Outstanding(k)' => k = new
    BY SupersedeType, <1>1 DEF IssueLaunch, IInv
  <2>2. row' = Append(old, NewRow) /\ old \in Seq(LaunchRows) /\ Len(old) = Len(row)
    <3>1. \A l \in DOMAIN row : row[l] \in LaunchRows
      BY Parts DEF Rows
    <3>2. old \in [1..Len(row) -> LaunchRows]
      BY <1>1, <3>1 DEF LaunchRows
    <3> QED  BY <1>1, <3>2 DEF IssueLaunch, Supersede
  <2>3. row'[new] = NewRow
    BY <2>2, <1>1 DEF NewRow, LaunchRows
  <2>4. DOMAIN row' = 1..new
    BY <2>1
  <2>5. \A k \in DOMAIN row' : k = new => Outstanding(k)'
    BY <2>3 DEF Outstanding, NewRow
  <2> QED  BY <2>1, <2>4, <2>5
<1>3. holder' = 0
  <2>1. CASE conn # None /\ conn.bound
    <3>1. conn' = [conn EXCEPT !.bound = FALSE, !.launch = 0] /\ conn \in Connections
      BY <2>1, Parts DEF IssueLaunch, DowngradeToUnbound, Link
    <3>2. conn'.launch = 0
      BY <3>1 DEF Connections
    <3> QED  BY <3>2 DEF holder
  <2>2. CASE ~(conn # None /\ conn.bound)
    BY <2>2, Parts DEF IssueLaunch, DowngradeToUnbound, holder, Link
  <2> QED  BY <2>1, <2>2
<1>4. life[new] = "unissued" /\ \A k \in 1..(new - 1) : life[k] # "unissued"
  <2>1. new \notin DOMAIN row /\ \A k \in 1..(new - 1) : k \in DOMAIN row /\ k \in Launches
    BY <1>1, LinkAssumption DEF Launches, LinkAssumption
  <2> QED  BY <1>1, <2>1 DEF life
<1>5. life' = [k \in Launches |-> IF k = new THEN "open" ELSE IF life[k] = "open" THEN "over" ELSE life[k]]
  <2>1. \A k \in Launches : k \in DOMAIN row' <=> k \in DOMAIN row \/ k = new
    BY <1>1, <1>2 DEF Launches
  <2> HIDE DEF new
  <2> QED  BY <1>2, <2>1 DEF life
<1> HIDE DEF new
<1> QED  BY <1>1, <1>3, <1>4, <1>5 DEF Promise!Issue, Promise!Launches, Launches

\* The resolved launch expires: the open one ends, or one that was over stays so.
LEMMA ExpireRefines ==
  ASSUME IInv, ExpireResolvedLaunch
  PROVE  (\E l \in Launches : Promise!Expire(l)) \/ UNCHANGED <<life, holder>>
<1>1. SetStatus(resolved, "expired") /\ UNCHANGED holder
  BY DEF ExpireResolvedLaunch, ExpireResolved, hub, holder
<1>2. CASE resolved \in DOMAIN row
  <2>1. life' = [life EXCEPT ![resolved] = "over"] /\ resolved \in Launches
    BY <1>1, <1>2, EndedIsOver
  <2>2. CASE life[resolved] = "open"
    BY <1>1, <2>1, <2>2 DEF Promise!Expire
  <2>3. CASE life[resolved] # "open"
    <3>1. life[resolved] = "over"
      BY <1>2, <2>1, <2>3 DEF life
    <3>2. [life EXCEPT ![resolved] = "over"] = life
      BY <3>1 DEF life
    <3> QED  BY <1>1, <2>1, <3>2
  <2> QED  BY <2>2, <2>3
<1>3. CASE resolved \notin DOMAIN row
  <2>1. row' = row
    BY <1>1, <1>3, Parts DEF SetStatus, Rows
  <2> QED  BY <1>1, <2>1, RowStays
<1> QED  BY <1>2, <1>3

\* A supervisor registers: with the open launch, or as one started by hand.
LEMMA AcceptRefines ==
  ASSUME IInv, NEW p \in Procs, sock[p].hub = "open", sock[p].up # <<>>, NEW cred \in Credentials,
         cred = Head(sock[p].up), AcceptRegister(p, cred)
  PROVE  (\E l \in Launches : Promise!Take(l)) \/ UNCHANGED <<life, holder>>
<1>1. Authenticated(p, cred) /\ ~Retained(cred) /\ (cred = "manual" <=> p = Manual)
  BY RegisterIsFirst DEF AcceptRegister
<1>2. holder' = p
  <2>1. conn' = [proc |-> p, launch |-> p, bound |-> cred # "manual" \/ ~ScopedAuth, left |-> FALSE]
    BY DEF AcceptRegister
  <2>2. \A b \in BOOLEAN : [proc |-> p, launch |-> p, bound |-> b, left |-> FALSE] \in Connections
    BY LinkAssumption DEF Procs, Launches, Manual, Connections, LinkAssumption
  <2>3. conn' # None
    <3>1. (cred # "manual" \/ ~ScopedAuth) \in BOOLEAN
      OBVIOUS
    <3> QED  BY <2>1, <2>2, <3>1, ConnectionsAreSome
  <2> QED  BY <2>1, <2>3 DEF holder
<1>3. CASE cred = "manual"
  <2>1. p = 0 /\ row' = row
    BY <1>1, <1>3 DEF Manual, AcceptRegister
  <2>2. holder = 0
    BY <1>1, <1>3, Parts DEF Retained, holder, Link
  <2> QED  BY <1>2, <2>1, <2>2, RowStays
<1>4. CASE cred # "manual"
  <2>1. cred \in {"session", "bootstrap"} /\ p # Manual
    BY <1>1, <1>4 DEF Credentials
  <2>2. Outstanding(p) /\ p \in DOMAIN row /\ p \in Launches
    BY <1>1, <2>1, AuthenticatedIsNewest DEF Outstanding, Procs, Launches, Manual
  <2>3. life' = life
    <3>1. CASE cred = "session"
      BY <2>2, <3>1, UsedStays DEF AcceptRegister, TouchRegistered
    <3>2. CASE cred = "bootstrap"
      <4>1. row' = [row EXCEPT ![p] = [row[p] EXCEPT !.minted = TRUE]] /\ row[p] \in LaunchRows
        BY <2>2, <3>2, Parts DEF AcceptRegister, ActivateWithSession, Rows
      <4>2. [row[p] EXCEPT !.minted = TRUE].status = row[p].status
        BY <4>1 DEF LaunchRows
      <4>3. DOMAIN row' = DOMAIN row /\ \A k \in DOMAIN row : row'[k].status = row[k].status
        BY <4>1, <4>2
      <4> QED  BY <4>3, LifeStays DEF Outstanding
    <3> QED  BY <2>1, <3>1, <3>2
  <2>4. life[p] = "open"
    BY <2>2 DEF life
  <2> QED  BY <1>2, <2>2, <2>3, <2>4 DEF Promise!Take
<1> QED  BY <1>3, <1>4

\* A worker has exited: its launch, if it has one, is over.
LEMMA ExitRefines ==
  ASSUME IInv, NEW p \in Procs, ChildExitRead(p)
  PROVE  (\E l \in Launches : Promise!Exit(l)) \/ UNCHANGED <<life, holder>>
<1>1. conn # None /\ conn' = None /\ holder' = 0
  BY DEF ChildExitRead, IsConn, holder
<1>2. CASE conn.launch # 0
  <2>1. holder = conn.launch /\ holder \in DOMAIN row /\ holder \in Launches
    BY <1>1, <1>2, HolderIs DEF holder
  <2>2. SetStatus(holder, "expired")
    BY <1>2, <2>1 DEF ChildExitRead
  <2> QED  BY <1>1, <2>1, <2>2, EndedIsOver DEF Promise!Exit
<1>3. CASE conn.launch = 0
  BY <1>1, <1>3, RowStays DEF ChildExitRead, holder
<1> QED  BY <1>2, <1>3

LEMMA HubReadsRefines ==
  ASSUME IInv, NEW p \in Procs, HubReads(p)
  PROVE  (\E l \in Launches : Promise!Take(l) \/ Promise!Exit(l)) \/ UNCHANGED <<life, holder>>
<1>1. CASE Register(p)
  <2>1. CASE AcceptRegister(p, Head(sock[p].up))
    BY <1>1, <2>1, AcceptRefines DEF Register
  <2>2. CASE RejectRegister(p, Head(sock[p].up))
    BY <2>2, Stutters DEF RejectRegister, hub
  <2> QED  BY <1>1, <2>1, <2>2 DEF Register
<1>2. CASE ChildExitRead(p)
  BY <1>2, ExitRefines
<1>3. CASE RegisterAck(p)
  <2>1. conn # None /\ UNCHANGED conn
    BY <1>3 DEF RegisterAck, IsConn, hub
  <2>2. CASE conn.launch # 0 /\ VerifySession(conn.launch)
    <3>1. conn.launch \in DOMAIN row /\ Outstanding(conn.launch) /\ SetStatus(conn.launch, "active")
      BY <1>3, <2>2 DEF RegisterAck, VerifySession, Outstanding, TouchRegistered
    <3> QED  BY <2>1, <3>1, UsedStays DEF holder
  <2>3. CASE ~(conn.launch # 0 /\ VerifySession(conn.launch))
    BY <1>3, <2>1, <2>3, Stutters DEF RegisterAck
  <2> QED  BY <2>2, <2>3
<1>4. CASE Ignored(p) \/ Activity(p) \/ Ack(p) \/ Nack(p)
  BY <1>4, Stutters DEF Ignored, Activity, Ack, Nack, hub
<1> QED  BY <1>1, <1>2, <1>3, <1>4 DEF HubReads

LEMMA HubRefines ==
  ASSUME IInv, HubActs
  PROVE  Promise!Next \/ UNCHANGED <<life, holder>>
<1> USE Lives
<1>1. CASE IssueLaunch
  BY <1>1, IssueRefines DEF Promise!Next
<1>2. CASE ExpireResolvedLaunch
  BY <1>2, ExpireRefines DEF Promise!Next
<1>3. ASSUME NEW p \in Procs, HubReads(p) PROVE Promise!Next \/ UNCHANGED <<life, holder>>
  BY <1>3, HubReadsRefines DEF Promise!Next
<1>4. ASSUME NEW l \in DOMAIN row, TimeToLivePasses(l) PROVE UNCHANGED <<life, holder>>
  <2>1. row' = [row EXCEPT ![l] = [row[l] EXCEPT !.fresh = FALSE]] /\ UNCHANGED conn /\ row[l] \in LaunchRows
    BY <1>4, Parts DEF TimeToLivePasses, hub, Rows
  <2>2. [row[l] EXCEPT !.fresh = FALSE].status = row[l].status
    BY <2>1 DEF LaunchRows
  <2>3. DOMAIN row' = DOMAIN row /\ \A k \in DOMAIN row : row'[k].status = row[k].status
    BY <2>1, <2>2
  <2>4. life' = life
    BY <2>3, LifeStays DEF Outstanding
  <2> QED  BY <2>1, <2>4 DEF holder
<1>5. CASE HubRestart \/ LeftClosed \/ \E p \in Procs : SocketClosed(p) /\ IsConn(p)
  <2>1. UNCHANGED row /\ conn' = None
    BY <1>5 DEF HubRestart, LeftClosed, SocketClosed
  <2> QED  BY <2>1, Releases DEF Promise!Next
<1>6. CASE \/ ClearExitMarker \/ ResolveLaunchForExpiry
           \/ \E p \in Procs : HubLoses(p) \/ (SocketClosed(p) /\ ~IsConn(p))
  BY <1>6, Stutters DEF ClearExitMarker, ResolveLaunchForExpiry, HubLoses, SocketClosed, hub
<1> QED  BY <1>1, <1>2, <1>3, <1>4, <1>5, <1>6 DEF HubActs

LEMMA ProcessRefines ==
  ASSUME IInv, ProcessActs \/ SendPrompt \/ AckTimeout \/ TypeText \/ TypeEnter \/ UNCHANGED vars
  PROVE  UNCHANGED <<life, holder>>
<1>1. UNCHANGED row
  BY DEF ProcessActs, Start, Connect, ClientSees, ClientLoses, Disconnected, Registered, Receives, Injected, Paste, Enter, Answers, WorkerExits,
       SendActivity, SendChildExit, ProcessEnds, SendPrompt, AckTimeout, TypeText, TypeEnter, vars
<1>2. conn' = conn \/ \E p \in Procs : IsConn(p) /\ conn' = [conn EXCEPT !.left = TRUE]
  BY DEF ProcessActs, Start, Connect, ClientSees, ClientLoses, Disconnected, Registered, Receives, Injected, Paste, Enter, Answers, WorkerExits,
       SendActivity, SendChildExit, ProcessEnds, SendPrompt, AckTimeout, TypeText, TypeEnter, vars, hub
<1>3. CASE conn # None /\ conn' = [conn EXCEPT !.left = TRUE]
  <2>1. conn \in Connections
    BY <1>3, Parts DEF Link
  <2>2. conn' \in Connections /\ conn'.launch = conn.launch
    BY <1>3, <2>1 DEF Connections
  <2> QED  BY <1>1, <1>3, <2>2, RowStays, ConnectionsAreSome DEF holder
<1> QED  BY <1>1, <1>2, <1>3, Stutters DEF IsConn

\* For every number of launches, losses and frames: authority over the pane goes
\* from launch to launch as LaunchPromise says (SupervisorLaunchRepository,
\* SupervisorRegistry.register and what reads the frames of a connection).
THEOREM Refinement == Spec => AuthoritySpec
<1>1. Init => Promise!Init
  BY DEF Init, Promise!Init, life, holder, Promise!Launches, Launches
<1>2. IInv /\ [Next]_vars => [Promise!Next]_<<life, holder>>
  BY HubRefines, ProcessRefines DEF Next
<1> QED  BY <1>1, <1>2, Invariance, PTL DEF Spec, AuthoritySpec, Promise!Spec

\* A supervisor whose launch is over and that has lost its connection never gets
\* one for it again, whatever tokens it still has.
THEOREM OverForGood == Spec => Promise!NoReturn
<1>1. [Promise!Next]_<<life, holder>>
      => [\A l \in Promise!Launches : life[l] = "over" /\ holder # l => holder' # l]_<<life, holder>>
  <2> SUFFICES ASSUME Promise!Next, NEW l \in Launches, life[l] = "over", holder # l PROVE holder' # l
    BY Lives
  <2>1. 0 \notin Launches
    BY DEF Launches
  <2> QED  BY <2>1, Lives DEF Promise!Next, Promise!Issue, Promise!Take, Promise!Release, Promise!Expire, Promise!Exit
<1> QED  BY <1>1, Refinement, PTL DEF AuthoritySpec, Promise!Spec, Promise!NoReturn
=============================================================================
