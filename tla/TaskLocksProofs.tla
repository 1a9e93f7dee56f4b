--------------------------- MODULE TaskLocksProofs ---------------------------
(***************************************************************************)
(* The promise chains exclude each other and are fair, for any number of   *)
(* requests, tasks and servers.  Mutual exclusion alone is not inductive:  *)
(* the proof needs the order of arrival (ahead) and that each queue is a   *)
(* single chain in that order which ends at the map's entry.  That nobody  *)
(* is stuck rests on somebody always being the first, among any of those   *)
(* who wait, and on the two maps being apart.                              *)
(***************************************************************************)
EXTENDS TaskLocks, TLAPS

\* The guards of the two steps of a section are always read with them.
USE DEF MayStart, MaySettle

\* The maps are empty and nobody has come.
LEMMA InitInv == Init => IInv
BY LocksAssumption
   DEF Init, IInv, TypeOK, ArrivalOrder, PriorIsNext, TailIsLast, OnlyTheWaitingWait, SomeoneIsFirst,
       TwoMaps, Unsettled, U

\* A call that appends itself becomes the last of each queue it names.
LEMMA AppendKeeps ==
  ASSUME IInv, NEW p \in Promises, NEW ks \in SUBSET LocksOf(p), Append(p, ks)
  PROVE  IInv'
<1> USE DEF IInv
<1>0. ks \in SUBSET Locks
  BY DEF LocksOf, Locks
<1>1. Unsettled' = Unsettled \union {p} /\ p \notin Unsettled
  BY DEF Append, Unsettled, TypeOK
<1>2. TypeOK'
  BY <1>0, LocksAssumption DEF Append, TypeOK, Priors, Unsettled
<1>3. ahead' = [ahead EXCEPT ![p] = Unsettled] /\ ahead \in [Promises -> SUBSET Promises]
  BY DEF Append, TypeOK
<1>4. ArrivalOrder'
  BY <1>1, <1>3 DEF ArrivalOrder, Unsettled
<1>5. \A k \in Locks : U(k)' = IF k \in ks THEN U(k) \union {p} ELSE U(k)
  BY <1>1 DEF U, Append, TypeOK, Unsettled
<1>6. \A q \in Promises, k \in Locks :
        prior'[q][k] = IF q = p THEN (IF k \in ks /\ tail[k] \in Unsettled THEN tail[k] ELSE None)
                       ELSE prior[q][k]
  BY DEF Append, Priors, TypeOK
<1>7. \A k \in Locks : tail'[k] = IF k \in ks THEN p ELSE tail[k]
  BY DEF Append
<1>8. \A k \in Locks : tail[k] \in Unsettled => tail[k] \in U(k)
  BY LocksAssumption DEF TailIsLast, U, Unsettled, Promises
<1>9. ASSUME NEW k \in Locks, NEW q \in U(k)'
      PROVE  LET b == prior'[q][k] IN
             IF b = None
             THEN \A r \in U(k)' : r \notin ahead'[q]
             ELSE /\ b \in U(k)' /\ b \in ahead'[q]
                  /\ \A r \in U(k)' : r \in ahead'[q] => r = b \/ r \in ahead'[b]
  <2>1. CASE q = p
    <3>1. k \in ks /\ ahead'[p] = Unsettled
      BY <1>1, <1>3, <1>5, <2>1 DEF U
    <3>2. CASE tail[k] \in Unsettled
      BY <1>1, <1>3, <1>5, <1>6, <1>8, <2>1, <3>1, <3>2, LocksAssumption DEF TailIsLast, U, Promises, Unsettled
    <3>3. CASE tail[k] \notin Unsettled
      <4>1. U(k) = {}
        BY <3>3 DEF TailIsLast, U
      <4> QED  BY <1>1, <1>3, <1>5, <1>6, <2>1, <3>1, <3>3, <4>1
    <3> QED  BY <3>2, <3>3
  <2>2. CASE q # p
    <3>1. q \in U(k) /\ q \in Promises /\ ahead'[q] = ahead[q] /\ p \notin ahead[q]
      BY <1>1, <1>3, <1>5, <2>2 DEF U, Unsettled, ArrivalOrder
    <3>2. prior'[q][k] = prior[q][k]
      BY <1>6, <2>2, <3>1
    <3>3. prior[q][k] # None => prior[q][k] \in U(k) /\ prior[q][k] # p /\ prior[q][k] \in Promises
      BY <1>1, <3>1 DEF PriorIsNext, U, Unsettled
    <3> QED  BY <1>1, <1>3, <1>5, <3>1, <3>2, <3>3 DEF PriorIsNext
  <2> QED  BY <2>1, <2>2
<1>10. PriorIsNext'
  BY <1>9 DEF PriorIsNext
<1>11. TailIsLast'
  BY <1>1, <1>3, <1>5, <1>7, LocksAssumption DEF TailIsLast, Append, TypeOK, U, Unsettled, Promises
<1>12. OnlyTheWaitingWait'
  BY <1>6 DEF OnlyTheWaitingWait, Append, TypeOK
<1>13. SomeoneIsFirst'
  <2> SUFFICES ASSUME NEW S \in SUBSET Unsettled', S # {}
               PROVE  \E q \in S : ahead'[q] \intersect S = {}
    BY DEF SomeoneIsFirst
  <2>1. CASE S = {p}
    BY <1>1, <1>3, <2>1
  <2>2. CASE S # {p}
    <3>1. S \ {p} \in SUBSET Unsettled /\ S \ {p} # {}
      BY <1>1, <2>2
    <3>2. PICK q \in S \ {p} : ahead[q] \intersect (S \ {p}) = {}
      BY <3>1 DEF SomeoneIsFirst
    <3>3. q \in Promises /\ p \notin ahead[q] /\ ahead'[q] = ahead[q]
      BY <1>1, <1>3, <3>1, <3>2 DEF ArrivalOrder, Unsettled
    <3> QED  BY <3>2, <3>3
  <2> QED  BY <2>1, <2>2
<1>14. TwoMaps'
  BY DEF TwoMaps, Append, TypeOK
<1> QED  BY <1>2, <1>4, <1>10, <1>11, <1>12, <1>13, <1>14

\* A call starts only once it waits for nobody.
LEMMA StartKeeps ==
  ASSUME IInv, NEW p \in Promises, Start(p)
  PROVE  IInv'
<1> USE DEF IInv
<1>1. Unsettled' = Unsettled /\ UNCHANGED <<tail, keys, prior, ahead>>
  BY DEF Start, Unsettled, TypeOK
<1>2. TypeOK' /\ ArrivalOrder' /\ PriorIsNext'
  BY <1>1 DEF TypeOK, ArrivalOrder, PriorIsNext, Start, U
<1>3. TailIsLast'
  BY <1>1, LocksAssumption DEF TailIsLast, U, Start, TypeOK, Promises
<1>4. OnlyTheWaitingWait'
  BY <1>1 DEF OnlyTheWaitingWait, Start, TypeOK
<1>5. SomeoneIsFirst' /\ TwoMaps'
  BY <1>1 DEF SomeoneIsFirst, TwoMaps, LocksOf
<1> QED  BY <1>2, <1>3, <1>4, <1>5

\* A section that ends was the first of its queues; the next one in each, if
\* any, becomes the first.
LEMMA SettleKeeps ==
  ASSUME IInv, NEW p \in Promises, Settle(p)
  PROVE  IInv'
<1> USE DEF IInv
<1>1. p \in Unsettled /\ Unsettled' = Unsettled \ {p} /\ UNCHANGED <<tail, keys>>
  BY DEF Settle, Unsettled, TypeOK
<1>2. p # None /\ \A k \in Locks : prior[p][k] = None
  BY LocksAssumption DEF Settle, OnlyTheWaitingWait, Promises
<1>3. TypeOK'
  BY DEF Settle, TypeOK
<1>4. \A q \in Promises : ahead'[q] = IF q = p THEN {} ELSE ahead[q] \ {p}
  BY DEF Settle
<1>5. ArrivalOrder'
  <2>1. \A q \in Promises : ahead'[q] \subseteq Unsettled' /\ q \notin ahead'[q]
    <3> SUFFICES ASSUME NEW q \in Promises PROVE ahead'[q] \subseteq Unsettled' /\ q \notin ahead'[q]
      OBVIOUS
    <3>1. ahead[q] \subseteq Unsettled /\ q \notin ahead[q]
      BY DEF ArrivalOrder
    <3>2. CASE q = p
      BY <1>4, <3>2
    <3>3. CASE q # p
      <4>1. ahead'[q] = ahead[q] \ {p}
        BY <1>4, <3>3
      <4> QED  BY <1>1, <3>1, <4>1
    <3> QED  BY <3>2, <3>3
  <2>2. \A q \in Unsettled' : q \in Unsettled /\ q # p /\ ahead'[q] = ahead[q] \ {p}
    BY <1>1, <1>4 DEF Unsettled
  <2>3. ASSUME NEW q \in Unsettled', NEW r \in Unsettled'
        PROVE  q # r => (q \in ahead'[r] <=> r \notin ahead'[q])
    BY <2>2 DEF ArrivalOrder
  <2>4. ASSUME NEW q \in Unsettled', NEW r \in Unsettled', NEW u \in Unsettled',
               q \in ahead'[r], r \in ahead'[u]
        PROVE  q \in ahead'[u]
    BY <2>2, <2>4 DEF ArrivalOrder
  <2> QED  BY <2>1, <2>3, <2>4 DEF ArrivalOrder
<1>6. \A k \in Locks : U(k)' = U(k) \ {p}
  BY <1>1 DEF U
<1>7. \A q \in Promises, k \in Locks : prior'[q][k] = IF prior[q][k] = p THEN None ELSE prior[q][k]
  BY DEF Settle
<1>8. \A k \in Locks : p \in U(k) => \A r \in U(k) : r # p => p \in ahead[r] /\ r \notin ahead[p]
  BY <1>2 DEF PriorIsNext, ArrivalOrder, U
<1>9. ASSUME NEW k \in Locks, NEW q \in U(k)'
      PROVE  LET b == prior'[q][k] IN
             IF b = None
             THEN \A r \in U(k)' : r \notin ahead'[q]
             ELSE /\ b \in U(k)' /\ b \in ahead'[q]
                  /\ \A r \in U(k)' : r \in ahead'[q] => r = b \/ r \in ahead'[b]
  <2>1. q \in U(k) /\ q # p /\ q \in Promises /\ U(k)' = U(k) \ {p}
    BY <1>6 DEF U, Unsettled
  <2>2. CASE prior[q][k] = p
    <3>1. p \in U(k) /\ \A r \in U(k) : r \in ahead[q] => r = p \/ r \in ahead[p]
      BY <1>2, <2>1, <2>2 DEF PriorIsNext
    <3>2. \A r \in U(k)' : r \notin ahead[q]
      BY <1>8, <2>1, <3>1
    <3> QED  BY ZenonT(30), <1>2, <1>4, <1>7, <2>1, <2>2, <3>2
  <2>3. CASE prior[q][k] = None
    <3>1. \A r \in U(k) : r \notin ahead[q]
      BY <2>1, <2>3 DEF PriorIsNext
    <3>2. prior'[q][k] = None
      BY <1>7, <2>1, <2>3
    <3> QED  BY <1>4, <2>1, <3>1, <3>2
  <2>4. CASE prior[q][k] \notin {p, None}
    <3> DEFINE b == prior[q][k]
    <3>1. b \in U(k) /\ b \in ahead[q] /\ b \in Promises
          /\ \A r \in U(k) : r \in ahead[q] => r = b \/ r \in ahead[b]
      BY <2>1, <2>4 DEF PriorIsNext, U, Unsettled
    <3>2. prior'[q][k] = b /\ b # p /\ b # None
      BY <1>7, <2>1, <2>4
    <3> HIDE DEF b
    <3> QED  BY <1>4, <2>1, <3>1, <3>2
  <2> QED  BY <2>2, <2>3, <2>4
<1>10. PriorIsNext'
  BY <1>9 DEF PriorIsNext
<1>11. TailIsLast'
  <2>1. ASSUME NEW k \in Locks, U(k)' # {}
        PROVE  tail[k] \in U(k)' /\ \A q \in U(k)' : q = tail[k] \/ q \in ahead'[tail[k]]
    <3>1. tail[k] \in U(k) /\ tail[k] \in Promises /\ \A q \in U(k) : q = tail[k] \/ q \in ahead[tail[k]]
      BY <1>6, <2>1 DEF TailIsLast, U, Unsettled
    <3>2. tail[k] # p
      BY <1>6, <1>8, <2>1, <3>1
    <3> QED  BY <1>4, <1>6, <3>1, <3>2
  <2>2. \A k \in Locks : tail[k] # None => state'[tail[k]] # "none" /\ k \in keys[tail[k]]
    BY DEF Settle, TailIsLast, TypeOK
  <2> QED  BY <1>1, <2>1, <2>2 DEF TailIsLast
<1>12. OnlyTheWaitingWait'
  BY <1>2, <1>7 DEF OnlyTheWaitingWait, Settle, TypeOK
<1>13. SomeoneIsFirst'
  <2> SUFFICES ASSUME NEW S \in SUBSET Unsettled', S # {}
               PROVE  \E q \in S : ahead'[q] \intersect S = {}
    BY DEF SomeoneIsFirst
  <2>1. PICK q \in S : ahead[q] \intersect S = {}
    BY <1>1 DEF SomeoneIsFirst
  <2>2. q \in Promises /\ ahead'[q] \subseteq ahead[q]
    BY <1>1, <1>4 DEF Unsettled
  <2> QED  BY <2>1, <2>2
<1>14. TwoMaps'
  BY <1>1 DEF TwoMaps, LocksOf
<1> QED  BY <1>3, <1>5, <1>10, <1>11, <1>12, <1>13, <1>14

\* Removing a settled entry changes no queue.
LEMMA CleanupKeeps ==
  ASSUME IInv, NEW p \in Promises, Cleanup(p)
  PROVE  IInv'
<1> USE DEF IInv
<1>1. p \notin Unsettled /\ Unsettled' = Unsettled /\ UNCHANGED <<prior, ahead>>
  BY DEF Cleanup, Unsettled, TypeOK
<1>2. TypeOK'
  BY DEF Cleanup, TypeOK, TailWithout
<1>3. \A k \in Locks : U(k)' = U(k)
  BY <1>1 DEF U, Cleanup, TypeOK, Unsettled
<1>4. ArrivalOrder' /\ PriorIsNext'
  BY <1>1, <1>3 DEF ArrivalOrder, PriorIsNext
<1>5. \A k \in Locks : tail'[k] = IF tail[k] = p THEN None ELSE tail[k]
  BY DEF Cleanup, TailWithout
<1>6. TailIsLast'
  <2>1. ASSUME NEW k \in Locks, U(k) # {}
        PROVE  tail'[k] \in U(k) /\ \A q \in U(k) : q = tail'[k] \/ q \in ahead[tail'[k]]
    BY <1>1, <1>5, <2>1 DEF TailIsLast, U
  <2>2. \A k \in Locks : tail'[k] # None => state'[tail'[k]] # "none" /\ k \in keys'[tail'[k]]
    BY <1>5 DEF Cleanup, TailIsLast, TypeOK
  <2> QED  BY <1>1, <1>3, <2>1, <2>2 DEF TailIsLast
<1>7. OnlyTheWaitingWait'
  BY DEF OnlyTheWaitingWait, Cleanup, TypeOK
<1>8. SomeoneIsFirst'
  BY <1>1 DEF SomeoneIsFirst
<1>9. TwoMaps'
  BY DEF TwoMaps, LocksOf, Cleanup, TypeOK
<1> QED  BY <1>2, <1>4, <1>6, <1>7, <1>8, <1>9

\* A step appends a call, starts it, settles it or cleans up after it.
LEMMA Steps ==
  ASSUME Next
  PROVE  \E p \in Promises :
           (\E ks \in SUBSET LocksOf(p) : Append(p, ks)) \/ Start(p) \/ Settle(p) \/ Cleanup(p)
<1>1. ASSUME NEW r \in Requests, NEW ks \in SUBSET Tasks, RunExclusiveForTasks(r, ks)
      PROVE  <<r, "task">> \in Promises /\ ks \in SUBSET LocksOf(<<r, "task">>) /\ Append(<<r, "task">>, ks)
  BY <1>1 DEF RunExclusiveForTasks, Promises, LocksOf
<1>2. ASSUME NEW r \in Requests, NEW s \in Servers, WithServerLock(r, s)
      PROVE  <<r, "server">> \in Promises /\ {s} \in SUBSET LocksOf(<<r, "server">>) /\ Append(<<r, "server">>, {s})
  BY <1>2 DEF WithServerLock, Promises, LocksOf
<1> QED  BY <1>1, <1>2 DEF Next

LEMMA NextInv == IInv /\ [Next]_vars => IInv'
<1>1. CASE Next
  BY <1>1, Steps, AppendKeeps, StartKeeps, SettleKeeps, CleanupKeeps
<1>2. CASE UNCHANGED vars
  BY <1>2 DEF vars, IInv, TypeOK, ArrivalOrder, PriorIsNext, TailIsLast, OnlyTheWaitingWait,
              SomeoneIsFirst, TwoMaps, LocksOf, Unsettled, U
<1> QED  BY <1>1, <1>2

\* The order of arrival, and one chain per queue that follows it.
THEOREM Invariance == Spec => []IInv
BY InitInv, NextInv, PTL DEF Spec

\* Sections that name a common task or server exclude each other, however many
\* tasks each of them names.
THEOREM Exclusion == Spec => []MutualExclusion
<1>1. ASSUME IInv  PROVE MutualExclusion
  <2>1. SUFFICES ASSUME NEW p \in Promises, NEW q \in Promises, p # q,
                        state[p] = "running", state[q] = "running",
                        NEW k \in keys[p], k \in keys[q]
                 PROVE  FALSE
    BY DEF MutualExclusion
  <2>2. k \in Locks /\ p \in U(k) /\ q \in U(k)
    BY <1>1, <2>1 DEF IInv, TypeOK, U, Unsettled
  <2>3. prior[p][k] = None /\ prior[q][k] = None
    BY <1>1, <2>1, <2>2 DEF IInv, OnlyTheWaitingWait
  <2>4. q \notin ahead[p] /\ p \notin ahead[q]
    BY <1>1, <2>2, <2>3 DEF IInv, PriorIsNext
  <2> QED  BY <1>1, <2>1, <2>2, <2>4 DEF IInv, ArrivalOrder, U
<1> QED  BY <1>1, Invariance, PTL

\* The maps are empty when no call is left.
THEOREM NothingLeaks == Spec => []NoLeak
<1>1. IInv => NoLeak
  BY DEF IInv, TypeOK, TailIsLast, NoLeak
<1> QED  BY <1>1, Invariance, PTL

\* Nobody is stuck.  If a call waits for a server or is on one, the first to
\* come among all such calls can go on: it is held up by an earlier one only,
\* and for a server.  If there is none, the first to come of all can.
THEOREM NobodyIsStuck == Spec => []SomeoneMoves
<1>1. ASSUME IInv, NEW p \in Unsettled, \A q \in ahead[p], k \in keys[p] : q \notin U(k)
      PROVE  state[p] = "running" \/ MayStart(p)
  <2>1. ASSUME NEW k \in keys[p]  PROVE prior[p][k] = None
    <3>1. k \in Locks /\ p \in U(k)
      BY <1>1 DEF IInv, TypeOK, U, Unsettled
    <3> QED  BY <1>1, <3>1 DEF IInv, PriorIsNext
  <2> QED  BY <2>1 DEF Unsettled
<1>2. ASSUME IInv, Unsettled # {}  PROVE \E p \in Promises : MayStart(p) \/ MaySettle(p)
  <2> DEFINE onServers == {p \in Unsettled : p[2] = "server"}
  <2>1. CASE onServers # {}
    <3>1. PICK p \in onServers : ahead[p] \intersect onServers = {}
      BY <1>2, <2>1 DEF IInv, SomeoneIsFirst
    <3>2. ASSUME NEW q \in ahead[p], NEW k \in keys[p]  PROVE q \notin U(k)
      <4>1. k \in Servers /\ q \in Promises
        BY <1>2, <3>1 DEF IInv, TwoMaps, LocksOf, ArrivalOrder, Unsettled
      <4>2. q \in U(k) => q \in onServers
        BY <1>2, <4>1, LocksAssumption DEF IInv, TwoMaps, LocksOf, U, Promises
      <4> QED  BY <3>1, <4>2
    <3>3. state[p] = "running" \/ MayStart(p)
      BY <1>1, <1>2, <3>1, <3>2
    <3> QED  BY <3>1, <3>3 DEF Unsettled
  <2>2. CASE onServers = {}
    <3>1. PICK p \in Unsettled : ahead[p] \intersect Unsettled = {}
      BY <1>2 DEF IInv, SomeoneIsFirst
    <3>2. state[p] = "running" \/ MayStart(p)
      BY <1>1, <1>2, <3>1 DEF U
    <3>3. p \in Promises /\ <<p[1], "server">> \in Promises /\ <<p[1], "server">>[2] = "server"
      BY <3>1 DEF Unsettled, Promises
    <3>4. <<p[1], "server">> \notin Unsettled
      BY <2>2, <3>3
    <3> QED  BY <3>2, <3>3, <3>4 DEF Unsettled
  <2> QED  BY <2>1, <2>2
<1> QED  BY <1>2, Invariance, PTL DEF SomeoneMoves

\* The promise chains implement a fair queue per lock: a call is granted all
\* the locks it names at once, and never before an earlier call that names one
\* of them has left.
THEOREM Refinement == Spec => RefinesFifo
<1> DEFINE phase == [p \in Promises |-> CASE state[p] = "waiting" -> "waiting"
                                          [] state[p] = "running" -> "inside"
                                          [] OTHER -> "away"]
           wants == [p \in Promises |-> IF p \in Unsettled THEN keys[p] ELSE {}]
<1>1. Init => Fifo!Init
  BY DEF Init, Fifo!Init, Unsettled
<1>2. ASSUME IInv, [Next]_vars  PROVE [Fifo!Next]_Fifo!vars
  <2>1. CASE UNCHANGED vars
    BY <2>1 DEF vars, Fifo!vars, Unsettled
  <2>2. ASSUME NEW p \in Promises, NEW ks \in SUBSET LocksOf(p), Append(p, ks)
        PROVE  ks \in SUBSET Locks /\ Fifo!Arrive(p, ks)
    <3>0. ks \in SUBSET Locks
      BY DEF LocksOf, Locks
    <3>1. state' = [state EXCEPT ![p] = "waiting"] /\ keys' = [keys EXCEPT ![p] = ks]
          /\ state[p] = "none" /\ ahead' = [ahead EXCEPT ![p] = Unsettled]
      BY <2>2 DEF Append
    <3>2. Fifo!Present = Unsettled
      BY <1>2 DEF Fifo!Present, Unsettled, IInv, TypeOK
    <3>3. phase' = [phase EXCEPT ![p] = "waiting"] /\ phase[p] = "away"
      BY <1>2, <3>1 DEF IInv, TypeOK
    <3>4. wants' = [wants EXCEPT ![p] = ks]
      BY <1>2, <3>1 DEF IInv, TypeOK, Unsettled
    <3> QED  BY <3>0, <3>1, <3>2, <3>3, <3>4 DEF Fifo!Arrive
  <2>3. ASSUME NEW p \in Promises, Start(p)  PROVE Fifo!Grant(p)
    <3>1. state[p] = "waiting" /\ state' = [state EXCEPT ![p] = "running"]
          /\ UNCHANGED <<tail, keys, prior, ahead>> /\ p \in Unsettled
      BY <2>3 DEF Start, Unsettled
    <3>2. ASSUME NEW q \in ahead[p], NEW k \in wants[p] \intersect wants[q]  PROVE FALSE
      <4>1. q \in Unsettled /\ q \in Promises
        BY <1>2, <3>2 DEF IInv, ArrivalOrder, Unsettled
      <4>2. k \in Locks /\ p \in U(k) /\ q \in U(k) /\ k \in keys[p]
        BY <1>2, <3>1, <3>2, <4>1 DEF U, IInv, TypeOK
      <4>3. prior[p][k] = None
        BY <2>3, <4>2 DEF Start
      <4> QED  BY <1>2, <3>2, <4>2, <4>3 DEF IInv, PriorIsNext
    <3>3. phase[p] = "waiting" /\ phase' = [phase EXCEPT ![p] = "inside"]
      BY <1>2, <3>1 DEF IInv, TypeOK
    <3>4. wants' = wants
      BY <1>2, <3>1 DEF IInv, TypeOK, Unsettled
    <3> QED  BY <3>1, <3>2, <3>3, <3>4 DEF Fifo!Grant
  <2>4. ASSUME NEW p \in Promises, Settle(p)  PROVE Fifo!Leave(p)
    <3>1. state[p] = "running" /\ state' = [state EXCEPT ![p] = "settled"] /\ UNCHANGED keys
          /\ ahead' = [q \in Promises |-> IF q = p THEN {} ELSE ahead[q] \ {p}]
      BY <2>4 DEF Settle
    <3>2. phase[p] = "inside" /\ phase' = [phase EXCEPT ![p] = "away"]
      BY <1>2, <3>1 DEF IInv, TypeOK
    <3>3. wants' = [wants EXCEPT ![p] = {}]
      BY <1>2, <3>1 DEF IInv, TypeOK, Unsettled
    <3> QED  BY <3>1, <3>2, <3>3 DEF Fifo!Leave
  <2>5. ASSUME NEW p \in Promises, Cleanup(p)  PROVE UNCHANGED Fifo!vars
    <3>1. state[p] = "settled" /\ state' = [state EXCEPT ![p] = "none"]
          /\ keys' = [keys EXCEPT ![p] = {}] /\ ahead' = ahead
      BY <2>5 DEF Cleanup
    <3>2. phase' = phase
      BY <1>2, <3>1 DEF IInv, TypeOK
    <3>3. wants' = wants
      BY <1>2, <3>1 DEF IInv, TypeOK, Unsettled
    <3> QED  BY <3>1, <3>2, <3>3 DEF Fifo!vars
  <2> QED  BY <1>2, <2>1, <2>2, <2>3, <2>4, <2>5, Steps DEF Fifo!Next
<1> QED  BY <1>1, <1>2, Invariance, PTL DEF Spec, RefinesFifo, Fifo!Spec
=============================================================================
