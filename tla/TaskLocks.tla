------------------------------ MODULE TaskLocks ------------------------------
(***************************************************************************)
(* runExclusiveForTask(s) and KeyedMutex.withLock: locks made of chained   *)
(* promises.  A call reads the current tail of every queue it names,       *)
(* appends itself to all of them in the same synchronous turn, waits for   *)
(* the tails it read, runs, and removes itself from the map if it is still *)
(* the tail.  A request holds at most a section on tasks with, inside it,  *)
(* one on a server: the nesting that the execution, restore, respawn and   *)
(* wake paths use.                                                         *)
(***************************************************************************)
CONSTANTS
  Requests,   \* requests and background runs
  Tasks,      \* keys of taskRotationLocks
  Servers,    \* keys of the serverIsolationMutex
  None        \* no entry in the map, or a promise that is already settled

ASSUME LocksAssumption ==
  /\ Tasks \intersect Servers = {}
  /\ None \notin Requests \X {"task", "server"}

Locks == Tasks \union Servers

\* the promise of one call: a request's section on tasks or on a server
Promises == Requests \X {"task", "server"}

VARIABLES
  tail,     \* the two maps: the last promise appended to each queue
  state,    \* "none", "waiting" for its priors, "running" its fn, or "settled"
  keys,     \* the queues it was appended to
  prior,    \* the unsettled promise it read as the tail of each queue, or None
  ahead     \* history: the unsettled promises that were there when it came

vars == <<tail, state, keys, prior, ahead>>

Unsettled == {p \in Promises : state[p] \in {"waiting", "running"}}

Init ==
  /\ tail  = [k \in Locks |-> None]
  /\ state = [p \in Promises |-> "none"]
  /\ keys  = [p \in Promises |-> {}]
  /\ prior = [p \in Promises |-> [k \in Locks |-> None]]
  /\ ahead = [p \in Promises |-> {}]

\* faulty: of several queues, only the prior of one is awaited
PriorsOfOne(p, ks) ==
  LET first == CHOOSE k \in ks : TRUE IN
  [k \in Locks |-> IF k \in ks /\ k = first /\ tail[k] \in Unsettled THEN tail[k] ELSE None]

\* faulty: the tails are read after they have been written
PriorsAfterWrite(p, ks) == [k \in Locks |-> IF k \in ks THEN p ELSE None]

\* a tail that has settled, but is not cleaned up yet, delays nobody
Priors(p, ks) ==
  [k \in Locks |-> IF k \in ks /\ tail[k] \in Unsettled THEN tail[k] ELSE None]

Append(p, ks) ==
  /\ state[p] = "none"
  /\ state' = [state EXCEPT ![p] = "waiting"]
  /\ keys'  = [keys EXCEPT ![p] = ks]
  /\ prior' = [prior EXCEPT ![p] = Priors(p, ks)]
  /\ tail'  = [k \in Locks |-> IF k \in ks THEN p ELSE tail[k]]
  /\ ahead' = [ahead EXCEPT ![p] = Unsettled]

\* runExclusiveForTask is the case of one task; an empty list runs at once
RunExclusiveForTasks(r, ks) ==
  /\ state[<<r, "server">>] = "none"
  /\ Append(<<r, "task">>, ks)

\* alone, or inside the request's own section on its task
WithServerLock(r, s) ==
  /\ state[<<r, "task">>] \in {"none", "running"}
  /\ Append(<<r, "server">>, {s})

MayStart(p) == state[p] = "waiting" /\ \A k \in keys[p] : prior[p][k] = None

Start(p) ==
  /\ MayStart(p)
  /\ state' = [state EXCEPT ![p] = "running"]
  /\ UNCHANGED <<tail, keys, prior, ahead>>

\* The outer section awaits the inner one.
MaySettle(p) ==
  /\ state[p] = "running"
  /\ p[2] = "task" => state[<<p[1], "server">>] \notin {"waiting", "running"}

\* faulty: who rejects releases nobody
SettleUnheard(p) ==
  /\ MaySettle(p)
  /\ state' = [state EXCEPT ![p] = "settled"]
  /\ ahead' = [q \in Promises |-> IF q = p THEN {} ELSE ahead[q] \ {p}]
  /\ UNCHANGED <<tail, keys, prior>>

\* fn resolves or rejects: the chain swallows either.
Settle(p) ==
  /\ MaySettle(p)
  /\ state' = [state EXCEPT ![p] = "settled"]
  /\ prior' = [q \in Promises |-> [k \in Locks |-> IF prior[q][k] = p THEN None ELSE prior[q][k]]]
  /\ ahead' = [q \in Promises |-> IF q = p THEN {} ELSE ahead[q] \ {p}]
  /\ UNCHANGED <<tail, keys>>

\* faulty: the entry is deleted although a later call has replaced it
TailWithoutAnyOf(p) == [k \in Locks |-> IF k \in keys[p] THEN None ELSE tail[k]]

\* faulty: the entry stays
TailKept(p) == tail

TailWithout(p) == [k \in Locks |-> IF tail[k] = p THEN None ELSE tail[k]]

\* the finally handler of the tail
Cleanup(p) ==
  /\ state[p] = "settled"
  /\ tail'  = TailWithout(p)
  /\ state' = [state EXCEPT ![p] = "none"]
  /\ keys'  = [keys EXCEPT ![p] = {}]
  /\ UNCHANGED <<prior, ahead>>

Next ==
  \/ \E r \in Requests :
       \/ \E ks \in SUBSET Tasks : RunExclusiveForTasks(r, ks)
       \/ \E s \in Servers : WithServerLock(r, s)
  \/ \E p \in Promises : Start(p) \/ Settle(p) \/ Cleanup(p)

Spec == Init /\ [][Next]_vars

\* Promise callbacks run, and a section ends: its commands have timeouts, and
\* it goes through the server's lock a finite number of times.
FairSpec == Spec /\ \A p \in Promises : WF_vars(Start(p)) /\ SF_vars(Settle(p)) /\ WF_vars(Cleanup(p))

-----------------------------------------------------------------------------

TypeOK ==
  /\ tail  \in [Locks -> Promises \union {None}]
  /\ state \in [Promises -> {"none", "waiting", "running", "settled"}]
  /\ keys  \in [Promises -> SUBSET Locks]
  /\ prior \in [Promises -> [Locks -> Promises \union {None}]]
  /\ ahead \in [Promises -> SUBSET Promises]

\* Two sections that name a common task or server never run at the same time,
\* also when one of them names several tasks (the kill of a whole session).
MutualExclusion ==
  \A p, q \in Promises :
    p # q /\ state[p] = "running" /\ state[q] = "running" => keys[p] \intersect keys[q] = {}

\* No entry of a finished call stays in the maps: a task that stops rotating
\* leaks nothing.
NoLeak == (\A p \in Promises : state[p] = "none") => \A k \in Locks : tail[k] = None

\* The chains never lock up: while a call has not ended, one of them can take a
\* step, also when calls name several tasks in different orders and sections on a
\* server are waited for inside sections on tasks.
SomeoneMoves == Unsettled # {} => \E p \in Promises : MayStart(p) \/ MaySettle(p)

\* Every call that waits gets its turn, in particular two calls that name the
\* same tasks in a different order do not wait for each other, and sections
\* on a server inside sections on tasks do not close a cycle.
EveryCallRuns == \A p \in Promises : state[p] = "waiting" ~> state[p] = "running"

\* The chain of promises is a fair queue on every lock: arrival order, all
\* locks at once, no partial acquisition.
Fifo == INSTANCE FifoLocks WITH
  Sections <- Promises,
  phase <- [p \in Promises |-> CASE state[p] = "waiting" -> "waiting"
                                 [] state[p] = "running" -> "inside"
                                 [] OTHER -> "away"],
  wants <- [p \in Promises |-> IF p \in Unsettled THEN keys[p] ELSE {}]
RefinesFifo == Fifo!Spec

-----------------------------------------------------------------------------
(* The inductive invariant of the proofs, one part per line of the         *)
(* argument; U(k) is who is on queue k.                                    *)

U(k) == {p \in Unsettled : k \in keys[p]}

\* arrival is a strict total order on the unsettled
ArrivalOrder ==
  /\ \A p \in Promises : ahead[p] \subseteq Unsettled /\ p \notin ahead[p]
  /\ \A p, q \in Unsettled : p # q => (p \in ahead[q] <=> q \notin ahead[p])
  /\ \A p, q, r \in Unsettled : p \in ahead[q] /\ q \in ahead[r] => p \in ahead[r]

\* a promise without a prior on k is the first of k; one with a prior comes
\* right behind it
PriorIsNext ==
  \A k \in Locks : \A q \in U(k) :
    LET p == prior[q][k] IN
    IF p = None
    THEN \A r \in U(k) : r \notin ahead[q]
    ELSE /\ p \in U(k) /\ p \in ahead[q]
         /\ \A r \in U(k) : r \in ahead[q] => r = p \/ r \in ahead[p]

\* the map's entry is the last to have come
TailIsLast ==
  \A k \in Locks :
    /\ U(k) # {} => tail[k] \in U(k) /\ \A p \in U(k) : p = tail[k] \/ p \in ahead[tail[k]]
    /\ tail[k] # None => state[tail[k]] # "none" /\ k \in keys[tail[k]]

\* only a waiting promise has a prior, and only on the queues it named
OnlyTheWaitingWait ==
  \A p \in Promises, k \in Locks : prior[p][k] # None => state[p] = "waiting" /\ k \in keys[p]

\* of any unsettled promises one came before all the others
SomeoneIsFirst == \A S \in SUBSET Unsettled : S # {} => \E p \in S : ahead[p] \intersect S = {}

\* the two maps are apart: who waits for a server holds up only such
LocksOf(p) == IF p[2] = "task" THEN Tasks ELSE Servers

TwoMaps == \A p \in Promises : keys[p] \subseteq LocksOf(p)

IInv ==
  /\ TypeOK /\ ArrivalOrder /\ PriorIsNext /\ TailIsLast /\ OnlyTheWaitingWait
  /\ SomeoneIsFirst /\ TwoMaps
=============================================================================
