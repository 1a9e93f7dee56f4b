------------------------------ MODULE FifoLocks ------------------------------
(***************************************************************************)
(* What the hub's in-process locks promise to their callers: a section may *)
(* name several locks, it runs alone on each of them, and it is granted    *)
(* them all at once, in the order of arrival on every one of them.         *)
(***************************************************************************)
CONSTANTS
  Sections,   \* calls of the lock functions
  Locks       \* what they may lock

VARIABLES
  phase,      \* "away", "waiting" or "inside", of each section
  wants,      \* the locks it names
  ahead       \* the sections that arrived before it and have not left

vars == <<phase, wants, ahead>>

Present == {p \in Sections : phase[p] # "away"}

Init ==
  /\ phase = [p \in Sections |-> "away"]
  /\ wants = [p \in Sections |-> {}]
  /\ ahead = [p \in Sections |-> {}]

Arrive(p, ks) ==
  /\ phase[p] = "away"
  /\ phase' = [phase EXCEPT ![p] = "waiting"]
  /\ wants' = [wants EXCEPT ![p] = ks]
  /\ ahead' = [ahead EXCEPT ![p] = Present]

Grant(p) ==
  /\ phase[p] = "waiting"
  /\ \A q \in ahead[p] : wants[p] \intersect wants[q] = {}
  /\ phase' = [phase EXCEPT ![p] = "inside"]
  /\ UNCHANGED <<wants, ahead>>

Leave(p) ==
  /\ phase[p] = "inside"
  /\ phase' = [phase EXCEPT ![p] = "away"]
  /\ wants' = [wants EXCEPT ![p] = {}]
  /\ ahead' = [q \in Sections |-> IF q = p THEN {} ELSE ahead[q] \ {p}]

Next == \E p \in Sections : Grant(p) \/ Leave(p) \/ \E ks \in SUBSET Locks : Arrive(p, ks)

Spec == Init /\ [][Next]_vars
=============================================================================
