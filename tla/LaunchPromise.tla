---------------------------- MODULE LaunchPromise ----------------------------
(***************************************************************************)
(* What the link of a pane promises to whoever relies on its supervisors,  *)
(* whatever rows, tokens, sockets and processes carry it: launches are     *)
(* issued one after the other, each ends the one before it, and a          *)
(* supervisor acts for a launch only from a moment at which that launch is *)
(* the open one.                                                           *)
(*                                                                         *)
(* life[l] : "unissued", then "open", then "over"                          *)
(* holder  : the launch whose supervisor the hub listens to, 0 for none    *)
(***************************************************************************)
EXTENDS Naturals

CONSTANT MaxLaunch   \* bound: launches issued

VARIABLES life, holder

Launches == 1..MaxLaunch

Init == life = [l \in Launches |-> "unissued"] /\ holder = 0

\* The next launch: those before it are over, and nobody is listened to.
Issue(l) ==
  /\ life[l] = "unissued" /\ \A k \in 1..(l - 1) : life[k] # "unissued"
  /\ life' = [k \in Launches |-> IF k = l THEN "open" ELSE IF life[k] = "open" THEN "over" ELSE life[k]]
  /\ holder' = 0

\* A supervisor registers with the tokens of the open launch.
Take(l) ==
  /\ life[l] = "open"
  /\ holder' = l
  /\ UNCHANGED life

\* Its socket is lost, or the hub restarts.
Release == holder' = 0 /\ UNCHANGED life

\* Its window is destroyed: its tokens are worth nothing any more, while its
\* supervisor is listened to until its socket closes.
Expire(l) ==
  /\ life[l] = "open"
  /\ life' = [life EXCEPT ![l] = "over"]
  /\ UNCHANGED holder

\* Its worker has exited.
Exit(l) ==
  /\ holder = l
  /\ life' = [life EXCEPT ![l] = "over"]
  /\ holder' = 0

Next ==
  \/ \E l \in Launches : Issue(l) \/ Take(l) \/ Expire(l) \/ Exit(l)
  \/ Release

Spec == Init /\ [][Next]_<<life, holder>>

\* A launch that is over and has lost its supervisor has lost it for good.
NoReturn ==
  [][\A l \in Launches : life[l] = "over" /\ holder # l => holder' # l]_<<life, holder>>
=============================================================================
