----------------------------- MODULE TurnPromise -----------------------------
(***************************************************************************)
(* What an agent turn promises to the run that started it, whatever timers, *)
(* streams and rows carry it: the first decisive word of the agent is the   *)
(* one that counts, the run acts on a turn once, and when the agent has     *)
(* spoken before that, the run acts on what it said.                        *)
(*                                                                          *)
(* said[t]  : the decisive signal of the agent, "none" before               *)
(* heard[t] : what the run acted on, "none" before; "unsent" when it ended  *)
(*            before it waited, "lost" when the hub stopped                 *)
(***************************************************************************)
EXTENDS Naturals

CONSTANT MaxTurns   \* bound: how many turns a task starts

VARIABLES said, heard

Turn == 1..MaxTurns

Signal == {"complete", "test_failed", "questions", "fail"}
Class == {"phase_complete", "question", "stopped"}

Deaf == {"none", "unsent", "lost"}   \* the run has not acted on the turn

\* What a run makes of a signal: a failed test completes its phase.
Meaning(s) ==
    CASE s \in {"complete", "test_failed"} -> "phase_complete"
      [] s = "questions" -> "question"
      [] s = "fail" -> "stopped"

Init == /\ said = [t \in Turn |-> "none"]
        /\ heard = [t \in Turn |-> "none"]

\* The agent speaks; what it says after its first decisive word, or after the
\* run has acted, is a duplicate.
Say(t, s) ==
    /\ said[t] = "none"
    /\ heard[t] \in Deaf
    /\ said' = [said EXCEPT ![t] = s]
    /\ UNCHANGED heard

\* The run acts: on the agent's word if there is one, otherwise on a guess.
Hear(t, c) ==
    /\ heard[t] = "none"
    /\ said[t] # "none" => c = Meaning(said[t])
    /\ heard' = [heard EXCEPT ![t] = c]
    /\ UNCHANGED said

\* A completion that was only guessed, and has no output, is taken back.
TakeBack(t) ==
    /\ heard[t] = "phase_complete"
    /\ said[t] = "none"
    /\ heard' = [heard EXCEPT ![t] = "rejected"]
    /\ UNCHANGED said

Unsent(t) ==
    /\ heard[t] = "none"
    /\ heard' = [heard EXCEPT ![t] = "unsent"]
    /\ UNCHANGED said

\* The hub stops: every run is gone.
Lose ==
    /\ \E L \in SUBSET {t \in Turn : heard[t] = "none"} :
           heard' = [t \in Turn |-> IF t \in L THEN "lost" ELSE heard[t]]
    /\ UNCHANGED said

Next ==
    \/ \E t \in Turn : \/ \E s \in Signal : Say(t, s)
                       \/ \E c \in Class : Hear(t, c)
                       \/ TakeBack(t)
                       \/ Unsent(t)
    \/ Lose

Spec == Init /\ [][Next]_<<said, heard>>

\* Whoever has acted on a turn of which the agent has spoken, acted on its word,
\* and goes on acting on it: no later word and no timer changes that.
WordCounts == \A t \in Turn : said[t] # "none" /\ heard[t] \notin Deaf => heard[t] = Meaning(said[t])

\* What became of a turn does not change any more, except that a guess of its
\* completion is taken back, and that only while the agent is silent; and the
\* agent's word is never replaced.
SettledOnce ==
    [][\A t \in Turn :
         /\ heard[t] # "none" =>
                \/ heard'[t] = heard[t]
                \/ heard[t] = "phase_complete" /\ heard'[t] = "rejected" /\ said'[t] = "none"
         /\ said[t] # "none" => said'[t] = said[t]]_<<said, heard>>

=============================================================================
