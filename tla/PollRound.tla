------------------------------ MODULE PollRound ------------------------------
(***************************************************************************)
(* What a worker pool promises the monitor that uses it, with no channel,  *)
(* wait group or worker in sight.  At a tick a loop asks a set of nodes;   *)
(* each node asked contributes one reply, an answer or an error; the loop  *)
(* sees the replies only when all of them are there.  It then may ask some *)
(* of the nodes that answered a second question, under the same rule.  The *)
(* process may end at any time, and then nothing more happens.             *)
(***************************************************************************)
EXTENDS Integers, Sequences

CONSTANTS Nodes, Loops, Scope,
          TwoPhase   \* the loops that ask a second question

VARIABLES
  stage,   \* stage[l]: "idle", or the question loop l is waiting on
  asked,   \* asked[l]: the nodes that question went to
  replies, \* replies[l]: the replies so far, in order of arrival
  alive    \* the process is running

vars == <<stage, asked, replies, alive>>

Heard(s) == {s[i].address : i \in DOMAIN s}
Answered(s) == {s[i].address : i \in {j \in DOMAIN s : ~s[j].oops}}

Init ==
  /\ stage = [l \in Loops |-> "idle"]
  /\ asked = [l \in Loops |-> {}]
  /\ replies = [l \in Loops |-> << >>]
  /\ alive = TRUE

Ask(l) ==
  /\ stage[l] = "idle"
  /\ stage' = [stage EXCEPT ![l] = "first"]
  /\ asked' = [asked EXCEPT ![l] = Scope[l]]
  /\ UNCHANGED <<replies, alive>>

\* A node that was asked and has not replied yet replies.
Hear(l) ==
  /\ stage[l] # "idle"
  /\ \E n \in asked[l] \ Heard(replies[l]), oops \in BOOLEAN :
       replies' = [replies EXCEPT ![l] = Append(@, [address |-> n, oops |-> oops])]
  /\ UNCHANGED <<stage, asked, alive>>

AllHeard(l) == Heard(replies[l]) = asked[l]

AskAgain(l) ==
  /\ stage[l] = "first"
  /\ l \in TwoPhase
  /\ AllHeard(l)
  /\ stage' = [stage EXCEPT ![l] = "second"]
  /\ \E leaders \in SUBSET Answered(replies[l]) :
       asked' = [asked EXCEPT ![l] = leaders]
  /\ replies' = [replies EXCEPT ![l] = << >>]
  /\ UNCHANGED alive

Finish(l) ==
  /\ stage[l] = IF l \in TwoPhase THEN "second" ELSE "first"
  /\ AllHeard(l)
  /\ stage' = [stage EXCEPT ![l] = "idle"]
  /\ asked' = [asked EXCEPT ![l] = {}]
  /\ replies' = [replies EXCEPT ![l] = << >>]
  /\ UNCHANGED alive

End ==
  /\ alive' = FALSE
  /\ UNCHANGED <<stage, asked, replies>>

Next ==
  /\ alive
  /\ \/ \E l \in Loops : Ask(l) \/ Hear(l) \/ AskAgain(l) \/ Finish(l)
     \/ End

Spec == Init /\ [][Next]_vars
=============================================================================
