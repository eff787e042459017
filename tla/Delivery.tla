------------------------------ MODULE Delivery --------------------------------
(***************************************************************************)
(* What the OME engine promises of one task, that is, of one strategy that *)
(* is to handle one event: attempts follow one another, a success or a     *)
(* dead letter is final, and a task that a crash or a failing store has    *)
(* lost may be taken up again.                                             *)
(***************************************************************************)
CONSTANT Task

\* task -> "none", "pending", "running", "done", "dead" or "lost"
VARIABLE state

\* Nothing more happens to the task unless it is lost and resumed.
Settled(t) == state[t] \in {"done", "dead", "lost"}

Init == state = [t \in Task |-> "none"]

\* The tasks of a step go from one of the states in from to to.
Move(from, to) ==
    \A t \in Task : state'[t] # state[t] => state[t] \in from /\ state'[t] = to

\* An event is routed to several strategies at once.
Submit == Move({"none"}, "pending")

\* A crash loses everything under way at once.
Lose == Move({"pending", "running"}, "lost")

\* Everything else is a step of one task.
OneMoves ==
    \A t, u \in Task : state'[t] # state[t] /\ state'[u] # state[u] => t = u

Begin  == Move({"pending"}, "running")
Retry  == Move({"running"}, "pending")
Finish == Move({"running"}, "done") \/ Move({"running"}, "dead")
Resume == Move({"lost"}, "pending")

Next ==
    /\ state' = [t \in Task |-> state'[t]]
    /\ \/ Submit
       \/ Lose
       \/ /\ OneMoves
          /\ Begin \/ Retry \/ Finish \/ Resume

Spec == Init /\ [][Next]_state

\* A task that was handed over is settled some day.
EverySubmissionSettles ==
    \A t \in Task : state[t] = "pending" ~> Settled(t)
=============================================================================
