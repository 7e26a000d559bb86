------------------------------ MODULE MCTasks ------------------------------
(***************************************************************************)
(* AmbilightTasks for TLC, at two paces: with ticks that preempt a task    *)
(* after any step, for the ages of pictures; and with ticks that last for  *)
(* a turn of the upper tasks and one step more, for what settles.          *)
(***************************************************************************)
EXTENDS AmbilightTasks

MCPaces == {0, TurnSteps + 1}
MCFast == tickSteps > TurnSteps

MCInit == Init /\ level = 15 /\ switches = [s \in Switch |-> FALSE]

(* At the slow pace three pictures, and a tick comes before the lowest     *)
(* task gets a step; at the fast one, either a second picture and another  *)
(* brightness, or moves of the switches.                                   *)
MCSlowNext ==
  /\ ~MCFast /\ Next
  /\ UNCHANGED <<levels, moves, at["setOverlay"]>>

MCFastNext ==
  /\ MCFast /\ Next
  /\ \/ picture' <= 2 /\ moves' = 0
     \/ picture' = 1 /\ levels' = 0

MCNext == MCSlowNext \/ MCFastNext

MCSpec == MCInit /\ [][MCNext]_vars
MCFairSpec == MCSpec /\ Fairness
=============================================================================
