----------------------------- MODULE Helderheid ----------------------------
(***************************************************************************)
(* The brightness counter, src/Qsys/helderheid.vhd: a state machine that   *)
(* looks at the debounced keys in A, checks the bound in B or C, and in D  *)
(* or E waits for the release of the key before it changes the counter.    *)
(***************************************************************************)
EXTENDS Integers

CONSTANT Levels       \* values of the counter (16: it has four bits)

HelderheidAssumption == Levels \in Nat /\ Levels > 1

VARIABLES
  button_up, button_down,   \* input ports, 1 while the key is held
  state, count

HelderheidStates == {"A", "B", "C", "D", "E"}
MaxValue == Levels - 1

HelderheidInit == state = "A" /\ count = 0

ChooseKey ==
  /\ state = "A"
  /\ state' = IF button_up = 1 THEN "B" ELSE IF button_down = 1 THEN "C" ELSE "A"
  /\ UNCHANGED count

(* Mutant: the bound of the counter is not checked. *)
CheckMaxNever == state = "B" /\ state' = "D" /\ UNCHANGED count

CheckMax ==
  /\ state = "B"
  /\ state' = IF count < MaxValue THEN "D" ELSE "A"
  /\ UNCHANGED count

(* Mutant: C is not left when the counter is at the bottom. *)
CheckMinStays ==
  /\ state = "C"
  /\ state' = IF count > 0 THEN "E" ELSE "C"
  /\ UNCHANGED count

CheckMin ==
  /\ state = "C"
  /\ state' = IF count > 0 THEN "E" ELSE "A"
  /\ UNCHANGED count

(* count is a bit vector: it would wrap. *)
Increase ==
  /\ state = "D"
  /\ IF button_up = 0
       THEN count' = (count + 1) % Levels /\ state' = "A"
       ELSE UNCHANGED <<state, count>>

Decrease ==
  /\ state = "E"
  /\ IF button_down = 0
       THEN count' = (count - 1) % Levels /\ state' = "A"
       ELSE UNCHANGED <<state, count>>

(* A rising edge of clk. *)
HelderheidEdge == ChooseKey \/ CheckMax \/ CheckMin \/ Increase \/ Decrease

HelderheidReset == state' = "A" /\ count' = 0
=============================================================================
