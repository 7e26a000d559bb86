----------------------------- MODULE Debouncer -----------------------------
(***************************************************************************)
(* The key debouncer, src/Qsys/debouncer.vhd: an integrator clocked by clk *)
(* that counts up while the (active low) key is pressed and down while it  *)
(* is not; result changes only at the two ends of its range.               *)
(***************************************************************************)
EXTENDS Integers

CONSTANT MaxTicks     \* max_ticks (100000, 2 ms at 50 MHz)

DebouncerAssumption == MaxTicks \in Nat /\ MaxTicks > 1

VARIABLES
  button,     \* input port, 0 while the key is pressed
  ticks, result

DebouncerInit == ticks = 0 /\ result = 0

(* Mutant: the integral is not bounded. *)
PressedPastEnd ==
  /\ button = 0
  /\ ticks' = ticks + 1
  /\ result' = IF ticks + 1 = MaxTicks THEN 1 ELSE result

(* Mutant: result reports the key at once, without its integral. *)
PressedNoDelay ==
  /\ button = 0 /\ ticks < MaxTicks
  /\ ticks' = ticks + 1
  /\ result' = 1

Pressed ==
  /\ button = 0 /\ ticks < MaxTicks
  /\ ticks' = ticks + 1
  /\ result' = IF ticks + 1 = MaxTicks THEN 1 ELSE result

Released ==
  /\ button = 1 /\ ticks > 0
  /\ ticks' = ticks - 1
  /\ result' = IF ticks - 1 = 0 THEN 0 ELSE result

AtTheEnd ==
  /\ ~(button = 0 /\ ticks < MaxTicks)
  /\ ~(button = 1 /\ ticks > 0)
  /\ UNCHANGED <<ticks, result>>

(* A rising edge of clk. *)
DebouncerEdge == Pressed \/ Released \/ AtTheEnd

DebouncerReset == ticks' = 0 /\ result' = 0
=============================================================================
