----------------------------- MODULE Brightness ----------------------------
(***************************************************************************)
(* The brightness peripheral, src/Qsys/AvalonMMSlave.vhd: two debouncers,  *)
(* the counter, and the register the CPU reads.  Everything is clocked by  *)
(* one clock, so on an edge each part reads the others as they were.       *)
(* keys(0) raises the level and keys(1) lowers it.                         *)
(***************************************************************************)
EXTENDS Integers

CONSTANTS
  MaxTicks, Levels,
  MaxResets     \* bound: presses of the reset key after power-up

VARIABLES
  keyUp, keyDown,         \* the keys, 0 while pressed
  ticksUp, ticksDown,     \* the integrators of db1 and db2
  cnt_up, cnt_dwn,        \* the debounced keys
  state, count,           \* hd1
  readdata,
  reset, resets,
  against                 \* history: clock edges on which a key disagreed
                          \* with its debounced value since that last changed

Up == INSTANCE Debouncer WITH button <- keyUp, ticks <- ticksUp, result <- cnt_up
Down == INSTANCE Debouncer WITH button <- keyDown, ticks <- ticksDown, result <- cnt_dwn
Counter == INSTANCE Helderheid WITH button_up <- cnt_up, button_down <- cnt_dwn

keyVars == <<keyUp, keyDown>>
debounceVars == <<ticksUp, ticksDown, cnt_up, cnt_dwn, against>>
vars == <<keyVars, debounceVars, state, count, readdata, reset, resets>>

ASSUME BrightnessAssumption ==
  /\ Up!DebouncerAssumption /\ Counter!HelderheidAssumption
  /\ MaxResets \in Nat

Keys == {"up", "down"}

Init ==
  /\ keyUp = 1 /\ keyDown = 1
  /\ Up!DebouncerInit /\ Down!DebouncerInit
  /\ Counter!HelderheidInit
  /\ readdata = 0
  /\ reset = 0 /\ resets = 0
  /\ against = [k \in Keys |-> 0]

-----------------------------------------------------------------------------
(* The history of one key: result is 1 for a pressed key, which reads 0. *)
Disagrees(key, result) == key = result
NextAgainst(n, key, result, newResult) ==
  IF newResult # result THEN 0
  ELSE IF Disagrees(key, result) /\ n < MaxTicks THEN n + 1 ELSE n

(* The read strobe of the bus is up during some clock edges. *)
Slave(strobe) == readdata' = IF strobe = 1 THEN count ELSE readdata

Clk ==
  /\ reset = 0
  /\ Up!DebouncerEdge /\ Down!DebouncerEdge
  /\ Counter!HelderheidEdge
  /\ \E strobe \in {0, 1} : Slave(strobe)
  /\ against' = [against EXCEPT
                   !["up"] = NextAgainst(@, keyUp, cnt_up, cnt_up'),
                   !["down"] = NextAgainst(@, keyDown, cnt_dwn, cnt_dwn')]
  /\ UNCHANGED <<keyVars, reset, resets>>

(* The contact of a key opens or closes between two edges; it may bounce. *)
KeyMove ==
  /\ \/ keyUp' = 1 - keyUp /\ UNCHANGED keyDown
     \/ keyDown' = 1 - keyDown /\ UNCHANGED keyUp
  /\ UNCHANGED <<debounceVars, state, count, readdata, reset, resets>>

(* The asynchronous reset, which holds all parts until it is released. *)
ResetPress ==
  /\ reset = 0 /\ resets < MaxResets
  /\ reset' = 1 /\ resets' = resets + 1
  /\ Up!DebouncerReset /\ Down!DebouncerReset
  /\ Counter!HelderheidReset
  /\ readdata' = 0
  /\ against' = [k \in Keys |-> 0]
  /\ UNCHANGED keyVars

ResetRelease ==
  /\ reset = 1 /\ reset' = 0
  /\ UNCHANGED <<keyVars, debounceVars, state, count, readdata, resets>>

Next == Clk \/ KeyMove \/ ResetPress \/ ResetRelease

Spec == Init /\ [][Next]_vars

(* The clock never stops, and nobody holds the reset key for ever. *)
FairSpec == Spec /\ WF_vars(Clk) /\ WF_vars(ResetRelease)

-----------------------------------------------------------------------------
(* Every register keeps its type: in particular ticks stays in the range   *)
(* debouncer.vhd declares for it.                                          *)
TypeOK ==
  /\ keyUp \in {0, 1} /\ keyDown \in {0, 1}
  /\ ticksUp \in 0..MaxTicks /\ ticksDown \in 0..MaxTicks
  /\ cnt_up \in {0, 1} /\ cnt_dwn \in {0, 1}
  /\ state \in Counter!HelderheidStates
  /\ count \in 0..Levels-1 /\ readdata \in 0..Levels-1
  /\ reset \in {0, 1} /\ resets \in 0..MaxResets
  /\ against \in [Keys -> 0..MaxTicks]

(* The abstract view: B and D serve a press of "up", C and E one of "down". *)
Abstract == INSTANCE LevelCounter WITH
  TopLevel <- Levels - 1,
  level <- count,
  pressed <- {k \in Keys : (IF k = "up" THEN cnt_up ELSE cnt_dwn) = 1},
  served <- IF state \in {"B", "D"} THEN "up"
            ELSE IF state \in {"C", "E"} THEN "down" ELSE "none",
  reported <- readdata

(* Whatever the keys and the reset do, the level never wraps, a press is   *)
(* worth one step, and the step comes at the release of the key that was   *)
(* served (helderheid.vhd checks the bound two states before it counts).   *)
ImplementsLevelCounter == Abstract!Spec

(* Bounces are ignored: a debounced key changes only when the key was seen *)
(* in its new position on MaxTicks edges, this one included, since the     *)
(* last change (debouncer.vhd counts down as well as up).                  *)
BouncesIgnored ==
  [][reset = 0 /\ reset' = 0 =>
       /\ (cnt_up' # cnt_up => against["up"] >= MaxTicks - 1)
       /\ (cnt_dwn' # cnt_dwn => against["down"] >= MaxTicks - 1)]_vars

(* No press leaves the counter stuck, whatever the presses and bounces     *)
(* before left it in (helderheid.vhd:29-69): after the last release of the *)
(* keys it comes to rest in A, and a key held alone for good is served, so *)
(* that the counter waits for its release or is already at the top.        *)
NoPressSticks ==
  /\ <>[](keyUp = 1 /\ keyDown = 1) => <>[](state = "A" /\ cnt_up = 0 /\ cnt_dwn = 0)
  /\ <>[](keyUp = 0 /\ keyDown = 1) => <>[](state = "D" \/ count = Levels - 1)
=============================================================================
