-------------------------- MODULE BrightnessProofs -------------------------
(***************************************************************************)
(* Theorems about Brightness for every value of its constants.  Inv is the *)
(* inductive invariant: the types, the bound each waiting state relies on, *)
(* and for each debouncer that its integral is bounded by its history.     *)
(***************************************************************************)
EXTENDS Brightness, TLAPS

(* D and E were entered with room to move, and count has not moved since. *)
RoomToMove ==
  /\ state = "D" => count < Levels - 1
  /\ state = "E" => count > 0

(* One key: n edges of disagreement since result last changed. *)
IntegralBounded(ticks, result, n) ==
  /\ result = 0 => ticks <= n /\ ticks < MaxTicks
  /\ result = 1 => MaxTicks - ticks <= n /\ ticks > 0

Inv ==
  /\ TypeOK
  /\ RoomToMove
  /\ IntegralBounded(ticksUp, cnt_up, against["up"])
  /\ IntegralBounded(ticksDown, cnt_dwn, against["down"])

ConstantsOK == MaxTicks \in Nat /\ MaxTicks > 1 /\ Levels \in Nat /\ Levels > 1
                 /\ MaxResets \in Nat

LEMMA Constants == ConstantsOK
BY BrightnessAssumption
DEF ConstantsOK, Up!DebouncerAssumption, Counter!HelderheidAssumption

(* An edge of one debouncer keeps its types and its bound, and a change of *)
(* its result comes on the MaxTicks-th edge of disagreement or later.      *)
LEMMA DebouncerStep ==
  ASSUME NEW key \in {0, 1}, NEW ticks \in 0..MaxTicks, NEW result \in {0, 1},
         NEW n \in 0..MaxTicks, NEW ticks2, NEW result2,
         IntegralBounded(ticks, result, n),
         \/ /\ key = 0 /\ ticks < MaxTicks
            /\ ticks2 = ticks + 1
            /\ result2 = IF ticks + 1 = MaxTicks THEN 1 ELSE result
         \/ /\ key = 1 /\ ticks > 0
            /\ ticks2 = ticks - 1
            /\ result2 = IF ticks - 1 = 0 THEN 0 ELSE result
         \/ /\ ~(key = 0 /\ ticks < MaxTicks)
            /\ ~(key = 1 /\ ticks > 0)
            /\ ticks2 = ticks /\ result2 = result
  PROVE  /\ ticks2 \in 0..MaxTicks /\ result2 \in {0, 1}
         /\ NextAgainst(n, key, result, result2) \in 0..MaxTicks
         /\ IntegralBounded(ticks2, result2, NextAgainst(n, key, result, result2))
         /\ result2 # result => n >= MaxTicks - 1
BY Constants DEF ConstantsOK, IntegralBounded, NextAgainst, Disagrees

LEMMA UpStep ==
  ASSUME Inv, Up!DebouncerEdge
  PROVE  /\ ticksUp' \in 0..MaxTicks /\ cnt_up' \in {0, 1}
         /\ NextAgainst(against["up"], keyUp, cnt_up, cnt_up') \in 0..MaxTicks
         /\ IntegralBounded(ticksUp', cnt_up',
                            NextAgainst(against["up"], keyUp, cnt_up, cnt_up'))
         /\ cnt_up' # cnt_up => against["up"] >= MaxTicks - 1
<1>1. against["up"] \in 0..MaxTicks
  BY DEF Inv, TypeOK, Keys
<1>2. QED
  BY <1>1, DebouncerStep
  DEF Inv, TypeOK, Up!DebouncerEdge, Up!Pressed, Up!Released, Up!AtTheEnd

LEMMA DownStep ==
  ASSUME Inv, Down!DebouncerEdge
  PROVE  /\ ticksDown' \in 0..MaxTicks /\ cnt_dwn' \in {0, 1}
         /\ NextAgainst(against["down"], keyDown, cnt_dwn, cnt_dwn') \in 0..MaxTicks
         /\ IntegralBounded(ticksDown', cnt_dwn',
                            NextAgainst(against["down"], keyDown, cnt_dwn, cnt_dwn'))
         /\ cnt_dwn' # cnt_dwn => against["down"] >= MaxTicks - 1
<1>1. against["down"] \in 0..MaxTicks
  BY DEF Inv, TypeOK, Keys
<1>2. QED
  BY <1>1, DebouncerStep
  DEF Inv, TypeOK, Down!DebouncerEdge, Down!Pressed, Down!Released, Down!AtTheEnd

(* An edge of the counter keeps its types and the room its states rely on. *)
LEMMA CounterStep ==
  ASSUME Inv, Counter!HelderheidEdge
  PROVE  /\ state' \in Counter!HelderheidStates
         /\ count' \in 0..Levels-1
         /\ RoomToMove'
<1> USE Constants DEF ConstantsOK, Inv, TypeOK, RoomToMove, Counter!HelderheidStates
<1>1. CASE Counter!ChooseKey
  BY <1>1 DEF Counter!ChooseKey
<1>2. CASE Counter!CheckMax
  BY <1>2 DEF Counter!CheckMax, Counter!MaxValue
<1>3. CASE Counter!CheckMin
  BY <1>3 DEF Counter!CheckMin
<1>4. CASE Counter!Increase
  <2>1. count < Levels - 1 /\ (count + 1) % Levels = count + 1
    BY <1>4 DEF Counter!Increase
  <2>2. QED
    BY <1>4, <2>1 DEF Counter!Increase
<1>5. CASE Counter!Decrease
  <2>1. count > 0 /\ (count - 1) % Levels = count - 1
    BY <1>5 DEF Counter!Decrease
  <2>2. QED
    BY <1>5, <2>1 DEF Counter!Decrease
<1>6. QED
  BY <1>1, <1>2, <1>3, <1>4, <1>5 DEF Counter!HelderheidEdge

LEMMA InitInv == Init => Inv
BY Constants
DEF ConstantsOK, Init, Inv, TypeOK, RoomToMove, IntegralBounded, Keys, Up!DebouncerInit,
    Down!DebouncerInit, Counter!HelderheidInit, Counter!HelderheidStates

LEMMA NextInv == Inv /\ [Next]_vars => Inv'
<1> SUFFICES ASSUME Inv, [Next]_vars PROVE Inv'
  OBVIOUS
<1>1. CASE Clk
  <2>1. /\ against' \in [Keys -> 0..MaxTicks]
        /\ against'["up"] = NextAgainst(against["up"], keyUp, cnt_up, cnt_up')
        /\ against'["down"] = NextAgainst(against["down"], keyDown, cnt_dwn, cnt_dwn')
    BY <1>1, UpStep, DownStep DEF Clk, Inv, TypeOK, Keys
  <2>2. readdata' \in 0..Levels-1
    BY <1>1 DEF Clk, Slave, Inv, TypeOK
  <2>3. TypeOK'
    BY <1>1, <2>1, <2>2, UpStep, DownStep, CounterStep DEF Clk, Inv, TypeOK, keyVars
  <2>4. QED
    BY <1>1, <2>1, <2>3, UpStep, DownStep, CounterStep DEF Clk, Inv
<1>2. CASE KeyMove
  <2>1. TypeOK'
    BY <1>2 DEF KeyMove, Inv, TypeOK, debounceVars
  <2>2. QED
    BY <1>2, <2>1 DEF KeyMove, Inv, RoomToMove, IntegralBounded, debounceVars
<1>3. CASE ResetPress
  BY <1>3, Constants
  DEF ConstantsOK, ResetPress, Inv, TypeOK, RoomToMove, IntegralBounded, Keys, keyVars,
      Up!DebouncerReset, Down!DebouncerReset, Counter!HelderheidReset,
      Counter!HelderheidStates
<1>4. CASE ResetRelease
  BY <1>4
  DEF ResetRelease, Inv, TypeOK, RoomToMove, IntegralBounded, keyVars, debounceVars
<1>5. CASE UNCHANGED vars
  BY <1>5 DEF vars, Inv, TypeOK, RoomToMove, IntegralBounded, keyVars, debounceVars
<1>6. QED
  BY <1>1, <1>2, <1>3, <1>4, <1>5 DEF Next

(* Inv holds in every reachable state. *)
THEOREM Invariant == Spec => []Inv
BY InitInv, NextInv, PTL DEF Spec

(* Every register keeps its type: no tick counter leaves its range and the *)
(* level never leaves 0..Levels-1.                                         *)
THEOREM TypeCorrect == Spec => []TypeOK
<1>1. Inv => TypeOK
  BY DEF Inv
<1>2. QED
  BY <1>1, Invariant, PTL

-----------------------------------------------------------------------------
(* A bounce shorter than MaxTicks edges never reaches the counter. *)
THEOREM Debounced == Spec => BouncesIgnored
<1> DEFINE Change ==
      reset = 0 /\ reset' = 0 =>
        /\ (cnt_up' # cnt_up => against["up"] >= MaxTicks - 1)
        /\ (cnt_dwn' # cnt_dwn => against["down"] >= MaxTicks - 1)
<1>1. Inv /\ [Next]_vars => [Change]_vars
  <2> SUFFICES ASSUME Inv, Next, reset = 0, reset' = 0
               PROVE  /\ (cnt_up' # cnt_up => against["up"] >= MaxTicks - 1)
                      /\ (cnt_dwn' # cnt_dwn => against["down"] >= MaxTicks - 1)
    BY DEF Change
  <2>1. CASE Clk
    BY <2>1, UpStep, DownStep DEF Clk
  <2>2. CASE KeyMove
    BY <2>2 DEF KeyMove, debounceVars
  <2>3. CASE ResetPress
    BY <2>3 DEF ResetPress
  <2>4. CASE ResetRelease
    BY <2>4 DEF ResetRelease
  <2>5. QED
    BY <2>1, <2>2, <2>3, <2>4 DEF Next
<1>2. QED
  BY <1>1, Invariant, PTL DEF Spec, BouncesIgnored, Change

-----------------------------------------------------------------------------
(* A step of the counter is a step of the abstract level. *)
LEMMA CounterImplements ==
  ASSUME Inv, Counter!HelderheidEdge
  PROVE  \/ \E k \in {"up", "down"} : Abstract!Serve(k) \/ Abstract!Finish(k)
         \/ /\ count' = count
            /\ (IF state \in {"B", "D"} THEN "up"
                ELSE IF state \in {"C", "E"} THEN "down" ELSE "none")'
               = IF state \in {"B", "D"} THEN "up"
                 ELSE IF state \in {"C", "E"} THEN "down" ELSE "none"
<1> USE Constants DEF ConstantsOK, Inv, TypeOK, RoomToMove, Counter!HelderheidStates
<1>1. CASE Counter!ChooseKey
  BY <1>1 DEF Counter!ChooseKey, Abstract!Serve, Keys
<1>2. CASE Counter!CheckMax
  BY <1>2 DEF Counter!CheckMax, Counter!MaxValue, Abstract!Finish, Abstract!Moved
<1>3. CASE Counter!CheckMin
  BY <1>3 DEF Counter!CheckMin, Abstract!Finish, Abstract!Moved
<1>4. CASE Counter!Increase
  <2>1. count < Levels - 1 /\ (count + 1) % Levels = count + 1
    BY <1>4 DEF Counter!Increase
  <2>2. QED
    BY <1>4, <2>1 DEF Counter!Increase, Abstract!Finish, Abstract!Moved, Keys
<1>5. CASE Counter!Decrease
  <2>1. count > 0 /\ (count - 1) % Levels = count - 1
    BY <1>5 DEF Counter!Decrease
  <2>2. QED
    BY <1>5, <2>1 DEF Counter!Decrease, Abstract!Finish, Abstract!Moved, Keys
<1>6. QED
  BY <1>1, <1>2, <1>3, <1>4, <1>5 DEF Counter!HelderheidEdge

LEMMA InitImplements == Init => Abstract!Init
BY DEF Init, Abstract!Init, Up!DebouncerInit, Down!DebouncerInit,
       Counter!HelderheidInit, Keys

LEMMA NextImplements == Inv /\ [Next]_vars => [Abstract!Next]_(Abstract!vars)
<1> SUFFICES ASSUME Inv, [Next]_vars PROVE [Abstract!Next]_(Abstract!vars)
  OBVIOUS
<1>1. CASE Clk
  <2>1. readdata' \in {readdata, count}
    BY <1>1 DEF Clk, Slave
  <2>2. QED
    BY <1>1, <2>1, CounterImplements DEF Clk, Abstract!Next, Abstract!Work, Keys
<1>2. CASE KeyMove
  BY <1>2 DEF KeyMove, debounceVars, Abstract!vars
<1>3. CASE ResetPress
  BY <1>3
  DEF ResetPress, Abstract!Next, Abstract!Reset, Up!DebouncerReset, Down!DebouncerReset,
      Counter!HelderheidReset, Keys
<1>4. CASE ResetRelease
  BY <1>4 DEF ResetRelease, debounceVars, Abstract!vars
<1>5. CASE UNCHANGED vars
  BY <1>5 DEF vars, debounceVars, Abstract!vars
<1>6. QED
  BY <1>1, <1>2, <1>3, <1>4, <1>5 DEF Next

(* The two debouncers, the counter and the bus register together implement *)
(* the level that never wraps and moves once per served press.             *)
THEOREM Implementation == Spec => ImplementsLevelCounter
BY InitImplements, NextImplements, Invariant, PTL
DEF Spec, ImplementsLevelCounter, Abstract!Spec
=============================================================================
