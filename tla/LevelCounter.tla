---------------------------- MODULE LevelCounter ---------------------------
(***************************************************************************)
(* What the brightness peripheral promises: a level between 0 and TopLevel *)
(* that one press of a key moves by at most one, at the release of that    *)
(* key, and that the CPU reads.  Only one press is served at a time.       *)
(***************************************************************************)
EXTENDS Integers

CONSTANT TopLevel

VARIABLES
  level,
  pressed,    \* the keys that are (debounced) down, a subset of {"up", "down"}
  served,     \* the press being served: "up", "down" or "none"
  reported    \* what the CPU last read

vars == <<level, pressed, served, reported>>

Init == level = 0 /\ pressed = {} /\ served = "none" /\ reported = 0

(* The level after a press of key k: it stops at both ends. *)
Moved(k) == IF k = "up" THEN (IF level < TopLevel THEN level + 1 ELSE level)
                        ELSE (IF level > 0 THEN level - 1 ELSE level)

Serve(k) == k \in pressed /\ served = "none" /\ served' = k /\ UNCHANGED level

Finish(k) ==
  /\ served = k /\ served' = "none"
  /\ \/ k \notin pressed /\ level' = Moved(k)
     \/ Moved(k) = level /\ UNCHANGED level

(* In one step of the clock the keys may change, a press may be taken up   *)
(* or finished, and the CPU may read the level as it was.                  *)
Work ==
  /\ pressed' \subseteq {"up", "down"}
  /\ \/ \E k \in {"up", "down"} : Serve(k) \/ Finish(k)
     \/ UNCHANGED <<level, served>>
  /\ reported' \in {reported, level}

Reset == level' = 0 /\ pressed' = {} /\ served' = "none" /\ reported' = 0

Next == Work \/ Reset

Spec == Init /\ [][Next]_vars
=============================================================================
