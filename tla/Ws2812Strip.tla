---------------------------- MODULE Ws2812Strip ----------------------------
(***************************************************************************)
(* The LED strip (external): a chain of WS2812B LEDs that decodes the data *)
(* line by the length of its pulses.  The source holds none of its code;   *)
(* it is modelled from the pulses that ledDriver.vhd sends it and from the *)
(* low period WS2812B_DMA.vhd's generic returnticks provides.              *)
(*                                                                         *)
(* A pulse of at least OneTicks ticks of ledclk is a 1.  The first pixel   *)
(* of a frame stays in the first LED, the second goes to the second...,    *)
(* and a low period of LatchTicks makes every LED show what it received.   *)
(***************************************************************************)
EXTENDS Integers, Sequences

CONSTANTS
  StripLength,  \* LEDs on the strip
  StripBits,    \* bits of one colour
  LatchTicks    \* low ticks that latch the strip (50 us: 1000)

StripAssumption ==
  /\ StripLength \in Nat \ {0} /\ StripBits \in Nat \ {0}
  /\ LatchTicks \in Nat /\ LatchTicks > 19

VARIABLES
  high, low,    \* length of the running high pulse and of the last low one
  bits,         \* bits of the pixel being received
  chain,        \* pixels received since the last latch
  shown,        \* what the LEDs show: 0..StripLength-1 -> pixel
  ledout        \* the data line, driven by the LED driver

stripVars == <<high, low, bits, chain, shown>>

OneTicks == 11

(* A received pixel: green first, most significant bit first. *)
Received(s) ==
  LET Colour(k) == [i \in 0..StripBits-1 |-> s[(k+1)*StripBits - i]]
  IN  [green |-> Colour(0), red |-> Colour(1), blue |-> Colour(2)]

StripInit(black) ==
  /\ high = 0 /\ low = 0
  /\ bits = <<>> /\ chain = <<>>
  /\ shown = [k \in 0..StripLength-1 |-> black]

LineHigh ==
  /\ ledout = 1
  /\ high' = IF high < OneTicks THEN high + 1 ELSE high
  /\ low' = 0
  /\ UNCHANGED <<bits, chain, shown>>

(* The falling edge ends a bit; the last bit of a pixel completes it. *)
LineFalls ==
  /\ ledout = 0 /\ high > 0
  /\ high' = 0 /\ low' = 1
  /\ LET all == Append(bits, IF high >= OneTicks THEN 1 ELSE 0)
     IN  IF Len(all) = 3 * StripBits
           THEN /\ bits' = <<>>
                /\ chain' = IF Len(chain) < StripLength
                              THEN Append(chain, Received(all)) ELSE chain
           ELSE bits' = all /\ UNCHANGED chain
  /\ UNCHANGED shown

LineLow ==
  /\ ledout = 0 /\ high = 0
  /\ UNCHANGED high
  /\ low' = IF low < LatchTicks THEN low + 1 ELSE low
  /\ IF low + 1 = LatchTicks
       THEN /\ bits' = <<>> /\ chain' = <<>>
            /\ shown' = [k \in 0..StripLength-1 |->
                           IF k < Len(chain) THEN chain[k+1] ELSE shown[k]]
       ELSE UNCHANGED <<bits, chain, shown>>

(* The line as it was during the tick that an edge of ledclk ends. *)
StripEdge == LineHigh \/ LineFalls \/ LineLow
=============================================================================
