----------------------------- MODULE LedDriver -----------------------------
(***************************************************************************)
(* The WS2812B bit serialiser, src/Qsys/ledDriver.vhd: one process clocked *)
(* by ledclk (20 MHz).  It waits in RET for the low period that makes the  *)
(* strip latch its colours, then sends NumPixels pixels of 3 * ColourBits  *)
(* bits (green, red, blue, most significant bit first), each bit a high    *)
(* pulse followed by a low rest of BitTicks ticks in all.                  *)
(*                                                                         *)
(* current_s is overwritten by next_s on every edge before it is read, so  *)
(* the two are one register, here ledState.                                *)
(***************************************************************************)
EXTENDS Integers

CONSTANTS
  NumPixels,    \* generic numberOfPixels (96 on the board)
  ReturnTicks,  \* generic returnticks (120000 on the board)
  ColourBits    \* width of one colour vector (8 on the board)

LedDriverAssumption ==
  /\ NumPixels \in Nat \ {0}
  /\ ReturnTicks \in Nat /\ ReturnTicks > 21
  /\ ColourBits \in Nat \ {0}

VARIABLES
  ledState,     \* current_s / next_s
  bitindex, pixelindex, ticks,
  regs,         \* redreg, greenreg, bluereg
  getnext, ledreturn, ledout,   \* output signals
  rgb           \* input ports red, green, blue

driverVars == <<ledState, bitindex, pixelindex, ticks, regs,
                getnext, ledreturn, ledout>>

Bit == {0, 1}
Vector == [0..ColourBits-1 -> Bit]
Pixel == [red : Vector, green : Vector, blue : Vector]
Black == [c \in {"red", "green", "blue"} |-> [i \in 0..ColourBits-1 |-> 0]]

LedStates == {"RET", "B1", "B0", "BL"}

BitTicks == 26          \* ticks of a whole bit
PrefetchLead == 20      \* RET asks for a pixel this many ticks before its end
LastBit == 3 * ColourBits - 1

(* Ticks the output stays high for a bit that is sent from state s. *)
HighTicks(s) == IF s = "B1" THEN 15 ELSE 7

-----------------------------------------------------------------------------
(* Mutant: red before green, the order of other LED chips. *)
SentBitRedFirst(p, i) ==
  IF i < ColourBits THEN p.red[ColourBits-1-i]
  ELSE IF i < 2*ColourBits THEN p.green[ColourBits-1-(i-ColourBits)]
  ELSE p.blue[ColourBits-1-(i-2*ColourBits)]

(* Bit i of pixel p in the order of transmission. *)
SentBit(p, i) ==
  IF i < ColourBits THEN p.green[ColourBits-1-i]
  ELSE IF i < 2*ColourBits THEN p.red[ColourBits-1-(i-ColourBits)]
  ELSE p.blue[ColourBits-1-(i-2*ColourBits)]

StateOfBit(b) == IF b = 1 THEN "B1" ELSE "B0"

(* The registers take the input ports and the first bit is prepared. *)
LatchPixel == regs' = rgb

DriverInit ==
  /\ ledState = "RET"
  /\ bitindex = 0 /\ pixelindex = 0 /\ ticks = 0
  /\ regs = Black
  /\ getnext = 0 /\ ledreturn = 0 /\ ledout = 0

(* The asynchronous reset clears the variables, none of the signals. *)
DriverReset ==
  /\ ledState' = "RET"
  /\ bitindex' = 0 /\ pixelindex' = 0 /\ ticks' = 0
  /\ UNCHANGED <<regs, getnext, ledreturn, ledout>>

-----------------------------------------------------------------------------
(* RET before its last tick: the line is low, ledreturn sends the address  *)
(* back, and getnext is raised PrefetchLead ticks before the end.          *)
ReturnWait ==
  /\ ledState = "RET"
  /\ ticks + 1 # ReturnTicks
  /\ ticks' = ticks + 1
  /\ ledout' = 0 /\ ledreturn' = 1
  /\ getnext' = IF ticks + 1 = ReturnTicks - PrefetchLead THEN 1 ELSE getnext
  /\ UNCHANGED <<ledState, bitindex, pixelindex, regs>>

(* The last tick of RET: the first pixel of the frame is latched. *)
FrameStart ==
  /\ ledState = "RET"
  /\ ticks + 1 = ReturnTicks
  /\ bitindex' = 0 /\ pixelindex' = 0 /\ ticks' = 0
  /\ ledout' = 0 /\ ledreturn' = 0 /\ getnext' = 0
  /\ LatchPixel
  /\ ledState' = StateOfBit(SentBit(rgb, 0))

HighPulse ==
  /\ ledState \in {"B1", "B0"}
  /\ ledout' = 1
  /\ ticks' = ticks + 1
  /\ ledState' = IF ticks + 1 = HighTicks(ledState) THEN "BL" ELSE ledState
  /\ UNCHANGED <<bitindex, pixelindex, regs, getnext, ledreturn>>

LowRest ==
  /\ ledState = "BL"
  /\ ticks + 1 # BitTicks
  /\ ledout' = 0
  /\ ticks' = ticks + 1
  /\ UNCHANGED <<ledState, bitindex, pixelindex, regs, getnext, ledreturn>>

(* Mutant: the pixel is requested only with its last bit. *)
NextBitLateRequest ==
  /\ ledState = "BL"
  /\ ticks + 1 = BitTicks
  /\ bitindex # LastBit
  /\ ledout' = 0 /\ ticks' = 0
  /\ getnext' = IF bitindex + 1 = LastBit THEN 1 ELSE 0
  /\ bitindex' = bitindex + 1
  /\ ledState' = StateOfBit(SentBit(regs, bitindex + 1))
  /\ UNCHANGED <<pixelindex, regs, ledreturn>>

(* The last tick of a bit that is not the last of its pixel. *)
NextBit ==
  /\ ledState = "BL"
  /\ ticks + 1 = BitTicks
  /\ bitindex # LastBit
  /\ ledout' = 0 /\ ticks' = 0 /\ getnext' = 1
  /\ bitindex' = bitindex + 1
  /\ ledState' = StateOfBit(SentBit(regs, bitindex + 1))
  /\ UNCHANGED <<pixelindex, regs, ledreturn>>

(* Mutant: the pixel index is not cleared at the end of the frame. *)
NextPixelNoClear ==
  /\ ledState = "BL"
  /\ ticks + 1 = BitTicks
  /\ bitindex = LastBit
  /\ ledout' = 0 /\ ticks' = 0 /\ getnext' = 0
  /\ bitindex' = 0
  /\ LatchPixel
  /\ pixelindex' = pixelindex + 1
  /\ ledState' = IF pixelindex = NumPixels - 1
                   THEN "RET" ELSE StateOfBit(SentBit(rgb, 0))
  /\ UNCHANGED ledreturn

(* The last tick of a pixel: the next one is latched, or the frame ends. *)
NextPixel ==
  /\ ledState = "BL"
  /\ ticks + 1 = BitTicks
  /\ bitindex = LastBit
  /\ ledout' = 0 /\ ticks' = 0 /\ getnext' = 0
  /\ bitindex' = 0
  /\ LatchPixel
  /\ IF pixelindex = NumPixels - 1
       THEN pixelindex' = 0 /\ ledState' = "RET"
       ELSE /\ pixelindex' = pixelindex + 1
            /\ ledState' = StateOfBit(SentBit(rgb, 0))
  /\ UNCHANGED ledreturn

(* A rising edge of ledclk. *)
DriverEdge ==
  ReturnWait \/ FrameStart \/ HighPulse \/ LowRest \/ NextBit \/ NextPixel
=============================================================================
