--------------------------- MODULE LedPipelineInv ---------------------------
(***************************************************************************)
(* The inductive invariant of LedPipeline: what the driver's and the       *)
(* fetcher's state, which never acknowledge each other, owe to the time    *)
(* that has passed.                                                        *)
(***************************************************************************)
EXTENDS LedPipeline

LastBit == Driver!LastBit
WordAddress(k) == Dma!WordAddress(k)

(* Edges of clk since the last edge of ledclk. *)
ClkSinceLed ==
  IF phase \in {1, 4} THEN 0 ELSE IF phase \in {2, 5} THEN 1 ELSE 2

(* Edges of ledclk since the pixel now being fetched was asked for; in RET *)
(* since RET was entered.                                                  *)
LedSinceRequest ==
  IF ledState = "RET" THEN ticks
  ELSE IF bitindex = 0 THEN 26 * LastBit + ticks
  ELSE 26 * (bitindex - 1) + ticks

(* A lower bound of the edges of clk since then, and since the bit began. *)
Elapsed == 2 * LedSinceRequest + ClkSinceLed
ElapsedInBit == 2 * ticks + ClkSinceLed

-----------------------------------------------------------------------------
TimersOK ==
  /\ ledState = "RET" => ticks < ReturnTicks /\ bitindex = 0 /\ pixelindex = 0
  /\ ledState = "B1" => ticks < 15
  /\ ledState = "B0" => ticks < 7
  /\ ledState = "BL" => ticks < 26
  /\ reset = 1 => ledState = "RET" /\ ticks = 0

SignalsOK ==
  /\ ledState # "RET" => ledreturn = 0 /\ (getnext = 1 <=> bitindex > 0)
  /\ (ledState = "RET" /\ ticks > 0) => ledreturn = 1
  /\ (ledState = "RET" /\ getnext = 1) => ticks > 0 \/ resets > 0
  /\ dmaState \in {"idle", "setmaster"} => read = 0
  /\ dmaState = "reading" => read = 1
  /\ dmaState \in {"setmaster", "reading"} => getnext = 1

(* How far the fetcher must have come by now. *)
ProgressOK ==
  /\ (dmaState = "idle" /\ getnext = 1 /\ ledreturn = 0)
       => Elapsed <= 2 /\ readAccepted = 0
  /\ dmaState = "setmaster" => Elapsed <= 3 /\ readAccepted = 0
  /\ dmaState = "reading" => Elapsed <= 4 + waited
  /\ (dmaState = "finishread" /\ read = 1)
       => Elapsed <= 5 + MaxWait /\ readAccepted = 0
  /\ (read = 0 /\ readAccepted = 1) => Elapsed <= 6 + MaxWait + waited
  /\ (dmaState = "finishread" /\ getnext = 0)
       => bitindex = 0 /\ ElapsedInBit <= 2

(* Where the fetcher stands: at the word of the pixel, or after a reset    *)
(* that caught it in mid-read at the one behind it.                        *)
Position(a, k) == a = WordAddress(k) \/ (resets > 0 /\ a = WordAddress(k + 1))

AddressOK ==
  /\ atAddress >= BaseAddress
  /\ (ledState # "RET" /\ (bitindex > 0 \/ dmaState = "idle"))
       => Position(atAddress, pixelindex)
  /\ (ledState # "RET" /\ bitindex = 0 /\ dmaState = "finishread")
       => Position(atAddress, pixelindex - 1)
  /\ (ledState = "RET" /\ atAddress # BaseAddress)
       => ElapsedInBit <= 3 /\ getnext = 0
  /\ (ledState = "RET" /\ resets = 0)
       => dmaState = "idle" \/ (dmaState = "finishread" /\ getnext = 0)

BusOK ==
  /\ readAccepted = 1 => cmdAddress \in BufferAddresses
  /\ (read = 1 \/ dmaState = "setmaster") => address \in BufferAddresses
  /\ ((read = 1 \/ dmaState = "setmaster") /\ resets = 0)
       => address = atAddress /\ bitindex > 0
  /\ (dmaState = "reading" /\ readAccepted = 1 /\ resets = 0)
       => cmdAddress = atAddress

ControlInv ==
  ControlTypeOK /\ TimersOK /\ SignalsOK /\ ProgressOK /\ AddressOK /\ BusOK

PipelineInv == ControlInv /\ PixelTypeOK /\ StripTypeOK

-----------------------------------------------------------------------------
(* The strip against the driver, when nobody resets.                       *)

(* The length of the pulse that sends the bit at hand. *)
PulseTicks == Driver!HighTicks(Driver!StateOfBit(Driver!SentBit(regs, bitindex)))

(* The strip has seen the pulse fall. *)
PulseSeen == ticks > PulseTicks + 1

LineOK ==
  ledState # "RET" =>
    /\ ledState = IF ticks < PulseTicks
                    THEN Driver!StateOfBit(Driver!SentBit(regs, bitindex)) ELSE "BL"
    /\ ledout = IF ticks \in 1..PulseTicks THEN 1 ELSE 0
    /\ high = IF ticks = 0 \/ PulseSeen THEN 0
              ELSE IF ticks > Strip!OneTicks THEN Strip!OneTicks ELSE ticks - 1
    /\ ticks = 0 => low <= 18 \/ low = LatchTicks
    /\ PulseSeen => low = ticks - PulseTicks - 1

(* The bits of the pixel that is sent, and the pixels before it. *)
BitsOK ==
  ledState # "RET" =>
    /\ \A i \in 1..Len(bits) : bits[i] = Driver!SentBit(regs, i - 1)
    /\ IF PulseSeen /\ bitindex = LastBit
         THEN bits = <<>> /\ Len(chain) = pixelindex + 1
         ELSE /\ Len(bits) = IF PulseSeen THEN bitindex + 1 ELSE bitindex
              /\ Len(chain) = pixelindex

(* In RET the strip holds a whole frame until it latches it.  By then the  *)
(* fetcher stands at the first word.                                       *)
ReturnOK ==
  ledState = "RET" =>
    /\ ledout = 0 /\ high = 0 /\ bits = <<>>
    /\ low >= ticks \/ low = LatchTicks
    /\ \/ chain = <<>> /\ atAddress = BaseAddress /\ dmaState = "idle"
       \/ Len(chain) = NumPixels /\ low <= 18 + ticks /\ low < LatchTicks

PulseInv == reset = 0 /\ LineOK /\ BitsOK /\ ReturnOK
=============================================================================
