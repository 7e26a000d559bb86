---------------------------- MODULE LedPipeline ----------------------------
(***************************************************************************)
(* The LED pipeline of src/Qsys/WS2812B_DMA.vhd: the LED driver and the    *)
(* pixel fetcher wired together, with the bus and the SDRAM the fetcher    *)
(* reads, the CPU that writes the LED buffer, and the strip.               *)
(*                                                                         *)
(* Both clocks come from one PLL without phase shift (nios2.qsys): clk at  *)
(* 50 MHz, ledclk at 50 MHz * 2/5.  Every 100 ns clk rises at 0, 20, 40,   *)
(* 60 and 80 ns and ledclk at 0 and 50 ns.  phase is the next of these six *)
(* instants; on the first both processes read the signals as they were.    *)
(***************************************************************************)
EXTENDS Integers, Sequences

CONSTANTS
  NumPixels, ReturnTicks, ColourBits, BaseAddress, MaxWait, LatchTicks,
  Words,        \* the pixels the CPU writes
  MaxWrites,    \* bound: writes of the CPU
  MaxResets     \* bound: presses of the reset key after power-up

VARIABLES
  phase,        \* the next instant of the two clocks
  reset,        \* the reset key is held
  ledState, bitindex, pixelindex, ticks, regs,
  getnext, ledreturn, ledout, rgb,
  dmaState, atAddress, address, read,
  readAccepted, cmdAddress, waited, mem,
  high, low, bits, chain, shown,
  writes, resets

Driver == INSTANCE LedDriver
Dma == INSTANCE RgbDma
Bus == INSTANCE AvalonRead
Strip == INSTANCE Ws2812Strip
           WITH StripLength <- NumPixels, StripBits <- ColourBits

driverVars == <<ledState, bitindex, pixelindex, ticks, regs,
                getnext, ledreturn, ledout>>
dmaVars == <<dmaState, atAddress, address, read, rgb>>
busVars == <<readAccepted, cmdAddress, waited>>
stripVars == <<high, low, bits, chain, shown>>
envVars == <<mem, writes, resets>>
vars == <<phase, reset, driverVars, dmaVars, busVars, stripVars, envVars>>

BufferAddresses == Dma!BufferAddresses

(* The memory is fast enough: at least two edges of clk fall into a tick   *)
(* of ledclk, and the fetcher may read a word twice (AnswerIsForAddress),  *)
(* so half of these edges in a pixel, or in RET, have to do for one read.  *)
ASSUME PipelineAssumption ==
  /\ Driver!LedDriverAssumption /\ Dma!RgbDmaAssumption
  /\ Bus!AvalonReadAssumption /\ Strip!StripAssumption
  /\ MaxWait + 4 <= 26 * 3*ColourBits
  /\ MaxWait + 4 <= ReturnTicks
  /\ LatchTicks < ReturnTicks - 1
  /\ Words # {} /\ Words \subseteq Driver!Pixel
  /\ MaxWrites \in Nat /\ MaxResets \in Nat

Init ==
  /\ phase = 0 /\ reset = 0
  /\ Driver!DriverInit
  /\ Dma!DmaInit(Driver!Black)
  /\ Bus!BusInit
  /\ Strip!StripInit(Driver!Black)
  /\ mem \in [BufferAddresses -> Words]
  /\ writes = 0 /\ resets = 0

-----------------------------------------------------------------------------
(* While reset is high both processes leave their clocked branch alone.    *)
LedClk ==
  /\ IF reset = 1 THEN UNCHANGED driverVars ELSE Driver!DriverEdge
  /\ Strip!StripEdge

Clk ==
  IF reset = 1
    THEN UNCHANGED <<dmaVars, busVars>>
    ELSE \E stall, valid \in {0, 1} :
           /\ Bus!BusEdge(stall, valid)
           /\ Dma!DmaEdge(Bus!WaitRequest(stall, valid), mem[cmdAddress])

ClkOnly ==
  /\ phase \in {1, 2, 4, 5}
  /\ Clk
  /\ UNCHANGED <<driverVars, stripVars>>

LedClkOnly ==
  /\ phase = 3
  /\ LedClk
  /\ UNCHANGED <<dmaVars, busVars>>

BothClks ==
  /\ phase = 0
  /\ LedClk
  /\ Clk

Tick ==
  /\ ClkOnly \/ LedClkOnly \/ BothClks
  /\ phase' = (phase + 1) % 6
  /\ UNCHANGED <<reset, envVars>>

(* A store of setLed (mblight.c) to a word of the LED buffer. *)
CpuWrite ==
  /\ writes < MaxWrites
  /\ \E a \in BufferAddresses, w \in Words : mem' = [mem EXCEPT ![a] = w]
  /\ writes' = writes + 1
  /\ UNCHANGED <<phase, reset, driverVars, dmaVars, busVars, stripVars, resets>>

(* The reset key is asynchronous: it acts between any two edges. *)
ResetPress ==
  /\ reset = 0
  /\ resets < MaxResets
  /\ reset' = 1
  /\ resets' = resets + 1
  /\ Driver!DriverReset
  /\ Dma!DmaReset
  /\ Bus!BusReset
  /\ UNCHANGED <<phase, stripVars, mem, writes>>

ResetRelease ==
  /\ reset = 1
  /\ reset' = 0
  /\ UNCHANGED <<phase, driverVars, dmaVars, busVars, stripVars, envVars>>

Next == Tick \/ CpuWrite \/ ResetPress \/ ResetRelease

Spec == Init /\ [][Next]_vars

(* The clocks never stop, and nobody holds the reset key for ever. *)
FairSpec == Spec /\ WF_vars(Tick) /\ WF_vars(ResetRelease)

-----------------------------------------------------------------------------
(* The types of the driver's and the fetcher's registers, of what carries  *)
(* pixels, and of the strip.                                               *)
ControlTypeOK ==
  /\ phase \in 0..5 /\ reset \in {0, 1}
  /\ ledState \in Driver!LedStates
  /\ bitindex \in 0..Driver!LastBit
  /\ pixelindex \in 0..NumPixels-1
  /\ ticks \in 0..ReturnTicks + Driver!BitTicks
  /\ getnext \in {0, 1} /\ ledreturn \in {0, 1} /\ ledout \in {0, 1}
  /\ dmaState \in Dma!DmaStates
  /\ atAddress \in Int /\ address \in Int /\ read \in {0, 1}
  /\ readAccepted \in {0, 1} /\ cmdAddress \in Int /\ waited \in 0..MaxWait
  /\ writes \in 0..MaxWrites /\ resets \in 0..MaxResets

PixelTypeOK ==
  /\ regs \in Driver!Pixel /\ rgb \in Driver!Pixel
  /\ mem \in [BufferAddresses -> Words]

StripTypeOK ==
  /\ high \in 0..Strip!OneTicks /\ low \in 0..LatchTicks
  /\ bits \in Seq(Driver!Bit) /\ Len(bits) < 3 * ColourBits
  /\ chain \in Seq(Driver!Pixel) /\ Len(chain) <= NumPixels
  /\ shown \in [0..NumPixels-1 -> Driver!Pixel]

(* Every variable keeps its type; the counters of ledDriver.vhd (bitindex, *)
(* pixelindex, ticks) stay in their ranges.                                *)
TypeOK == ControlTypeOK /\ PixelTypeOK /\ StripTypeOK

(* A read goes to a word of the strip; only a reset while a pixel was      *)
(* being fetched makes a frame read the word behind them, and none further *)
(* (ledDriver.vhd resets its state but not getnext, and RGBDMA.vhd resets  *)
(* atAdress but not its state).                                            *)
ReadInBuffer ==
  read = 1 => \E k \in 0..NumPixels :
                /\ address = Dma!WordAddress(k)
                /\ resets = 0 => k < NumPixels

(* The driver never latches a pixel whose fetch is still running, whatever *)
(* the memory does within MaxWait: the handshake has no acknowledge.       *)
FetchedInTime ==
  (/\ ledState = "BL"
   /\ bitindex = Driver!LastBit /\ ticks + 1 = Driver!BitTicks)
    => dmaState = "finishread"

(* The fetcher accepts the answer to the address it shows, though read     *)
(* stays high for one edge too many and the bus may be given each command  *)
(* twice (RGBDMA.vhd drops read in finishread, not in reading).            *)
AnswerIsForAddress ==
  [][(dmaState = "reading" /\ dmaState' = "finishread" /\ resets = 0)
       => (cmdAddress = atAddress /\ address = atAddress)]_vars

(* An Avalon master holds its address while read is high; a reset moves it *)
(* while the fetcher stays in reading.                                     *)
AddressHeld ==
  [][(read = 1 /\ read' = 1 /\ resets = 0) => address' = address]_vars

(* The abstract view: the words sent are those the strip decoded and the   *)
(* one on its way; a word counts as fetched when the fetcher holds it.     *)
Abstract == INSTANCE FrameSender WITH
  Black <- Driver!Black,
  buffer <- [k \in 0..NumPixels-1 |-> mem[Dma!WordAddress(k)]],
  cursor <- IF ledState = "RET" /\ Len(chain) = NumPixels
              THEN NumPixels
              ELSE (atAddress - BaseAddress) \div Dma!WordBytes
                     + (IF dmaState = "finishread" THEN 1 ELSE 0),
  held <- rgb,
  sent <- IF ledState # "RET" /\ Len(chain) = pixelindex
            THEN Append(chain, regs) ELSE chain,
  shown <- shown

(* Without a reset the pipeline, down to the pulses on the data line,      *)
(* implements FrameSender.                                                 *)
ImplementsFrameSender == Abstract!Spec

(* Once the CPU stops writing and nobody resets, the strip shows the whole *)
(* buffer for good, one LED further on, from whatever state it was in.     *)
Settled ==
  \A k \in 0..NumPixels-1 :
    shown[k] = mem[Dma!WordAddress(IF k = 0 THEN NumPixels-1 ELSE k-1)]
Settles == <>[]Settled

(* ledDriver.vhd:65 raises getnext near the end of RET to "get pixel       *)
(* information from dma controller", and :67 speaks of new data: by the    *)
(* end of RET the fetcher has left idle for the first pixel.               *)
PrefetchAnswered ==
  (ledState = "RET" /\ ticks = ReturnTicks - 1 /\ reset = 0)
    => dmaState # "idle"
=============================================================================
